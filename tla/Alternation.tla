---------------------------- MODULE Alternation ----------------------------
(***************************************************************************)
(* What two parties that take strict turns promise: Leader serves its      *)
(* first item, then Follower its first, then Leader its second, ...,       *)
(* until both have served Rounds items.  Neither ever gets two items ahead *)
(* and Follower never gets ahead at all.                                   *)
(*                                                                         *)
(* The ping-pong samples (the semaphore one, the FIFO one) are shown to    *)
(* implement this specification.                                           *)
(***************************************************************************)
EXTENDS Naturals

CONSTANTS
  Leader,    \* the party that serves first
  Follower,  \* the party that answers
  Rounds     \* how many items each of them serves

VARIABLE served  \* served[p] : how many items party p has served

Serve(p) == served' = [served EXCEPT ![p] = @ + 1]

LeaderTurn ==
  /\ served[Leader] = served[Follower]
  /\ served[Leader] < Rounds
  /\ Serve(Leader)

FollowerTurn ==
  /\ served[Follower] < served[Leader]
  /\ Serve(Follower)

Init == served = [p \in {Leader, Follower} |-> 0]

Next == LeaderTurn \/ FollowerTurn

SafeSpec == Init /\ [][Next]_served

Spec == SafeSpec /\ WF_served(Next)
=============================================================================
