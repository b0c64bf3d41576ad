----------------------------- MODULE MCServers -----------------------------
(***************************************************************************)
(* Programs that are started separately and meet at a port or a name: one  *)
(* pair per execution.  The names of FileTransfer are used as they are; F  *)
(* is ForkServer, P is FifoPair.                                           *)
(***************************************************************************)
EXTENDS FileTransfer, TLC

CONSTANTS
  Callers,    \* the clients of ForkServer
  MaxFd, Garbage, ChildLimit

VARIABLES
  connectFd, fSrv, files, fBacklog, slots, slot, born, child, greeted, fAt,
  fifoName, w, r, wOn, rOn, text, printed, late, fifoKillable,
  pair  \* who meets

fVars ==
  <<connectFd, fSrv, files, fBacklog, slots, slot, born, child, greeted, fAt>>

pVars == <<fifoName, w, r, wOn, rOn, text, printed, late, fifoKillable>>

F == INSTANCE ForkServer
       WITH Clients <- Callers, srv <- fSrv, backlog <- fBacklog, at <- fAt

P == INSTANCE FifoPair WITH name <- fifoName, killable <- fifoKillable

ASSUME CallersAssumption == F!ForkAssumption

\* One name is the beginning of another: "ab" cut short is "a".  "x" is no file.
MCFile == "a" :> <<"a1">> @@ "ab" :> <<"b1", "b2", "b3">>

MCUnits == {"a1", "b1", "b2", "b3"}

MCNames == {"a", "ab", "x"}

MCCuts == "a" :> {"a"} @@ "ab" :> {"a", "ab"} @@ "x" :> {"x"}

\* What connect_fd may hold: the standard input, the listening socket, each of
\* the descriptors accept may return, and no descriptor.
MCGarbage == {0} \cup 3 .. MaxFd \cup {MaxFd + 1}

\* The systems that do not run stay in one of their initial states.
MCInit ==
  /\ Init /\ F!Init /\ P!Init
  /\ pair \in {"transfer", "fork", "fifo"}
  /\ pair # "transfer" => killable = "nobody"
  /\ pair # "fork" => connectFd = 0
  /\ pair # "fifo" => fifoName = 0 /\ fifoKillable = "nobody"

Transfers(A) == pair = "transfer" /\ A /\ UNCHANGED <<fVars, pVars, pair>>
Forks(A) == pair = "fork" /\ A /\ UNCHANGED <<vars, pVars, pair>>
Meets(A) == pair = "fifo" /\ A /\ UNCHANGED <<vars, fVars, pair>>

MCNext == Transfers(Next) \/ Forks(F!Next) \/ Meets(P!Next)

allVars == <<vars, fVars, pVars, pair>>

\* The fairness of each system while it is the one that runs.
MCFairness ==
  /\ WF_allVars(Transfers(Server))
  /\ \A c \in Clients : WF_allVars(Transfers(Client(c)))
  /\ WF_allVars(Forks(F!Server))
  /\ \A c \in Callers : WF_allVars(Forks(F!Child(c))) /\ WF_allVars(Forks(F!Client(c)))
  /\ WF_allVars(Meets(P!Writer))
  /\ WF_allVars(Meets(P!Reader))

MCSpec == MCInit /\ [][MCNext]_allVars /\ MCFairness

FewLost == F!TypeOK /\ F!FewLost

TransferServes == pair = "transfer" => EverybodyServed

RightServed == pair = "fork" => F!RightServed

LateReaderServed == pair = "fifo" => P!LateReaderServed
=============================================================================
