---------------------------- MODULE SemPingPong ----------------------------
(***************************************************************************)
(* Samples_Multi_thread/test_thread_sem2.cpp: thread "pc" prints letters   *)
(* and thread "pi" prints digits, N items each.  The semaphore s1 looks    *)
(* like a lock, but a thread whose turn it is not keeps posting s1 from    *)
(* its inner loop, so s1 climbs past 1 and both threads get past sem_wait. *)
(* What orders the two bodies is the plain variable cnt: a thread spins    *)
(* while cnt holds its own value and writes that value when it is done.    *)
(*                                                                         *)
(* cnt is an unprotected int.  Every read of it stands between two calls   *)
(* of the semaphore library, which the compiler cannot look into, so a     *)
(* read is a single load of the current value.  sleep() orders nothing     *)
(* and is left out.                                                        *)
(***************************************************************************)
EXTENDS Integers, FiniteSets

CONSTANTS
  N,       \* items per thread (9 in the source)
  SemMax   \* SEM_VALUE_MAX, the value at which sem_post fails with EOVERFLOW

ASSUME ConstantsAssumption == N \in Nat \ {0} /\ SemMax \in Nat \ {0}

VARIABLES
  s1,   \* the value of the semaphore s1
  cnt,  \* the shared turn variable
  at,   \* where each thread, and main, stands
  i     \* the local index i of each thread: the number of items it printed

vars == <<s1, cnt, at, i>>

Threads == {"pc", "pi"}

\* The value of cnt on which t spins, which is also the one t leaves behind.
Own(t) == IF t = "pc" THEN 0 ELSE 1

MainSteps == {"create_pc", "create_pi", "join_pc", "join_pi", "destroy", "done"}

ThreadSteps ==
  {"unborn", "wait", "test", "spin", "body", "set", "post", "done"}

Init ==
  /\ s1 = 1
  /\ cnt = 0
  /\ at = [t \in Threads \cup {"main"} |->
             IF t = "main" THEN "create_pc" ELSE "unborn"]
  /\ i = [t \in Threads |-> 0]

Go(t, from, to) == at[t] = from /\ at' = [at EXCEPT ![t] = to]

\* sem_post of the C library; a post at SEM_VALUE_MAX fails and is ignored.
SemPost == s1' = IF s1 < SemMax THEN s1 + 1 ELSE s1
-----------------------------------------------------------------------------
(* Plausible bugs.  Nothing below refers to these forms: each one, put in   *)
(* the place of the action it is named after, breaks a property.            *)

\* "if" in the place of "while": one post, then straight into the body.
SpinPostOnce(t) ==
  /\ Go(t, "spin", "body")
  /\ SemPost
  /\ UNCHANGED <<cnt, i>>

\* The sem_post at the end of the loop forgotten.
LastPostMissing(t) ==
  /\ Go(t, "post", IF i[t] < N THEN "wait" ELSE "done")
  /\ UNCHANGED <<s1, cnt, i>>

\* main joins without waiting for the thread.
JoinAtOnce(t, here, next) ==
  /\ Go("main", here, next)
  /\ UNCHANGED <<s1, cnt, i>>
-----------------------------------------------------------------------------
(* The loop of pc() and of pi(). *)

SemWait(t) ==
  /\ Go(t, "wait", "test")
  /\ s1 > 0
  /\ s1' = s1 - 1
  /\ UNCHANGED <<cnt, i>>

TestCnt(t) ==
  /\ Go(t, "test", IF cnt = Own(t) THEN "spin" ELSE "body")
  /\ UNCHANGED <<s1, cnt, i>>

SpinPost(t) ==
  /\ Go(t, "spin", "test")
  /\ SemPost
  /\ UNCHANGED <<cnt, i>>

PrintItem(t) ==
  /\ Go(t, "body", "set")
  /\ i' = [i EXCEPT ![t] = @ + 1]
  /\ UNCHANGED <<s1, cnt>>

SetCnt(t) ==
  /\ Go(t, "set", "post")
  /\ cnt' = Own(t)
  /\ UNCHANGED <<s1, i>>

LastPost(t) ==
  /\ Go(t, "post", IF i[t] < N THEN "wait" ELSE "done")
  /\ SemPost
  /\ UNCHANGED <<cnt, i>>

Thread(t) ==
  \/ SemWait(t)
  \/ TestCnt(t)
  \/ SpinPost(t)
  \/ PrintItem(t)
  \/ SetCnt(t)
  \/ LastPost(t)
-----------------------------------------------------------------------------
(* main: create both threads, join both, destroy the semaphore. *)

Create(t, here, next) ==
  /\ at["main"] = here
  /\ at' = [at EXCEPT !["main"] = next, ![t] = "wait"]
  /\ UNCHANGED <<s1, cnt, i>>

Join(t, here, next) ==
  /\ at[t] = "done"
  /\ Go("main", here, next)
  /\ UNCHANGED <<s1, cnt, i>>

SemDestroy ==
  /\ Go("main", "destroy", "done")
  /\ UNCHANGED <<s1, cnt, i>>

Main ==
  \/ Create("pc", "create_pc", "create_pi")
  \/ Create("pi", "create_pi", "join_pc")
  \/ Join("pc", "join_pc", "join_pi")
  \/ Join("pi", "join_pi", "destroy")
  \/ SemDestroy

\* The process has returned from main: nothing moves any more.
Exited == at["main"] = "done" /\ UNCHANGED vars

Next == Main \/ (\E t \in Threads : Thread(t)) \/ Exited

SafeSpec == Init /\ [][Next]_vars

\* The kernel schedules every runnable thread sooner or later.
Spec == SafeSpec /\ WF_vars(Main) /\ \A t \in Threads : WF_vars(Thread(t))
-----------------------------------------------------------------------------
TypeOK ==
  /\ s1 \in 0 .. SemMax
  /\ cnt \in {0, 1}
  /\ at \in [Threads \cup {"main"} -> MainSteps \cup ThreadSteps]
  /\ \A t \in Threads : at[t] \in ThreadSteps
  /\ at["main"] \in MainSteps
  /\ i \in [Threads -> 0 .. N]

InBody(t) == at[t] \in {"body", "set"}

\* The two bodies (print, sleep, cnt = ...) never overlap, although the
\* semaphore lets both threads in: lines 25-27 against lines 44-46.
BodiesExclude == ~(InBody("pc") /\ InBody("pi"))

\* The threads that passed sem_wait and have not made their last sem_post.
Holders == {t \in Threads : at[t] \in {"test", "spin", "body", "set", "post"}}

\* However often the inner loops post, and even when s1 is saturated, one unit
\* is always in s1 or with a thread: nobody can sleep in sem_wait for ever.
UnitNeverLost == s1 = 0 => Holders # {}

\* sem_destroy (line 63) comes after the last use of s1 by either thread.
DestroyedUnused == at["main"] = "done" => \A t \in Threads : at[t] = "done"

\* The output alternates strictly, digit first: 1 a 2 b 3 c ...
Turns == INSTANCE Alternation
           WITH Leader <- "pi", Follower <- "pc", Rounds <- N, served <- i

AlternatesStrictly == Turns!Spec

\* Both threads print all their items and main returns.
EveryoneFinishes == <>(at["main"] = "done")
=============================================================================
