--------------------------- MODULE SemRendezvous ---------------------------
(***************************************************************************)
(* Samples_Multi_thread/test_thread_sem.cpp: two threads write their       *)
(* number into g_Flag under the semaphore sem_mutex; the one that finds    *)
(* the other's number there posts sem_syn, on which main waits before it   *)
(* returns.  A thread then tries to join itself: the library refuses       *)
(* (EDEADLK) and it goes on.                                               *)
(***************************************************************************)
EXTENDS Integers

VARIABLES
  sem_mutex,  \* the value of the semaphore that protects g_Flag
  sem_syn,    \* the value of the semaphore main waits on
  g_Flag,     \* 0, or the number of the thread that was in last
  at          \* where threads 1 and 2, and main (0), stand

vars == <<sem_mutex, sem_syn, g_Flag, at>>

Threads == {1, 2}
Main == 0

MainSteps == {"create2", "create1", "wait_syn", "done", "failed"}
ThreadSteps == {"unborn", "wait", "test", "set", "post", "self_join", "done"}

Init ==
  /\ sem_mutex = 1
  /\ sem_syn = 0
  /\ g_Flag = 0
  /\ at = [t \in Threads \cup {Main} |-> IF t = Main THEN "create2" ELSE "unborn"]

\* Returning from main ends the process and its threads.
Go(t, from, to) ==
  /\ at[Main] \notin {"done", "failed"}
  /\ at[t] = from
  /\ at' = [at EXCEPT ![t] = to]
-----------------------------------------------------------------------------
(* Plausible bugs: each form below, in the place of the definition it is   *)
(* named after, breaks a property.                                         *)

\* Any thread posts that finds a number that is not its own.
MetNotSelf(t) == g_Flag # t

\* The number is not written.
SetFlagMissing(t) ==
  /\ Go(t, "set", "post")
  /\ UNCHANGED <<sem_mutex, sem_syn, g_Flag>>
-----------------------------------------------------------------------------
(* thread1 and thread2 *)

WaitMutex(t) ==
  /\ Go(t, "wait", "test")
  /\ sem_mutex > 0
  /\ sem_mutex' = sem_mutex - 1
  /\ UNCHANGED <<sem_syn, g_Flag>>

MetOther(t) == g_Flag = 3 - t

TestFlag(t) ==
  /\ Go(t, "test", "set")
  /\ sem_syn' = IF MetOther(t) THEN sem_syn + 1 ELSE sem_syn
  /\ UNCHANGED <<sem_mutex, g_Flag>>

SetFlag(t) ==
  /\ Go(t, "set", "post")
  /\ g_Flag' = t
  /\ UNCHANGED <<sem_mutex, sem_syn>>

PostMutex(t) ==
  /\ Go(t, "post", "self_join")
  /\ sem_mutex' = sem_mutex + 1
  /\ UNCHANGED <<sem_syn, g_Flag>>

SelfJoin(t) ==
  /\ Go(t, "self_join", "done")
  /\ UNCHANGED <<sem_mutex, sem_syn, g_Flag>>

Thread(t) == WaitMutex(t) \/ TestFlag(t) \/ SetFlag(t) \/ PostMutex(t) \/ SelfJoin(t)
-----------------------------------------------------------------------------
(* main *)

Create(t, here, next) ==
  /\ at[Main] = here
  /\ at' = [at EXCEPT ![Main] = next, ![t] = "wait"]
  /\ UNCHANGED <<sem_mutex, sem_syn, g_Flag>>

CreateFails ==
  /\ at[Main] \in {"create2", "create1"}
  /\ at' = [at EXCEPT ![Main] = "failed"]
  /\ UNCHANGED <<sem_mutex, sem_syn, g_Flag>>

WaitSyn ==
  /\ Go(Main, "wait_syn", "done")
  /\ sem_syn > 0
  /\ sem_syn' = sem_syn - 1
  /\ UNCHANGED <<sem_mutex, g_Flag>>

MainStep ==
  \/ Create(2, "create2", "create1")
  \/ Create(1, "create1", "wait_syn")
  \/ CreateFails
  \/ WaitSyn

Next == MainStep \/ \E t \in Threads : Thread(t)

SafeSpec == Init /\ [][Next]_vars

\* Runnable threads are scheduled; each takes sem_mutex only once.
Fairness == WF_vars(MainStep) /\ \A t \in Threads : WF_vars(Thread(t))

Spec == SafeSpec /\ Fairness
-----------------------------------------------------------------------------
TypeOK ==
  /\ sem_mutex \in {0, 1}
  /\ sem_syn \in Nat
  /\ g_Flag \in {0, 1, 2}
  /\ at \in [Threads \cup {Main} -> MainSteps \cup ThreadSteps]

\* sem_syn is posted exactly once in the life of the program: a second post
\* would have nobody to wait for it.
OnePost == sem_syn + (IF at[Main] = "done" THEN 1 ELSE 0) <= 1

\* main returns 0, and ends the threads, only after both have been inside and
\* one of them is through.
ReturnsAfterBoth ==
  at[Main] = "done" =>
    /\ \A t \in Threads : at[t] \notin {"unborn", "wait", "test"}
    /\ \E t \in Threads : at[t] \in {"self_join", "done"}

\* main is released by one post, and returns only with both threads beyond
\* their test of g_Flag, at least one of them through.
ReleasedOnce == OnePost /\ ReturnsAfterBoth

\* main is not left waiting on sem_syn.
Finishes == <>(at[Main] \in {"done", "failed"})
=============================================================================
