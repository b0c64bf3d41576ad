--------------------------- MODULE LockedCounter ---------------------------
(***************************************************************************)
(* Samples_Multi_thread/test_thread_mutex.cpp (run) and test_thread_sem3   *)
(* .cpp (handler): each thread increments a shared counter between taking  *)
(* and giving back one lock, a mutex in the first and a semaphore of value *)
(* 1 in the second; main creates the threads, joins them and destroys the  *)
(* lock.  In the first main calls run itself after creating the threads,   *)
(* and returns -1 when the lock or a thread cannot be made; the second     *)
(* looks at no return value.  An execution is one of either.               *)
(*                                                                         *)
(* The lock is its free units: 1 or 0.  counter++ is a read and a write.   *)
(***************************************************************************)
EXTENDS Integers, FiniteSets

CONSTANT Tids  \* the threads main creates (two in both samples)

ASSUME ConstantsAssumption == IsFiniteSet(Tids) /\ "main" \notin Tids

VARIABLES
  sample,   \* which program: "mutex" or "semaphore" (never changes)
  units,    \* the free units of the lock
  counter,  \* the shared counter
  at,       \* where each thread stands in run or handler
  local,    \* what it has read of counter
  job,      \* the job number it printed first ("Job %d started!")
  main      \* where main stands outside run

vars == <<sample, units, counter, at, local, job, main>>

Everybody == Tids \cup {"main"}

\* main calls run itself in test_thread_mutex.cpp only, and looks at what the
\* library returns there only.
MainRuns == sample = "mutex"

Checked == sample = "mutex"

\* Those that count.
Runners == IF MainRuns THEN Everybody ELSE Tids

RunSteps == {"unborn", "lock", "read", "write", "start", "finish", "unlock",
             "done"}

MainSteps == {"init", "create", "run", "join", "destroy", "done", "failed"}

Init ==
  /\ sample \in {"mutex", "semaphore"}
  /\ units = 0
  /\ counter = 0
  /\ at = [t \in Everybody |-> "unborn"]
  /\ local = [t \in Everybody |-> 0]
  /\ job = [t \in Everybody |-> 0]
  /\ main = "init"

\* Returning from main ends the process and every thread in it.
Alive == main \notin {"done", "failed"}

Go(t, from, to) ==
  /\ Alive
  /\ at[t] = from
  /\ at' = [at EXCEPT ![t] = to]
-----------------------------------------------------------------------------
(* Plausible bugs: each form below, in the place of the action it is named *)
(* after, breaks a property.                                               *)

\* The lock is not taken when the counter is still 0.
LockOnlyLater(t) ==
  /\ Go(t, "lock", "read")
  /\ counter > 0 => units > 0
  /\ units' = IF units > 0 THEN units - 1 ELSE units
  /\ UNCHANGED <<sample, counter, local, job, main>>

\* The lock is never given back.
UnlockMissing(t) ==
  /\ Go(t, "unlock", "done")
  /\ UNCHANGED <<sample, units, counter, local, job, main>>

\* main joins only one of its threads.
JoinOne ==
  /\ main = "join"
  /\ \E t \in Tids : at[t] = "done"
  /\ main' = "destroy"
  /\ UNCHANGED <<sample, units, counter, at, local, job>>
-----------------------------------------------------------------------------
(* run and handler *)

TakeLock(t) ==
  /\ Go(t, "lock", "read")
  /\ units > 0
  /\ units' = units - 1
  /\ UNCHANGED <<sample, counter, local, job, main>>

ReadCounter(t) ==
  /\ Go(t, "read", "write")
  /\ local' = [local EXCEPT ![t] = counter]
  /\ UNCHANGED <<sample, units, counter, job, main>>

WriteCounter(t) ==
  /\ Go(t, "write", "start")
  /\ counter' = local[t] + 1
  /\ UNCHANGED <<sample, units, local, job, main>>

\* The first line printed with the new value ("Job ... started!").
PrintStart(t) ==
  /\ Go(t, "start", "finish")
  /\ job' = [job EXCEPT ![t] = counter]
  /\ UNCHANGED <<sample, units, counter, local, main>>

\* The work, and the last line printed ("Job ... finished!").
PrintFinish(t) ==
  /\ Go(t, "finish", "unlock")
  /\ UNCHANGED <<sample, units, counter, local, job, main>>

GiveLock(t) ==
  /\ Go(t, "unlock", "done")
  /\ units' = units + 1
  /\ UNCHANGED <<sample, counter, local, job, main>>

Run(t) ==
  \/ TakeLock(t)
  \/ ReadCounter(t)
  \/ WriteCounter(t)
  \/ PrintStart(t)
  \/ PrintFinish(t)
  \/ GiveLock(t)
-----------------------------------------------------------------------------
(* main *)

InitLock ==
  /\ main = "init"
  /\ main' = "create"
  /\ units' = 1
  /\ UNCHANGED <<sample, counter, at, local, job>>

\* pthread_mutex_init or pthread_create fails and main returns -1.
Fail ==
  /\ Checked
  /\ main \in {"init", "create"}
  /\ main' = "failed"
  /\ UNCHANGED <<sample, units, counter, at, local, job>>

CreateThread(t) ==
  /\ main = "create"
  /\ Go(t, "unborn", "lock")
  /\ UNCHANGED <<sample, units, counter, local, job, main>>

\* All threads exist: main calls run itself, or goes on to join.
AllCreated ==
  /\ main = "create"
  /\ \A t \in Tids : at[t] # "unborn"
  /\ IF MainRuns
       THEN main' = "run" /\ at' = [at EXCEPT !["main"] = "lock"]
       ELSE main' = "join" /\ UNCHANGED at
  /\ UNCHANGED <<sample, units, counter, local, job>>

ReturnFromRun ==
  /\ main = "run"
  /\ at["main"] = "done"
  /\ main' = "join"
  /\ UNCHANGED <<sample, units, counter, at, local, job>>

JoinAll ==
  /\ main = "join"
  /\ \A t \in Tids : at[t] = "done"
  /\ main' = "destroy"
  /\ UNCHANGED <<sample, units, counter, at, local, job>>

DestroyLock ==
  /\ main = "destroy"
  /\ main' = "done"
  /\ UNCHANGED <<sample, units, counter, at, local, job>>

Main ==
  \/ InitLock
  \/ Fail
  \/ \E t \in Tids : CreateThread(t)
  \/ AllCreated
  \/ ReturnFromRun
  \/ JoinAll
  \/ DestroyLock

Next == Main \/ \E t \in Everybody : Run(t)

SafeSpec == Init /\ [][Next]_vars

\* Every runnable thread is scheduled.  The lock is taken by each runner at
\* most once, so one that waits for it is not overtaken for ever.
Fairness == WF_vars(Main) /\ \A t \in Everybody : WF_vars(Run(t))

Spec == SafeSpec /\ Fairness
-----------------------------------------------------------------------------
TypeOK ==
  /\ sample \in {"mutex", "semaphore"}
  /\ units \in {0, 1}
  /\ counter \in Nat
  /\ at \in [Everybody -> RunSteps]
  /\ local \in [Everybody -> Nat]
  /\ job \in [Everybody -> Nat]
  /\ main \in MainSteps

Critical(t) == at[t] \in {"read", "write", "start", "finish", "unlock"}

\* A job ends with the counter it announced at its start (lines 17 and 19 of
\* the mutex sample; between line 33 of the semaphore sample and its sem_post):
\* nobody else counts in between.
SameJobNumber == \A t \in Runners : at[t] = "finish" => job[t] = counter

\* When main is done no increment is lost, and the jobs had the numbers 1, 2,
\* ..., one number each.
EveryJobCounted ==
  main = "done" =>
    /\ counter = Cardinality(Runners)
    /\ \A t \in Runners : job[t] \in 1 .. Cardinality(Runners)
    /\ \A t, u \in Runners : t # u => job[t] # job[u]

\* The lock is free, and nobody is about to take or return it, when it is
\* destroyed.
DestroyedFree ==
  main \in {"destroy", "done"} =>
    units = 1 /\ \A t \in Runners : at[t] = "done"

\* Nobody waits for the lock for ever: main returns.
Finishes == <>(main \in {"done", "failed"})
=============================================================================
