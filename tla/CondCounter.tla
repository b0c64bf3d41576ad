---------------------------- MODULE CondCounter ----------------------------
(***************************************************************************)
(* Samples_Multi_thread/test_thread_cond1.cpp: thread "dec" waits until    *)
(* counter is not 0 and takes one; thread "inc" signals first, if counter  *)
(* is 0, and counts only afterwards, both under the mutex.  main stops the *)
(* process with -1 when a thread cannot be created.  The two reads of      *)
(* counter outside the mutex (lines 13 and 29) only feed a log line and    *)
(* are left out.                                                           *)
(***************************************************************************)
EXTENDS Pthread, Integers

VARIABLES
  counter,  \* what dec waits for
  at        \* where each thread, and main, stands

vars == <<owner, waiting, counter, at>>

Threads == {"dec", "inc"}

MainSteps == {"create_dec", "create_inc", "join_dec", "join_inc",
              "destroy", "done", "failed"}

ThreadSteps == {"unborn", "lock", "test", "wait", "asleep", "take",
                "signal", "add", "unlock", "done"}

Init ==
  /\ owner = Nobody
  /\ waiting = {}
  /\ counter = 0
  /\ at = [t \in Threads \cup {"main"} |->
             IF t = "main" THEN "create_dec" ELSE "unborn"]

\* Returning from main ends the process and every thread in it.
Alive == at["main"] \notin {"done", "failed"}

Go(t, from, to) ==
  /\ Alive
  /\ at[t] = from
  /\ at' = [at EXCEPT ![t] = to]
-----------------------------------------------------------------------------
(* Plausible bug: in the place of IncLock this form breaks a property.     *)

\* The missing lock that the comment of line 31 warns of.
IncLockMissing ==
  /\ Go("inc", "lock", "signal")
  /\ UNCHANGED <<owner, waiting, counter>>
-----------------------------------------------------------------------------
(* decrement_counter *)

DecLock ==
  /\ Go("dec", "lock", "test")
  /\ Lock("dec")
  /\ UNCHANGED <<waiting, counter>>

DecTest ==
  /\ Go("dec", "test", IF counter = 0 THEN "wait" ELSE "take")
  /\ UNCHANGED <<owner, waiting, counter>>

DecWait ==
  /\ Go("dec", "wait", "asleep")
  /\ CondSleep("dec")
  /\ UNCHANGED counter

DecWake ==
  /\ Go("dec", "asleep", "test")
  /\ CondResume("dec")
  /\ UNCHANGED <<waiting, counter>>

DecTake ==
  /\ Go("dec", "take", "unlock")
  /\ counter' = counter - 1
  /\ UNCHANGED <<owner, waiting>>

DecUnlock ==
  /\ Go("dec", "unlock", "done")
  /\ Unlock("dec")
  /\ UNCHANGED <<waiting, counter>>

Dec == DecLock \/ DecTest \/ DecWait \/ DecWake \/ DecTake \/ DecUnlock

DecSpurious ==
  /\ Alive
  /\ SpuriousWake("dec")
  /\ UNCHANGED <<owner, counter, at>>
-----------------------------------------------------------------------------
(* increment_counter *)

IncLock ==
  /\ Go("inc", "lock", "signal")
  /\ Lock("inc")
  /\ UNCHANGED <<waiting, counter>>

IncSignal ==
  /\ Go("inc", "signal", "add")
  /\ IF counter = 0 THEN CondSignal ELSE UNCHANGED waiting
  /\ UNCHANGED <<owner, counter>>

IncAdd ==
  /\ Go("inc", "add", "unlock")
  /\ counter' = counter + 1
  /\ UNCHANGED <<owner, waiting>>

IncUnlock ==
  /\ Go("inc", "unlock", "done")
  /\ Unlock("inc")
  /\ UNCHANGED <<waiting, counter>>

Inc == IncLock \/ IncSignal \/ IncAdd \/ IncUnlock
-----------------------------------------------------------------------------
(* main *)

Create(t, here, next) ==
  /\ at["main"] = here
  /\ at' = [at EXCEPT !["main"] = next, ![t] = "lock"]
  /\ UNCHANGED <<owner, waiting, counter>>

\* pthread_create fails and main returns -1.
CreateFails ==
  /\ at["main"] \in {"create_dec", "create_inc"}
  /\ at' = [at EXCEPT !["main"] = "failed"]
  /\ UNCHANGED <<owner, waiting, counter>>

Join(t, here, next) ==
  /\ at[t] = "done"
  /\ Go("main", here, next)
  /\ UNCHANGED <<owner, waiting, counter>>

MainDestroy ==
  /\ Go("main", "destroy", "done")
  /\ UNCHANGED <<owner, waiting, counter>>

Main ==
  \/ Create("dec", "create_dec", "create_inc")
  \/ Create("inc", "create_inc", "join_dec")
  \/ CreateFails
  \/ Join("dec", "join_dec", "join_inc")
  \/ Join("inc", "join_inc", "destroy")
  \/ MainDestroy

Next == Main \/ Dec \/ DecSpurious \/ Inc

SafeSpec == Init /\ [][Next]_vars

\* Runnable threads are scheduled; a spurious wake-up never has to come, and
\* if they come again and again, inc still gets the mutex between two of them.
Fairness == WF_vars(Main) /\ WF_vars(Dec) /\ SF_vars(Inc)

Spec == SafeSpec /\ Fairness
-----------------------------------------------------------------------------
TypeOK ==
  /\ owner \in Threads \cup {Nobody}
  /\ waiting \subseteq {"dec"}
  /\ counter \in {0, 1}
  /\ at \in [Threads \cup {"main"} -> MainSteps \cup ThreadSteps]

\* The comment of line 33: "first the signalling thread is done, only then
\* does the waiting thread go on", although the signal comes before the count.
SignalThenTake == at["dec"] = "take" => at["inc"] = "done" /\ counter = 1

\* The program ends: the signal under the mutex cannot be lost (the comment
\* of line 31 says that without the lock the wait would last for ever).
Finishes == <>(at["main"] \in {"done", "failed"})
=============================================================================
