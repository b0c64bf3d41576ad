------------------------------ MODULE CondFlag ------------------------------
(***************************************************************************)
(* Samples_Multi_thread/test_thread_cond.cpp: thread "dec" waits on the    *)
(* condition variable until flag is set; thread "inc" signals it under the *)
(* mutex; main sleeps five seconds, sets flag and signals, both WITHOUT    *)
(* the mutex.                                                              *)
(*                                                                         *)
(* Nothing but that sleep keeps main's signal from falling between dec's   *)
(* test of flag and its pthread_cond_wait.  The variable punctual, chosen  *)
(* once, says whether in this execution the sleep outlasts what the two    *)
(* threads have to do before it ends, and no spurious wake-up reaches dec  *)
(* between the end of the sleep and main's signal.                         *)
(***************************************************************************)
EXTENDS Pthread

VARIABLES
  flag,     \* the condition
  at,       \* where each thread, and main, stands
  punctual  \* whether dec is asleep from the end of sleep(5) to the signal

vars == <<owner, waiting, flag, at, punctual>>

Threads == {"dec", "inc"}

MainSteps == {"create_dec", "create_inc", "sleep", "set", "signal",
              "join_dec", "join_inc", "destroy", "done"}

ThreadSteps == {"unborn", "lock", "test", "wait", "asleep", "work",
                "signal", "unlock", "done"}

Init ==
  /\ owner = Nobody
  /\ waiting = {}
  /\ flag = FALSE
  /\ at = [t \in Threads \cup {"main"} |->
             IF t = "main" THEN "create_dec" ELSE "unborn"]
  /\ punctual \in BOOLEAN

Go(t, from, to) == at[t] = from /\ at' = [at EXCEPT ![t] = to]
-----------------------------------------------------------------------------
(* Plausible bugs: each form below, in the place of the action it is named *)
(* after, breaks a property.                                               *)

\* "if (!flag)" in the place of "while (!flag)".
DecWakeNoTest ==
  /\ Go("dec", "asleep", "work")
  /\ CondResume("dec")
  /\ UNCHANGED <<waiting, flag, punctual>>

\* main sets flag and forgets to signal.
MainSignalMissing ==
  /\ Go("main", "signal", "join_dec")
  /\ UNCHANGED <<owner, waiting, flag, punctual>>
-----------------------------------------------------------------------------
(* decrement_count *)

DecLock ==
  /\ Go("dec", "lock", "test")
  /\ Lock("dec")
  /\ UNCHANGED <<waiting, flag, punctual>>

DecTest ==
  /\ Go("dec", "test", IF flag THEN "work" ELSE "wait")
  /\ UNCHANGED <<owner, waiting, flag, punctual>>

DecWait ==
  /\ Go("dec", "wait", "asleep")
  /\ CondSleep("dec")
  /\ UNCHANGED <<flag, punctual>>

DecWake ==
  /\ Go("dec", "asleep", "test")
  /\ CondResume("dec")
  /\ UNCHANGED <<waiting, flag, punctual>>

DecClear ==
  /\ Go("dec", "work", "unlock")
  /\ flag' = FALSE
  /\ UNCHANGED <<owner, waiting, punctual>>

DecUnlock ==
  /\ Go("dec", "unlock", "done")
  /\ Unlock("dec")
  /\ UNCHANGED <<waiting, flag, punctual>>

Dec == DecLock \/ DecTest \/ DecWait \/ DecWake \/ DecClear \/ DecUnlock

DecSpurious ==
  /\ punctual => at["main"] \notin {"set", "signal"}
  /\ SpuriousWake("dec")
  /\ UNCHANGED <<owner, flag, at, punctual>>
-----------------------------------------------------------------------------
(* increment_count *)

IncLock ==
  /\ Go("inc", "lock", "signal")
  /\ Lock("inc")
  /\ UNCHANGED <<waiting, flag, punctual>>

IncSignal ==
  /\ Go("inc", "signal", "unlock")
  /\ CondSignal
  /\ UNCHANGED <<owner, flag, punctual>>

IncUnlock ==
  /\ Go("inc", "unlock", "done")
  /\ Unlock("inc")
  /\ UNCHANGED <<waiting, flag, punctual>>

Inc == IncLock \/ IncSignal \/ IncUnlock
-----------------------------------------------------------------------------
(* main *)

Create(t, here, next) ==
  /\ at["main"] = here
  /\ at' = [at EXCEPT !["main"] = next, ![t] = "lock"]
  /\ UNCHANGED <<owner, waiting, flag, punctual>>

\* Where the threads stand when sleep(5) has been long enough.
Settled == at["inc"] = "done" /\ "dec" \in waiting

MainSleep ==
  /\ punctual => Settled
  /\ Go("main", "sleep", "set")
  /\ UNCHANGED <<owner, waiting, flag, punctual>>

MainSetFlag ==
  /\ Go("main", "set", "signal")
  /\ flag' = TRUE
  /\ UNCHANGED <<owner, waiting, punctual>>

MainSignal ==
  /\ Go("main", "signal", "join_dec")
  /\ CondSignal
  /\ UNCHANGED <<owner, flag, punctual>>

Join(t, here, next) ==
  /\ at[t] = "done"
  /\ Go("main", here, next)
  /\ UNCHANGED <<owner, waiting, flag, punctual>>

MainDestroy ==
  /\ Go("main", "destroy", "done")
  /\ UNCHANGED <<owner, waiting, flag, punctual>>

Main ==
  \/ Create("dec", "create_dec", "create_inc")
  \/ Create("inc", "create_inc", "sleep")
  \/ MainSleep
  \/ MainSetFlag
  \/ MainSignal
  \/ Join("dec", "join_dec", "join_inc")
  \/ Join("inc", "join_inc", "destroy")
  \/ MainDestroy

Next == Main \/ Dec \/ DecSpurious \/ Inc

SafeSpec == Init /\ [][Next]_vars

\* Runnable threads are scheduled; a spurious wake-up never has to come, and
\* if they come again and again, inc still gets the mutex between two of them
\* and main's sleep ends between two of them.
Fairness == SF_vars(Main) /\ WF_vars(Dec) /\ SF_vars(Inc)

Spec == SafeSpec /\ Fairness
-----------------------------------------------------------------------------
TypeOK ==
  /\ owner \in Threads \cup {Nobody}
  /\ waiting \subseteq {"dec"}
  /\ flag \in BOOLEAN
  /\ at \in [Threads \cup {"main"} -> MainSteps \cup ThreadSteps]
  /\ punctual \in BOOLEAN

\* Line 23 prints "do something that requires holding the mutex and condition
\* is true": there dec does hold the mutex and flag is set, whichever signal
\* (inc's, main's or none at all) ended its wait and although main writes
\* flag without the mutex.
WorkUnderLock == at["dec"] = "work" => owner = "dec" /\ flag

\* If dec is asleep from the end of the sleep to the signal, the program ends
\* ("ok!", line 65).  Otherwise it may hang: the signal of line 56 can be lost.
FinishesIfPunctual == punctual ~> at["main"] = "done"
=============================================================================
