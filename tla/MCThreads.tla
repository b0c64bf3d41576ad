------------------------------ MODULE MCThreads ------------------------------
(***************************************************************************)
(* The programs of Samples_Multi_thread but the ping-pong: one of them per *)
(* execution.  The names of LockedCounter are used as they are; C is       *)
(* CondCounter, F is CondFlag, R is SemRendezvous and T is SemTimedWait.   *)
(***************************************************************************)
EXTENDS LockedCounter

CONSTANTS MaxSecs, MaxDelay

VARIABLES
  cOwner, cWaiting, cCounter, cAt,
  fOwner, fWaiting, fAt, flag, punctual,
  sem_mutex, sem_syn, g_Flag, rAt,
  alarm_secs, wait_secs, now, alarm_at, deadline, sem, tAt, prompt,
  program  \* which of them runs

cVars == <<cOwner, cWaiting, cCounter, cAt>>

fVars == <<fOwner, fWaiting, fAt, flag, punctual>>

rVars == <<sem_mutex, sem_syn, g_Flag, rAt>>

tVars == <<alarm_secs, wait_secs, now, alarm_at, deadline, sem, tAt, prompt>>

C == INSTANCE CondCounter
       WITH owner <- cOwner, waiting <- cWaiting, counter <- cCounter, at <- cAt

F == INSTANCE CondFlag WITH owner <- fOwner, waiting <- fWaiting, at <- fAt

R == INSTANCE SemRendezvous WITH at <- rAt

T == INSTANCE SemTimedWait WITH at <- tAt

ASSUME BoundsAssumption == T!BoundsAssumption

\* The systems that do not run stay in one of their initial states.
MCInit ==
  /\ Init /\ C!Init /\ F!Init /\ R!Init /\ T!Init
  /\ program \in {"count", "cond1", "cond", "sem", "sem1"}
  /\ program # "count" => sample = "mutex"
  /\ program # "cond" => punctual
  /\ program # "sem1" => alarm_secs = 0 /\ wait_secs = 0 /\ prompt

Counts(A) ==
  program = "count" /\ A /\ UNCHANGED <<cVars, fVars, rVars, tVars, program>>
Waits(A) ==
  program = "cond1" /\ A /\ UNCHANGED <<vars, fVars, rVars, tVars, program>>
Flags(A) ==
  program = "cond" /\ A /\ UNCHANGED <<vars, cVars, rVars, tVars, program>>
Meets(A) ==
  program = "sem" /\ A /\ UNCHANGED <<vars, cVars, fVars, tVars, program>>
Times(A) ==
  program = "sem1" /\ A /\ UNCHANGED <<vars, cVars, fVars, rVars, program>>

MCNext ==
  \/ Counts(Next)
  \/ Waits(C!Next)
  \/ Flags(F!Next)
  \/ Meets(R!Next)
  \/ Times(T!Next)

allVars == <<vars, cVars, fVars, rVars, tVars, program>>

\* The fairness of each system while it is the one that runs.
MCFairness ==
  /\ WF_allVars(Counts(Main))
  /\ \A t \in Everybody : WF_allVars(Counts(Run(t)))
  /\ WF_allVars(Waits(C!Main))
  /\ WF_allVars(Waits(C!Dec))
  /\ SF_allVars(Waits(C!Inc))
  /\ SF_allVars(Flags(F!Main))
  /\ WF_allVars(Flags(F!Dec))
  /\ SF_allVars(Flags(F!Inc))
  /\ WF_allVars(Meets(R!MainStep))
  /\ \A t \in R!Threads : WF_allVars(Meets(R!Thread(t)))
  /\ WF_allVars(Times(T!MainStep))
  /\ WF_allVars(Times(T!Tick))

MCSpec == MCInit /\ [][MCNext]_allVars /\ MCFairness
-----------------------------------------------------------------------------
\* Line 33 of test_thread_cond1.cpp: the signal comes before the count.
SignalThenTake == C!TypeOK /\ C!SignalThenTake

\* Line 23 of test_thread_cond.cpp: the condition is true, the mutex held.
WorkUnderLock == F!TypeOK /\ F!WorkUnderLock

\* Lines 23 and 54 of test_thread_sem.cpp: one post, by whoever comes second.
ReleasedOnce == R!TypeOK /\ R!ReleasedOnce

\* How test_thread_sem1.cpp ends is what its two arguments say.
TimedOutcome == T!TypeOK /\ T!TimedOutcome

\* The counting programs end: nobody waits for the lock for ever.
CountersFinish == program = "count" => Finishes

\* test_thread_cond1.cpp always ends: the signal under its mutex cannot be lost.
\* test_thread_cond.cpp ends if its sleep is long enough.
CondsFinish ==
  /\ program = "cond1" => C!Finishes
  /\ program = "cond" => F!FinishesIfPunctual

\* test_thread_sem.cpp and test_thread_sem1.cpp are not left waiting on a
\* semaphore.
SemsFinish ==
  /\ program = "sem" => R!Finishes
  /\ program = "sem1" => T!Finishes
=============================================================================
