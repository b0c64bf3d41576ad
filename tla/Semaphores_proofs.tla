-------------------------- MODULE Semaphores_proofs --------------------------
(***************************************************************************)
(* The safety of two semaphore programs of MCThreads.  SemRendezvous (R):  *)
(* main is released once, by the thread that comes second.  SemTimedWait   *)
(* (T): how the timed wait ends is what its two arguments say, for all     *)
(* arguments and whatever time main is kept from running.                  *)
(***************************************************************************)
EXTENDS MCThreads, TLAPS

Inside(t) == rAt[t] \in {"test", "set", "post"}

\* A thread that has written its number.
Written(t) == rAt[t] \in {"post", "self_join", "done"}

\* A thread beyond its test of g_Flag.
Tested(t) == rAt[t] = "set" \/ Written(t)

\* sem_mutex is a lock: one thread inside while it is 0, none while it is 1.
MutexHeld ==
  /\ ~(Inside(1) /\ Inside(2))
  /\ sem_mutex = IF Inside(1) \/ Inside(2) THEN 0 ELSE 1

\* g_Flag holds the number of a thread that has written, if there is one.
FlagWritten ==
  /\ g_Flag = 0 <=> ~Written(1) /\ ~Written(2)
  /\ g_Flag \in R!Threads => Written(g_Flag)

\* sem_syn has been posted once when both have tested, and not before.
PostedOnce ==
  sem_syn + (IF rAt[R!Main] = "done" THEN 1 ELSE 0)
    = IF Tested(1) /\ Tested(2) THEN 1 ELSE 0

\* A thread that main has not created yet has done nothing; the steps of a
\* thread are not those of main.
Positions ==
  /\ rAt[R!Main] \in R!MainSteps
  /\ \A t \in R!Threads : rAt[t] \in R!ThreadSteps
  /\ rAt[R!Main] = "create2" => rAt[2] = "unborn"
  /\ rAt[R!Main] \in {"create2", "create1"} => rAt[1] = "unborn"

IInv == R!TypeOK /\ MutexHeld /\ FlagWritten /\ PostedOnce /\ Positions
-----------------------------------------------------------------------------
LEMMA InitIInv == R!Init => IInv
  BY DEF R!Init, IInv, R!TypeOK, MutexHeld, FlagWritten, PostedOnce, Positions,
         Inside, Written, Tested, R!Threads, R!Main, R!MainSteps, R!ThreadSteps

\* A step of a thread keeps the invariant.
LEMMA ThreadKeepsIInv ==
  ASSUME IInv, NEW t \in R!Threads, R!Thread(t)
  PROVE  IInv'
<1> USE DEF IInv, R!TypeOK, MutexHeld, FlagWritten, PostedOnce, Positions,
            Inside, Written, Tested, R!Threads, R!Main, R!MainSteps, R!ThreadSteps, R!Go
<1>1. CASE R!WaitMutex(t)
  BY <1>1 DEF R!WaitMutex
<1>2. CASE R!TestFlag(t)
  BY <1>2 DEF R!TestFlag, R!MetOther
<1>3. CASE R!SetFlag(t)
  BY <1>3 DEF R!SetFlag
<1>4. CASE R!PostMutex(t)
  BY <1>4 DEF R!PostMutex
<1>5. CASE R!SelfJoin(t)
  BY <1>5 DEF R!SelfJoin
<1> QED  BY <1>1, <1>2, <1>3, <1>4, <1>5, R!Thread(t) DEF R!Thread

\* A step of main keeps the invariant.
LEMMA MainKeepsIInv == IInv /\ R!MainStep => IInv'
<1> SUFFICES ASSUME IInv, R!MainStep PROVE IInv'
  OBVIOUS
<1> USE DEF IInv, R!TypeOK, MutexHeld, FlagWritten, PostedOnce, Positions,
            Inside, Written, Tested, R!Threads, R!Main, R!MainSteps, R!ThreadSteps, R!Go
<1>1. CASE R!Create(2, "create2", "create1")
  BY <1>1 DEF R!Create
<1>2. CASE R!Create(1, "create1", "wait_syn")
  BY <1>2 DEF R!Create
<1>3. CASE R!CreateFails
  BY <1>3 DEF R!CreateFails
<1>4. CASE R!WaitSyn
  BY <1>4 DEF R!WaitSyn
<1> QED  BY <1>1, <1>2, <1>3, <1>4 DEF R!MainStep

LEMMA NextKeepsIInv == IInv /\ [R!Next]_rVars => IInv'
<1> SUFFICES ASSUME IInv, [R!Next]_rVars PROVE IInv'
  OBVIOUS
<1>1. CASE R!Next
  BY <1>1, ThreadKeepsIInv, MainKeepsIInv DEF R!Next
<1>2. CASE UNCHANGED rVars
  BY <1>2 DEF rVars, IInv, R!TypeOK, MutexHeld, FlagWritten, PostedOnce, Positions,
              Inside, Written, Tested
<1> QED  BY <1>1, <1>2

\* test_thread_sem.cpp:97-100: sem_syn is posted once, by the second thread,
\* and main returns with both threads beyond their test, one of them through.
THEOREM MainReleased == MCSpec => []ReleasedOnce
<1>1. MCInit => IInv
  BY InitIInv DEF MCInit
<1>2. IInv /\ [MCNext]_allVars => IInv'
  BY NextKeepsIInv DEF MCNext, Counts, Waits, Flags, Meets, Times, allVars, rVars
<1>3. IInv => ReleasedOnce
  BY DEF IInv, R!TypeOK, MutexHeld, PostedOnce, Positions, Inside, Written, Tested,
         R!Threads, R!Main, R!MainSteps, R!ThreadSteps, ReleasedOnce, R!ReleasedOnce,
         R!OnePost, R!ReturnsAfterBoth
<1> QED
  BY <1>1, <1>2, <1>3, PTL DEF MCSpec
-----------------------------------------------------------------------------
(* SemTimedWait *)

\* main before its call of alarm, and before it has a deadline.
BeforeAlarm == tAt \in {"setup", "alarm", "failed"}
BeforeDeadline == tAt \in {"setup", "alarm", "gettime"}

\* The alarm goes off once: it is not set yet, or due, or handled, and only
\* then is there a unit.
AlarmOnce ==
  /\ BeforeAlarm => alarm_at = T!Never /\ sem = 0
  /\ alarm_at # T!Never => alarm_secs # 0 /\ alarm_secs <= alarm_at /\ sem = 0
  /\ sem = 1 => alarm_secs # 0 /\ alarm_secs <= now
  /\ ~BeforeAlarm /\ alarm_at = T!Never /\ sem = 0 /\ tAt # "succeeded" =>
       alarm_secs = 0

\* Nobody is blocked while there is a unit.
BlockedEmpty == tAt = "blocked" => sem = 0

\* While a process that runs as soon as it can has not ended, no time passes
\* before the deadline is known, and the clock passes neither the deadline nor
\* the alarm.
OnTime ==
  prompt /\ ~T!Exited =>
    /\ BeforeDeadline => now = 0
    /\ ~BeforeDeadline => deadline = wait_secs /\ now <= deadline
    /\ alarm_at # T!Never => alarm_at = alarm_secs /\ now <= alarm_at

TInv == T!TypeOK /\ AlarmOnce /\ BlockedEmpty /\ OnTime /\ T!TimedOutcome

LEMMA TInitInv == T!Init => TInv
  BY BoundsAssumption DEF T!BoundsAssumption, T!Init, TInv, T!TypeOK, AlarmOnce, BlockedEmpty, OnTime,
         T!TimedOutcome, BeforeAlarm, BeforeDeadline, T!Exited, T!Steps, T!Args,
         T!Never, T!MaxTime

\* A step of main, or of its signal handler, keeps the invariant.
LEMMA TMainKeeps == TInv /\ T!MainStep => TInv'
<1> SUFFICES ASSUME TInv, T!MainStep PROVE TInv'
  OBVIOUS
<1> USE BoundsAssumption
    DEF T!BoundsAssumption, TInv, T!TypeOK, AlarmOnce, BlockedEmpty, OnTime, T!TimedOutcome,
        BeforeAlarm, BeforeDeadline, T!Exited, T!Steps, T!Args, T!Never,
        T!MaxTime, T!Due, T!Expired
<1>1. CASE T!Setup
  BY <1>1 DEF T!Setup
<1>2. CASE T!SetAlarm
  BY <1>2 DEF T!SetAlarm
<1>3. CASE T!GetTime
  BY <1>3 DEF T!GetTime
<1>4. CASE T!Call
  BY <1>4 DEF T!Call
<1>5. CASE T!TimeOut
  BY <1>5 DEF T!TimeOut
<1>6. CASE T!Handler
  BY <1>6 DEF T!Handler, T!AfterHandler
<1> QED
  BY <1>1, <1>2, <1>3, <1>4, <1>5, <1>6 DEF T!MainStep

\* Time keeps the invariant: a prompt process lets it pass only while it is
\* blocked, before its deadline and its alarm.
LEMMA TTickKeeps == TInv /\ T!Tick => TInv'
  BY BoundsAssumption
  DEF T!BoundsAssumption, TInv, T!TypeOK, AlarmOnce, BlockedEmpty, OnTime, T!TimedOutcome,
      BeforeAlarm, BeforeDeadline, T!Exited, T!Steps, T!Args, T!Never,
      T!MaxTime, T!Due, T!Expired, T!Runnable, T!Tick

LEMMA TStutterKeeps == TInv /\ UNCHANGED tVars => TInv'
  BY DEF TInv, T!TypeOK, AlarmOnce, BlockedEmpty, OnTime, T!TimedOutcome,
         BeforeAlarm, BeforeDeadline, T!Exited, T!Expired, tVars

\* test_thread_sem1.cpp, both usages at the end of the file: the timed wait
\* succeeds only after the alarm and times out only after the deadline, and a
\* process that is not kept from running does the one its arguments say.
THEOREM OutcomeAsAsked == MCSpec => []TimedOutcome
<1>1. MCInit => TInv
  BY TInitInv DEF MCInit
<1>2. TInv /\ [MCNext]_allVars => TInv'
  BY TMainKeeps, TTickKeeps, TStutterKeeps
     DEF MCNext, Counts, Waits, Flags, Meets, Times, allVars, T!Next
<1>3. TInv => TimedOutcome
  BY DEF TInv, TimedOutcome
<1> QED
  BY <1>1, <1>2, <1>3, PTL DEF MCSpec
=============================================================================
