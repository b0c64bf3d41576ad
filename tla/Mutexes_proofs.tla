--------------------------- MODULE Mutexes_proofs ---------------------------
(***************************************************************************)
(* The safety of the programs on a mutex.  LockedCounter, for every finite *)
(* set of threads and in both of its programs, main among the runners or   *)
(* not.  CondCounter (C): the counter stays 0 or 1, and the waiting thread *)
(* takes one only after the signalling thread is done, spurious wake-ups   *)
(* and failing creations included.  CondFlag (F): the waiting thread works *)
(* under the mutex with the flag set, although main sets it without the    *)
(* mutex.                                                                  *)
(***************************************************************************)
EXTENDS MCThreads, FiniteSetTheorems, TLAPS

\* The runners that have incremented the counter.
Counted == {t \in Everybody : at[t] \in {"start", "finish", "unlock", "done"}}

\* The runners that have announced their job number.
Numbered == {t \in Everybody : at[t] \in {"finish", "unlock", "done"}}

\* The lock: at most one runner is inside, and its unit is accounted for.
OneInside ==
  /\ \A t, u \in Everybody : Critical(t) /\ Critical(u) => t = u
  /\ \A t \in Everybody : Critical(t) => units = 0
  /\ main \notin {"init", "failed"} /\ units = 0 =>
       \E t \in Everybody : Critical(t)

\* What the runner inside has read is still true when it writes.
ReadIsFresh == \A t \in Everybody : at[t] = "write" => local[t] = counter

\* A job keeps the number it announced until it has ended.
SameNumber == \A t \in Everybody : at[t] = "finish" => job[t] = counter

\* The counter is the number of increments made.
CounterExact == counter = Cardinality(Counted)

\* The numbers announced are different and not ahead of the counter.
NumbersDiffer ==
  /\ \A t \in Numbered : job[t] \in 1 .. counter
  /\ \A t, u \in Numbered : t # u => job[t] # job[u]
  /\ \A t \in Everybody : at[t] = "start" => counter > 0
  /\ \A t \in Everybody, u \in Numbered : at[t] = "start" => job[u] < counter

\* Where main stands tells which runners have started and which are done.
MainKnows ==
  /\ main = "init" => units = 0 /\ \A t \in Everybody : at[t] = "unborn"
  /\ ~MainRuns => at["main"] = "unborn"
  /\ main = "create" => at["main"] = "unborn"
  /\ main \in {"join", "destroy", "done"} /\ MainRuns => at["main"] = "done"
  /\ main \in {"destroy", "done"} => \A t \in Tids : at[t] = "done"

IInv ==
  /\ TypeOK
  /\ OneInside
  /\ ReadIsFresh
  /\ SameNumber
  /\ CounterExact
  /\ NumbersDiffer
  /\ MainKnows

\* The part of the invariant that needs no cardinalities.
IInvButCount ==
  /\ TypeOK
  /\ OneInside
  /\ ReadIsFresh
  /\ SameNumber
  /\ NumbersDiffer
  /\ MainKnows

LEMMA EverybodyFinite == IsFiniteSet(Everybody)
  BY ConstantsAssumption, FS_AddElement DEF Everybody

\* One more runner has counted.
LEMMA CountOne ==
  ASSUME NEW t \in Everybody \ Counted, Counted' = Counted \cup {t}
  PROVE  Cardinality(Counted') = Cardinality(Counted) + 1
<1>1. IsFiniteSet(Counted)
  BY EverybodyFinite, FS_Subset DEF Counted
<1> QED
  BY <1>1, FS_AddElement
-----------------------------------------------------------------------------
LEMMA InitIInv == Init => IInv
<1> SUFFICES ASSUME Init PROVE IInv
  OBVIOUS
<1>1. Counted = {} /\ Numbered = {}
  BY DEF Init, Counted, Numbered
<1>2. CounterExact
  BY <1>1, FS_EmptySet DEF Init, CounterExact
<1> QED
  BY <1>1, <1>2 DEF Init, IInv, TypeOK, OneInside, Critical, ReadIsFresh,
     SameNumber, NumbersDiffer, MainKnows, Everybody, RunSteps, MainSteps
-----------------------------------------------------------------------------
\* A step of a runner keeps the invariant, counting apart.
LEMMA RunKeepsRest ==
  ASSUME IInvButCount, NEW t \in Everybody, Run(t)
  PROVE  IInvButCount'
<1> USE DEF IInvButCount, TypeOK, RunSteps, MainSteps, Go, Alive
<1>0. Tids \subseteq Everybody
  BY DEF Everybody
<1>1. CASE TakeLock(t)
  <2>1. TypeOK' /\ OneInside' /\ ReadIsFresh'
    BY <1>1 DEF TakeLock, OneInside, Critical, ReadIsFresh
  <2>2. SameNumber'
    BY <1>1 DEF TakeLock, OneInside, Critical, SameNumber
  <2>3. NumbersDiffer'
    BY <1>1 DEF TakeLock, OneInside, Critical, ReadIsFresh, NumbersDiffer, Numbered
  <2>4. MainKnows'
    BY <1>0, <1>1 DEF TakeLock, MainKnows, MainRuns, Everybody
  <2> QED
    BY <2>1, <2>2, <2>3, <2>4
<1>2. CASE ReadCounter(t)
  <2>1. TypeOK' /\ OneInside' /\ ReadIsFresh'
    BY <1>2 DEF ReadCounter, OneInside, Critical, ReadIsFresh
  <2>2. SameNumber'
    BY <1>2 DEF ReadCounter, OneInside, Critical, SameNumber
  <2>3. NumbersDiffer'
    BY <1>2 DEF ReadCounter, OneInside, Critical, ReadIsFresh, NumbersDiffer, Numbered
  <2>4. MainKnows'
    BY <1>0, <1>2 DEF ReadCounter, MainKnows, MainRuns, Everybody
  <2> QED
    BY <2>1, <2>2, <2>3, <2>4
<1>3. CASE WriteCounter(t)
  <2>1. TypeOK' /\ OneInside' /\ ReadIsFresh'
    BY <1>3 DEF WriteCounter, OneInside, Critical, ReadIsFresh
  <2>2. SameNumber'
    BY <1>3 DEF WriteCounter, OneInside, Critical, SameNumber
  <2>3. NumbersDiffer'
    BY <1>3
       DEF WriteCounter, OneInside, Critical, ReadIsFresh, NumbersDiffer, Numbered
  <2>4. MainKnows'
    BY <1>0, <1>3 DEF WriteCounter, MainKnows, MainRuns, Everybody
  <2> QED
    BY <2>1, <2>2, <2>3, <2>4
<1>4. CASE PrintStart(t)
  <2>1. TypeOK' /\ OneInside' /\ ReadIsFresh'
    BY <1>4 DEF PrintStart, OneInside, Critical, ReadIsFresh
  <2>2. SameNumber'
    BY <1>4 DEF PrintStart, OneInside, Critical, SameNumber
  <2>3. NumbersDiffer'
    BY <1>4 DEF PrintStart, OneInside, Critical, ReadIsFresh, NumbersDiffer, Numbered
  <2>4. MainKnows'
    BY <1>0, <1>4 DEF PrintStart, MainKnows, MainRuns, Everybody
  <2> QED
    BY <2>1, <2>2, <2>3, <2>4
<1>5. CASE PrintFinish(t)
  <2>1. TypeOK' /\ OneInside' /\ ReadIsFresh'
    BY <1>5 DEF PrintFinish, OneInside, Critical, ReadIsFresh
  <2>2. SameNumber'
    BY <1>5 DEF PrintFinish, OneInside, Critical, SameNumber
  <2>3. NumbersDiffer'
    BY <1>5 DEF PrintFinish, OneInside, Critical, ReadIsFresh, NumbersDiffer, Numbered
  <2>4. MainKnows'
    BY <1>0, <1>5 DEF PrintFinish, MainKnows, MainRuns, Everybody
  <2> QED
    BY <2>1, <2>2, <2>3, <2>4
<1>6. CASE GiveLock(t)
  <2>1. TypeOK' /\ OneInside' /\ ReadIsFresh'
    BY <1>6 DEF GiveLock, OneInside, Critical, ReadIsFresh
  <2>2. SameNumber'
    BY <1>6 DEF GiveLock, OneInside, Critical, SameNumber
  <2>3. NumbersDiffer'
    BY <1>6 DEF GiveLock, OneInside, Critical, ReadIsFresh, NumbersDiffer, Numbered
  <2>4. MainKnows'
    BY <1>0, <1>6 DEF GiveLock, MainKnows, MainRuns, Everybody
  <2> QED
    BY <2>1, <2>2, <2>3, <2>4
<1> QED
  BY <1>1, <1>2, <1>3, <1>4, <1>5, <1>6 DEF Run

\* A step of main keeps the invariant, counting apart.
LEMMA MainKeepsRest == IInvButCount /\ Main => IInvButCount'
<1> SUFFICES ASSUME IInvButCount, Main PROVE IInvButCount'
  OBVIOUS
<1> USE DEF IInvButCount, TypeOK, RunSteps, MainSteps, OneInside, Critical,
            ReadIsFresh, SameNumber, NumbersDiffer, Numbered, MainKnows, MainRuns
<1>0. /\ Tids \subseteq Everybody /\ "main" \notin Tids
      /\ "main" \in Everybody
  BY ConstantsAssumption DEF Everybody
<1>1. CASE InitLock
  BY <1>0, <1>1 DEF InitLock
<1>2. CASE Fail
  BY <1>2 DEF Fail
<1>3. ASSUME NEW t \in Tids, CreateThread(t) PROVE IInvButCount'
  BY <1>0, <1>3 DEF CreateThread, Go, Alive
<1>4. CASE AllCreated
  <2>1. CASE MainRuns
    <3>1. "main" \in Everybody
      BY <2>1 DEF Everybody
    <3> QED
      BY <1>0, <1>4, <2>1, <3>1 DEF AllCreated
  <2>2. CASE ~MainRuns
    BY <1>4, <2>2 DEF AllCreated
  <2> QED
    BY <2>1, <2>2
<1>5. CASE ReturnFromRun
  BY <1>5 DEF ReturnFromRun
<1>6. CASE JoinAll
  BY <1>6 DEF JoinAll
<1>7. CASE DestroyLock
  BY <1>7 DEF DestroyLock
<1> QED
  BY <1>1, <1>2, <1>3, <1>4, <1>5, <1>6, <1>7 DEF Main

\* The counter follows the number of runners that have written it.
LEMMA NextKeepsCount ==
  ASSUME IInv, Next
  PROVE  CounterExact'
<1> USE DEF IInv, TypeOK, RunSteps, Go
<1>1. ASSUME NEW t \in Everybody, WriteCounter(t) PROVE CounterExact'
  <2>1. t \in Everybody \ Counted /\ Counted' = Counted \cup {t}
    BY <1>1 DEF WriteCounter, Counted
  <2>2. counter' = counter + 1
    BY <1>1 DEF WriteCounter, ReadIsFresh
  <2> QED
    BY <2>1, <2>2, CountOne DEF CounterExact
<1>2. ASSUME NEW t \in Everybody, Run(t), ~WriteCounter(t) PROVE CounterExact'
  <2>1. Counted' = Counted /\ counter' = counter
    BY <1>2 DEF Run, TakeLock, ReadCounter, PrintStart, PrintFinish, GiveLock,
       Counted
  <2> QED
    BY <2>1 DEF CounterExact
<1>3. CASE Main
  <2>1. Counted' = Counted
    BY <1>3 DEF Main, InitLock, Fail, CreateThread, AllCreated, ReturnFromRun,
       JoinAll, DestroyLock, Counted, MainKnows
  <2>2. counter' = counter
    BY <1>3 DEF Main, InitLock, Fail, CreateThread, AllCreated, ReturnFromRun,
       JoinAll, DestroyLock
  <2> QED
    BY <2>1, <2>2 DEF CounterExact
<1> QED
  BY <1>1, <1>2, <1>3 DEF Next

\* IInv is an inductive invariant of every step and of every stutter.
LEMMA NextKeepsIInv == IInv /\ [Next]_vars => IInv'
<1> SUFFICES ASSUME IInv, [Next]_vars PROVE IInv'
  OBVIOUS
<1>1. CASE Next
  <2>1. IInvButCount
    BY DEF IInv, IInvButCount
  <2>2. IInvButCount'
    BY <1>1, <2>1, RunKeepsRest, MainKeepsRest DEF Next
  <2> QED
    BY <1>1, <2>2, NextKeepsCount DEF IInv, IInvButCount
<1>2. CASE UNCHANGED vars
  BY <1>2 DEF vars, IInv, TypeOK, OneInside, Critical, ReadIsFresh,
     SameNumber, CounterExact, Counted, NumbersDiffer, Numbered, MainKnows,
     MainRuns
<1> QED
  BY <1>1, <1>2

\* The invariant everything else is read off.
THEOREM Invariant == SafeSpec => []IInv
  BY InitIInv, NextKeepsIInv, PTL DEF SafeSpec
-----------------------------------------------------------------------------
\* The counter, the lock and the positions stay in their ranges, for any finite
\* set of threads.
THEOREM TypeCorrect == SafeSpec => []TypeOK
<1>1. IInv => TypeOK
  BY DEF IInv
<1> QED
  BY <1>1, Invariant, PTL

\* A job's number does not change under it: lines 17 and 19 of the mutex
\* sample print the same number, for any number of threads.
THEOREM JobNumberStable == SafeSpec => []SameJobNumber
<1>1. IInv => SameJobNumber
  BY DEF IInv, SameNumber, SameJobNumber, Runners, Everybody
<1> QED
  BY <1>1, Invariant, PTL

\* No increment of the counter is lost, for any number of threads.
THEOREM AllCounted == SafeSpec => []EveryJobCounted
<1>1. ASSUME IInv, main = "done" PROVE \A t \in Runners : at[t] = "done"
  BY <1>1 DEF IInv, MainKnows, Runners, Everybody
<1>2. ASSUME IInv, main = "done" PROVE Counted = Runners /\ Numbered = Runners
  BY <1>1, <1>2 DEF IInv, MainKnows, Counted, Numbered, Runners, Everybody
<1>3. IInv => EveryJobCounted
  BY <1>2 DEF IInv, EveryJobCounted, CounterExact, NumbersDiffer
<1> QED
  BY <1>3, Invariant, PTL

\* The lock is destroyed free and unused, for any number of threads.
THEOREM DestroyedLast == SafeSpec => []DestroyedFree
<1>1. ASSUME IInv, main \in {"destroy", "done"}
      PROVE  \A t \in Runners : at[t] = "done"
  BY <1>1 DEF IInv, MainKnows, Runners, Everybody
<1>2. IInv => DestroyedFree
  BY <1>1 DEF IInv, TypeOK, OneInside, Critical, MainKnows, Runners, Everybody, DestroyedFree
<1> QED
  BY <1>2, Invariant, PTL
-----------------------------------------------------------------------------
(* CondCounter *)

CHolding(t) ==
  IF t = "dec" THEN cAt[t] \in {"test", "wait", "take", "unlock"}
               ELSE cAt[t] \in {"signal", "add", "unlock"}

\* A thread inside its critical region is the owner of the mutex.
CLockHeld == \A t \in C!Threads : CHolding(t) <=> cOwner = t

\* What the counter holds follows from what inc has added and dec has taken.
CounterFollows ==
  /\ cAt["dec"] \in {"unlock", "done"} => cAt["inc"] = "done" /\ cCounter = 0
  /\ cAt["dec"] \notin {"unlock", "done"} =>
       cCounter = IF cAt["inc"] \in {"unlock", "done"} THEN 1 ELSE 0

\* A thread that main has not created yet has done nothing.
CUnborn ==
  /\ cAt["main"] = "create_dec" => cAt["dec"] = "unborn"
  /\ cAt["main"] \in {"create_dec", "create_inc"} => cAt["inc"] = "unborn"

\* The steps of one thread are not steps of the other.
COwnSteps ==
  /\ cAt["dec"] \in {"unborn", "lock", "test", "wait", "asleep", "take",
                    "unlock", "done"}
  /\ cAt["inc"] \in {"unborn", "lock", "signal", "add", "unlock", "done"}

CInv ==
  C!TypeOK /\ CLockHeld /\ CounterFollows /\ CUnborn /\ COwnSteps /\ C!SignalThenTake

-----------------------------------------------------------------------------
LEMMA CInitInv == C!Init => CInv
  BY DEF C!Init, CInv, C!TypeOK, CLockHeld, CHolding, CounterFollows, CUnborn,
         COwnSteps, C!SignalThenTake, C!Threads, C!MainSteps, C!ThreadSteps, C!Nobody

\* The waiting thread keeps the invariant.
LEMMA CDecKeeps == CInv /\ (C!Dec \/ C!DecSpurious) => CInv'
<1> SUFFICES ASSUME CInv, C!Dec \/ C!DecSpurious PROVE CInv'
  OBVIOUS
<1> USE DEF CInv, C!TypeOK, CLockHeld, CHolding, CounterFollows, CUnborn, COwnSteps,
            C!SignalThenTake, C!Threads, C!MainSteps, C!ThreadSteps, C!Go, C!Alive,
            C!Nobody
<1>1. CASE C!DecLock
  BY <1>1 DEF C!DecLock, C!Lock
<1>2. CASE C!DecTest
  BY <1>2 DEF C!DecTest
<1>3. CASE C!DecWait
  BY <1>3 DEF C!DecWait, C!CondSleep
<1>4. CASE C!DecWake
  BY <1>4 DEF C!DecWake, C!CondResume, C!Lock
<1>5. CASE C!DecTake
  BY <1>5 DEF C!DecTake
<1>6. CASE C!DecUnlock
  BY <1>6 DEF C!DecUnlock, C!Unlock
<1>7. CASE C!DecSpurious
  BY <1>7 DEF C!DecSpurious, C!SpuriousWake
<1> QED
  BY <1>1, <1>2, <1>3, <1>4, <1>5, <1>6, <1>7 DEF C!Dec

\* The signalling thread keeps the invariant.
LEMMA CIncKeeps == CInv /\ C!Inc => CInv'
<1> SUFFICES ASSUME CInv, C!Inc PROVE CInv'
  OBVIOUS
<1> USE DEF CInv, C!TypeOK, CLockHeld, CHolding, CounterFollows, CUnborn, COwnSteps,
            C!SignalThenTake, C!Threads, C!MainSteps, C!ThreadSteps, C!Go, C!Alive,
            C!Nobody
<1>1. CASE C!IncLock
  BY <1>1 DEF C!IncLock, C!Lock
<1>2. CASE C!IncSignal
  <2>1. cWaiting' \subseteq cWaiting
    BY <1>2 DEF C!IncSignal, C!CondSignal
  <2> QED
    BY <1>2, <2>1 DEF C!IncSignal
<1>3. CASE C!IncAdd
  BY <1>3 DEF C!IncAdd
<1>4. CASE C!IncUnlock
  BY <1>4 DEF C!IncUnlock, C!Unlock
<1> QED
  BY <1>1, <1>2, <1>3, <1>4 DEF C!Inc

\* main keeps the invariant.
LEMMA CMainKeeps == CInv /\ C!Main => CInv'
<1> SUFFICES ASSUME CInv, C!Main PROVE CInv'
  OBVIOUS
<1> USE DEF CInv, C!TypeOK, CLockHeld, CHolding, CounterFollows, CUnborn, COwnSteps,
            C!SignalThenTake, C!Threads, C!MainSteps, C!ThreadSteps, C!Go, C!Alive,
            C!Nobody
<1>1. CASE C!Create("dec", "create_dec", "create_inc")
  BY <1>1 DEF C!Create
<1>2. CASE C!Create("inc", "create_inc", "join_dec")
  BY <1>2 DEF C!Create
<1>3. CASE C!CreateFails
  BY <1>3 DEF C!CreateFails
<1>4. CASE C!Join("dec", "join_dec", "join_inc")
  BY <1>4 DEF C!Join
<1>5. CASE C!Join("inc", "join_inc", "destroy")
  BY <1>5 DEF C!Join
<1>6. CASE C!MainDestroy
  BY <1>6 DEF C!MainDestroy
<1> QED
  BY <1>1, <1>2, <1>3, <1>4, <1>5, <1>6 DEF C!Main

LEMMA CStutterKeeps == CInv /\ UNCHANGED cVars => CInv'
  BY DEF CInv, C!TypeOK, CLockHeld, CHolding, CounterFollows, CUnborn,
         COwnSteps, C!SignalThenTake, cVars

\* The counter of test_thread_cond1.cpp is 0 or 1 at all times, although dec
\* decrements it after a wait that may end for no reason; and (the comment of
\* line 33) the signalling thread is done before the waiting one goes on.
THEOREM SignalFirst == MCSpec => []SignalThenTake
<1>1. MCInit => CInv
  BY CInitInv DEF MCInit
<1>2. CInv /\ [MCNext]_allVars => CInv'
  BY CDecKeeps, CIncKeeps, CMainKeeps, CStutterKeeps
     DEF MCNext, Counts, Waits, Flags, Meets, Times, allVars, C!Next
<1>3. CInv => SignalThenTake
  BY DEF CInv, SignalThenTake
<1> QED
  BY <1>1, <1>2, <1>3, PTL DEF MCSpec
-----------------------------------------------------------------------------
(* CondFlag *)

FHolding(t) ==
  IF t = "dec" THEN fAt[t] \in {"test", "wait", "work", "unlock"}
               ELSE fAt[t] \in {"signal", "unlock"}

\* A thread inside its critical region is the owner of the mutex; main never is.
FLockHeld == \A t \in F!Threads : FHolding(t) <=> fOwner = t

\* The steps of one thread are not steps of the other.
FOwnSteps ==
  /\ fAt["dec"] \in {"unborn", "lock", "test", "wait", "asleep", "work",
                     "unlock", "done"}
  /\ fAt["inc"] \in {"unborn", "lock", "signal", "unlock", "done"}

\* A thread that main has not created yet has done nothing.
FUnborn ==
  /\ fAt["main"] = "create_dec" => fAt["dec"] = "unborn"
  /\ fAt["main"] \in {"create_dec", "create_inc"} => fAt["inc"] = "unborn"

\* The flag that dec has seen stays set until dec itself clears it.
FlagStays == fAt["dec"] = "work" => flag

FInv == F!TypeOK /\ FLockHeld /\ FOwnSteps /\ FUnborn /\ FlagStays

LEMMA FInitInv == F!Init => FInv
  BY DEF F!Init, FInv, F!TypeOK, FLockHeld, FHolding, FOwnSteps, FUnborn, FlagStays,
         F!Threads, F!MainSteps, F!ThreadSteps, F!Nobody

\* A signal wakes at most the one waiter there can be.
LEMMA FSignalWakes == F!CondSignal => fWaiting' \subseteq fWaiting
  BY DEF F!CondSignal

\* The waiting thread keeps the invariant.
LEMMA FDecKeeps == FInv /\ (F!Dec \/ F!DecSpurious) => FInv'
<1> SUFFICES ASSUME FInv, F!Dec \/ F!DecSpurious PROVE FInv'
  OBVIOUS
<1> USE DEF FInv, F!TypeOK, FLockHeld, FHolding, FOwnSteps, FUnborn, FlagStays,
            F!Threads, F!MainSteps, F!ThreadSteps, F!Go, F!Nobody
<1>1. CASE F!DecLock
  BY <1>1 DEF F!DecLock, F!Lock
<1>2. CASE F!DecTest
  BY <1>2 DEF F!DecTest
<1>3. CASE F!DecWait
  BY <1>3 DEF F!DecWait, F!CondSleep
<1>4. CASE F!DecWake
  BY <1>4 DEF F!DecWake, F!CondResume, F!Lock
<1>5. CASE F!DecClear
  BY <1>5 DEF F!DecClear
<1>6. CASE F!DecUnlock
  BY <1>6 DEF F!DecUnlock, F!Unlock
<1>7. CASE F!DecSpurious
  BY <1>7 DEF F!DecSpurious, F!SpuriousWake
<1> QED
  BY <1>1, <1>2, <1>3, <1>4, <1>5, <1>6, <1>7 DEF F!Dec

\* The signalling thread keeps the invariant.
LEMMA FIncKeeps == FInv /\ F!Inc => FInv'
<1> SUFFICES ASSUME FInv, F!Inc PROVE FInv'
  OBVIOUS
<1> USE DEF FInv, F!TypeOK, FLockHeld, FHolding, FOwnSteps, FUnborn, FlagStays,
            F!Threads, F!MainSteps, F!ThreadSteps, F!Go, F!Nobody
<1>1. CASE F!IncLock
  BY <1>1 DEF F!IncLock, F!Lock
<1>2. CASE F!IncSignal
  BY <1>2, FSignalWakes DEF F!IncSignal
<1>3. CASE F!IncUnlock
  BY <1>3 DEF F!IncUnlock, F!Unlock
<1> QED
  BY <1>1, <1>2, <1>3 DEF F!Inc

\* main keeps the invariant, although it writes flag without the mutex.
LEMMA FMainKeeps == FInv /\ F!Main => FInv'
<1> SUFFICES ASSUME FInv, F!Main PROVE FInv'
  OBVIOUS
<1> USE DEF FInv, F!TypeOK, FLockHeld, FHolding, FOwnSteps, FUnborn, FlagStays,
            F!Threads, F!MainSteps, F!ThreadSteps, F!Go, F!Nobody
<1>1. CASE F!Create("dec", "create_dec", "create_inc")
  BY <1>1 DEF F!Create
<1>2. CASE F!Create("inc", "create_inc", "sleep")
  BY <1>2 DEF F!Create
<1>3. CASE F!MainSleep
  BY <1>3 DEF F!MainSleep
<1>4. CASE F!MainSetFlag
  BY <1>4 DEF F!MainSetFlag
<1>5. CASE F!MainSignal
  BY <1>5, FSignalWakes DEF F!MainSignal
<1>6. CASE F!Join("dec", "join_dec", "join_inc")
  BY <1>6 DEF F!Join
<1>7. CASE F!Join("inc", "join_inc", "destroy")
  BY <1>7 DEF F!Join
<1>8. CASE F!MainDestroy
  BY <1>8 DEF F!MainDestroy
<1> QED
  BY <1>1, <1>2, <1>3, <1>4, <1>5, <1>6, <1>7, <1>8 DEF F!Main

LEMMA FStutterKeeps == FInv /\ UNCHANGED fVars => FInv'
  BY DEF FInv, F!TypeOK, FLockHeld, FHolding, FOwnSteps, FUnborn, FlagStays, fVars

\* Line 23 of test_thread_cond.cpp: wherever its wake-up came from, dec works
\* under the mutex and finds the flag set.
THEOREM WorksUnderLock == MCSpec => []WorkUnderLock
<1>1. MCInit => FInv
  BY FInitInv DEF MCInit
<1>2. FInv /\ [MCNext]_allVars => FInv'
  BY FDecKeeps, FIncKeeps, FMainKeeps, FStutterKeeps
     DEF MCNext, Counts, Waits, Flags, Meets, Times, allVars, F!Next
<1>3. FInv => WorkUnderLock
  BY DEF FInv, FLockHeld, FHolding, FlagStays, WorkUnderLock, F!WorkUnderLock, F!Threads
<1> QED
  BY <1>1, <1>2, <1>3, PTL DEF MCSpec
=============================================================================
