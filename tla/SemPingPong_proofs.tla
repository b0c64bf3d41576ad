------------------------- MODULE SemPingPong_proofs -------------------------
(***************************************************************************)
(* The safety of SemPingPong for every N and every SEM_VALUE_MAX: the      *)
(* bodies exclude each other, no unit of the semaphore is lost, the        *)
(* semaphore is destroyed last, and the output alternates.                 *)
(***************************************************************************)
EXTENDS SemPingPong, TLAPS

\* A thread is in its body only while cnt says that it is its turn.
TurnHeld == \A t \in Threads : InBody(t) => cnt # Own(t)

\* How far pi is ahead of pc: cnt tells it, up to a body that has printed its
\* item and has not written cnt yet.
Lag ==
  /\ cnt = 0 => i["pi"] = i["pc"] + (IF at["pi"] = "set" THEN 1 ELSE 0)
  /\ cnt = 1 => i["pi"] + (IF at["pc"] = "set" THEN 1 ELSE 0) = i["pc"] + 1

\* A thread that may still print has an item left to print.
ItemsLeft ==
  \A t \in Threads :
    at[t] \in {"unborn", "wait", "test", "spin", "body"} => i[t] < N

\* Where main stands tells which threads exist and which have returned.
MainKnows ==
  /\ at["main"] = "create_pc" => at["pc"] = "unborn"
  /\ at["main"] \in {"create_pc", "create_pi"} => at["pi"] = "unborn"
  /\ at["main"] \in {"join_pi", "destroy", "done"} => at["pc"] = "done"
  /\ at["main"] \in {"destroy", "done"} => at["pi"] = "done"

IInv ==
  /\ TypeOK
  /\ TurnHeld
  /\ Lag
  /\ ItemsLeft
  /\ MainKnows
  /\ UnitNeverLost

USE ConstantsAssumption
-----------------------------------------------------------------------------
LEMMA InitIInv == Init => IInv
  BY DEF Init, IInv, TypeOK, TurnHeld, Lag, ItemsLeft, MainKnows,
         UnitNeverLost, InBody, Threads, MainSteps, ThreadSteps

\* What main does keeps the invariant.
LEMMA MainKeepsIInv == IInv /\ Main => IInv'
<1> SUFFICES ASSUME IInv, Main PROVE IInv'
  OBVIOUS
<1> USE DEF IInv, TypeOK, Threads, MainSteps, ThreadSteps
<1>1. CASE Create("pc", "create_pc", "create_pi")
  BY <1>1 DEF Create, TurnHeld, Lag, ItemsLeft, MainKnows, UnitNeverLost,
              Holders, InBody, Own
<1>2. CASE Create("pi", "create_pi", "join_pc")
  BY <1>2 DEF Create, TurnHeld, Lag, ItemsLeft, MainKnows, UnitNeverLost,
              Holders, InBody, Own
<1>3. CASE Join("pc", "join_pc", "join_pi")
  BY <1>3 DEF Join, Go, TurnHeld, Lag, ItemsLeft, MainKnows, UnitNeverLost,
              Holders, InBody, Own
<1>4. CASE Join("pi", "join_pi", "destroy")
  BY <1>4 DEF Join, Go, TurnHeld, Lag, ItemsLeft, MainKnows, UnitNeverLost,
              Holders, InBody, Own
<1>5. CASE SemDestroy
  BY <1>5 DEF SemDestroy, Go, TurnHeld, Lag, ItemsLeft, MainKnows,
              UnitNeverLost, Holders, InBody, Own
<1> QED
  BY <1>1, <1>2, <1>3, <1>4, <1>5 DEF Main

\* What a thread does keeps the invariant.
LEMMA ThreadKeepsIInv ==
  ASSUME IInv, NEW t \in Threads, Thread(t)
  PROVE  IInv'
<1> USE DEF IInv, TypeOK, Threads, MainSteps, ThreadSteps
<1>1. CASE SemWait(t)
  BY <1>1 DEF SemWait, Go, TurnHeld, Lag, ItemsLeft, MainKnows,
              UnitNeverLost, Holders, InBody, Own
<1>2. CASE TestCnt(t)
  BY <1>2 DEF TestCnt, Go, TurnHeld, Lag, ItemsLeft, MainKnows,
              UnitNeverLost, Holders, InBody, Own
<1>3. CASE SpinPost(t)
  BY <1>3 DEF SpinPost, SemPost, Go, TurnHeld, Lag, ItemsLeft, MainKnows,
              UnitNeverLost, Holders, InBody, Own
<1>4. CASE PrintItem(t)
  BY <1>4 DEF PrintItem, Go, TurnHeld, Lag, ItemsLeft, MainKnows,
              UnitNeverLost, Holders, InBody, Own
<1>5. CASE SetCnt(t)
  BY <1>5 DEF SetCnt, Go, TurnHeld, Lag, ItemsLeft, MainKnows,
              UnitNeverLost, Holders, InBody, Own
<1>6. CASE LastPost(t)
  BY <1>6 DEF LastPost, SemPost, Go, TurnHeld, Lag, ItemsLeft, MainKnows,
              UnitNeverLost, Holders, InBody, Own
<1> QED
  BY <1>1, <1>2, <1>3, <1>4, <1>5, <1>6 DEF Thread

\* IInv is an inductive invariant of every step and of every stutter.
LEMMA NextKeepsIInv == IInv /\ [Next]_vars => IInv'
<1>1. IInv /\ UNCHANGED vars => IInv'
  BY DEF IInv, TypeOK, TurnHeld, Lag, ItemsLeft, MainKnows, UnitNeverLost,
         Holders, InBody, vars
<1> QED
  BY <1>1, MainKeepsIInv, ThreadKeepsIInv DEF Next, Exited

\* The invariant everything else is read off.
THEOREM Invariant == SafeSpec => []IInv
  BY InitIInv, NextKeepsIInv, PTL DEF SafeSpec
-----------------------------------------------------------------------------
\* Types, and with i in 0 .. N: a[] and arr[] are never read past their end.
THEOREM TypeCorrect == SafeSpec => []TypeOK
<1>1. IInv => TypeOK
  BY DEF IInv
<1> QED
  BY <1>1, Invariant, PTL

\* The two bodies (lines 25-27 and 44-46) exclude each other.
THEOREM MutualExclusion == SafeSpec => []BodiesExclude
<1>1. IInv => BodiesExclude
  BY DEF IInv, TypeOK, TurnHeld, BodiesExclude, Threads, Own
<1> QED
  BY <1>1, Invariant, PTL

\* s1 = 0 only while some thread owes a post.
THEOREM UnitKept == SafeSpec => []UnitNeverLost
<1>1. IInv => UnitNeverLost
  BY DEF IInv
<1> QED
  BY <1>1, Invariant, PTL

\* sem_destroy (line 63) comes after both threads have returned.
THEOREM DestroyLast == SafeSpec => []DestroyedUnused
<1>1. IInv => DestroyedUnused
  BY DEF IInv, MainKnows, DestroyedUnused, Threads
<1> QED
  BY <1>1, Invariant, PTL
-----------------------------------------------------------------------------
\* The initial states are initial states of strict alternation.
LEMMA InitAlternates == Init => Turns!Init
  BY DEF Init, Turns!Init, Threads

\* Every step is a turn of strict alternation or leaves the counts alone.
LEMMA StepAlternates == IInv /\ [Next]_vars => [Turns!Next]_i
<1> SUFFICES ASSUME IInv, [Next]_vars PROVE Turns!Next \/ UNCHANGED i
  OBVIOUS
<1>1. ASSUME NEW t \in Threads, PrintItem(t) PROVE Turns!Next
  <2> USE <1>1 DEF IInv, TypeOK, PrintItem, Go, TurnHeld, Lag, ItemsLeft,
                   InBody, Own, Threads
  <2>1. CASE t = "pi"
    <3>1. cnt = 0 /\ i["pi"] = i["pc"] /\ i["pi"] < N
      BY <2>1
    <3> QED
      BY <2>1, <3>1 DEF Turns!Next, Turns!LeaderTurn, Turns!Serve
  <2>2. CASE t = "pc"
    <3>1. cnt = 1 /\ i["pi"] = i["pc"] + 1
      BY <2>2
    <3> QED
      BY <2>2, <3>1 DEF Turns!Next, Turns!FollowerTurn, Turns!Serve
  <2> QED
    BY <2>1, <2>2
<1>2. ASSUME NEW t \in Threads, Thread(t), ~PrintItem(t) PROVE UNCHANGED i
  BY <1>2 DEF Thread, SemWait, TestCnt, SpinPost, SetCnt, LastPost
<1>3. CASE Main
  BY <1>3 DEF Main, Create, Join, SemDestroy
<1>4. CASE Exited \/ UNCHANGED vars
  BY <1>4 DEF Exited, vars
<1> QED
  BY <1>1, <1>2, <1>3, <1>4 DEF Next

\* Letters and digits alternate strictly, digit first, whatever the
\* interleaving and however high the inner loops push s1.
THEOREM Alternates == SafeSpec => Turns!SafeSpec
  BY InitAlternates, StepAlternates, Invariant, PTL DEF SafeSpec, Turns!SafeSpec
=============================================================================
