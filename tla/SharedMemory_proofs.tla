------------------------- MODULE SharedMemory_proofs -------------------------
(***************************************************************************)
(* The safety of SharedMemory for any number of rounds: types, no counter  *)
(* ahead of the increments made whatever the interleaving, and nothing     *)
(* lost where the sleeps keep the rounds apart.                            *)
(***************************************************************************)
EXTENDS MCLocalIpc, TLAPS

\* Only a process that is storing has fields left to store.
StoringOnly == \A p \in M!Procs : mAt[p] # "store" => unset[p] = {}

\* A process in the middle of a round has a round left to finish.
RoundLeft ==
  \A p \in M!Procs :
    mAt[p] \in {"check", "drop", "take", "unlink", "open", "store"} =>
      round[p] < Rounds

IInv == M!TypeOK /\ StoringOnly /\ RoundLeft /\ M!NeverAhead

USE RoundsAssumption
-----------------------------------------------------------------------------
LEMMA InitIInv == M!Init => IInv
  BY DEF M!Init, IInv, M!TypeOK, M!Message, StoringOnly, RoundLeft, M!NeverAhead,
         M!Procs, M!Objects, M!None, M!Zeroed

\* An object is left for a new message: only one other can be mapped.
LEMMA FreeObject ==
  ASSUME NEW m
  PROVE  M!Fresh(m) \in M!Objects
<1>1. \E o \in M!Objects : o # m
  <2>1. 1 \in M!Objects /\ 2 \in M!Objects
    BY DEF M!Objects
  <2> QED
    BY <2>1
<1> QED
  BY <1>1 DEF M!Fresh

\* Reading keeps the invariant.
LEMMA ReadKeepsIInv ==
  ASSUME IInv, NEW p \in M!Procs,
         M!OpenToRead(p) \/ M!CheckPid(p) \/ M!Drop(p) \/ M!Take(p) \/ M!Unlink(p)
  PROVE  IInv'
<1> USE DEF IInv, M!TypeOK, M!Message, StoringOnly, RoundLeft, M!NeverAhead, M!Objects,
            M!None, M!Go
<1>1. CASE M!OpenToRead(p)
  BY <1>1 DEF M!OpenToRead
<1>2. CASE M!CheckPid(p)
  BY <1>2 DEF M!CheckPid
<1>3. CASE M!Drop(p)
  BY <1>3 DEF M!Drop
<1>4. CASE M!Take(p)
  <2>1. map[p] \in M!Objects /\ objects[map[p]].counter \in 0 .. stores
    BY <1>4 DEF M!Take
  <2> QED
    BY <1>4, <2>1 DEF M!Take
<1>5. CASE M!Unlink(p)
  BY <1>5 DEF M!Unlink
<1> QED
  BY <1>1, <1>2, <1>3, <1>4, <1>5

\* Opening for writing keeps the invariant: the increment is not stored yet.
LEMMA OpenToWriteKeepsIInv ==
  ASSUME IInv, NEW p \in M!Procs, M!OpenToWrite(p)
  PROVE  IInv'
<1> USE DEF IInv, M!TypeOK, M!Go
<1>1. name' \in M!Objects /\ objects' \in [M!Objects -> M!Message]
      /\ \A o \in M!Objects : objects'[o].counter <= stores
  <2>1. CASE name # M!None
    <3>1. name' = name /\ objects' = objects
      BY <2>1 DEF M!OpenToWrite
    <3>2. name \in M!Objects /\ objects \in [M!Objects -> M!Message]
      BY <2>1 DEF M!Objects, M!None
    <3>3. \A o \in M!Objects : objects[o].counter <= stores
      BY DEF M!NeverAhead
    <3> QED
      BY <3>1, <3>2, <3>3
  <2>2. CASE name = M!None
    <3>1. name' \in M!Objects
      BY <2>2, FreeObject DEF M!OpenToWrite
    <3>2. objects' = [objects EXCEPT ![name'] = M!Zeroed]
      BY <2>2 DEF M!OpenToWrite
    <3> QED
      BY <3>1, <3>2 DEF M!Zeroed, M!Message, M!NeverAhead
  <2> QED
    BY <2>1, <2>2
<1>2. M!NeverAhead'
  BY <1>1 DEF M!OpenToWrite, M!NeverAhead, StoringOnly
<1>3. M!TypeOK'
  BY <1>1 DEF M!OpenToWrite, M!Objects, M!None
<1>4. StoringOnly' /\ RoundLeft'
  BY DEF M!OpenToWrite, StoringOnly, RoundLeft
<1> QED
  BY <1>2, <1>3, <1>4

\* A store keeps the invariant: a counter that is stored counts.
LEMMA StoreKeepsIInv ==
  ASSUME IInv, NEW p \in M!Procs, NEW field \in {"pid", "counter"}, M!Store(p, field)
  PROVE  IInv'
<1> USE DEF IInv, M!TypeOK
<1>1. map[p] \in M!Objects /\ round[p] < Rounds
  BY DEF M!Store, RoundLeft, M!None
<1>2. objects' \in [M!Objects -> M!Message] /\ stores' \in Nat
  BY <1>1 DEF M!Store, M!Message, M!Tag
<1>3. M!TypeOK'
  BY <1>1, <1>2 DEF M!Store, M!EndRound, M!None
<1>4. StoringOnly' /\ RoundLeft'
  BY DEF M!Store, M!EndRound, StoringOnly, RoundLeft
<1>5. M!NeverAhead'
  <2>1. CASE field = "pid"
    <3>1. /\ stores' = stores /\ value' = value
          /\ \A o \in M!Objects : objects'[o].counter = objects[o].counter
      BY <1>1, <2>1 DEF M!Store, M!EndRound, M!Message
    <3>2. \A q \in M!Procs : "counter" \in unset[q] => "counter" \in unset'[q]
      BY <2>1 DEF M!Store
    <3>3. stores \in Nat /\ \A q \in M!Procs : value[q] \in Nat
      OBVIOUS
    <3> QED
      BY <3>1, <3>2, <3>3 DEF M!NeverAhead
  <2>2. CASE field = "counter"
    <3>1. value[p] <= stores + 1 /\ stores' = stores + 1
      BY <2>2 DEF M!Store, M!NeverAhead
    <3>2. objects' = [objects EXCEPT ![map[p]].counter = value[p]]
      BY <2>2 DEF M!Store
    <3>3. \A o \in M!Objects : objects'[o].counter <= stores'
      BY <1>1, <3>1, <3>2 DEF M!NeverAhead, M!Message
    <3>4. unset' = [unset EXCEPT ![p] = @ \ {field}] /\ value' = value
      BY DEF M!Store, M!EndRound
    <3>5. ASSUME NEW q \in M!Procs
          PROVE  value'[q] <= stores' + (IF "counter" \in unset'[q] THEN 1 ELSE 0)
      <4>1. stores \in Nat /\ value[q] \in Nat
        OBVIOUS
      <4>2. value[q] <= stores + 1
        BY <4>1 DEF M!NeverAhead
      <4> QED
        BY <3>1, <3>4, <4>1, <4>2
    <3> QED
      BY <3>3, <3>5 DEF M!NeverAhead
  <2> QED
    BY <2>1, <2>2
<1> QED
  BY <1>3, <1>4, <1>5

\* The end of a process keeps the invariant.
LEMMA ExitKeepsIInv == IInv /\ (M!ChildExits \/ M!ParentExits) => IInv'
  BY DEF IInv, M!TypeOK, StoringOnly, RoundLeft, M!NeverAhead, M!ChildExits,
         M!ParentExits, M!Go, M!Procs

LEMMA StutterKeepsIInv == IInv /\ UNCHANGED mVars => IInv'
  BY DEF IInv, M!TypeOK, StoringOnly, RoundLeft, M!NeverAhead, mVars

LEMMA NextKeepsIInv == IInv /\ [M!Next]_mVars => IInv'
<1> SUFFICES ASSUME IInv, [M!Next]_mVars PROVE IInv'
  OBVIOUS
<1>1. ASSUME NEW p \in M!Procs, M!Step(p) PROVE IInv'
  BY <1>1, ReadKeepsIInv, OpenToWriteKeepsIInv, StoreKeepsIInv DEF M!Step
<1> QED
  BY <1>1, ExitKeepsIInv, StutterKeepsIInv DEF M!Next, M!Parent, M!Child, M!Procs

LEMMA MCInitial == MCInit => M!Init
  BY DEF MCInit

LEMMA MCStep == [MCNext]_allVars => [M!Next]_mVars
  BY DEF MCNext, ByPipe, BySocket, ByMemory, allVars, mVars

\* Whatever the interleaving, no counter in any object, nor the value a process
\* works with, is ahead of the number of increments stored.
THEOREM NeverAheadOfStores == MCSpec => []NeverAhead
<1>1. MCInit => IInv
  BY MCInitial, InitIInv
<1>2. IInv /\ [MCNext]_allVars => IInv'
  BY MCStep, NextKeepsIInv
<1>3. IInv => NeverAhead
  BY DEF IInv, NeverAhead
<1> QED
  BY <1>1, <1>2, <1>3, PTL DEF MCSpec
-----------------------------------------------------------------------------
(* Sleeps that work *)

\* Whose round it is, and the rounds finished by both.
Turn == IF round["parent"] = round["child"] THEN "parent" ELSE "child"
Sum == round["parent"] + round["child"]

\* The parent is level with the child or one round ahead; only the process
\* whose turn it is stands inside a round, and each ends after its rounds.
Orderly ==
  /\ round["parent"] = round["child"] \/ round["parent"] = round["child"] + 1
  /\ \A p \in M!Procs :
       /\ mAt[p] \in {"rest", "check", "take", "unlink", "open", "store", "exit0", "done"}
       /\ mAt[p] \in {"check", "take", "unlink", "open", "store"} => p = Turn
       /\ mAt[p] \in {"exit0", "done"} => round[p] = Rounds
  /\ mAt["parent"] # "exit0" /\ mAt["child"] # "done"

\* Until it is unlinked the object with the name holds the number of messages
\* so far, signed by the one whose turn it is not.
Ready ==
  mAt[Turn] \in {"rest", "check", "take", "unlink", "exit0", "done"} =>
    /\ name # M!None
    /\ objects[name].counter = Sum
    /\ objects[name].pid # M!Tag(Turn)
    /\ stores = Sum

\* What a process knows in the middle of its round.
Halfway ==
  LET t == Turn
  IN  /\ mAt[t] \in {"check", "take", "store"} => map[t] = name
      /\ mAt[t] \in {"unlink", "open"} => value[t] = Sum
      /\ mAt[t] = "open" => name = M!None /\ stores = Sum
      /\ mAt[t] = "store" =>
           /\ name # M!None
           /\ unset[t] # {}
           /\ value[t] = Sum + 1
           /\ "counter" \in unset[t] => stores = Sum
           /\ "counter" \notin unset[t] => stores = Sum + 1 /\ objects[name].counter = Sum + 1
           /\ "pid" \notin unset[t] => objects[name].pid = M!Tag(t)

PacedInv == IInv /\ (paced => Orderly /\ Ready /\ Halfway)
LEMMA InitPaced == M!Init => PacedInv
  BY InitIInv DEF M!Init, PacedInv, Orderly, Ready, Halfway, Turn, Sum, M!Tag, M!Procs,
                  M!Objects, M!None

\* A process inside a round is the one whose turn it is, and the other is not.
LEMMA TurnTaken ==
  ASSUME PacedInv, paced, NEW p \in M!Procs, M!Step(p)
  PROVE  p = Turn /\ M!Other(p) # Turn /\ M!Other(p) \in M!Procs /\ M!Other(p) # p
<1>1. p = Turn
  <2>1. CASE M!OpenToRead(p)
    BY <2>1 DEF M!OpenToRead, M!InTurn, PacedInv, Orderly, IInv, M!TypeOK, M!Procs, M!Other, Turn
  <2>2. CASE ~M!OpenToRead(p)
    BY <2>2 DEF M!Step, M!CheckPid, M!Drop, M!Take, M!Unlink, M!OpenToWrite, M!Store, M!Go,
                PacedInv, Orderly
  <2> QED
    BY <2>1, <2>2
<1> QED
  BY <1>1 DEF M!Procs, M!Other

\* Reading and unlinking in turn finds the message of the other process.
LEMMA ReadInTurn ==
  ASSUME PacedInv, paced, NEW p \in M!Procs, p = Turn, M!Other(p) \in M!Procs, M!Other(p) # p,
         M!OpenToRead(p) \/ M!CheckPid(p) \/ M!Drop(p) \/ M!Take(p) \/ M!Unlink(p)
  PROVE  Orderly' /\ Ready' /\ Halfway'
<1> USE DEF PacedInv, IInv, M!TypeOK, M!Procs
<1>1. ~M!Drop(p)
  BY DEF M!Drop, M!Go, Orderly
<1>2. UNCHANGED <<round, stores, objects, unset>> /\ Turn' = Turn /\ Sum' = Sum
  BY <1>1 DEF M!OpenToRead, M!CheckPid, M!Take, M!Unlink, Turn, Sum
<1>3. CASE M!OpenToRead(p)
  BY <1>2, <1>3 DEF M!OpenToRead, M!Go, Orderly, Ready, Halfway
<1>4. CASE M!CheckPid(p)
  BY <1>2, <1>4 DEF M!CheckPid, M!Go, Orderly, Ready, Halfway
<1>5. CASE M!Take(p)
  BY <1>2, <1>5 DEF M!Take, M!Go, Orderly, Ready, Halfway
<1>6. CASE M!Unlink(p)
  BY <1>2, <1>6 DEF M!Unlink, M!Go, Orderly, Ready, Halfway
<1> QED
  BY <1>1, <1>3, <1>4, <1>5, <1>6

\* The name is free when it is opened for writing: the object is new.
LEMMA OpenInTurn ==
  ASSUME PacedInv, paced, NEW p \in M!Procs, p = Turn, M!Other(p) \in M!Procs, M!Other(p) # p,
         M!OpenToWrite(p)
  PROVE  Orderly' /\ Ready' /\ Halfway'
<1> USE DEF PacedInv, IInv, M!TypeOK, M!Procs
<1>1. UNCHANGED <<round, stores>> /\ Turn' = Turn /\ Sum' = Sum
  BY DEF M!OpenToWrite, Turn, Sum
<1>2. name' \in M!Objects /\ map'[p] = name'
  <2>1. name = M!None
    BY DEF M!OpenToWrite, M!Go, Halfway
  <2> QED
    BY <2>1, FreeObject DEF M!OpenToWrite
<1>3. value'[p] = Sum + 1 /\ stores = Sum /\ unset'[p] = {"pid", "counter"}
  BY DEF M!OpenToWrite, M!Go, Halfway, Sum
<1> QED
  BY <1>1, <1>2, <1>3 DEF M!OpenToWrite, M!Go, Orderly, Ready, Halfway, M!None, M!Objects

\* The two stores, in either order, make the message that the other one waits
\* for; the second ends the round and the turn passes on.
LEMMA StoreInTurn ==
  ASSUME PacedInv, paced, NEW p \in M!Procs, p = Turn, M!Other(p) \in M!Procs, M!Other(p) # p,
         NEW field \in {"pid", "counter"}, M!Store(p, field)
  PROVE  Orderly' /\ Ready' /\ Halfway'
<1> USE DEF PacedInv, IInv, M!TypeOK, M!Procs
<1>1. /\ mAt[p] = "store" /\ map[p] = name /\ name \in M!Objects /\ field \in unset[p]
      /\ value[p] = Sum + 1 /\ Sum \in Nat
      /\ UNCHANGED name
  <2>1. mAt[p] = "store" /\ field \in unset[p] /\ UNCHANGED name
    BY DEF M!Store, M!EndRound
  <2> QED
    BY <2>1 DEF Halfway, Sum, M!None
<1>2. /\ field = "pid" => /\ objects'[name].pid = M!Tag(p)
                          /\ objects'[name].counter = objects[name].counter
                          /\ stores' = stores
      /\ field = "counter" => /\ objects'[name].counter = Sum + 1
                              /\ objects'[name].pid = objects[name].pid
                              /\ stores' = stores + 1
  BY <1>1 DEF M!Store, M!Message
<1>3. CASE unset'[p] # {}
  <2>1. UNCHANGED <<mAt, map, value, round>> /\ Turn' = Turn /\ Sum' = Sum
    BY <1>3 DEF M!Store, Turn, Sum
  <2>2. unset' = [unset EXCEPT ![p] = @ \ {field}]
    BY DEF M!Store
  <2> QED
    BY <1>1, <1>2, <1>3, <2>1, <2>2 DEF Orderly, Ready, Halfway
<1>4. CASE unset'[p] = {}
  <2>1. /\ mAt' = [mAt EXCEPT ![p] = "rest"]
        /\ round' = [round EXCEPT ![p] = @ + 1]
        /\ unset[p] = {field}
    BY <1>4 DEF M!Store, M!EndRound
  <2>2. Turn' = M!Other(p) /\ Sum' = Sum + 1
    BY <2>1 DEF Orderly, Turn, Sum, M!Other
  <2>3. stores' = Sum + 1 /\ objects'[name].counter = Sum + 1 /\ objects'[name].pid = M!Tag(p)
    BY <1>1, <1>2, <2>1 DEF Halfway
  <2>4. M!Tag(p) # M!Tag(M!Other(p))
    BY DEF M!Tag, M!Other
  <2>5. Orderly'
    BY <1>1, <2>1, <2>2 DEF Orderly, Turn, M!Other
  <2>6. mAt'[M!Other(p)] \in {"rest", "exit0", "done"}
    BY <1>1, <2>1 DEF Orderly
  <2> QED
    BY <1>1, <2>2, <2>3, <2>4, <2>5, <2>6 DEF Ready, Halfway, M!None, M!Objects
<1> QED
  BY <1>3, <1>4

LEMMA ExitInTurn ==
  ASSUME PacedInv, paced, M!ChildExits \/ M!ParentExits
  PROVE  Orderly' /\ Ready' /\ Halfway'
<1>1. Turn' = Turn /\ Sum' = Sum /\ Turn \in M!Procs
  BY DEF M!ChildExits, M!ParentExits, Turn, Sum, M!Procs
<1> USE DEF M!Go, PacedInv, IInv, M!TypeOK, M!Procs
<1>2. CASE M!ChildExits
  <2>1. Orderly'
    BY <1>1, <1>2 DEF M!ChildExits, Orderly
  <2>2. mAt'[Turn] = mAt[Turn] \/ (mAt[Turn] = "rest" /\ mAt'[Turn] = "exit0")
    BY <1>2 DEF M!ChildExits
  <2> QED
    BY <1>1, <1>2, <2>1, <2>2 DEF M!ChildExits, Ready, Halfway
<1>3. CASE M!ParentExits
  <2>1. Orderly'
    BY <1>1, <1>3 DEF M!ParentExits, Orderly
  <2>2. mAt'[Turn] = mAt[Turn] \/ (mAt[Turn] = "rest" /\ mAt'[Turn] = "done")
    BY <1>3 DEF M!ParentExits
  <2> QED
    BY <1>1, <1>3, <2>1, <2>2 DEF M!ParentExits, Ready, Halfway
<1> QED
  BY <1>2, <1>3

LEMMA NextKeepsPaced == PacedInv /\ [M!Next]_mVars => PacedInv'
<1> SUFFICES ASSUME PacedInv, [M!Next]_mVars PROVE PacedInv'
  OBVIOUS
<1>1. IInv'
  BY NextKeepsIInv DEF PacedInv
<1>2. ASSUME paced' PROVE Orderly' /\ Ready' /\ Halfway'
  <2>1. paced
    BY <1>2 DEF M!Next, M!Parent, M!Child, M!Step, M!OpenToRead, M!CheckPid, M!Drop, M!Take, M!Unlink,
                M!OpenToWrite, M!Store, M!EndRound, M!ChildExits, M!ParentExits, mVars
  <2>2. ASSUME NEW p \in M!Procs, M!Step(p) PROVE Orderly' /\ Ready' /\ Halfway'
    BY <2>1, <2>2, TurnTaken, ReadInTurn, OpenInTurn, StoreInTurn DEF M!Step
  <2>3. CASE UNCHANGED mVars
    BY <2>1, <2>3 DEF mVars, PacedInv, Orderly, Ready, Halfway, Turn, Sum
  <2> QED
    BY <2>1, <2>2, <2>3, ExitInTurn DEF M!Next, M!Parent, M!Child, M!Procs
<1> QED
  BY <1>1, <1>2 DEF PacedInv

\* With sleeps that keep the rounds apart and in turn, for any number of rounds,
\* every read finds the other's message and the last counter is the number of
\* all messages.
THEOREM PacedExact == MCSpec => []PacedIsExact
<1>1. MCInit => PacedInv
  BY MCInitial, InitPaced
<1>2. PacedInv /\ [MCNext]_allVars => PacedInv'
  BY MCStep, NextKeepsPaced
<1>3. PacedInv => PacedIsExact
  BY DEF PacedInv, IInv, M!TypeOK, Orderly, Ready, Halfway, PacedIsExact, M!PacedIsExact,
         Turn, Sum, M!Ended, M!Procs
<1> QED
  BY <1>1, <1>2, <1>3, PTL DEF MCSpec
=============================================================================
