--------------------------- MODULE LocalIpc_proofs ---------------------------
(***************************************************************************)
(* The safety of the two local IPC programs, whoever is killed and when.   *)
(* NamedPipe, for any number of rounds: letters and answers alternate      *)
(* strictly, and an answer is never that of another letter.  UnixSocket    *)
(* (U): each greeting answers the other side's, and an end of file passes  *)
(* for one only after a death.                                             *)
(***************************************************************************)
EXTENDS MCLocalIpc, SequenceTheorems, TLAPS

Before == {"unborn", "mkfifo", "fork", "open1", "opening1", "open2", "opening2"}
Loop == {"next", "read", "write", "close"}
After == {"wait", "cleanup", "exit0", "done", "failed", "killed"}

\* The letter of a round, small or, as its answer, upper case.
Small(k) == [n |-> k, upper |-> FALSE]
Capital(k) == [n |-> k, upper |-> TRUE]

\* The contents of a FIFO: nothing, or one message.
Empty == <<>>
One(m) == <<m>>

\* What a process has open follows from where it stands.
OpenedAsFar ==
  \A p \in Procs :
    /\ at[p] \in Before \cup Loop \cup After
    /\ at[p] \in {"opening1", "open2"} => opened[p] = {"pipe1"}
    /\ at[p] \in {"opening2"} \cup Loop => opened[p] = Fifos
    /\ at[p] \in {"unborn", "mkfifo", "fork", "open1"} \cup After => opened[p] = {}

\* Both processes enter their loops in one step; what happens before that
\* leaves no message and no served letter behind.
EnterTogether ==
  /\ \A p \in Procs : at[p] \in Before =>
       /\ at[Other(p)] \in Before \cup {"killed", "failed"}
       /\ \A q \in Procs : served[q] = 0
       /\ \A f \in Fifos : pipe[f] = Empty
  /\ at["parent"] \in {"mkfifo", "fork", "failed"} => at["child"] = "unborn"
  /\ at["parent"] \notin {"unborn", "exit0"}
  /\ at["child"] \notin {"mkfifo", "fork", "wait", "cleanup", "done", "failed"}

\* The parent is level with the child or one letter ahead, and it goes on from a
\* letter without its answer only if the child has been killed.
InStep ==
  /\ served["parent"] \in {served["child"], served["child"] + 1}
  /\ served["parent"] # served["child"] =>
       at["parent"] \in {"read", "killed"} \/ at["child"] = "killed"

\* A message under way is the last letter of the parent or its answer.
UnderWay ==
  /\ pipe["pipe1"] # Empty =>
       /\ pipe["pipe1"] = One(Small(served["parent"] - 1))
       /\ served["parent"] = served["child"] + 1
       /\ at["child"] \in {"next", "read", "killed"}
  /\ pipe["pipe2"] # Empty =>
       /\ pipe["pipe2"] = One(Capital(served["child"] - 1))
       /\ served["parent"] = served["child"]
       /\ at["parent"] \in {"read", "killed"}

\* What the parent holds: the letter to send, the letter sent, or AnswerFits.
ParentHolds ==
  /\ at["parent"] = "write" =>
       /\ served["parent"] < Rounds
       /\ msg["parent"] = Small(served["parent"])
  /\ at["parent"] = "read" =>
       /\ served["parent"] > 0
       /\ msg["parent"] = Small(served["parent"] - 1)
       /\ served["parent"] = served["child"] => pipe["pipe2"] # Empty

\* What the child holds: nothing, the answer it owes, or Junk that it can write
\* to nobody any more.
ChildHolds ==
  /\ at["child"] = "read" => served["child"] < Rounds /\ msg["child"] = Junk
  /\ at["child"] = "write" =>
       \/ /\ msg["child"] = Capital(served["child"])
          /\ served["parent"] = served["child"] + 1
          /\ pipe["pipe1"] = Empty
       \/ at["parent"] \in After /\ msg["child"] = Junk
  /\ at["child"] \in {"close", "exit0"} => served["child"] = Rounds
  /\ at["parent"] \in {"close", "wait", "cleanup", "done"} => served["parent"] = Rounds

\* The types that TypeOK leaves to the shape of the messages.
Shape ==
  /\ exists \subseteq Fifos
  /\ opened \in [Procs -> SUBSET Fifos]
  /\ at \in [Procs -> Before \cup Loop \cup After]
  /\ msg \in [Procs -> Letters \cup {Junk}]
  /\ served \in [Procs -> 0 .. Rounds]
  /\ pipe \in [Fifos -> Seq(Letters)]
  /\ killable \in Procs \cup {"nobody"}

IInv ==
  /\ Shape
  /\ OpenedAsFar
  /\ EnterTogether
  /\ InStep
  /\ UnderWay
  /\ ParentHolds
  /\ ChildHolds
  /\ AnswerFits
-----------------------------------------------------------------------------
LEMMA InitIInv == Init => IInv
  BY RoundsAssumption
  DEF Init, IInv, Shape, OpenedAsFar, EnterTogether, InStep, UnderWay, ParentHolds,
      ChildHolds, AnswerFits, Before, Loop, After, Procs, Fifos, Junk, Letters, Other, Empty

\* A letter of a round is a letter, and not Junk.
LEMMA LetterFacts ==
  ASSUME NEW k \in 0 .. Rounds - 1
  PROVE  /\ Small(k) \in Letters /\ Small(k).n = k /\ Upper(Small(k)) = Capital(k)
         /\ Capital(k) \in Letters /\ Capital(k).n = k /\ Capital(k).upper
<1>1. /\ Small(k) \in Letters /\ Small(k).n = k /\ Small(k) # Junk
      /\ Capital(k) \in Letters /\ Capital(k).n = k /\ Capital(k).upper
  BY RoundsAssumption DEF Small, Capital, Letters, Junk
<1> QED
  BY <1>1 DEF Upper, Small, Capital

\* The messages as sequences: one comes and one goes.
LEMMA OneMessage ==
  ASSUME NEW S, NEW m \in S
  PROVE  /\ Append(Empty, m) = One(m) /\ Head(One(m)) = m /\ Tail(One(m)) = Empty
         /\ One(m) \in Seq(S) /\ Empty \in Seq(S) /\ One(m) # Empty
  BY DEF Empty, One

\* Before the loops, and after the parent's, nothing is under way.
LEMMA MainKeeps ==
  ASSUME IInv, MakeFifos \/ StartFails \/ Fork \/ Wait \/ CleanUp
  PROVE  IInv'
<1> USE RoundsAssumption DEF IInv, Shape, Procs, Other, Go
<1>1. CASE MakeFifos
  <2>1. Shape'
    BY <1>1 DEF Before, Loop, After, Fifos, MakeFifos
  <2>2. OpenedAsFar'
    BY <1>1 DEF OpenedAsFar, Before, Loop, After, Fifos, MakeFifos, EnterTogether
  <2>3. EnterTogether'
    BY <1>1 DEF EnterTogether, OpenedAsFar, Before, Loop, After, Fifos, MakeFifos
  <2>4. InStep'
    BY <1>1 DEF InStep, EnterTogether, Before, Loop, After, MakeFifos
  <2>5. UnderWay'
    BY <1>1 DEF UnderWay, EnterTogether, Before, Loop, After, Fifos, MakeFifos
  <2>6. ParentHolds'
    BY <1>1 DEF ParentHolds, EnterTogether, Before, Loop, After, Fifos, MakeFifos
  <2>7. ChildHolds'
    BY <1>1 DEF ChildHolds, EnterTogether, Before, Loop, After, Fifos, MakeFifos, OpenedAsFar
  <2>8. AnswerFits'
    BY <1>1 DEF AnswerFits, EnterTogether, Before, Loop, After, MakeFifos
  <2> QED
    BY <2>1, <2>2, <2>3, <2>4, <2>5, <2>6, <2>7, <2>8 DEF IInv
<1>2. CASE StartFails
  <2>1. Shape'
    BY <1>2 DEF Before, Loop, After, Fifos, StartFails
  <2>2. OpenedAsFar'
    BY <1>2 DEF OpenedAsFar, Before, Loop, After, Fifos, StartFails, EnterTogether
  <2>3. EnterTogether'
    <3>1. at["parent"] \in {"mkfifo", "fork"} /\ at' = [at EXCEPT !["parent"] = "failed"]
          /\ UNCHANGED <<opened, pipe, served>>
      BY <1>2 DEF StartFails
    <3> QED
      BY <3>1 DEF EnterTogether, Before, Loop, After
  <2>4. InStep'
    BY <1>2 DEF InStep, EnterTogether, Before, Loop, After, StartFails
  <2>5. UnderWay'
    BY <1>2 DEF UnderWay, EnterTogether, Before, Loop, After, Fifos, StartFails
  <2>6. ParentHolds'
    BY <1>2 DEF ParentHolds, EnterTogether, Before, Loop, After, Fifos, StartFails
  <2>7. ChildHolds'
    BY <1>2 DEF ChildHolds, EnterTogether, Before, Loop, After, Fifos, StartFails, OpenedAsFar
  <2>8. AnswerFits'
    BY <1>2 DEF AnswerFits, EnterTogether, Before, Loop, After, StartFails
  <2> QED
    BY <2>1, <2>2, <2>3, <2>4, <2>5, <2>6, <2>7, <2>8 DEF IInv
<1>3. CASE Fork
  <2>1. Shape'
    BY <1>3 DEF Before, Loop, After, Fifos, Fork
  <2>2. OpenedAsFar'
    BY <1>3 DEF OpenedAsFar, Before, Loop, After, Fifos, Fork, EnterTogether
  <2>3. EnterTogether'
    BY <1>3 DEF EnterTogether, OpenedAsFar, Before, Loop, After, Fifos, Fork
  <2>4. InStep'
    BY <1>3 DEF InStep, EnterTogether, Before, Loop, After, Fork
  <2>5. UnderWay'
    BY <1>3 DEF UnderWay, EnterTogether, Before, Loop, After, Fifos, Fork
  <2>6. ParentHolds'
    BY <1>3 DEF ParentHolds, EnterTogether, Before, Loop, After, Fifos, Fork
  <2>7. ChildHolds'
    BY <1>3 DEF ChildHolds, EnterTogether, Before, Loop, After, Fifos, Fork, OpenedAsFar
  <2>8. AnswerFits'
    BY <1>3 DEF AnswerFits, EnterTogether, Before, Loop, After, Fork
  <2> QED
    BY <2>1, <2>2, <2>3, <2>4, <2>5, <2>6, <2>7, <2>8 DEF IInv
<1>4. CASE Wait
  <2>1. Shape'
    BY <1>4 DEF Before, Loop, After, Fifos, Wait
  <2>2. OpenedAsFar'
    BY <1>4 DEF OpenedAsFar, Before, Loop, After, Fifos, Wait, EnterTogether
  <2>3. EnterTogether'
    BY <1>4 DEF EnterTogether, OpenedAsFar, Before, Loop, After, Fifos, Wait
  <2>4. InStep'
    BY <1>4 DEF InStep, EnterTogether, Before, Loop, After, Wait
  <2>5. UnderWay'
    BY <1>4 DEF UnderWay, EnterTogether, Before, Loop, After, Fifos, Wait
  <2>6. ParentHolds'
    BY <1>4 DEF ParentHolds, EnterTogether, Before, Loop, After, Fifos, Wait
  <2>7. ChildHolds'
    BY <1>4 DEF ChildHolds, EnterTogether, Before, Loop, After, Fifos, Wait, OpenedAsFar
  <2>8. AnswerFits'
    BY <1>4 DEF AnswerFits, EnterTogether, Before, Loop, After, Wait
  <2> QED
    BY <2>1, <2>2, <2>3, <2>4, <2>5, <2>6, <2>7, <2>8 DEF IInv
<1>5. CASE CleanUp
  <2>1. Shape'
    BY <1>5 DEF Before, Loop, After, Fifos, CleanUp
  <2>2. OpenedAsFar'
    BY <1>5 DEF OpenedAsFar, Before, Loop, After, Fifos, CleanUp, EnterTogether
  <2>3. EnterTogether'
    BY <1>5 DEF EnterTogether, OpenedAsFar, Before, Loop, After, Fifos, CleanUp
  <2>4. InStep'
    BY <1>5 DEF InStep, EnterTogether, Before, Loop, After, CleanUp
  <2>5. UnderWay'
    BY <1>5 DEF UnderWay, EnterTogether, Before, Loop, After, Fifos, CleanUp
  <2>6. ParentHolds'
    BY <1>5 DEF ParentHolds, EnterTogether, Before, Loop, After, Fifos, CleanUp
  <2>7. ChildHolds'
    BY <1>5 DEF ChildHolds, EnterTogether, Before, Loop, After, Fifos, CleanUp, OpenedAsFar
  <2>8. AnswerFits'
    BY <1>5 DEF AnswerFits, EnterTogether, Before, Loop, After, CleanUp
  <2> QED
    BY <2>1, <2>2, <2>3, <2>4, <2>5, <2>6, <2>7, <2>8 DEF IInv
<1> QED
  BY <1>1, <1>2, <1>3, <1>4, <1>5

\* A process that opens the second FIFO enters its loop together with the other.
LEMMA OpenKeeps == ASSUME IInv, NEW p \in Procs, Open(p) PROVE IInv'
<1> USE RoundsAssumption DEF IInv, Shape, Procs, Other
<1>1. CASE OpenFifo(p, First(p), "open1", "opening1", "open2")
  <2>1. Shape'
    BY <1>1 DEF Before, Loop, After, Fifos, OpenFifo, First
  <2>2. OpenedAsFar'
    BY <1>1 DEF OpenedAsFar, Before, Loop, After, Fifos, OpenFifo, First
  <2>3. EnterTogether'
    BY <1>1 DEF EnterTogether, OpenedAsFar, Before, Loop, After, Fifos, OpenFifo, First
  <2>4. InStep'
    BY <1>1 DEF InStep, EnterTogether, Before, Loop, After, OpenFifo, First
  <2>5. UnderWay'
    BY <1>1 DEF UnderWay, EnterTogether, Before, Loop, After, Fifos, OpenFifo, First
  <2>6. ParentHolds'
    BY <1>1 DEF ParentHolds, EnterTogether, Before, Loop, After, Fifos, OpenFifo, First
  <2>7. ChildHolds'
    BY <1>1 DEF ChildHolds, EnterTogether, Before, Loop, After, Fifos, OpenFifo, First
  <2>8. AnswerFits'
    BY <1>1 DEF AnswerFits, EnterTogether, Before, Loop, After, OpenFifo, First
  <2> QED
    BY <2>1, <2>2, <2>3, <2>4, <2>5, <2>6, <2>7, <2>8 DEF IInv
<1>2. CASE OpenFifo(p, Second(p), "open2", "opening2", "next")
  <2>1. Shape'
    BY <1>2 DEF Before, Loop, After, Fifos, OpenFifo, Second, OpenedAsFar
  <2>2. OpenedAsFar'
    BY <1>2 DEF OpenedAsFar, Before, Loop, After, Fifos, OpenFifo, Second
  <2>3. EnterTogether'
    BY <1>2 DEF EnterTogether, OpenedAsFar, Before, Loop, After, Fifos, OpenFifo, Second
  <2>4. InStep'
    BY <1>2 DEF InStep, EnterTogether, Before, Loop, After, OpenFifo, Second, OpenedAsFar, Fifos
  <2>5. UnderWay'
    BY <1>2 DEF UnderWay, EnterTogether, Before, Loop, After, Fifos, OpenFifo, Second, OpenedAsFar
  <2>6. ParentHolds'
    BY <1>2 DEF ParentHolds, EnterTogether, Before, Loop, After, Fifos, OpenFifo, Second, OpenedAsFar
  <2>7. ChildHolds'
    BY <1>2 DEF ChildHolds, EnterTogether, Before, Loop, After, Fifos, OpenFifo, Second, OpenedAsFar
  <2>8. AnswerFits'
    BY <1>2 DEF AnswerFits, EnterTogether, Before, Loop, After, OpenFifo, Second, OpenedAsFar, Fifos
  <2> QED
    BY <2>1, <2>2, <2>3, <2>4, <2>5, <2>6, <2>7, <2>8 DEF IInv
<1> QED
  BY <1>1, <1>2 DEF Open

\* Another round begins with the next letter, or with a msg that holds nothing.
LEMMA NextRoundKeeps == ASSUME IInv, NEW p \in Procs, NextRound(p) PROVE IInv'
<1> USE RoundsAssumption DEF IInv, Shape, Procs, Other
<1>1. CASE p = "parent" /\ LoopAgain(p)
  <2>0. /\ served["parent"] \in 0 .. Rounds - 1
        /\ at' = [at EXCEPT !["parent"] = "write"]
        /\ msg' = [msg EXCEPT !["parent"] = Small(served["parent"])]
        /\ at["parent"] = "next"
        /\ UNCHANGED <<exists, opened, pipe, served, killable>>
    BY <1>1 DEF NextRound, LoopAgain, Small
  <2>1. Shape'
    BY <2>0, LetterFacts DEF Before, Loop, After, Fifos
  <2>2. OpenedAsFar'
    BY <2>0 DEF OpenedAsFar, Before, Loop, After, Fifos
  <2>3. EnterTogether'
    BY <2>0 DEF EnterTogether, OpenedAsFar, Before, Loop, After, Fifos
  <2>4. InStep'
    BY <2>0 DEF InStep, EnterTogether, Before, Loop, After
  <2>5. UnderWay'
    BY <2>0 DEF UnderWay, EnterTogether, Before, Loop, After, Fifos
  <2>6. ParentHolds'
    BY <2>0 DEF ParentHolds, EnterTogether, Before, Loop, After, Fifos
  <2>7. ChildHolds'
    BY <2>0 DEF ChildHolds, EnterTogether, Before, Loop, After, Fifos
  <2>8. AnswerFits'
    BY <2>0 DEF AnswerFits, EnterTogether, Before, Loop, After
  <2> QED
    BY <2>1, <2>2, <2>3, <2>4, <2>5, <2>6, <2>7, <2>8 DEF IInv
<1>2. CASE p = "child" /\ LoopAgain(p)
  <2>0. /\ served["child"] < Rounds
        /\ at' = [at EXCEPT !["child"] = "read"]
        /\ msg' = [msg EXCEPT !["child"] = Junk]
        /\ at["child"] = "next"
        /\ UNCHANGED <<exists, opened, pipe, served, killable>>
    BY <1>2 DEF NextRound, LoopAgain
  <2>1. Shape'
    BY <2>0 DEF Before, Loop, After, Fifos
  <2>2. OpenedAsFar'
    BY <2>0 DEF OpenedAsFar, Before, Loop, After, Fifos
  <2>3. EnterTogether'
    BY <2>0 DEF EnterTogether, OpenedAsFar, Before, Loop, After, Fifos
  <2>4. InStep'
    BY <2>0 DEF InStep, EnterTogether, Before, Loop, After
  <2>5. UnderWay'
    BY <2>0 DEF UnderWay, EnterTogether, Before, Loop, After, Fifos
  <2>6. ParentHolds'
    BY <2>0 DEF ParentHolds, EnterTogether, Before, Loop, After, Fifos
  <2>7. ChildHolds'
    BY <2>0 DEF ChildHolds, EnterTogether, Before, Loop, After, Fifos
  <2>8. AnswerFits'
    BY <2>0 DEF AnswerFits, EnterTogether, Before, Loop, After
  <2> QED
    BY <2>1, <2>2, <2>3, <2>4, <2>5, <2>6, <2>7, <2>8 DEF IInv
<1>3. CASE ~LoopAgain(p)
  <2>0. /\ served[p] = Rounds
        /\ at' = [at EXCEPT ![p] = "close"]
        /\ at[p] = "next"
        /\ UNCHANGED <<exists, opened, pipe, msg, served, killable>>
    BY <1>3 DEF NextRound, LoopAgain
  <2>1. Shape'
    BY <2>0 DEF Before, Loop, After, Fifos
  <2>2. OpenedAsFar'
    BY <2>0 DEF OpenedAsFar, Before, Loop, After, Fifos
  <2>3. EnterTogether'
    BY <2>0 DEF EnterTogether, OpenedAsFar, Before, Loop, After, Fifos
  <2>4. InStep'
    BY <2>0 DEF InStep, EnterTogether, Before, Loop, After
  <2>5. UnderWay'
    BY <2>0 DEF UnderWay, EnterTogether, Before, Loop, After, Fifos, InStep
  <2>6. ParentHolds'
    BY <2>0 DEF ParentHolds, EnterTogether, Before, Loop, After, Fifos
  <2>7. ChildHolds'
    BY <2>0 DEF ChildHolds, EnterTogether, Before, Loop, After, Fifos
  <2>8. AnswerFits'
    BY <2>0 DEF AnswerFits, EnterTogether, Before, Loop, After
  <2> QED
    BY <2>1, <2>2, <2>3, <2>4, <2>5, <2>6, <2>7, <2>8 DEF IInv
<1> QED
  BY <1>1, <1>2, <1>3

\* The end of a process, of itself or by a signal.
LEMMA EndKeeps ==
  ASSUME IInv, NEW p \in Procs, Close(p) \/ BrokenPipe(p) \/ (p = killable /\ Killed)
  PROVE  IInv'
<1> USE RoundsAssumption DEF IInv, Shape, Procs, Other, End, Dead
<1>1. CASE Close(p)
  <2>1. Shape'
    BY <1>1 DEF Before, Loop, After, Fifos, Close
  <2>2. OpenedAsFar'
    BY <1>1 DEF OpenedAsFar, Before, Loop, After, Fifos, Close
  <2>3. EnterTogether'
    BY <1>1 DEF EnterTogether, OpenedAsFar, Before, Loop, After, Fifos, Close
  <2>4. InStep'
    BY <1>1 DEF InStep, EnterTogether, Before, Loop, After, Close
  <2>5. UnderWay'
    BY <1>1 DEF UnderWay, EnterTogether, Before, Loop, After, Fifos, Close, ChildHolds
  <2>6. ParentHolds'
    BY <1>1 DEF ParentHolds, EnterTogether, Before, Loop, After, Fifos, Close
  <2>7. ChildHolds'
    BY <1>1 DEF ChildHolds, EnterTogether, Before, Loop, After, Fifos, Close
  <2>8. AnswerFits'
    BY <1>1 DEF AnswerFits, EnterTogether, Before, Loop, After, Close
  <2> QED
    BY <2>1, <2>2, <2>3, <2>4, <2>5, <2>6, <2>7, <2>8 DEF IInv
<1>2. CASE BrokenPipe(p)
  <2>1. Shape'
    BY <1>2 DEF Before, Loop, After, Fifos, BrokenPipe
  <2>2. OpenedAsFar'
    BY <1>2 DEF OpenedAsFar, Before, Loop, After, Fifos, BrokenPipe
  <2>3. EnterTogether'
    BY <1>2 DEF EnterTogether, OpenedAsFar, Before, Loop, After, Fifos, BrokenPipe
  <2>4. InStep'
    BY <1>2 DEF InStep, EnterTogether, Before, Loop, After, BrokenPipe
  <2>5. UnderWay'
    BY <1>2 DEF UnderWay, EnterTogether, Before, Loop, After, Fifos, BrokenPipe
  <2>6. ParentHolds'
    BY <1>2 DEF ParentHolds, EnterTogether, Before, Loop, After, Fifos, BrokenPipe
  <2>7. ChildHolds'
    BY <1>2 DEF ChildHolds, EnterTogether, Before, Loop, After, Fifos, BrokenPipe
  <2>8. AnswerFits'
    BY <1>2 DEF AnswerFits, EnterTogether, Before, Loop, After, BrokenPipe
  <2> QED
    BY <2>1, <2>2, <2>3, <2>4, <2>5, <2>6, <2>7, <2>8 DEF IInv
<1>3. CASE p = killable /\ Killed
  <2>1. Shape'
    BY <1>3 DEF Before, Loop, After, Fifos, Killed
  <2>2. OpenedAsFar'
    BY <1>3 DEF OpenedAsFar, Before, Loop, After, Fifos, Killed
  <2>3. EnterTogether'
    BY <1>3 DEF EnterTogether, OpenedAsFar, Before, Loop, After, Fifos, Killed
  <2>4. InStep'
    BY <1>3 DEF InStep, EnterTogether, Before, Loop, After, Killed
  <2>5. UnderWay'
    BY <1>3 DEF UnderWay, EnterTogether, Before, Loop, After, Fifos, Killed
  <2>6. ParentHolds'
    BY <1>3 DEF ParentHolds, EnterTogether, Before, Loop, After, Fifos, Killed
  <2>7. ChildHolds'
    BY <1>3 DEF ChildHolds, EnterTogether, Before, Loop, After, Fifos, Killed
  <2>8. AnswerFits'
    BY <1>3 DEF AnswerFits, EnterTogether, Before, Loop, After, Killed
  <2> QED
    BY <2>1, <2>2, <2>3, <2>4, <2>5, <2>6, <2>7, <2>8 DEF IInv
<1> QED
  BY <1>1, <1>2, <1>3

\* The parent's letter goes to a child that is alive, hence level with it.
LEMMA LevelWhenWriting ==
  ASSUME IInv, Write("parent")
  PROVE  LET k == served["parent"]
         IN  /\ k = served["child"] /\ k \in 0 .. Rounds - 1 /\ msg["parent"] = Small(k)
             /\ pipe["pipe1"] = Empty /\ pipe["pipe2"] = Empty
             /\ at["parent"] = "write" /\ at["child"] \in {"next", "read"}
<1> USE RoundsAssumption DEF IInv, Shape, Procs, Other, Go
<1>0. Rounds \in Nat /\ served["parent"] \in Nat /\ served["child"] \in Nat
  OBVIOUS
<1> DEFINE k == served["parent"]
<1>1. at["parent"] = "write" /\ opened["child"] # {}
  BY DEF Write, Out
<1>2. at["child"] \in {"next", "read", "write", "close"}
  BY <1>0, <1>1 DEF OpenedAsFar, EnterTogether, Before, Loop, After
<1>3. k = served["child"]
  BY <1>0, <1>1, <1>2 DEF InStep
<1>4. k < Rounds /\ msg["parent"] = Small(k)
  BY <1>0, <1>1 DEF ParentHolds
<1>5. pipe["pipe1"] = Empty /\ pipe["pipe2"] = Empty
  BY <1>0, <1>1, <1>3 DEF UnderWay
<1>6. at["child"] \in {"next", "read"}
  BY <1>0, <1>1, <1>2, <1>3, <1>4 DEF ChildHolds, After
<1> QED
  BY <1>0, <1>1, <1>3, <1>4, <1>5, <1>6

LEMMA ParentWriteKeeps == ASSUME IInv, Write("parent") PROVE IInv'
<1> USE RoundsAssumption DEF IInv, Shape, Procs, Other, Go
<1>0. Rounds \in Nat /\ served["parent"] \in Nat /\ served["child"] \in Nat
  OBVIOUS
<1> DEFINE k == served["parent"]
<1>1. /\ k = served["child"] /\ k \in 0 .. Rounds - 1 /\ msg["parent"] = Small(k)
      /\ pipe["pipe1"] = Empty /\ pipe["pipe2"] = Empty
      /\ at["parent"] = "write" /\ at["child"] \in {"next", "read"}
  BY LevelWhenWriting
<1>2. /\ pipe' = [pipe EXCEPT !["pipe1"] = One(Small(k))]
      /\ served' = [served EXCEPT !["parent"] = k + 1]
      /\ at' = [at EXCEPT !["parent"] = "read"]
      /\ UNCHANGED <<exists, opened, msg, killable>>
  BY <1>0, <1>1, LetterFacts, OneMessage DEF Write, Out, AfterWrite
<1>3. One(Small(k)) \in Seq(Letters) /\ One(Small(k)) # Empty
  BY <1>0, <1>1, LetterFacts, OneMessage
<1>4. served'["parent"] - 1 = k /\ served'["child"] = k
  BY <1>0, <1>1, <1>2
<1>5. Shape'
  BY <1>0, <1>1, <1>2, <1>3, <1>4 DEF Before, Loop, After, Fifos
<1>6. OpenedAsFar'
  BY <1>0, <1>1, <1>2, <1>3, <1>4 DEF OpenedAsFar, Before, Loop, After, Fifos
<1>7. EnterTogether'
  BY <1>0, <1>1, <1>2, <1>3, <1>4 DEF EnterTogether, OpenedAsFar, Before, Loop, After, Fifos
<1>8. InStep'
  BY <1>0, <1>1, <1>2, <1>3, <1>4 DEF InStep, EnterTogether, Before, Loop, After
<1>9. UnderWay'
  BY <1>0, <1>1, <1>2, <1>3, <1>4 DEF UnderWay, EnterTogether, Before, Loop, After, Fifos
<1>10. ParentHolds'
  BY <1>0, <1>1, <1>2, <1>3, <1>4 DEF ParentHolds, EnterTogether, Before, Loop, After, Fifos
<1>11. ChildHolds'
  BY <1>0, <1>1, <1>2, <1>3, <1>4 DEF ChildHolds, EnterTogether, Before, Loop, After, Fifos
<1>12. AnswerFits'
  BY <1>0, <1>1, <1>2, <1>3, <1>4 DEF AnswerFits, EnterTogether, Before, Loop, After
<1> QED
  BY <1>5, <1>6, <1>7, <1>8, <1>9, <1>10, <1>11, <1>12 DEF IInv

\* The child's answer goes to a parent that waits for it.
LEMMA BehindWhenAnswering ==
  ASSUME IInv, Write("child")
  PROVE  LET k == served["child"]
         IN  /\ served["parent"] = k + 1 /\ k \in 0 .. Rounds - 1 /\ msg["child"] = Capital(k)
             /\ pipe["pipe1"] = Empty /\ pipe["pipe2"] = Empty
             /\ at["child"] = "write" /\ at["parent"] = "read"
<1> USE RoundsAssumption DEF IInv, Shape, Procs, Other, Go
<1>0. Rounds \in Nat /\ served["parent"] \in Nat /\ served["child"] \in Nat
  OBVIOUS
<1> DEFINE k == served["child"]
<1>1. at["child"] = "write" /\ opened["parent"] # {}
  BY DEF Write, Out
<1>2. at["parent"] \in {"next", "read", "write", "close"}
  BY <1>0, <1>1 DEF OpenedAsFar, EnterTogether, Before, Loop, After
<1>3. served["parent"] = k + 1 /\ msg["child"] = Capital(k) /\ pipe["pipe1"] = Empty
  BY <1>0, <1>1, <1>2 DEF ChildHolds, After
<1>4. pipe["pipe2"] = Empty
  BY <1>0, <1>3 DEF UnderWay
<1>5. at["parent"] = "read"
  BY <1>0, <1>1, <1>2, <1>3 DEF InStep
<1> QED
  BY <1>0, <1>1, <1>3, <1>4, <1>5

LEMMA ChildWriteKeeps == ASSUME IInv, Write("child") PROVE IInv'
<1> USE RoundsAssumption DEF IInv, Shape, Procs, Other, Go
<1>0. Rounds \in Nat /\ served["parent"] \in Nat /\ served["child"] \in Nat
  OBVIOUS
<1> DEFINE k == served["child"]
<1>1. /\ served["parent"] = k + 1 /\ k \in 0 .. Rounds - 1 /\ msg["child"] = Capital(k)
      /\ pipe["pipe1"] = Empty /\ pipe["pipe2"] = Empty
      /\ at["child"] = "write" /\ at["parent"] = "read"
  BY BehindWhenAnswering
<1>2. /\ pipe' = [pipe EXCEPT !["pipe2"] = One(Capital(k))]
      /\ served' = [served EXCEPT !["child"] = k + 1]
      /\ at' = [at EXCEPT !["child"] = "next"]
      /\ UNCHANGED <<exists, opened, msg, killable>>
  BY <1>0, <1>1, LetterFacts, OneMessage DEF Write, Out, AfterWrite
<1>3. One(Capital(k)) \in Seq(Letters) /\ One(Capital(k)) # Empty
  BY <1>0, <1>1, LetterFacts, OneMessage
<1>4. served'["parent"] = k + 1 /\ served'["child"] - 1 = k
  BY <1>0, <1>1, <1>2
<1>5. Shape'
  BY <1>0, <1>1, <1>2, <1>3, <1>4 DEF Before, Loop, After, Fifos
<1>6. OpenedAsFar'
  BY <1>0, <1>1, <1>2, <1>3, <1>4 DEF OpenedAsFar, Before, Loop, After, Fifos
<1>7. EnterTogether'
  BY <1>0, <1>1, <1>2, <1>3, <1>4 DEF EnterTogether, OpenedAsFar, Before, Loop, After, Fifos
<1>8. InStep'
  BY <1>0, <1>1, <1>2, <1>3, <1>4 DEF InStep, EnterTogether, Before, Loop, After
<1>9. UnderWay'
  BY <1>0, <1>1, <1>2, <1>3, <1>4 DEF UnderWay, EnterTogether, Before, Loop, After, Fifos
<1>10. ParentHolds'
  BY <1>0, <1>1, <1>2, <1>3, <1>4 DEF ParentHolds, EnterTogether, Before, Loop, After, Fifos
<1>11. ChildHolds'
  BY <1>0, <1>1, <1>2, <1>3, <1>4 DEF ChildHolds, EnterTogether, Before, Loop, After, Fifos
<1>12. AnswerFits'
  BY <1>0, <1>1, <1>2, <1>3, <1>4 DEF AnswerFits, EnterTogether, Before, Loop, After
<1> QED
  BY <1>5, <1>6, <1>7, <1>8, <1>9, <1>10, <1>11, <1>12 DEF IInv

\* The parent reads the answer to the letter it has just sent.
LEMMA AnswerWaiting ==
  ASSUME IInv, Read("parent")
  PROVE  LET k == served["parent"] - 1
         IN  /\ pipe["pipe2"] = One(Capital(k)) /\ k \in 0 .. Rounds - 1
             /\ served["parent"] = k + 1 /\ served["child"] = k + 1 /\ pipe["pipe1"] = Empty
             /\ at["parent"] = "read"
<1> USE RoundsAssumption DEF IInv, Shape, Procs, Other, Go
<1>0. Rounds \in Nat /\ served["parent"] \in Nat /\ served["child"] \in Nat
  OBVIOUS
<1> DEFINE k == served["parent"] - 1
<1>1. at["parent"] = "read" /\ pipe["pipe2"] # Empty
  BY DEF Read, In, Out, Empty
<1>2. /\ served["parent"] = served["child"]
      /\ pipe["pipe2"] = One(Capital(served["child"] - 1))
  BY <1>0, <1>1 DEF UnderWay
<1>3. served["parent"] > 0
  BY <1>0, <1>1 DEF ParentHolds
<1>4. pipe["pipe1"] = Empty
  BY <1>0, <1>2 DEF UnderWay
<1> QED
  BY <1>0, <1>1, <1>2, <1>3, <1>4

LEMMA ParentReadKeeps == ASSUME IInv, Read("parent") PROVE IInv'
<1> USE RoundsAssumption DEF IInv, Shape, Procs, Other, Go
<1>0. Rounds \in Nat /\ served["parent"] \in Nat /\ served["child"] \in Nat
  OBVIOUS
<1> DEFINE k == served["parent"] - 1
<1>1. /\ pipe["pipe2"] = One(Capital(k)) /\ k \in 0 .. Rounds - 1
      /\ served["parent"] = k + 1 /\ served["child"] = k + 1 /\ pipe["pipe1"] = Empty
      /\ at["parent"] = "read"
  BY AnswerWaiting
<1>2. /\ pipe' = [pipe EXCEPT !["pipe2"] = Empty]
      /\ msg' = [msg EXCEPT !["parent"] = Capital(k)]
      /\ at' = [at EXCEPT !["parent"] = "next"]
      /\ UNCHANGED <<exists, opened, served, killable>>
  BY <1>0, <1>1, LetterFacts, OneMessage DEF Read, In, Out, AfterRead, Received
<1>3. Capital(k) \in Letters /\ Capital(k).n = k /\ Capital(k).upper
  BY <1>0, <1>1, LetterFacts, OneMessage
<1>4. served'["parent"] - 1 = k
  BY <1>0, <1>1, <1>2
<1>5. Shape'
  BY <1>0, <1>1, <1>2, <1>3, <1>4 DEF Before, Loop, After, Fifos
<1>6. OpenedAsFar'
  BY <1>0, <1>1, <1>2, <1>3, <1>4 DEF OpenedAsFar, Before, Loop, After, Fifos
<1>7. EnterTogether'
  BY <1>0, <1>1, <1>2, <1>3, <1>4 DEF EnterTogether, OpenedAsFar, Before, Loop, After, Fifos
<1>8. InStep'
  BY <1>0, <1>1, <1>2, <1>3, <1>4 DEF InStep, EnterTogether, Before, Loop, After
<1>9. UnderWay'
  BY <1>0, <1>1, <1>2, <1>3, <1>4 DEF UnderWay, EnterTogether, Before, Loop, After, Fifos
<1>10. ParentHolds'
  BY <1>0, <1>1, <1>2, <1>3, <1>4 DEF ParentHolds, EnterTogether, Before, Loop, After, Fifos
<1>11. ChildHolds'
  BY <1>0, <1>1, <1>2, <1>3, <1>4 DEF ChildHolds, EnterTogether, Before, Loop, After, Fifos
<1>12. AnswerFits'
  BY <1>0, <1>1, <1>2, <1>3, <1>4 DEF AnswerFits, EnterTogether, Before, Loop, After
<1> QED
  BY <1>5, <1>6, <1>7, <1>8, <1>9, <1>10, <1>11, <1>12 DEF IInv

\* The child reads the letter of its round and owes the answer.
LEMMA LetterWaiting ==
  ASSUME IInv, Read("child")
  PROVE  LET k == served["child"]
         IN  /\ pipe["pipe1"] = One(Small(k)) /\ k \in 0 .. Rounds - 1
             /\ served["parent"] = k + 1 /\ pipe["pipe2"] = Empty
             /\ at["child"] = "read"
<1> USE RoundsAssumption DEF IInv, Shape, Procs, Other, Go
<1>0. Rounds \in Nat /\ served["parent"] \in Nat /\ served["child"] \in Nat
  OBVIOUS
<1> DEFINE k == served["child"]
<1>1. at["child"] = "read" /\ pipe["pipe1"] # Empty
  BY DEF Read, In, Out, Empty
<1>2. /\ served["parent"] = k + 1
      /\ pipe["pipe1"] = One(Small(served["parent"] - 1))
  BY <1>0, <1>1 DEF UnderWay
<1>3. k < Rounds
  BY <1>0, <1>1 DEF ChildHolds
<1>4. pipe["pipe2"] = Empty
  BY <1>0, <1>2 DEF UnderWay
<1> QED
  BY <1>0, <1>1, <1>2, <1>3, <1>4

LEMMA ChildReadKeeps == ASSUME IInv, Read("child") PROVE IInv'
<1> USE RoundsAssumption DEF IInv, Shape, Procs, Other, Go
<1>0. Rounds \in Nat /\ served["parent"] \in Nat /\ served["child"] \in Nat
  OBVIOUS
<1> DEFINE k == served["child"]
<1>1. /\ pipe["pipe1"] = One(Small(k)) /\ k \in 0 .. Rounds - 1
      /\ served["parent"] = k + 1 /\ pipe["pipe2"] = Empty
      /\ at["child"] = "read"
  BY LetterWaiting
<1>2. /\ pipe' = [pipe EXCEPT !["pipe1"] = Empty]
      /\ msg' = [msg EXCEPT !["child"] = Capital(k)]
      /\ at' = [at EXCEPT !["child"] = "write"]
      /\ UNCHANGED <<exists, opened, served, killable>>
  <2>1. /\ pipe' = [pipe EXCEPT !["pipe1"] = Tail(@)] /\ at["child"] = "read"
        /\ at' = [at EXCEPT !["child"] = "write"]
        /\ msg' = [msg EXCEPT !["child"] = Received("child", Head(pipe["pipe1"]))]
        /\ UNCHANGED <<exists, opened, served, killable>>
    BY DEF Read, In, Out, AfterRead
  <2>2. Head(pipe["pipe1"]) = Small(k) /\ Tail(pipe["pipe1"]) = Empty
    BY <1>1, OneMessage
  <2>3. Received("child", Small(k)) = Capital(k)
    BY <1>0, <1>1, LetterFacts DEF Received
  <2> QED
    BY <2>1, <2>2, <2>3
<1>3. Capital(k) \in Letters
  BY <1>0, <1>1, LetterFacts, OneMessage
<1>4. served'["child"] = k /\ served'["parent"] = k + 1
  BY <1>0, <1>1, <1>2
<1>5. Shape'
  BY <1>0, <1>1, <1>2, <1>3, <1>4 DEF Before, Loop, After, Fifos
<1>6. OpenedAsFar'
  BY <1>0, <1>1, <1>2, <1>3, <1>4 DEF OpenedAsFar, Before, Loop, After, Fifos
<1>7. EnterTogether'
  BY <1>0, <1>1, <1>2, <1>3, <1>4 DEF EnterTogether, OpenedAsFar, Before, Loop, After, Fifos
<1>8. InStep'
  BY <1>0, <1>1, <1>2, <1>3, <1>4 DEF InStep, EnterTogether, Before, Loop, After
<1>9. UnderWay'
  BY <1>0, <1>1, <1>2, <1>3, <1>4 DEF UnderWay, EnterTogether, Before, Loop, After, Fifos
<1>10. ParentHolds'
  BY <1>0, <1>1, <1>2, <1>3, <1>4 DEF ParentHolds, EnterTogether, Before, Loop, After, Fifos
<1>11. ChildHolds'
  BY <1>0, <1>1, <1>2, <1>3, <1>4 DEF ChildHolds, EnterTogether, Before, Loop, After, Fifos
<1>12. AnswerFits'
  BY <1>0, <1>1, <1>2, <1>3, <1>4 DEF AnswerFits, EnterTogether, Before, Loop, After
<1> QED
  BY <1>5, <1>6, <1>7, <1>8, <1>9, <1>10, <1>11, <1>12 DEF IInv

\* An end of file leaves the parent with the letter it sent, and the child with
\* Junk and nobody to write to.
LEMMA EofKeeps == ASSUME IInv, NEW p \in Procs, ReadEof(p) PROVE IInv'
<1> USE RoundsAssumption DEF IInv, Shape, Procs, Other, Go
<1>0. Rounds \in Nat /\ served["parent"] \in Nat /\ served["child"] \in Nat
  OBVIOUS
<1>1. CASE p = "parent"
  <2>1. /\ at["parent"] = "read" /\ pipe["pipe2"] = Empty /\ "pipe2" \notin opened["child"]
        /\ at' = [at EXCEPT !["parent"] = "next"]
        /\ msg' = [msg EXCEPT !["parent"] = @]
        /\ UNCHANGED <<exists, opened, pipe, served, killable>>
    BY <1>1 DEF ReadEof, AfterRead, Received, In, Out, Empty
  <2>2. /\ at["child"] = "killed" /\ served["parent"] > 0
        /\ msg["parent"] = Small(served["parent"] - 1)
    <3>1. served["parent"] # served["child"] /\ served["parent"] > 0
          /\ msg["parent"] = Small(served["parent"] - 1)
      BY <1>0, <2>1 DEF ParentHolds
    <3>2. at["child"] \notin Loop
      BY <1>0, <2>1 DEF OpenedAsFar, Fifos
    <3> QED
      BY <1>0, <2>1, <3>1, <3>2 DEF ChildHolds, EnterTogether, OpenedAsFar, InStep, Before, Loop, After
  <2>3. msg["parent"].n = served["parent"] - 1
    BY <1>0, <2>2, LetterFacts
  <2>4. Shape'
    BY <2>1, <2>2, <2>3 DEF Before, Loop, After, Fifos
  <2>5. OpenedAsFar'
    BY <2>1, <2>2, <2>3 DEF OpenedAsFar, Before, Loop, After, Fifos
  <2>6. EnterTogether'
    BY <2>1, <2>2, <2>3 DEF EnterTogether, OpenedAsFar, Before, Loop, After, Fifos
  <2>7. InStep'
    BY <2>1, <2>2, <2>3 DEF InStep, EnterTogether, Before, Loop, After
  <2>8. UnderWay'
    BY <2>1, <2>2, <2>3 DEF UnderWay, EnterTogether, Before, Loop, After, Fifos
  <2>9. ParentHolds'
    BY <2>1, <2>2, <2>3 DEF ParentHolds, EnterTogether, Before, Loop, After, Fifos
  <2>10. ChildHolds'
    BY <2>1, <2>2, <2>3 DEF ChildHolds, EnterTogether, Before, Loop, After, Fifos
  <2>11. AnswerFits'
    BY <2>1, <2>2, <2>3 DEF AnswerFits, EnterTogether, Before, Loop, After
  <2> QED
    BY <2>4, <2>5, <2>6, <2>7, <2>8, <2>9, <2>10, <2>11 DEF IInv
<1>2. CASE p = "child"
  <2>1. /\ at["child"] = "read" /\ pipe["pipe1"] = Empty /\ "pipe1" \notin opened["parent"]
        /\ msg["child"] = Junk
        /\ at' = [at EXCEPT !["child"] = "write"]
        /\ msg' = [msg EXCEPT !["child"] = Junk]
        /\ UNCHANGED <<exists, opened, pipe, served, killable>>
    BY <1>2 DEF ReadEof, AfterRead, Received, In, Out, Empty, Upper, ChildHolds
  <2>2. at["parent"] \in After
    BY <1>0, <2>1 DEF OpenedAsFar, EnterTogether, Before, Loop, After, Fifos
  <2>3. Shape'
    BY <2>1, <2>2 DEF Before, Loop, After, Fifos
  <2>4. OpenedAsFar'
    BY <2>1, <2>2 DEF OpenedAsFar, Before, Loop, After, Fifos
  <2>5. EnterTogether'
    BY <2>1, <2>2 DEF EnterTogether, OpenedAsFar, Before, Loop, After, Fifos
  <2>6. InStep'
    BY <2>1, <2>2 DEF InStep, EnterTogether, Before, Loop, After
  <2>7. UnderWay'
    BY <2>1, <2>2 DEF UnderWay, EnterTogether, Before, Loop, After, Fifos
  <2>8. ParentHolds'
    BY <2>1, <2>2 DEF ParentHolds, EnterTogether, Before, Loop, After, Fifos
  <2>9. ChildHolds'
    BY <2>1, <2>2 DEF ChildHolds, EnterTogether, Before, Loop, After, Fifos
  <2>10. AnswerFits'
    BY <2>1, <2>2 DEF AnswerFits, EnterTogether, Before, Loop, After
  <2> QED
    BY <2>3, <2>4, <2>5, <2>6, <2>7, <2>8, <2>9, <2>10 DEF IInv
<1> QED
  BY <1>1, <1>2

LEMMA StutterKeeps == IInv /\ UNCHANGED vars => IInv'
  BY DEF IInv, Shape, OpenedAsFar, EnterTogether, InStep, UnderWay, ParentHolds,
         ChildHolds, AnswerFits, vars

LEMMA NextKeepsIInv == IInv /\ [Next]_vars => IInv'
<1> SUFFICES ASSUME IInv, [Next]_vars PROVE IInv'
  OBVIOUS
<1>1. ASSUME NEW p \in Procs, Step(p) PROVE IInv'
  <2>1. Read(p) => IInv'
    BY ParentReadKeeps, ChildReadKeeps DEF Procs
  <2>2. Write(p) => IInv'
    BY ParentWriteKeeps, ChildWriteKeeps DEF Procs
  <2> QED
    BY <1>1, <2>1, <2>2, OpenKeeps, NextRoundKeeps, EofKeeps, EndKeeps DEF Step
<1>2. CASE Killed
  <2>1. killable \in Procs
    BY <1>2 DEF Killed, IInv, Shape, Procs
  <2> QED
    BY <1>2, <2>1, EndKeeps
<1> QED
  BY <1>1, <1>2, MainKeeps, StutterKeeps DEF Next, Parent, Child, Procs

THEOREM PipeInvariant == SafeSpec => []IInv
  BY InitIInv, NextKeepsIInv, PTL DEF SafeSpec

\* A FIFO holds at most one message, a letter or its answer.
LEMMA PipeTypes == IInv => TypeOK
<1> SUFFICES ASSUME IInv PROVE TypeOK
  OBVIOUS
<1>1. ASSUME NEW f \in Fifos
      PROVE  Len(pipe[f]) <= 1 /\ \A k \in DOMAIN pipe[f] : pipe[f][k] \in Letters \cup {Junk}
  <2>1. pipe[f] \in Seq(Letters)
    BY DEF IInv, Shape
  <2>2. pipe[f] = Empty \/ \E m : pipe[f] = One(m)
    BY DEF IInv, UnderWay, Fifos
  <2>3. ASSUME pipe[f] = Empty PROVE Len(pipe[f]) <= 1
    BY <2>3 DEF Empty
  <2>4. ASSUME NEW m, pipe[f] = One(m) PROVE Len(pipe[f]) <= 1
    BY <2>4 DEF One
  <2>5. Len(pipe[f]) <= 1
    BY <2>2, <2>3, <2>4
  <2> QED
    BY <2>1, <2>5
<1> QED
  BY <1>1 DEF IInv, Shape, Before, Loop, After, Dead, TypeOK
-----------------------------------------------------------------------------
(* NamedPipe implements strict alternation *)

LEMMA InitAlternates == Init => Turns!Init
  BY DEF Init, Turns!Init, Procs

\* A letter is written when the two are level, an answer when the parent is
\* ahead; no other step serves anything.
LEMMA StepAlternates == IInv /\ [Next]_vars => [Turns!Next]_served
<1> SUFFICES ASSUME IInv, [Next]_vars PROVE Turns!Next \/ UNCHANGED served
  OBVIOUS
<1> USE RoundsAssumption DEF Procs
<1>1. CASE Write("parent")
  <2>1. served["parent"] = served["child"] /\ served["parent"] < Rounds
    BY <1>1, LevelWhenWriting
  <2> QED
    BY <1>1, <2>1 DEF Write, Turns!Next, Turns!LeaderTurn, Turns!Serve
<1>2. CASE Write("child")
  <2>1. served["child"] < served["parent"]
    BY <1>2, BehindWhenAnswering
  <2> QED
    BY <1>2, <2>1 DEF Write, Turns!Next, Turns!FollowerTurn, Turns!Serve
<1>3. ASSUME NEW p \in Procs, Step(p), ~Write(p) PROVE UNCHANGED served
  BY <1>3 DEF Step, Open, OpenFifo, NextRound, Read, ReadEof, BrokenPipe, Close
<1>4. CASE MakeFifos \/ StartFails \/ Fork \/ Wait \/ CleanUp \/ Killed \/ UNCHANGED vars
  BY <1>4 DEF MakeFifos, StartFails, Fork, Wait, CleanUp, Killed, vars
<1> QED
  BY <1>1, <1>2, <1>3, <1>4 DEF Next, Parent, Child

\* test_named_pipe_1.cpp: letter and answer alternate strictly for any number
\* of rounds, also in an execution cut short by a death.
THEOREM PipeAlternates == SafeSpec => AlternatesSafely
  BY InitAlternates, StepAlternates, PipeInvariant, PTL
  DEF SafeSpec, AlternatesSafely, Turns!SafeSpec
-----------------------------------------------------------------------------
(* UnixSocket: server and client *)

EarlyServer == {"fork", "failed", "socket", "bind", "listen", "accept"}
LateServer == {"recv", "send", "close", "wait", "done"}
EarlyClient == {"unborn", "socket", "bind", "connect"}
LateClient == {"send", "recv", "close", "exit0"}

Places ==
  /\ uAt \in [U!Procs -> EarlyServer \cup LateServer \cup EarlyClient \cup LateClient
                           \cup {"exit1", "killed"}]
  /\ DOMAIN chan = U!Procs /\ DOMAIN got = U!Procs
  /\ uAt["server"] \in EarlyServer \cup LateServer \cup {"exit1", "killed"}
  /\ uAt["client"] \in EarlyClient \cup LateClient \cup {"exit1", "killed"}
  /\ paths \subseteq U!Procs /\ open \subseteq U!Procs
  /\ listen \in BOOLEAN /\ queue \in BOOLEAN
  /\ uKillable \in U!Procs \cup {"nobody"}

\* What a process has open follows from where it stands.
OpenEnds ==
  /\ "server" \in open <=> uAt["server"] \in {"recv", "send", "close"}
  /\ "client" \in open <=> uAt["client"] \in {"send", "recv", "close"}
  /\ listen => uAt["server"] \in {"accept", "recv", "send", "close"}

\* The server gets past accept only with a client that has connected.
Met ==
  /\ uAt["server"] \in {"fork", "failed"} => uAt["client"] = "unborn"
  /\ queue => uAt["server"] = "accept"
  /\ queue \/ uAt["server"] \in {"recv", "send"} =>
       uAt["client"] \in {"send", "recv", "killed"}
  /\ uAt["server"] \in LateServer => uAt["client"] \notin EarlyClient
  /\ uAt["client"] \in LateClient =>
       queue \/ uAt["server"] \in LateServer \cup {"killed"}

\* Who has received something, and what.
Heard ==
  /\ got["server"] \in {"nothing", "empty", "hello from client"}
  /\ got["client"] \in {"nothing", "empty", "hello from server"}
  /\ uAt["server"] \in EarlyServer \cup {"recv", "exit1"} => got["server"] = "nothing"
  /\ uAt["server"] \in {"send", "close", "wait", "done"} => got["server"] # "nothing"
  /\ uAt["client"] \in EarlyClient \cup {"send", "recv", "exit1"} =>
       got["client"] = "nothing"

\* The client's greeting is sent once, and read once.
ToServer ==
  /\ chan["server"] = Empty \/ chan["server"] = One("hello from client")
  /\ uAt["client"] \in EarlyClient \cup {"send"} =>
       chan["server"] = Empty /\ got["server"] = "nothing"
  /\ chan["server"] # Empty => got["server"] = "nothing"

\* The server's is sent in answer to it; a server that went on without it was
\* ended by its own send.
ToClient ==
  /\ chan["client"] = Empty \/ chan["client"] = One("hello from server")
  /\ chan["client"] # Empty =>
       /\ uAt["server"] \in {"close", "wait", "done", "killed"}
       /\ got["server"] = "hello from client"
  /\ uAt["server"] \in {"close", "wait", "done"} =>
       chan["client"] # Empty \/ got["client"] # "nothing"
  /\ got["server"] = "empty" =>
       /\ uAt["server"] \in {"send", "killed"} /\ uAt["client"] = "killed"
       /\ chan["client"] = Empty

Sockets ==
  /\ Places /\ OpenEnds /\ Met /\ Heard /\ ToServer /\ ToClient /\ U!InAnswer

LEMMA SocketsInit == U!Init => Sockets
  BY DEF U!Init, U!Procs, Sockets, Places, OpenEnds, Met, Heard, ToServer, ToClient,
         U!InAnswer, U!Other, U!Hello, EarlyServer, LateServer, EarlyClient, LateClient, Empty

\* fork, socket, bind, listen, and their failures.
LEMMA SetUpKeeps ==
  ASSUME Sockets, U!Fork \/ U!ForkFails \/ U!Socket("server") \/ U!Socket("client") \/ U!Bind("server", "listen") \/ U!Bind("client", "connect") \/ U!SetUpFails("server") \/ U!SetUpFails("client") \/ U!Listen
  PROVE  Sockets'
<1> USE DEF Sockets, Places, U!Procs, U!Other, U!Go, EarlyServer, LateServer, EarlyClient, LateClient
<1>1. CASE U!Fork
  <2>1. Places'
    BY <1>1 DEF Places, U!Fork
  <2>2. OpenEnds'
    BY <1>1 DEF OpenEnds, Met, U!Fork
  <2>3. Met'
    BY <1>1 DEF Met, OpenEnds, U!Fork
  <2>4. Heard'
    BY <1>1 DEF Heard, Met, U!Fork
  <2>5. ToServer'
    BY <1>1 DEF ToServer, Heard, U!Fork, Met
  <2>6. ToClient'
    BY <1>1 DEF ToClient, Heard, Met, U!Fork
  <2>7. U!InAnswer'
    BY <1>1 DEF U!InAnswer, U!Hello, ToClient, ToServer, Met, OpenEnds, Heard, U!Fork
  <2> QED
    BY <2>1, <2>2, <2>3, <2>4, <2>5, <2>6, <2>7 DEF Sockets
<1>2. CASE U!ForkFails
  <2>1. Places'
    BY <1>2 DEF Places, U!ForkFails
  <2>2. OpenEnds'
    BY <1>2 DEF OpenEnds, Met, U!ForkFails
  <2>3. Met'
    BY <1>2 DEF Met, OpenEnds, U!ForkFails
  <2>4. Heard'
    BY <1>2 DEF Heard, Met, U!ForkFails
  <2>5. ToServer'
    BY <1>2 DEF ToServer, Heard, U!ForkFails
  <2>6. ToClient'
    BY <1>2 DEF ToClient, Heard, Met, U!ForkFails
  <2>7. U!InAnswer'
    BY <1>2 DEF U!InAnswer, U!Hello, ToClient, ToServer, Met, OpenEnds, Heard, U!ForkFails
  <2> QED
    BY <2>1, <2>2, <2>3, <2>4, <2>5, <2>6, <2>7 DEF Sockets
<1>3. CASE U!Socket("server")
  <2>1. Places'
    BY <1>3 DEF Places, U!Socket
  <2>2. OpenEnds'
    BY <1>3 DEF OpenEnds, Met, U!Socket
  <2>3. Met'
    BY <1>3 DEF Met, OpenEnds, U!Socket
  <2>4. Heard'
    BY <1>3 DEF Heard, Met, U!Socket
  <2>5. ToServer'
    BY <1>3 DEF ToServer, Heard, U!Socket
  <2>6. ToClient'
    BY <1>3 DEF ToClient, Heard, Met, U!Socket
  <2>7. U!InAnswer'
    BY <1>3 DEF U!InAnswer, U!Hello, ToClient, ToServer, Met, OpenEnds, Heard, U!Socket
  <2> QED
    BY <2>1, <2>2, <2>3, <2>4, <2>5, <2>6, <2>7 DEF Sockets
<1>4. CASE U!Socket("client")
  <2>1. Places'
    BY <1>4 DEF Places, U!Socket
  <2>2. OpenEnds'
    BY <1>4 DEF OpenEnds, Met, U!Socket
  <2>3. Met'
    BY <1>4 DEF Met, OpenEnds, U!Socket
  <2>4. Heard'
    BY <1>4 DEF Heard, Met, U!Socket
  <2>5. ToServer'
    BY <1>4 DEF ToServer, Heard, U!Socket
  <2>6. ToClient'
    BY <1>4 DEF ToClient, Heard, Met, U!Socket
  <2>7. U!InAnswer'
    BY <1>4 DEF U!InAnswer, U!Hello, ToClient, ToServer, Met, OpenEnds, Heard, U!Socket
  <2> QED
    BY <2>1, <2>2, <2>3, <2>4, <2>5, <2>6, <2>7 DEF Sockets
<1>5. CASE U!Bind("server", "listen")
  <2>1. Places'
    BY <1>5 DEF Places, U!Bind
  <2>2. OpenEnds'
    BY <1>5 DEF OpenEnds, Met, U!Bind
  <2>3. Met'
    BY <1>5 DEF Met, OpenEnds, U!Bind
  <2>4. Heard'
    BY <1>5 DEF Heard, Met, U!Bind
  <2>5. ToServer'
    BY <1>5 DEF ToServer, Heard, U!Bind
  <2>6. ToClient'
    BY <1>5 DEF ToClient, Heard, Met, U!Bind
  <2>7. U!InAnswer'
    BY <1>5 DEF U!InAnswer, U!Hello, ToClient, ToServer, Met, OpenEnds, Heard, U!Bind
  <2> QED
    BY <2>1, <2>2, <2>3, <2>4, <2>5, <2>6, <2>7 DEF Sockets
<1>6. CASE U!Bind("client", "connect")
  <2>1. Places'
    BY <1>6 DEF Places, U!Bind
  <2>2. OpenEnds'
    BY <1>6 DEF OpenEnds, Met, U!Bind
  <2>3. Met'
    BY <1>6 DEF Met, OpenEnds, U!Bind
  <2>4. Heard'
    BY <1>6 DEF Heard, Met, U!Bind
  <2>5. ToServer'
    BY <1>6 DEF ToServer, Heard, U!Bind
  <2>6. ToClient'
    BY <1>6 DEF ToClient, Heard, Met, U!Bind
  <2>7. U!InAnswer'
    BY <1>6 DEF U!InAnswer, U!Hello, ToClient, ToServer, Met, OpenEnds, Heard, U!Bind
  <2> QED
    BY <2>1, <2>2, <2>3, <2>4, <2>5, <2>6, <2>7 DEF Sockets
<1>7. CASE U!SetUpFails("server")
  <2>1. Places'
    BY <1>7 DEF Places, U!SetUpFails
  <2>2. OpenEnds'
    BY <1>7 DEF OpenEnds, Met, U!SetUpFails
  <2>3. Met'
    BY <1>7 DEF Met, OpenEnds, U!SetUpFails
  <2>4. Heard'
    BY <1>7 DEF Heard, Met, U!SetUpFails
  <2>5. ToServer'
    BY <1>7 DEF ToServer, Heard, U!SetUpFails
  <2>6. ToClient'
    BY <1>7 DEF ToClient, Heard, Met, U!SetUpFails
  <2>7. U!InAnswer'
    BY <1>7 DEF U!InAnswer, U!Hello, ToClient, ToServer, Met, OpenEnds, Heard, U!SetUpFails
  <2> QED
    BY <2>1, <2>2, <2>3, <2>4, <2>5, <2>6, <2>7 DEF Sockets
<1>8. CASE U!SetUpFails("client")
  <2>1. Places'
    BY <1>8 DEF Places, U!SetUpFails
  <2>2. OpenEnds'
    BY <1>8 DEF OpenEnds, Met, U!SetUpFails
  <2>3. Met'
    BY <1>8 DEF Met, OpenEnds, U!SetUpFails
  <2>4. Heard'
    BY <1>8 DEF Heard, Met, U!SetUpFails
  <2>5. ToServer'
    BY <1>8 DEF ToServer, Heard, U!SetUpFails
  <2>6. ToClient'
    BY <1>8 DEF ToClient, Heard, Met, U!SetUpFails
  <2>7. U!InAnswer'
    BY <1>8 DEF U!InAnswer, U!Hello, ToClient, ToServer, Met, OpenEnds, Heard, U!SetUpFails
  <2> QED
    BY <2>1, <2>2, <2>3, <2>4, <2>5, <2>6, <2>7 DEF Sockets
<1>9. CASE U!Listen
  <2>1. Places'
    BY <1>9 DEF Places, U!Listen
  <2>2. OpenEnds'
    BY <1>9 DEF OpenEnds, Met, U!Listen
  <2>3. Met'
    BY <1>9 DEF Met, OpenEnds, U!Listen
  <2>4. Heard'
    BY <1>9 DEF Heard, Met, U!Listen
  <2>5. ToServer'
    BY <1>9 DEF ToServer, Heard, U!Listen
  <2>6. ToClient'
    BY <1>9 DEF ToClient, Heard, Met, U!Listen
  <2>7. U!InAnswer'
    BY <1>9 DEF U!InAnswer, U!Hello, ToClient, ToServer, Met, OpenEnds, Heard, U!Listen
  <2> QED
    BY <2>1, <2>2, <2>3, <2>4, <2>5, <2>6, <2>7 DEF Sockets
<1> QED
  BY <1>1, <1>2, <1>3, <1>4, <1>5, <1>6, <1>7, <1>8, <1>9

\* accept and connect, close and wait.
LEMMA ConnectionKeeps ==
  ASSUME Sockets, U!Accept \/ U!ServerClose \/ U!Wait \/ U!Connect \/ U!ConnectRefused \/ U!ClientClose
  PROVE  Sockets'
<1> USE DEF Sockets, Places, U!Procs, U!Other, U!Go, EarlyServer, LateServer, EarlyClient, LateClient
<1>1. CASE U!Accept
  <2>1. Places'
    BY <1>1 DEF Places, U!Accept
  <2>2. OpenEnds'
    BY <1>1 DEF OpenEnds, Met, U!Accept
  <2>3. Met'
    BY <1>1 DEF Met, OpenEnds, U!Accept
  <2>4. Heard'
    BY <1>1 DEF Heard, Met, U!Accept
  <2>5. ToServer'
    BY <1>1 DEF ToServer, Heard, U!Accept
  <2>6. ToClient'
    BY <1>1 DEF ToClient, Heard, Met, U!Accept
  <2>7. U!InAnswer'
    BY <1>1 DEF U!InAnswer, U!Hello, ToClient, ToServer, Met, OpenEnds, Heard, U!Accept
  <2> QED
    BY <2>1, <2>2, <2>3, <2>4, <2>5, <2>6, <2>7 DEF Sockets
<1>2. CASE U!ServerClose
  <2>1. Places'
    BY <1>2 DEF Places, U!ServerClose
  <2>2. OpenEnds'
    BY <1>2 DEF OpenEnds, Met, U!ServerClose
  <2>3. Met'
    BY <1>2 DEF Met, OpenEnds, U!ServerClose
  <2>4. Heard'
    BY <1>2 DEF Heard, Met, U!ServerClose
  <2>5. ToServer'
    BY <1>2 DEF ToServer, Heard, U!ServerClose
  <2>6. ToClient'
    BY <1>2 DEF ToClient, Heard, Met, U!ServerClose
  <2>7. U!InAnswer'
    BY <1>2 DEF U!InAnswer, U!Hello, ToClient, ToServer, Met, OpenEnds, Heard, U!ServerClose
  <2> QED
    BY <2>1, <2>2, <2>3, <2>4, <2>5, <2>6, <2>7 DEF Sockets
<1>3. CASE U!Wait
  <2>1. Places'
    BY <1>3 DEF Places, U!Wait
  <2>2. OpenEnds'
    BY <1>3 DEF OpenEnds, Met, U!Wait
  <2>3. Met'
    BY <1>3 DEF Met, OpenEnds, U!Wait
  <2>4. Heard'
    BY <1>3 DEF Heard, Met, U!Wait
  <2>5. ToServer'
    BY <1>3 DEF ToServer, Heard, U!Wait
  <2>6. ToClient'
    BY <1>3 DEF ToClient, Heard, Met, U!Wait
  <2>7. U!InAnswer'
    BY <1>3 DEF U!InAnswer, U!Hello, ToClient, ToServer, Met, OpenEnds, Heard, U!Wait
  <2> QED
    BY <2>1, <2>2, <2>3, <2>4, <2>5, <2>6, <2>7 DEF Sockets
<1>4. CASE U!Connect
  <2>1. Places'
    BY <1>4 DEF Places, U!Connect
  <2>2. OpenEnds'
    BY <1>4 DEF OpenEnds, Met, U!Connect
  <2>3. Met'
    BY <1>4 DEF Met, OpenEnds, U!Connect
  <2>4. Heard'
    BY <1>4 DEF Heard, Met, U!Connect
  <2>5. ToServer'
    BY <1>4 DEF ToServer, Heard, U!Connect
  <2>6. ToClient'
    BY <1>4 DEF ToClient, Heard, Met, U!Connect
  <2>7. U!InAnswer'
    BY <1>4 DEF U!InAnswer, U!Hello, ToClient, ToServer, Met, OpenEnds, Heard, U!Connect
  <2> QED
    BY <2>1, <2>2, <2>3, <2>4, <2>5, <2>6, <2>7 DEF Sockets
<1>5. CASE U!ConnectRefused
  <2>1. Places'
    BY <1>5 DEF Places, U!ConnectRefused
  <2>2. OpenEnds'
    BY <1>5 DEF OpenEnds, Met, U!ConnectRefused
  <2>3. Met'
    BY <1>5 DEF Met, OpenEnds, U!ConnectRefused
  <2>4. Heard'
    BY <1>5 DEF Heard, Met, U!ConnectRefused
  <2>5. ToServer'
    BY <1>5 DEF ToServer, Heard, U!ConnectRefused
  <2>6. ToClient'
    BY <1>5 DEF ToClient, Heard, Met, U!ConnectRefused
  <2>7. U!InAnswer'
    BY <1>5 DEF U!InAnswer, U!Hello, ToClient, ToServer, Met, OpenEnds, Heard, U!ConnectRefused
  <2> QED
    BY <2>1, <2>2, <2>3, <2>4, <2>5, <2>6, <2>7 DEF Sockets
<1>6. CASE U!ClientClose
  <2>1. Places'
    BY <1>6 DEF Places, U!ClientClose
  <2>2. OpenEnds'
    BY <1>6 DEF OpenEnds, Met, U!ClientClose
  <2>3. Met'
    BY <1>6 DEF Met, OpenEnds, U!ClientClose
  <2>4. Heard'
    BY <1>6 DEF Heard, Met, U!ClientClose
  <2>5. ToServer'
    BY <1>6 DEF ToServer, Heard, U!ClientClose
  <2>6. ToClient'
    BY <1>6 DEF ToClient, Heard, Met, U!ClientClose
  <2>7. U!InAnswer'
    BY <1>6 DEF U!InAnswer, U!Hello, ToClient, ToServer, Met, OpenEnds, Heard, U!ClientClose
  <2> QED
    BY <2>1, <2>2, <2>3, <2>4, <2>5, <2>6, <2>7 DEF Sockets
<1> QED
  BY <1>1, <1>2, <1>3, <1>4, <1>5, <1>6

\* The client sends its greeting, or is ended by SIGPIPE.
LEMMA ClientSendKeeps ==
  ASSUME Sockets, U!Send("client", "recv") \/ U!SendBroken("client")
  PROVE  Sockets'
<1> USE DEF Sockets, Places, U!Procs, U!Other, U!Go, EarlyServer, LateServer, EarlyClient, LateClient
<1>1. CASE U!Send("client", "recv")
  <2>a. chan["server"] = Empty
    BY <1>1 DEF ToServer, U!Send
  <2>b. chan' = [chan EXCEPT !["server"] = One("hello from client")]
    BY <1>1, <2>a, OneMessage DEF U!Send, U!Hello
  <2>1. Places'
    BY <1>1, <2>a, <2>b DEF Places, U!Send
  <2>2. OpenEnds'
    BY <1>1, <2>a, <2>b DEF OpenEnds, Met, U!Send
  <2>3. Met'
    BY <1>1, <2>a, <2>b DEF Met, OpenEnds, U!Send
  <2>4. Heard'
    BY <1>1, <2>a, <2>b DEF Heard, Met, U!Send
  <2>5. ToServer'
    BY <1>1, <2>a, <2>b DEF ToServer, Heard, U!Send
  <2>6. ToClient'
    BY <1>1, <2>a, <2>b DEF ToClient, Heard, Met, U!Send
  <2>7. U!InAnswer'
    BY <1>1, <2>a, <2>b DEF U!InAnswer, U!Hello, ToClient, ToServer, Met, OpenEnds, Heard, U!Send
  <2> QED
    BY <2>1, <2>2, <2>3, <2>4, <2>5, <2>6, <2>7 DEF Sockets
<1>2. CASE U!SendBroken("client")
  <2>1. Places'
    BY <1>2 DEF Places, U!SendBroken
  <2>2. OpenEnds'
    BY <1>2 DEF OpenEnds, Met, U!SendBroken
  <2>3. Met'
    BY <1>2 DEF Met, OpenEnds, U!SendBroken
  <2>4. Heard'
    BY <1>2 DEF Heard, Met, U!SendBroken
  <2>5. ToServer'
    BY <1>2 DEF ToServer, Heard, U!SendBroken
  <2>6. ToClient'
    BY <1>2 DEF ToClient, Heard, Met, U!SendBroken
  <2>7. U!InAnswer'
    BY <1>2 DEF U!InAnswer, U!Hello, ToClient, ToServer, Met, OpenEnds, Heard, U!SendBroken
  <2> QED
    BY <2>1, <2>2, <2>3, <2>4, <2>5, <2>6, <2>7 DEF Sockets
<1> QED
  BY <1>1, <1>2

\* The server sends its greeting, or is ended by SIGPIPE.
LEMMA ServerSendKeeps ==
  ASSUME Sockets, U!Send("server", "close") \/ U!SendBroken("server")
  PROVE  Sockets'
<1> USE DEF Sockets, Places, U!Procs, U!Other, U!Go, EarlyServer, LateServer, EarlyClient, LateClient
<1>1. CASE U!Send("server", "close")
  <2>a. chan["client"] = Empty /\ got["server"] = "hello from client"
    BY <1>1 DEF ToClient, Heard, OpenEnds, Met, U!Send
  <2>b. /\ chan' = [chan EXCEPT !["client"] = One("hello from server")]
        /\ One("hello from server") # Empty
    BY <1>1, <2>a, OneMessage DEF U!Send, U!Hello
  <2>1. Places'
    BY <1>1, <2>a, <2>b DEF Places, U!Send
  <2>2. OpenEnds'
    BY <1>1, <2>a, <2>b DEF OpenEnds, Met, U!Send
  <2>3. Met'
    BY <1>1, <2>a, <2>b DEF Met, OpenEnds, U!Send
  <2>4. Heard'
    BY <1>1, <2>a, <2>b DEF Heard, Met, U!Send
  <2>5. ToServer'
    BY <1>1, <2>a, <2>b DEF ToServer, Heard, U!Send
  <2>6. ToClient'
    BY <1>1, <2>a, <2>b DEF ToClient, Heard, Met, U!Send
  <2>7. U!InAnswer'
    BY <1>1, <2>a, <2>b DEF U!InAnswer, U!Hello, ToClient, ToServer, Met, OpenEnds, Heard, U!Send
  <2> QED
    BY <2>1, <2>2, <2>3, <2>4, <2>5, <2>6, <2>7 DEF Sockets
<1>2. CASE U!SendBroken("server")
  <2>1. Places'
    BY <1>2 DEF Places, U!SendBroken
  <2>2. OpenEnds'
    BY <1>2 DEF OpenEnds, Met, U!SendBroken
  <2>3. Met'
    BY <1>2 DEF Met, OpenEnds, U!SendBroken
  <2>4. Heard'
    BY <1>2 DEF Heard, Met, U!SendBroken
  <2>5. ToServer'
    BY <1>2 DEF ToServer, Heard, U!SendBroken
  <2>6. ToClient'
    BY <1>2 DEF ToClient, Heard, Met, U!SendBroken
  <2>7. U!InAnswer'
    BY <1>2 DEF U!InAnswer, U!Hello, ToClient, ToServer, Met, OpenEnds, Heard, U!SendBroken
  <2> QED
    BY <2>1, <2>2, <2>3, <2>4, <2>5, <2>6, <2>7 DEF Sockets
<1> QED
  BY <1>1, <1>2

\* The server receives the greeting or the end of file of a dead client.
LEMMA ServerRecvKeeps ==
  ASSUME Sockets, U!Recv("server", "send") \/ U!RecvEof("server", "send")
  PROVE  Sockets'
<1> USE DEF Sockets, Places, U!Procs, U!Other, U!Go, EarlyServer, LateServer, EarlyClient, LateClient
<1>1. CASE U!Recv("server", "send")
  <2>a. chan["server"] = One("hello from client") /\ chan["server"] # Empty
    BY <1>1 DEF ToServer, U!Recv, Empty
  <2>b. /\ got' = [got EXCEPT !["server"] = "hello from client"]
        /\ chan' = [chan EXCEPT !["server"] = Empty]
    BY <1>1, <2>a, OneMessage DEF U!Recv
  <2>1. Places'
    BY <1>1, <2>a, <2>b DEF Places, U!Recv
  <2>2. OpenEnds'
    BY <1>1, <2>a, <2>b DEF OpenEnds, Met, U!Recv
  <2>3. Met'
    BY <1>1, <2>a, <2>b DEF Met, OpenEnds, U!Recv
  <2>4. Heard'
    BY <1>1, <2>a, <2>b DEF Heard, Met, U!Recv
  <2>5. ToServer'
    BY <1>1, <2>a, <2>b DEF ToServer, Heard, U!Recv
  <2>6. ToClient'
    BY <1>1, <2>a, <2>b DEF ToClient, Heard, Met, U!Recv
  <2>7. U!InAnswer'
    <3>1. /\ got'["server"] = "hello from client" /\ got'["client"] = got["client"]
          /\ uAt' = [uAt EXCEPT !["server"] = "send"]
      BY <1>1, <2>b DEF Heard, U!Recv
    <3>2. got["client"] = "empty" => uAt["server"] = "killed"
      BY DEF U!InAnswer
    <3>3. uAt["server"] = "recv"
      BY <1>1 DEF U!Recv
    <3> QED
      BY <3>1, <3>2, <3>3 DEF U!InAnswer, U!Hello
  <2> QED
    BY <2>1, <2>2, <2>3, <2>4, <2>5, <2>6, <2>7 DEF Sockets
<1>2. CASE U!RecvEof("server", "send")
  <2>a. uAt["client"] = "killed" /\ chan["server"] = Empty /\ chan["client"] = Empty
    BY <1>2 DEF U!RecvEof, Met, OpenEnds, Empty
  <2>1. Places'
    BY <1>2, <2>a DEF Places, U!RecvEof
  <2>2. OpenEnds'
    BY <1>2, <2>a DEF OpenEnds, Met, U!RecvEof
  <2>3. Met'
    BY <1>2, <2>a DEF Met, OpenEnds, U!RecvEof
  <2>4. Heard'
    BY <1>2, <2>a DEF Heard, Met, U!RecvEof
  <2>5. ToServer'
    BY <1>2, <2>a DEF ToServer, Heard, U!RecvEof
  <2>6. ToClient'
    BY <1>2, <2>a DEF ToClient, Heard, Met, U!RecvEof
  <2>7. U!InAnswer'
    BY <1>2, <2>a DEF U!InAnswer, U!Hello, ToClient, ToServer, Met, OpenEnds, Heard, U!RecvEof
  <2> QED
    BY <2>1, <2>2, <2>3, <2>4, <2>5, <2>6, <2>7 DEF Sockets
<1> QED
  BY <1>1, <1>2

\* The client receives the greeting, the end of file or the reset of a dead server.
LEMMA ClientRecvKeeps ==
  ASSUME Sockets, U!Recv("client", "close") \/ U!RecvEof("client", "close") \/ U!RecvReset("client")
  PROVE  Sockets'
<1> USE DEF Sockets, Places, U!Procs, U!Other, U!Go, EarlyServer, LateServer, EarlyClient, LateClient
<1>1. CASE U!Recv("client", "close")
  <2>a. /\ chan["client"] = One("hello from server") /\ chan["client"] # Empty
        /\ got["server"] = "hello from client" /\ uAt["server"] # "accept"
    BY <1>1 DEF ToClient, U!Recv, Empty
  <2>b. /\ got' = [got EXCEPT !["client"] = "hello from server"]
        /\ chan' = [chan EXCEPT !["client"] = Empty]
    BY <1>1, <2>a, OneMessage DEF U!Recv
  <2>1. Places'
    BY <1>1, <2>a, <2>b DEF Places, U!Recv
  <2>2. OpenEnds'
    BY <1>1, <2>a, <2>b DEF OpenEnds, Met, U!Recv
  <2>3. Met'
    BY <1>1, <2>a, <2>b DEF Met, OpenEnds, U!Recv, ToClient
  <2>4. Heard'
    BY <1>1, <2>a, <2>b DEF Heard, Met, U!Recv
  <2>5. ToServer'
    BY <1>1, <2>a, <2>b DEF ToServer, Heard, U!Recv
  <2>6. ToClient'
    BY <1>1, <2>a, <2>b DEF ToClient, Heard, Met, U!Recv
  <2>7. U!InAnswer'
    <3>1. got'["client"] = "hello from server" /\ got'["server"] = "hello from client"
      BY <2>a, <2>b DEF Heard
    <3> QED
      BY <3>1 DEF U!InAnswer, U!Hello
  <2> QED
    BY <2>1, <2>2, <2>3, <2>4, <2>5, <2>6, <2>7 DEF Sockets
<1>2. CASE U!RecvEof("client", "close")
  <2>a. chan["client"] = Empty /\ uAt["server"] = "killed"
    BY <1>2 DEF U!RecvEof, Met, OpenEnds, Heard, ToClient, Empty
  <2>1. Places'
    BY <1>2, <2>a DEF Places, U!RecvEof
  <2>2. OpenEnds'
    BY <1>2, <2>a DEF OpenEnds, Met, U!RecvEof
  <2>3. Met'
    BY <1>2, <2>a DEF Met, OpenEnds, U!RecvEof
  <2>4. Heard'
    BY <1>2, <2>a DEF Heard, Met, U!RecvEof
  <2>5. ToServer'
    BY <1>2, <2>a DEF ToServer, Heard, U!RecvEof
  <2>6. ToClient'
    BY <1>2, <2>a DEF ToClient, Heard, Met, U!RecvEof
  <2>7. U!InAnswer'
    BY <1>2, <2>a DEF U!InAnswer, U!Hello, ToClient, ToServer, Met, OpenEnds, Heard, U!RecvEof
  <2> QED
    BY <2>1, <2>2, <2>3, <2>4, <2>5, <2>6, <2>7 DEF Sockets
<1>3. CASE U!RecvReset("client")
  <2>1. Places'
    BY <1>3 DEF Places, U!RecvReset
  <2>2. OpenEnds'
    BY <1>3 DEF OpenEnds, Met, U!RecvReset
  <2>3. Met'
    BY <1>3 DEF Met, OpenEnds, U!RecvReset
  <2>4. Heard'
    BY <1>3 DEF Heard, Met, U!RecvReset
  <2>5. ToServer'
    BY <1>3 DEF ToServer, Heard, U!RecvReset
  <2>6. ToClient'
    BY <1>3 DEF ToClient, Heard, Met, U!RecvReset
  <2>7. U!InAnswer'
    BY <1>3 DEF U!InAnswer, U!Hello, ToClient, ToServer, Met, OpenEnds, Heard, U!RecvReset
  <2> QED
    BY <2>1, <2>2, <2>3, <2>4, <2>5, <2>6, <2>7 DEF Sockets
<1> QED
  BY <1>1, <1>2, <1>3

\* A death at any point.
LEMMA KillKeeps ==
  ASSUME Sockets, U!Killed
  PROVE  Sockets'
<1> USE DEF Sockets, Places, U!Procs, U!Other, U!Ends, EarlyServer, LateServer, EarlyClient, LateClient
<1>0. uKillable \in U!Procs
  BY DEF U!Killed
<1>1. CASE uKillable = "server"
  <2>1. Places'
    BY <1>1 DEF Places, U!Killed
  <2>2. OpenEnds'
    BY <1>1 DEF OpenEnds, Met, U!Killed
  <2>3. Met'
    BY <1>1 DEF Met, OpenEnds, U!Killed
  <2>4. Heard'
    BY <1>1 DEF Heard, Met, U!Killed
  <2>5. ToServer'
    BY <1>1 DEF ToServer, Heard, U!Killed
  <2>6. ToClient'
    BY <1>1 DEF ToClient, Heard, Met, U!Killed
  <2>7. U!InAnswer'
    BY <1>1 DEF U!InAnswer, U!Hello, ToClient, ToServer, Met, OpenEnds, Heard, U!Killed
  <2> QED
    BY <2>1, <2>2, <2>3, <2>4, <2>5, <2>6, <2>7 DEF Sockets
<1>2. CASE uKillable = "client"
  <2>1. Places'
    BY <1>2 DEF Places, U!Killed
  <2>2. OpenEnds'
    BY <1>2 DEF OpenEnds, Met, U!Killed
  <2>3. Met'
    BY <1>2 DEF Met, OpenEnds, U!Killed
  <2>4. Heard'
    BY <1>2 DEF Heard, Met, U!Killed
  <2>5. ToServer'
    BY <1>2 DEF ToServer, Heard, U!Killed
  <2>6. ToClient'
    BY <1>2 DEF ToClient, Heard, Met, U!Killed
  <2>7. U!InAnswer'
    BY <1>2 DEF U!InAnswer, U!Hello, ToClient, ToServer, Met, OpenEnds, Heard, U!Killed
  <2> QED
    BY <2>1, <2>2, <2>3, <2>4, <2>5, <2>6, <2>7 DEF Sockets
<1> QED
  BY <1>0, <1>1, <1>2

LEMMA SocketsKeep == Sockets /\ [U!Next]_uVars => Sockets'
<1> SUFFICES ASSUME Sockets, [U!Next]_uVars PROVE Sockets'
  OBVIOUS
<1>1. CASE U!Server
  BY <1>1, SetUpKeeps, ConnectionKeeps, ServerSendKeeps, ServerRecvKeeps DEF U!Server
<1>2. CASE U!Client
  BY <1>2, SetUpKeeps, ConnectionKeeps, ClientSendKeeps, ClientRecvKeeps DEF U!Client
<1>3. CASE UNCHANGED uVars
  <2> USE <1>3 DEF uVars, Sockets
  <2>1. Places' /\ OpenEnds'
    BY DEF Places, OpenEnds
  <2>2. Met' /\ Heard'
    BY DEF Met, Heard
  <2>3. ToServer' /\ ToClient'
    BY DEF ToServer, ToClient
  <2>4. U!InAnswer'
    BY DEF U!InAnswer
  <2> QED
    BY <2>1, <2>2, <2>3, <2>4
<1> QED
  BY <1>1, <1>2, <1>3, KillKeeps DEF U!Next

LEMMA SocketsFit == Sockets => U!TypeOK /\ U!InAnswer
<1>1. Sockets => \A p \in U!Procs : chan[p] \in {<<>>, <<U!Hello(U!Other(p))>>}
  BY DEF Sockets, ToServer, ToClient, U!Procs, U!Hello, U!Other, Empty, One
<1>2. Sockets => \A p \in U!Procs : got[p] \in {"nothing", "empty", U!Hello(U!Other(p))}
  BY DEF Sockets, Heard, U!Procs, U!Hello, U!Other
<1>3. Sockets => uAt \in [U!Procs -> {"fork", "unborn", "socket", "bind", "listen", "accept",
                       "connect", "send", "recv", "close", "wait",
                       "exit0", "exit1", "killed", "failed", "done"}]
  BY DEF Sockets, Places, U!Procs, EarlyServer, LateServer, EarlyClient, LateClient
<1> QED
  BY <1>1, <1>2, <1>3 DEF Sockets, Places, U!TypeOK

\* Both programs: after whatever death and whatever refused call, the answer a
\* parent holds is that of its letter, and a greeting answers a greeting.
THEOREM EachAnswerFits == MCSpec => []AnswersFit
<1>1. MCInit => IInv /\ Sockets
  BY InitIInv, SocketsInit DEF MCInit
<1>2. MCNext => [Next]_vars /\ [U!Next]_uVars
  BY DEF MCNext, ByPipe, BySocket, ByMemory
<1>3. IInv /\ Sockets /\ [MCNext]_allVars => IInv' /\ Sockets'
  BY <1>2, NextKeepsIInv, SocketsKeep, StutterKeeps DEF allVars, vars, uVars
<1>4. IInv /\ Sockets => AnswersFit
  BY PipeTypes, SocketsFit DEF IInv, AnswersFit
<1> QED
  BY <1>1, <1>3, <1>4, PTL DEF MCSpec
=============================================================================
