----------------------------- MODULE NamedPipe -----------------------------
(***************************************************************************)
(* Samples_Multi_process/test_named_pipe_1.cpp: the parent writes a letter *)
(* into one FIFO, the child answers with the upper-case letter through a   *)
(* second one, Rounds times.  Either process may be killed from outside;   *)
(* the code tests ret < 0 only, so an end of file (ret = 0) passes for a   *)
(* message.                                                                *)
(*                                                                         *)
(* A letter is the number of its round and its case.  A write is one       *)
(* message: it is shorter than PIPE_BUF.  SIGPIPE keeps its default        *)
(* action.  Reads, writes and opens fail in no other way.                  *)
(***************************************************************************)
EXTENDS Integers, Sequences

CONSTANT Rounds  \* letters to send (5 in the source)

ASSUME RoundsAssumption == Rounds \in Nat \ {0}

VARIABLES
  exists,   \* the FIFOs that have a name in the file system
  opened,   \* for each process, the FIFOs it has open or is opening
  pipe,     \* the messages inside each FIFO
  at,       \* where each process stands
  msg,      \* the local variable msg of each process
  served,   \* messages each process has written
  killable  \* the process that may be killed in this execution, or "nobody"

vars == <<exists, opened, pipe, at, msg, served, killable>>

Procs == {"parent", "child"}
Fifos == {"pipe1", "pipe2"}

Other(p) == IF p = "parent" THEN "child" ELSE "parent"

\* The parent writes pipe1 and reads pipe2, the child the other way round.
Out(p) == IF p = "parent" THEN "pipe1" ELSE "pipe2"
In(p) == Out(Other(p))

Letters == [n : 0 .. Rounds - 1, upper : BOOLEAN]

\* What an uninitialised msg may hold.
Junk == [n |-> -1, upper |-> FALSE]

Upper(m) == IF m = Junk THEN Junk ELSE [m EXCEPT !.upper = TRUE]

Dead == {"unborn", "exit0", "done", "failed", "killed"}

\* An earlier run that was killed may have left FIFOs behind.
Init ==
  /\ exists \in SUBSET Fifos
  /\ opened = [p \in Procs |-> {}]
  /\ pipe = [f \in Fifos |-> <<>>]
  /\ at = [p \in Procs |-> IF p = "parent" THEN "mkfifo" ELSE "unborn"]
  /\ msg = [p \in Procs |-> Junk]
  /\ served = [p \in Procs |-> 0]
  /\ killable \in Procs \cup {"nobody"}

Go(p, from, to) == at[p] = from /\ at' = [at EXCEPT ![p] = to]

\* The kernel closes what a process had open when it ends.
End(p, how) ==
  /\ at' = [at EXCEPT ![p] = how]
  /\ opened' = [opened EXCEPT ![p] = {}]
-----------------------------------------------------------------------------
(* Plausible bugs: each form below, in the place of the definition it is   *)
(* named after, breaks a property.                                         *)

\* Each process first opens the FIFO it reads, as if that could not block.
FirstForReading(p) == In(p)

\* The parent does not wait for an answer.
AfterWriteNoAnswer(p) == "next"

\* A FIFO opened for reading AND writing: its reader is a writer too, and
\* never sees the end of file.
ReadEofOwnWriter(p) ==
  /\ pipe[In(p)] = <<>>
  /\ In(p) \notin opened[p] \cup opened[Other(p)]
  /\ Go(p, "read", "next")
  /\ UNCHANGED <<exists, opened, pipe, msg, served, killable>>
-----------------------------------------------------------------------------
(* main before and at fork *)

\* unlink both names, mkfifo both, stat (the first one, twice).
MakeFifos ==
  /\ Go("parent", "mkfifo", "fork")
  /\ exists' = Fifos
  /\ UNCHANGED <<opened, pipe, msg, served, killable>>

\* One of mkfifo, stat and fork fails: main returns -1 and leaves what it made.
StartFails ==
  /\ \/ /\ Go("parent", "mkfifo", "failed")
        /\ exists' \in {{}, {"pipe1"}, Fifos}
     \/ /\ Go("parent", "fork", "failed")
        /\ UNCHANGED exists
  /\ UNCHANGED <<opened, pipe, msg, served, killable>>

Fork ==
  /\ at["parent"] = "fork"
  /\ at' = [p \in Procs |-> "open1"]
  /\ UNCHANGED <<exists, opened, pipe, msg, served, killable>>
-----------------------------------------------------------------------------
(* open() of a FIFO blocks until the other side opens it too.  Both         *)
(* processes open pipe1 first, so the same labels serve both.              *)

First(p) == "pipe1"
Second(p) == "pipe2"

\* A process that finds the FIFO open on the other side goes on, and lets go
\* on a process blocked in open() there; otherwise it blocks.
OpenFifo(p, f, here, blocked, next) ==
  /\ at[p] = here
  /\ opened' = [opened EXCEPT ![p] = @ \cup {f}]
  /\ at' = IF f \in opened[Other(p)]
             THEN [q \in Procs |-> IF q = p \/ at[q] = blocked THEN next ELSE at[q]]
             ELSE [at EXCEPT ![p] = blocked]
  /\ UNCHANGED <<exists, pipe, msg, served, killable>>

Open(p) ==
  \/ OpenFifo(p, First(p), "open1", "opening1", "open2")
  \/ OpenFifo(p, Second(p), "open2", "opening2", "next")
-----------------------------------------------------------------------------
(* The loops.  The parent writes and then reads, the child reads and then  *)
(* writes.                                                                 *)

LoopAgain(p) == served[p] < Rounds

\* Another round, or out of the loop.  A child whose round begins declares
\* its msg anew; the parent fills it in.
NextRound(p) ==
  /\ at[p] = "next"
  /\ IF LoopAgain(p)
       THEN /\ at' = [at EXCEPT ![p] = IF p = "parent" THEN "write" ELSE "read"]
            /\ msg' = [msg EXCEPT ![p] =
                 IF p = "parent" THEN [n |-> served[p], upper |-> FALSE]
                                 ELSE Junk]
       ELSE /\ at' = [at EXCEPT ![p] = "close"]
            /\ UNCHANGED msg
  /\ UNCHANGED <<exists, opened, pipe, served, killable>>

AfterRead(p) == IF p = "parent" THEN "next" ELSE "write"
AfterWrite(p) == IF p = "parent" THEN "read" ELSE "next"

\* The child turns what it has into upper case before it answers.
Received(p, m) == IF p = "child" THEN Upper(m) ELSE m

Read(p) ==
  /\ pipe[In(p)] # <<>>
  /\ Go(p, "read", AfterRead(p))
  /\ msg' = [msg EXCEPT ![p] = Received(p, Head(pipe[In(p)]))]
  /\ pipe' = [pipe EXCEPT ![In(p)] = Tail(@)]
  /\ UNCHANGED <<exists, opened, served, killable>>

\* End of file: nobody writes any more.  read returns 0, which the code takes
\* for a message.
ReadEof(p) ==
  /\ pipe[In(p)] = <<>>
  /\ In(p) \notin opened[Other(p)]
  /\ Go(p, "read", AfterRead(p))
  /\ msg' = [msg EXCEPT ![p] = Received(p, @)]
  /\ UNCHANGED <<exists, opened, pipe, served, killable>>

Write(p) ==
  /\ Out(p) \in opened[Other(p)]
  /\ Go(p, "write", AfterWrite(p))
  /\ pipe' = [pipe EXCEPT ![Out(p)] = Append(@, msg[p])]
  /\ served' = [served EXCEPT ![p] = @ + 1]
  /\ UNCHANGED <<exists, opened, msg, killable>>

\* Nobody reads any more: SIGPIPE ends the writer.
BrokenPipe(p) ==
  /\ at[p] = "write"
  /\ Out(p) \notin opened[Other(p)]
  /\ End(p, "killed")
  /\ UNCHANGED <<exists, pipe, msg, served, killable>>

Close(p) ==
  /\ at[p] = "close"
  /\ End(p, IF p = "parent" THEN "wait" ELSE "exit0")
  /\ UNCHANGED <<exists, pipe, msg, served, killable>>
-----------------------------------------------------------------------------
(* main after the loop of the parent *)

Wait ==
  /\ at["child"] \in {"exit0", "killed"}
  /\ Go("parent", "wait", "cleanup")
  /\ UNCHANGED <<exists, opened, pipe, msg, served, killable>>

\* unlink both names, "test finish".
CleanUp ==
  /\ Go("parent", "cleanup", "done")
  /\ exists' = {}
  /\ UNCHANGED <<opened, pipe, msg, served, killable>>

\* A signal from outside, at any time.
Killed ==
  /\ killable # "nobody"
  /\ at[killable] \notin Dead
  /\ End(killable, "killed")
  /\ UNCHANGED <<exists, pipe, msg, served, killable>>

Step(p) ==
  \/ Open(p) \/ NextRound(p) \/ Read(p) \/ ReadEof(p)
  \/ Write(p) \/ BrokenPipe(p) \/ Close(p)

Parent == MakeFifos \/ StartFails \/ Fork \/ Step("parent") \/ Wait \/ CleanUp
Child == Step("child")

Next == Parent \/ Child \/ Killed

SafeSpec == Init /\ [][Next]_vars

\* The kernel schedules both processes; nobody has to be killed.
Fairness == WF_vars(Parent) /\ WF_vars(Child)

Spec == SafeSpec /\ Fairness
-----------------------------------------------------------------------------
TypeOK ==
  /\ exists \subseteq Fifos
  /\ opened \in [Procs -> SUBSET Fifos]
  /\ \A f \in Fifos : Len(pipe[f]) <= 1
                      /\ \A k \in DOMAIN pipe[f] : pipe[f][k] \in Letters \cup {Junk}
  /\ at \in [Procs -> {"mkfifo", "fork", "open1", "opening1", "open2", "opening2",
                       "next", "read", "write", "close", "wait", "cleanup"} \cup Dead]
  /\ msg \in [Procs -> Letters \cup {Junk}]
  /\ served \in [Procs -> 0 .. Rounds]

\* Letter and answer alternate strictly, even in an execution that is cut
\* short by a death: at most one message is under way.
Turns == INSTANCE Alternation WITH Leader <- "parent", Follower <- "child"

AlternatesSafely == Turns!SafeSpec

\* A round of the parent ends with the upper case of the letter it sent, or,
\* after the child's death, with the letter itself: never with the answer to
\* another letter nor with what was in an uninitialised msg.
AnswerFits ==
  at["parent"] \in {"next", "close"} /\ served["parent"] > 0 =>
    /\ msg["parent"].n = served["parent"] - 1
    /\ at["child"] # "killed" => msg["parent"].upper

\* Once every FIFO is open on both sides, no death leaves the other process
\* hanging: an end of file or SIGPIPE lets it go on to its end.
Connected == \A p \in Procs : opened[p] = Fifos

Ended == \A p \in Procs : at[p] \in Dead

NoHangOnceConnected == Connected ~> Ended

\* With nobody killed and a good start, the program reports the end of the
\* test, the child has exited with 0, and no FIFO is left behind.
FinishesIfSpared ==
  killable = "nobody" ~> \/ at["parent"] = "failed"
                         \/ /\ at["parent"] = "done" /\ at["child"] = "exit0"
                            /\ exists = {} /\ served["child"] = Rounds
=============================================================================
