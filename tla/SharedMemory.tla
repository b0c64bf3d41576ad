---------------------------- MODULE SharedMemory ----------------------------
(***************************************************************************)
(* Samples_Multi_process/test_shared_memory_1.cpp: parent and child pass a *)
(* message, a pid and a counter, through a shared memory object that each  *)
(* reader unlinks and each writer creates anew under the same name.  There *)
(* is no lock: the sleep of 100 ms after every round is all that separates *)
(* the two.                                                                *)
(*                                                                         *)
(* The name and the objects are apart, as they are for the kernel: a       *)
(* process that has an object mapped keeps it when the name is unlinked or *)
(* given to another object.  A new object is zero-filled, and 0 is also    *)
(* what the child calls itself.  The two stores of a message are plain     *)
(* stores that the compiler may put in either order; the loads stand on    *)
(* two sides of a library call and cannot be moved.                        *)
(*                                                                         *)
(* System calls other than opening a missing name are taken to succeed.    *)
(***************************************************************************)
EXTENDS Integers, FiniteSets

CONSTANT Rounds  \* rounds of each process (5 in the source)

\* MCLocalIpc assumes the same of its Rounds.
RoundsAssumption == Rounds \in Nat \ {0}

VARIABLES
  name,     \* the object called SHARED_OBJ_NAME, or None
  objects,  \* the contents of each object
  at,       \* where each process stands
  map,      \* the object each process has mapped, or None
  value,    \* the local variable value of each process
  unset,    \* the fields of the message that a writer has still to store
  round,    \* rounds each process has finished
  stores,   \* how many counters have been stored since the fork (auxiliary)
  paced     \* whether the sleeps keep the rounds apart and in turn

vars == <<name, objects, at, map, value, unset, round, stores, paced>>

Procs == {"parent", "child"}

Other(p) == IF p = "parent" THEN "child" ELSE "parent"

\* What fork returned: how a process signs its messages and knows its own.
\* The pid of the child, any positive number, is 1 here.
Tag(p) == IF p = "parent" THEN 1 ELSE 0

\* At most one object has the name and two more are mapped.
Objects == 1 .. 3
None == 0

Zeroed == [pid |-> 0, counter |-> 0]

\* main writes (-1, 0) before it forks.
Init ==
  /\ name = 1
  /\ objects = [o \in Objects |->
                  IF o = 1 THEN [pid |-> -1, counter |-> 0] ELSE Zeroed]
  /\ at = [p \in Procs |-> "rest"]
  /\ map = [p \in Procs |-> None]
  /\ value = [p \in Procs |-> 0]
  /\ unset = [p \in Procs |-> {}]
  /\ round = [p \in Procs |-> 0]
  /\ stores = 0
  /\ paced \in BOOLEAN

Go(p, from, to) == at[p] = from /\ at' = [at EXCEPT ![p] = to]

\* Sleeps that work: a round starts while the other process sleeps or has
\* ended, and the parent and the child go in turn, the parent first.
InTurn(p) ==
  /\ at[Other(p)] \notin {"check", "take", "drop", "unlink", "open", "store"}
  /\ IF p = "parent" THEN round[p] = round[Other(p)]
                     ELSE round[p] < round[Other(p)]

EndRound(p) ==
  /\ round' = [round EXCEPT ![p] = @ + 1]
  /\ map' = [map EXCEPT ![p] = None]
  /\ UNCHANGED <<name, value, paced>>
-----------------------------------------------------------------------------
(* Plausible bugs: each form below, in the place of the action it is named *)
(* after, breaks a property.                                               *)

\* A reader waits for the name instead of giving up.
OpenToReadBlocking(p) ==
  /\ round[p] < Rounds
  /\ paced => InTurn(p)
  /\ Go(p, "rest", "check")
  /\ name # None
  /\ map' = [map EXCEPT ![p] = name]
  /\ UNCHANGED <<name, objects, value, unset, round, stores, paced>>

\* The reader adds its own increment to the one of the writer.
TakeTwice(p) ==
  /\ Go(p, "take", "unlink")
  /\ value' = [value EXCEPT ![p] = objects[map[p]].counter + 1]
  /\ UNCHANGED <<name, objects, map, unset, round, stores, paced>>

\* A writer that does not create the object when the name is missing (no
\* O_CREAT) and keeps quiet about it.
OpenToWriteNoCreate(p) ==
  /\ at[p] = "open"
  /\ at' = [at EXCEPT ![p] = IF name = None THEN "rest" ELSE "store"]
  /\ round' = [round EXCEPT ![p] = IF name = None THEN @ + 1 ELSE @]
  /\ map' = [map EXCEPT ![p] = name]
  /\ value' = [value EXCEPT ![p] = @ + 1]
  /\ unset' = [unset EXCEPT ![p] = IF name = None THEN {} ELSE {"pid", "counter"}]
  /\ UNCHANGED <<name, objects, stores, paced>>
-----------------------------------------------------------------------------
(* read_message *)

\* shm_open of an existing name, or exit(1).
OpenToRead(p) ==
  /\ round[p] < Rounds
  /\ paced => InTurn(p)
  /\ Go(p, "rest", IF name = None THEN "exit1" ELSE "check")
  /\ map' = [map EXCEPT ![p] = name]
  /\ UNCHANGED <<name, objects, value, unset, round, stores, paced>>

CheckPid(p) ==
  /\ Go(p, "check", IF objects[map[p]].pid = Tag(p) THEN "drop" ELSE "take")
  /\ UNCHANGED <<name, objects, map, value, unset, round, stores, paced>>

\* "No new msg available": the name is unlinked all the same.
Drop(p) ==
  /\ Go(p, "drop", "rest")
  /\ name' = None
  /\ round' = [round EXCEPT ![p] = @ + 1]
  /\ map' = [map EXCEPT ![p] = None]
  /\ UNCHANGED <<objects, value, unset, stores, paced>>

Take(p) ==
  /\ Go(p, "take", "unlink")
  /\ value' = [value EXCEPT ![p] = objects[map[p]].counter]
  /\ UNCHANGED <<name, objects, map, unset, round, stores, paced>>

\* shm_unlink removes whatever object has the name by now.
Unlink(p) ==
  /\ Go(p, "unlink", "open")
  /\ name' = None
  /\ map' = [map EXCEPT ![p] = None]
  /\ UNCHANGED <<objects, value, unset, round, stores, paced>>
-----------------------------------------------------------------------------
(* write_message(pid, ++value) *)

\* A new object, other than the one m that is mapped.
Fresh(m) == CHOOSE o \in Objects : o # m

\* shm_open with O_CREAT: the object of that name, or a new one.
OpenToWrite(p) ==
  /\ Go(p, "open", "store")
  /\ IF name # None
       THEN UNCHANGED <<name, objects>>
       ELSE /\ name' = Fresh(map[Other(p)])
            /\ objects' = [objects EXCEPT ![name'] = Zeroed]
  /\ map' = [map EXCEPT ![p] = name']
  /\ value' = [value EXCEPT ![p] = @ + 1]
  /\ unset' = [unset EXCEPT ![p] = {"pid", "counter"}]
  /\ UNCHANGED <<round, stores, paced>>

\* The stores of lines 42 and 43, and after them munmap and close.
Store(p, field) ==
  /\ at[p] = "store"
  /\ field \in unset[p]
  /\ unset' = [unset EXCEPT ![p] = @ \ {field}]
  /\ IF field = "pid"
       THEN /\ objects' = [objects EXCEPT ![map[p]].pid = Tag(p)]
            /\ UNCHANGED stores
       ELSE /\ objects' = [objects EXCEPT ![map[p]].counter = value[p]]
            /\ stores' = stores + 1
  /\ IF unset'[p] = {}
       THEN /\ at' = [at EXCEPT ![p] = "rest"]
            /\ EndRound(p)
       ELSE UNCHANGED <<at, name, map, value, round, paced>>
-----------------------------------------------------------------------------
(* main after the loops *)

ChildExits ==
  /\ round["child"] = Rounds
  /\ Go("child", "rest", "exit0")
  /\ UNCHANGED <<name, objects, map, value, unset, round, stores, paced>>

\* wait() returns once the child has ended in whatever way; "test finish".
ParentExits ==
  /\ round["parent"] = Rounds
  /\ at["child"] \in {"exit0", "exit1"}
  /\ Go("parent", "rest", "done")
  /\ UNCHANGED <<name, objects, map, value, unset, round, stores, paced>>

Step(p) ==
  \/ OpenToRead(p)
  \/ CheckPid(p)
  \/ Drop(p)
  \/ Take(p)
  \/ Unlink(p)
  \/ OpenToWrite(p)
  \/ \E field \in {"pid", "counter"} : Store(p, field)

Parent == Step("parent") \/ ParentExits
Child == Step("child") \/ ChildExits

Next == Parent \/ Child

SafeSpec == Init /\ [][Next]_vars

\* The kernel schedules both processes.
Spec == SafeSpec /\ WF_vars(Parent) /\ WF_vars(Child)
-----------------------------------------------------------------------------
Message == [pid : {-1, 0, 1}, counter : Nat]

TypeOK ==
  /\ name \in Objects \cup {None}
  /\ objects \in [Objects -> Message]
  /\ at \in [Procs -> {"rest", "check", "drop", "take", "unlink", "open",
                       "store", "exit0", "exit1", "done"}]
  /\ map \in [Procs -> Objects \cup {None}]
  /\ value \in [Procs -> Nat]
  /\ unset \in [Procs -> SUBSET {"pid", "counter"}]
  /\ round \in [Procs -> 0 .. Rounds]
  /\ stores \in Nat
  /\ paced \in BOOLEAN
  /\ \A p \in Procs : at[p] \in {"check", "take", "store"} => map[p] # None

Ended == at["parent"] \in {"done", "exit1"} /\ at["child"] \in {"exit0", "exit1"}

\* However the two processes race, torn and mixed messages included, a counter
\* never runs ahead of the increments that have been stored.
NeverAhead ==
  /\ \A o \in Objects : objects[o].counter <= stores
  /\ \A p \in Procs :
       value[p] <= stores + (IF "counter" \in unset[p] THEN 1 ELSE 0)

\* With sleeps that keep the rounds apart and in turn nothing is lost: a
\* process that looks for a message always finds one, it is the other's, and
\* its counter is the number of messages so far.
PacedIsExact ==
  paced => /\ \A p \in Procs : at[p] \notin {"drop", "exit1"}
           /\ \A p \in Procs : at[p] = "unlink" => value[p] = stores
           /\ Ended => stores = 2 * Rounds

\* Nobody waits for a message: both processes end, a missing name included.
Terminates == <>Ended

\* "Process %d: Increase the counter" (line 41): the n-th increment announced
\* stores n.  It does not: two readers of one message both store its successor.
CounterIncreases ==
  [][stores' # stores => \E p \in Procs : unset'[p] # unset[p] /\ value[p] = stores']_vars
=============================================================================
