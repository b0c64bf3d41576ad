----------------------------- MODULE ForkServer -----------------------------
(***************************************************************************)
(* Samples_Socket/test_server8.cpp and test_client8.cpp: for every         *)
(* connection the server forks a child that greets the client.             *)
(*                                                                         *)
(* Line 51 compares (==) where it should assign, so that connect_fd never  *)
(* holds what accept returned: it is read uninitialised and keeps, for the *)
(* whole execution, the value the stack happens to have.  The server still *)
(* serves the clients whose connection gets that very descriptor, because  *)
(* accept takes the lowest free one and the loop closes connect_fd.        *)
(*                                                                         *)
(* When recv fails, buff[n] is buff[-1]: a byte of another local variable  *)
(* is zeroed.  That of a small descriptor is zero already, and a garbage   *)
(* value that is no descriptor becomes one that is none either.            *)
(***************************************************************************)
EXTENDS Integers, Sequences, SequencesExt, FiniteSets

CONSTANTS
  Clients,
  MaxFd,      \* the highest descriptor a process may have
  Garbage,    \* what connect_fd may hold; beyond 0 .. MaxFd it is no descriptor
  ChildLimit  \* the processes the server may have at once

Listener == 3

\* The assumption of the theorems about this module.
ForkAssumption ==
  /\ MaxFd \in Nat /\ MaxFd > Listener
  /\ Garbage \subseteq Int
  /\ ChildLimit \in Nat
  /\ Clients \cap {"free", "std", "listener"} = {}
  /\ IsFiniteSet(Clients)

Fds == 0 .. MaxFd

VARIABLES
  connectFd,  \* connect_fd
  srv,        \* where the server stands
  files,      \* what the server's descriptors are open on
  backlog,    \* connections waiting for accept
  slots,      \* the descriptors accept has returned, in this order (history)
  slot,       \* the one of each client, -1 if it has not been accepted
  born,       \* children forked; nobody waits for them, all stay as zombies
  child,      \* what the child forked for a client does
  greeted,    \* the clients to which the greeting has been sent
  at          \* where each client stands

vars ==
  <<connectFd, srv, files, backlog, slots, slot, born, child, greeted, at>>

Init ==
  /\ connectFd \in Garbage
  /\ srv = "accept"
  /\ files = [fd \in Fds |-> IF fd < Listener THEN "std"
                             ELSE IF fd = Listener THEN "listener" ELSE "free"]
  /\ backlog = <<>> /\ slots = <<>> /\ born = 0 /\ greeted = {}
  /\ slot = [c \in Clients |-> -1]
  /\ child = [c \in Clients |-> "none"]
  /\ at = [c \in Clients |-> "start"]

Ended == {"answered", "empty", "killed", "failed"}

\* The descriptor the kernel gives next.
Lowest(fd) == files[fd] = "free" /\ \A f \in Fds : f < fd => files[f] # "free"

Listening == files[Listener] = "listener"

\* The client connect_fd is connected with, if it is a connection at all.
Served == IF connectFd \in Fds /\ files[connectFd] \in Clients
            THEN {files[connectFd]} ELSE {}

\* Somebody on the server's side still holds the connection.
Connected(c) ==
  \/ c \in ToSet(backlog)
  \/ \E fd \in Fds : files[fd] = c
  \/ child[c] \in {"send", "close"}
-----------------------------------------------------------------------------
(* Plausible bugs: each form below, in the place of the definition it is   *)
(* named after, breaks a property.                                         *)

\* The parent leaves the connection open.
CloseNothing ==
  /\ srv = "close"
  /\ srv' = "accept"
  /\ UNCHANGED <<connectFd, files, backlog, slots, slot, born, child, greeted, at>>

\* When there can be no child the turn ends at once.
ForkOrContinue ==
  /\ srv = "fork"
  /\ IF born < ChildLimit
       THEN /\ born' = born + 1
            /\ child' = [c \in Clients |-> IF c \in Served THEN "send" ELSE child[c]]
            /\ srv' = "close"
       ELSE srv' = "accept" /\ UNCHANGED <<born, child>>
  /\ UNCHANGED <<connectFd, files, backlog, slots, slot, greeted, at>>
-----------------------------------------------------------------------------
(* server *)

Accept ==
  /\ srv = "accept" /\ Listening /\ backlog # <<>>
  /\ \E fd \in Fds :
       /\ Lowest(fd)
       /\ files' = [files EXCEPT ![fd] = Head(backlog)]
       /\ slot' = [slot EXCEPT ![Head(backlog)] = fd]
       /\ slots' = Append(slots, fd)
  /\ backlog' = Tail(backlog)
  /\ srv' = "recv"
  /\ UNCHANGED <<connectFd, born, child, greeted, at>>

\* The result of a comparison is never -1: nobody notices.
AcceptFails ==
  /\ srv = "accept"
  /\ ~Listening \/ \A fd \in Fds : files[fd] # "free"
  /\ srv' = "recv"
  /\ UNCHANGED <<connectFd, files, backlog, slots, slot, born, child, greeted, at>>

\* recv waits for the client, or for its end; on anything but a connection it
\* fails at once.
Recv ==
  /\ srv = "recv"
  /\ \A c \in Served : at[c] \notin {"start", "prompt"}
  /\ srv' = "fork"
  /\ UNCHANGED <<connectFd, files, backlog, slots, slot, born, child, greeted, at>>

\* A child that holds no connection in connect_fd ends at once.  When fork
\* fails the parent goes on as if there were a child.
Fork ==
  /\ srv = "fork"
  /\ IF born < ChildLimit
       THEN /\ born' = born + 1
            /\ child' = [c \in Clients |-> IF c \in Served THEN "send" ELSE child[c]]
       ELSE UNCHANGED <<born, child>>
  /\ srv' = "close"
  /\ UNCHANGED <<connectFd, files, backlog, slots, slot, greeted, at>>

\* Closing the listening socket resets the connections that wait.
Close ==
  /\ srv = "close"
  /\ files' = [fd \in Fds |-> IF fd = connectFd THEN "free" ELSE files[fd]]
  /\ backlog' = IF connectFd = Listener THEN <<>> ELSE backlog
  /\ srv' = "accept"
  /\ UNCHANGED <<connectFd, slots, slot, born, child, greeted, at>>

\* A greeting for a client that is gone is lost, and the child perhaps killed.
ChildSend(c) ==
  /\ child[c] = "send"
  /\ child' = [child EXCEPT ![c] = "close"]
  /\ greeted' = greeted \cup {c}
  /\ UNCHANGED <<connectFd, srv, files, backlog, slots, slot, born, at>>

ChildExits(c) ==
  /\ child[c] = "close"
  /\ child' = [child EXCEPT ![c] = "zombie"]
  /\ UNCHANGED <<connectFd, srv, files, backlog, slots, slot, born, greeted, at>>

Server == Accept \/ AcceptFails \/ Recv \/ Fork \/ Close

Child(c) == ChildSend(c) \/ ChildExits(c)
-----------------------------------------------------------------------------
(* client *)

Go(c, from, to) == at[c] = from /\ at' = [at EXCEPT ![c] = to]

\* Once the server has closed its listening socket a child's copy of it may
\* still take a connection, which is reset when the child ends.
Connect(c) ==
  /\ IF Listening
       THEN Go(c, "start", "prompt") /\ backlog' = Append(backlog, c)
       ELSE (Go(c, "start", "failed") \/ Go(c, "start", "prompt")) /\ UNCHANGED backlog
  /\ UNCHANGED <<connectFd, srv, files, slots, slot, born, child, greeted>>

\* The user types a line (fgets), which is sent; send fails, or SIGPIPE ends
\* the client, only when nobody holds the connection any more.
Type(c) ==
  /\ \/ Go(c, "prompt", "recv")
     \/ Go(c, "prompt", "failed") /\ ~Connected(c)
  /\ UNCHANGED <<connectFd, srv, files, backlog, slots, slot, born, child, greeted>>

\* The user gives up instead.
Leave(c) ==
  /\ Go(c, "prompt", "killed")
  /\ UNCHANGED <<connectFd, srv, files, backlog, slots, slot, born, child, greeted>>

Receive(c) ==
  /\ c \in greeted
  /\ Go(c, "recv", "answered")
  /\ UNCHANGED <<connectFd, srv, files, backlog, slots, slot, born, child, greeted>>

\* recv returns 0 and nothing is printed behind "Received :", or it fails.
ReceiveNothing(c) ==
  /\ c \notin greeted /\ ~Connected(c)
  /\ Go(c, "recv", "empty")
  /\ UNCHANGED <<connectFd, srv, files, backlog, slots, slot, born, child, greeted>>

Client(c) == Connect(c) \/ Receive(c) \/ ReceiveNothing(c)

Next ==
  \/ Server
  \/ \E c \in Clients : Child(c) \/ Client(c) \/ Type(c) \/ Leave(c)

SafeSpec == Init /\ [][Next]_vars

\* The kernel schedules every process; users type when they like.
Fairness ==
  /\ WF_vars(Server)
  /\ \A c \in Clients : WF_vars(Child(c)) /\ WF_vars(Client(c))

Spec == SafeSpec /\ Fairness
-----------------------------------------------------------------------------
TypeOK ==
  /\ connectFd \in Garbage
  /\ srv \in {"accept", "recv", "fork", "close"}
  /\ files \in [Fds -> Clients \cup {"free", "std", "listener"}]
  /\ backlog \in Seq(Clients)
  /\ slots \in Seq(Fds)
  /\ slot \in [Clients -> Fds \cup {-1}]
  /\ born \in 0 .. ChildLimit
  /\ child \in [Clients -> {"none", "send", "close", "zombie"}]
  /\ greeted \subseteq Clients
  /\ at \in [Clients -> {"start", "prompt", "recv"} \cup Ended]

\* The clients accepted into another descriptor: nobody reads from them, and
\* their connection stays open as long as the server runs.
Lost == {c \in Clients : slot[c] \notin {-1, connectFd}}

\* Once a connection has got the descriptor in connect_fd, all later ones get
\* it (test_server8.cpp:51, :70).
OnceRightAlwaysRight ==
  \A i, j \in DOMAIN slots : i < j /\ slots[i] = connectFd => slots[j] = connectFd

\* Only as many clients are lost as there were free descriptors below
\* connect_fd, one if it is a standard stream; the others are greeted, or get
\* nothing because the server can have no more children (or no listener).
\* A lost client never gets anything.
FewLost ==
  /\ connectFd \in Fds \ {Listener} =>
       Cardinality(Lost) <= IF connectFd < Listener THEN 1 ELSE connectFd - Listener - 1
  /\ \A c \in Clients :
       /\ at[c] = "answered" => slot[c] = connectFd
       /\ at[c] = "empty" => ~Listening \/ (slot[c] = connectFd /\ born = ChildLimit)

\* No user leaves a client at its prompt for ever.
UsersType == \A c \in Clients : []<>(at[c] # "prompt")

\* A client that is not lost ends, with its answer or with nothing, if the users
\* type.  (A client at its prompt blocks the server, and all behind it.)
RightServed ==
  UsersType => \A c \in Clients : <>[](slot[c] = connectFd => at[c] \in Ended)
=============================================================================
