---------------------------- MODULE FileTransfer ----------------------------
(***************************************************************************)
(* Samples_Socket/test_server2.cpp and test_client2.cpp: a client asks a   *)
(* server for a file by name and stores what it receives under that name.  *)
(* The server serves one client after the other, for ever.                 *)
(*                                                                         *)
(* A file is a sequence of units; fread takes up to Block of them.  TCP is *)
(* external: a stream without borders between messages, of which recv      *)
(* takes some part, and send waits while more than Window units are on     *)
(* their way.  The client's request is BUFFER_SIZE bytes with the name at  *)
(* the front; recv may return a first piece of it only, with the name or   *)
(* without its end.  A connection closed before the request has been read  *)
(* entirely is reset: what is on its way may be lost.                      *)
(***************************************************************************)
EXTENDS Integers, Sequences, SequencesExt

CONSTANTS
  Clients,
  File,    \* the content of each file the server has, by name
  Units,   \* what files consist of
  Names,   \* names the users type
  Cuts,    \* the names the server may read in a first piece of the request
  Killed,  \* who may be killed: clients, "server", and "nobody"
  Block,   \* BUFFER_SIZE, in units
  Window   \* units a connection holds on their way to the client

ASSUME ConstantsAssumption ==
  /\ \A n \in Names : n \in Cuts[n] /\ "" \notin Cuts[n]
  /\ "" \notin DOMAIN File /\ "" \notin Names
  /\ \A n \in DOMAIN File : File[n] \in Seq(Units)
  /\ Clients \cap {"server", "nobody"} = {}
  /\ Killed \subseteq Clients \cup {"server", "nobody"}
  /\ Block \in Nat \ {0}
  /\ Window \in Nat
  /\ Window >= Block

VARIABLES
  srv,      \* where the server stands
  cur,      \* the client of new_server_socket, or "nobody"
  opened,   \* the name the server has read for each client, "" for none
  pos,      \* units of the file that fread has returned
  backlog,  \* connections waiting for accept
  at,       \* where each client stands
  name,     \* the name its user has typed
  request,  \* pieces of the request the server has not received
  data,     \* units on their way to each client
  conn,     \* how its connection ends: "open" as long as it does not
  saved,    \* the file it is writing
  killable  \* the one of them that may be killed in this execution

vars ==
  <<srv, cur, opened, pos, backlog, at, name, request, data, conn, saved, killable>>

\* The ends of a client: "failed" could not connect or open its file, "short"
\* could not write it.
Ended == {"done", "killed", "failed", "short"}

Content(n) == IF n \in DOMAIN File THEN File[n] ELSE <<>>

Up == srv # "killed"

Init ==
  /\ srv = "accept" /\ cur = "nobody" /\ pos = 0 /\ backlog = <<>>
  /\ opened = [c \in Clients |-> ""]
  /\ at = [c \in Clients |-> "start"]
  /\ name = [c \in Clients |-> ""]
  /\ request = [c \in Clients |-> <<>>]
  /\ data = [c \in Clients |-> <<>>]
  /\ conn = [c \in Clients |-> "open"]
  /\ saved = [c \in Clients |-> <<>>]
  /\ killable \in Killed

Go(c, from, to) == at[c] = from /\ at' = [at EXCEPT ![c] = to]

\* How a connection ends when the server closes its end, and what the client
\* still gets: all of it, unless the connection is reset.
EndOf(c) == IF request[c] = <<>> THEN "eof" ELSE "reset"

Deliver(c) ==
  \E kept \in Prefixes(data[c]) :
    /\ EndOf(c) = "eof" => kept = data[c]
    /\ data' = [data EXCEPT ![c] = kept]
-----------------------------------------------------------------------------
(* Plausible bugs: each form below, in the place of the definition it is   *)
(* named after, breaks a property.                                         *)

\* The whole buffer is sent, also when fread has filled a part of it.
NextBlockWhole ==
  LET all == File[opened[cur]]
  IN  IF pos >= Len(all) THEN <<>>
      ELSE [i \in 1 .. Block |-> IF pos + i <= Len(all) THEN all[pos + i] ELSE "zero"]

\* The client takes a short block for the end of the file.
ReceiveOnce(c) ==
  /\ data[c] # <<>>
  /\ \E k \in 1 .. Block :
       /\ k <= Len(data[c])
       /\ saved' = [saved EXCEPT ![c] = @ \o SubSeq(data[c], 1, k)]
       /\ data' = [data EXCEPT ![c] = SubSeq(@, k + 1, Len(@))]
       /\ Go(c, "recv", IF k < Block THEN "done" ELSE "recv")
  /\ UNCHANGED <<srv, cur, opened, pos, backlog, name, request, conn, killable>>

\* A missing file ends the server.
OpenOrExit(n) ==
  /\ opened' = [opened EXCEPT ![cur] = n]
  /\ pos' = 0
  /\ srv' = IF n \in DOMAIN File THEN "send" ELSE "killed"

\* The connection is left open.
CloseNothing ==
  /\ srv = "close"
  /\ srv' = "accept" /\ cur' = "nobody"
  /\ UNCHANGED <<opened, pos, backlog, at, name, request, data, conn, saved, killable>>
-----------------------------------------------------------------------------
(* server *)

\* The block the next fread returns, empty at the end of the file.
NextBlock ==
  LET all == File[opened[cur]]
  IN  SubSeq(all, pos + 1, IF pos + Block < Len(all) THEN pos + Block ELSE Len(all))

Accept ==
  /\ srv = "accept" /\ backlog # <<>>
  /\ srv' = "recv"
  /\ cur' = Head(backlog)
  /\ backlog' = Tail(backlog)
  /\ UNCHANGED <<opened, pos, at, name, request, data, conn, saved, killable>>

\* fopen of the name that has been read.
Open(n) ==
  /\ opened' = [opened EXCEPT ![cur] = n]
  /\ pos' = 0
  /\ srv' = IF n \in DOMAIN File THEN "send" ELSE "close"

RecvName ==
  /\ srv = "recv" /\ request[cur] # <<>>
  /\ \/ Open(name[cur]) /\ request' = [request EXCEPT ![cur] = <<>>]
     \/ \E n \in Cuts[name[cur]] :
          Open(n) /\ request' = [request EXCEPT ![cur] = Tail(@)]
  /\ UNCHANGED <<cur, backlog, at, name, data, conn, saved, killable>>

\* The client has gone without a request: recv returns 0, or -1, which an
\* unsigned length takes for a success as well, and the name is empty.
RecvNothing ==
  /\ srv = "recv" /\ request[cur] = <<>> /\ at[cur] \in Ended
  /\ Open("")
  /\ UNCHANGED <<cur, backlog, at, name, request, data, conn, saved, killable>>

SendBlock ==
  /\ srv = "send" /\ NextBlock # <<>>
  /\ at[cur] \notin Ended
  /\ Len(data[cur]) + Len(NextBlock) <= Window
  /\ data' = [data EXCEPT ![cur] = @ \o NextBlock]
  /\ pos' = pos + Len(NextBlock)
  /\ UNCHANGED <<srv, cur, opened, backlog, at, name, request, conn, saved, killable>>

\* The client has gone: the block is lost, or send returns -1 and the loop
\* ends, ...
SendInVain ==
  /\ srv = "send" /\ NextBlock # <<>>
  /\ at[cur] \in Ended
  /\ \/ pos' = pos + Len(NextBlock) /\ UNCHANGED srv
     \/ srv' = "close" /\ UNCHANGED pos
  /\ UNCHANGED <<cur, opened, backlog, at, name, request, data, conn, saved, killable>>

\* The server is over, and with it the connections not yet accepted.
Dies ==
  /\ srv' = "killed" /\ cur' = "nobody" /\ backlog' = <<>>
  /\ conn' = [c \in Clients |-> CASE c = cur -> EndOf(c)
                                 [] c \in ToSet(backlog) -> "reset"
                                 [] OTHER -> conn[c]]
  /\ UNCHANGED <<opened, pos, at, name, request, saved, killable>>

\* ... or SIGPIPE ends the server.
SendKills ==
  /\ srv = "send" /\ NextBlock # <<>>
  /\ at[cur] \in Ended
  /\ Dies
  /\ UNCHANGED data

EndOfFile ==
  /\ srv = "send" /\ NextBlock = <<>>
  /\ srv' = "close"
  /\ UNCHANGED <<cur, opened, pos, backlog, at, name, request, data, conn, saved, killable>>

Close ==
  /\ srv = "close"
  /\ conn' = [conn EXCEPT ![cur] = EndOf(cur)]
  /\ Deliver(cur)
  /\ srv' = "accept" /\ cur' = "nobody"
  /\ UNCHANGED <<opened, pos, backlog, at, name, request, saved, killable>>

\* accept fails and the loop ends, or a signal from outside ends the server.
ServerKilled ==
  /\ killable = "server" /\ Up
  /\ Dies
  /\ IF cur = "nobody" THEN UNCHANGED data ELSE Deliver(cur)

Server ==
  \/ Accept \/ RecvName \/ RecvNothing
  \/ SendBlock \/ SendInVain \/ SendKills \/ EndOfFile \/ Close
-----------------------------------------------------------------------------
(* client *)

Connect(c) ==
  /\ IF Up
       THEN Go(c, "start", "prompt") /\ backlog' = Append(backlog, c)
       ELSE Go(c, "start", "failed") /\ UNCHANGED backlog
  /\ UNCHANGED <<srv, cur, opened, pos, name, request, data, conn, saved, killable>>

\* The user types a name (scanf), and the request is sent.  Nobody looks at
\* what send returns; on a connection that has ended it may raise SIGPIPE.
Type(c) ==
  /\ \E n \in Names : name' = [name EXCEPT ![c] = n]
  /\ IF conn[c] = "open"
       THEN /\ Go(c, "prompt", "open")
            /\ request' = [request EXCEPT ![c] = <<"front", "rest">>]
       ELSE /\ Go(c, "prompt", "open") \/ Go(c, "prompt", "killed")
            /\ UNCHANGED request
  /\ UNCHANGED <<srv, cur, opened, pos, backlog, data, conn, saved, killable>>

\* fopen of the client's copy, which may fail.
OpenCopy(c) ==
  /\ Go(c, "open", "recv") \/ Go(c, "open", "failed")
  /\ UNCHANGED <<srv, cur, opened, pos, backlog, name, request, data, conn, saved, killable>>

Receive(c) ==
  /\ data[c] # <<>>
  /\ Go(c, "recv", "recv")
  /\ \E k \in 1 .. Block :
       /\ k <= Len(data[c])
       /\ saved' = [saved EXCEPT ![c] = @ \o SubSeq(data[c], 1, k)]
       /\ data' = [data EXCEPT ![c] = SubSeq(@, k + 1, Len(@))]
  /\ UNCHANGED <<srv, cur, opened, pos, backlog, name, request, conn, killable>>

\* fwrite writes less than recv has returned, and the loop ends.
WriteFails(c) ==
  /\ \E k \in 0 .. Len(data[c]) - 1 :
       saved' = [saved EXCEPT ![c] = @ \o SubSeq(data[c], 1, k)]
  /\ Go(c, "recv", "short")
  /\ UNCHANGED <<srv, cur, opened, pos, backlog, name, request, data, conn, killable>>

\* recv returns 0, or -1 after a reset; either way the client goes on to print
\* "Finished".
StopReceiving(c) ==
  /\ data[c] = <<>> /\ conn[c] # "open"
  /\ Go(c, "recv", "done")
  /\ UNCHANGED <<srv, cur, opened, pos, backlog, name, request, data, conn, saved, killable>>

\* A signal from outside: what is still in the buffer of the stream is lost.
ClientKilled(c) ==
  /\ killable = c /\ at[c] \notin Ended \cup {"start"}
  /\ at' = [at EXCEPT ![c] = "killed"]
  /\ \E kept \in Prefixes(saved[c]) : saved' = [saved EXCEPT ![c] = kept]
  /\ UNCHANGED <<srv, cur, opened, pos, backlog, name, request, data, conn, killable>>

Client(c) ==
  Connect(c) \/ OpenCopy(c) \/ Receive(c) \/ WriteFails(c) \/ StopReceiving(c)

Next ==
  \/ Server \/ ServerKilled
  \/ \E c \in Clients : Client(c) \/ Type(c) \/ ClientKilled(c)

SafeSpec == Init /\ [][Next]_vars

\* The kernel schedules the server and the clients; users type when they like,
\* and nobody has to be killed.
Fairness == WF_vars(Server) /\ \A c \in Clients : WF_vars(Client(c))

Spec == SafeSpec /\ Fairness
-----------------------------------------------------------------------------
TypeOK ==
  /\ srv \in {"accept", "recv", "send", "close", "killed"}
  /\ cur \in Clients \cup {"nobody"}
  /\ \A c \in Clients : opened[c] \in {""} \cup UNION {Cuts[n] : n \in Names}
  /\ pos \in Nat
  /\ backlog \in Seq(Clients)
  /\ at \in [Clients -> {"start", "prompt", "open", "recv"} \cup Ended]
  /\ name \in [Clients -> Names \cup {""}]
  /\ \A c \in Clients : request[c] \in {<<>>, <<"rest">>, <<"front", "rest">>}
  /\ \A c \in Clients : Len(data[c]) <= Window
  /\ conn \in [Clients -> {"open", "eof", "reset"}]

\* What a client has saved is at any time the beginning of ONE file of the
\* server, the one whose name the server has read from it, and that is the name
\* typed or a first piece of it.
SavedIsPrefix ==
  \A c \in Clients :
    /\ IsPrefix(saved[c], Content(opened[c]))
    /\ opened[c] # "" => opened[c] \in Cuts[name[c]]

\* A client that ends by itself has the whole file, as long as the server has
\* read its whole request and is alive.  (If the server was killed it has any
\* part of it, and prints "Finished" all the same.)
CompleteIfSpared ==
  \A c \in Clients :
    at[c] = "done" /\ Up /\ request[c] = <<>> => saved[c] = Content(opened[c])

\* The loop of the server "always has to run" (test_server2.cpp:46).  If nobody
\* kills it, it dies only of a client that left before the end of its file.
DiesOnlyOfLeavers ==
  ~Up /\ killable # "server" => \E c \in Clients : at[c] \in Ended \ {"done"}

\* No user leaves a client at its prompt for ever.
UsersType == \A c \in Clients : []<>(at[c] # "prompt")

\* If the users type, every client ends and the server, unless killed, gets back
\* to accept, whoever is killed meanwhile.  (One user who does not type blocks
\* the server and all others.)
EverybodyServed ==
  UsersType =>
    /\ \A c \in Clients : <>[](at[c] \in Ended)
    /\ []<>(srv \in {"accept", "killed"})
=============================================================================
