----------------------------- MODULE UnixSocket -----------------------------
(***************************************************************************)
(* Samples_Multi_process/test_unix_domain_socket_1.cpp: the parent is a    *)
(* server on a UNIX domain stream socket for one client, the child.        *)
(* Nothing makes the child wait until the server listens: it connects      *)
(* once, and exits with 1 when that fails.                                 *)
(*                                                                         *)
(* A message is one buffer of buf_len bytes, sent and received in one      *)
(* piece (on a UNIX socket it is one socket buffer).  The calls that the   *)
(* environment may refuse (socket, bind, listen) fail at will; send and    *)
(* recv fail only through the end of the peer.  One of the two processes   *)
(* may be killed from outside.                                             *)
(***************************************************************************)
EXTENDS Integers, Sequences, FiniteSets

VARIABLES
  paths,   \* what has a name in the file system: "server" and "client"
  listen,  \* whether the server's socket is bound and listening
  queue,   \* connections that wait for accept: at most the child's
  chan,    \* what has been sent and not received, by receiver
  open,    \* who has its end of the connection open
  at,      \* where each process stands
  got,     \* what each process has received, or "nothing"
  killable \* the process that may be killed in this execution, or "nobody"

vars == <<paths, listen, queue, chan, open, at, got, killable>>

Procs == {"server", "client"}

Other(p) == IF p = "server" THEN "client" ELSE "server"

Ends == {"unborn", "exit0", "exit1", "killed", "failed", "done"}

Hello(p) == IF p = "server" THEN "hello from server" ELSE "hello from client"

\* An earlier run may have left either path behind.
Init ==
  /\ paths \in SUBSET Procs
  /\ listen = FALSE
  /\ queue = FALSE
  /\ chan = [p \in Procs |-> <<>>]
  /\ open = {}
  /\ at = [p \in Procs |-> IF p = "server" THEN "fork" ELSE "unborn"]
  /\ got = [p \in Procs |-> "nothing"]
  /\ killable \in Procs \cup {"nobody"}

Go(p, from, to) == at[p] = from /\ at' = [at EXCEPT ![p] = to]

Fork ==
  /\ at["server"] = "fork"
  /\ at' = [p \in Procs |-> "socket"]
  /\ UNCHANGED <<paths, listen, queue, chan, open, got, killable>>

ForkFails ==
  /\ Go("server", "fork", "failed")
  /\ UNCHANGED <<paths, listen, queue, chan, open, got, killable>>
-----------------------------------------------------------------------------
(* Plausible bug: in the place of Accept this form breaks a property.      *)

\* The server answers before it has received.
AcceptAndSend ==
  /\ Go("server", "accept", "send")
  /\ queue
  /\ queue' = FALSE
  /\ open' = open \cup {"server"}
  /\ UNCHANGED <<paths, listen, chan, got, killable>>
-----------------------------------------------------------------------------
(* Steps of both processes *)

Socket(p) ==
  /\ Go(p, "socket", "bind")
  /\ UNCHANGED <<paths, listen, queue, chan, open, got, killable>>

\* unlink of a path left behind, then bind.
Bind(p, next) ==
  /\ Go(p, "bind", next)
  /\ paths' = paths \cup {p}
  /\ UNCHANGED <<listen, queue, chan, open, got, killable>>

\* socket, bind or listen fails: exit(1).
SetUpFails(p) ==
  /\ at[p] \in {"socket", "bind", "listen"}
  /\ at' = [at EXCEPT ![p] = "exit1"]
  /\ paths' = IF at[p] = "bind" THEN paths \ {p} ELSE paths
  /\ UNCHANGED <<listen, queue, chan, open, got, killable>>

Send(p, next) ==
  /\ Other(p) \in open \/ queue
  /\ Go(p, "send", next)
  /\ chan' = [chan EXCEPT ![Other(p)] = Append(@, Hello(p))]
  /\ UNCHANGED <<paths, listen, queue, open, got, killable>>

\* The peer has closed its end: SIGPIPE ends the sender.
SendBroken(p) ==
  /\ Other(p) \notin open /\ ~queue
  /\ at[p] = "send"
  /\ at' = [at EXCEPT ![p] = "killed"]
  /\ open' = open \ {p}
  /\ listen' = (listen /\ p = "client")
  /\ UNCHANGED <<paths, queue, chan, got, killable>>

Recv(p, next) ==
  /\ Go(p, "recv", next)
  /\ chan[p] # <<>>
  /\ got' = [got EXCEPT ![p] = Head(chan[p])]
  /\ chan' = [chan EXCEPT ![p] = Tail(@)]
  /\ UNCHANGED <<paths, listen, queue, open, killable>>

\* The peer has closed its end and nothing is left to read: recv returns 0,
\* which passes for a message, an empty one.
RecvEof(p, next) ==
  /\ Go(p, "recv", next)
  /\ chan[p] = <<>> /\ Other(p) \notin open /\ ~queue
  /\ chan[Other(p)] = <<>>
  /\ got' = [got EXCEPT ![p] = "empty"]
  /\ UNCHANGED <<paths, listen, queue, chan, open, killable>>

\* The peer has died without reading what was sent to it: recv fails with
\* ECONNRESET and the process exits.
RecvReset(p) ==
  /\ Go(p, "recv", "exit1")
  /\ chan[p] = <<>> /\ Other(p) \notin open /\ ~queue
  /\ chan[Other(p)] # <<>>
  /\ open' = open \ {p}
  /\ UNCHANGED <<paths, listen, queue, chan, got, killable>>

\* A signal from outside, at any time.  A connection that the server has not
\* accepted dies with it.
Killed ==
  /\ killable # "nobody"
  /\ at[killable] \notin Ends
  /\ at' = [at EXCEPT ![killable] = "killed"]
  /\ open' = open \ {killable}
  /\ IF killable = "server"
       THEN listen' = FALSE /\ queue' = FALSE
       ELSE UNCHANGED <<listen, queue>>
  /\ UNCHANGED <<paths, chan, got, killable>>
-----------------------------------------------------------------------------
(* server *)

Listen ==
  /\ Go("server", "listen", "accept")
  /\ listen' = TRUE
  /\ UNCHANGED <<paths, queue, chan, open, got, killable>>

Accept ==
  /\ Go("server", "accept", "recv")
  /\ queue
  /\ queue' = FALSE
  /\ open' = open \cup {"server"}
  /\ UNCHANGED <<paths, listen, chan, got, killable>>

ServerClose ==
  /\ Go("server", "close", "wait")
  /\ open' = open \ {"server"}
  /\ listen' = FALSE
  /\ paths' = paths \ {"server"}
  /\ UNCHANGED <<queue, chan, got, killable>>

\* wait() returns once the child has ended; "test finish".
Wait ==
  /\ at["client"] \in {"exit0", "exit1", "killed"}
  /\ Go("server", "wait", "done")
  /\ UNCHANGED <<paths, listen, queue, chan, open, got, killable>>

Server ==
  \/ Fork \/ ForkFails
  \/ Socket("server") \/ Bind("server", "listen") \/ SetUpFails("server")
  \/ Listen \/ Accept
  \/ Recv("server", "send") \/ RecvEof("server", "send")
  \/ Send("server", "close") \/ SendBroken("server")
  \/ ServerClose \/ Wait
-----------------------------------------------------------------------------
(* client *)

Connect ==
  /\ listen /\ "server" \in paths
  /\ Go("client", "connect", "send")
  /\ queue' = TRUE
  /\ open' = open \cup {"client"}
  /\ UNCHANGED <<paths, listen, chan, got, killable>>

\* No such path, or a path left behind that nobody listens on: exit(1).
ConnectRefused ==
  /\ ~listen
  /\ Go("client", "connect", "exit1")
  /\ UNCHANGED <<paths, listen, queue, chan, open, got, killable>>

ClientClose ==
  /\ Go("client", "close", "exit0")
  /\ open' = open \ {"client"}
  /\ paths' = paths \ {"client"}
  /\ UNCHANGED <<listen, queue, chan, got, killable>>

Client ==
  \/ Socket("client") \/ Bind("client", "connect") \/ SetUpFails("client")
  \/ Connect \/ ConnectRefused
  \/ Send("client", "recv") \/ SendBroken("client")
  \/ Recv("client", "close") \/ RecvEof("client", "close") \/ RecvReset("client")
  \/ ClientClose

Next == Server \/ Client \/ Killed

SafeSpec == Init /\ [][Next]_vars

\* The kernel schedules both processes; nobody has to be killed.
Fairness == WF_vars(Server) /\ WF_vars(Client)

Spec == SafeSpec /\ Fairness
-----------------------------------------------------------------------------
TypeOK ==
  /\ paths \subseteq Procs
  /\ listen \in BOOLEAN /\ queue \in BOOLEAN
  /\ \A p \in Procs : chan[p] \in {<<>>, <<Hello(Other(p))>>}
  /\ open \subseteq Procs
  /\ at \in [Procs -> {"fork", "unborn", "socket", "bind", "listen", "accept",
                       "connect", "send", "recv", "close", "wait",
                       "exit0", "exit1", "killed", "failed", "done"}]
  /\ \A p \in Procs : got[p] \in {"nothing", "empty", Hello(Other(p))}

\* Each side answers what the other said: the client has received the server's
\* greeting only if the server had received the client's, and an end of file
\* passes for a greeting only if the other process was killed.
InAnswer ==
  /\ got["client"] = Hello("server") => got["server"] = Hello("client")
  /\ \A p \in Procs : got[p] = "empty" => at[Other(p)] = "killed"

Ended == \A p \in Procs : at[p] \in Ends

\* Once the client is connected nobody hangs, whoever is killed.  (A client
\* that is refused leaves the server in accept for ever.)
NoHangOnceConnected == "client" \in open ~> Ended

\* A run whose client got as far as connect, and in which nobody is killed,
\* ends well on both sides and leaves no path behind.
FinishesIfSpared ==
  killable = "nobody" /\ "client" \in open
    ~> at["client"] = "exit0" /\ at["server"] = "done" /\ paths = {}
=============================================================================
