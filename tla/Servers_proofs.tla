--------------------------- MODULE Servers_proofs ---------------------------
(***************************************************************************)
(* The safety of the socket programs.  FileTransfer, for any set of        *)
(* clients, any files, blocks and windows, whatever pieces TCP makes of    *)
(* the streams and whoever is killed.  ForkServer (F), for any number of   *)
(* clients and descriptors and whatever the unassigned connect_fd holds:   *)
(* the argument is about which descriptor is the lowest free one.          *)
(***************************************************************************)
EXTENDS MCServers, FiniteSetTheorems, TLAPS


OpenNames == {""} \cup UNION {Cuts[n] : n \in Names}

Ranges ==
  /\ srv \in {"accept", "recv", "send", "close", "killed"}
  /\ cur \in Clients \cup {"nobody"}
  /\ opened \in [Clients -> OpenNames]
  /\ pos \in Nat
  /\ backlog \in Seq(Clients)
  /\ at \in [Clients -> {"start", "prompt", "open", "recv"} \cup Ended]
  /\ name \in [Clients -> Names \cup {""}]
  /\ request \in [Clients -> {<<>>, <<"rest">>, <<"front", "rest">>}]
  /\ data \in [Clients -> Seq(Units)]
  /\ conn \in [Clients -> {"open", "eof", "reset"}]
  /\ saved \in [Clients -> Seq(Units)]
  /\ killable \in Killed

\* The connection being served and those that wait are different, open and, the
\* latter, untouched.
Waiting(c) == \E i \in DOMAIN backlog : backlog[i] = c

Queue ==
  /\ srv \in {"recv", "send", "close"} <=> cur \in Clients
  /\ cur \in Clients => conn[cur] = "open" /\ at[cur] # "start" /\ ~Waiting(cur)
  /\ \A i, j \in DOMAIN backlog : backlog[i] = backlog[j] => i = j
  /\ \A c \in Clients : Waiting(c) => conn[c] = "open" /\ at[c] # "start" /\ opened[c] = ""
  /\ \A c \in Clients : at[c] = "start" => conn[c] = "open"
  /\ \A c \in Clients : at[c] = "done" => conn[c] # "open"
  /\ srv = "recv" => opened[cur] = ""
  /\ srv = "send" => opened[cur] \in DOMAIN File

\* What is read of a request belongs to the name typed.
NamesFit ==
  \A c \in Clients :
    /\ at[c] \in {"start", "prompt"} => request[c] = <<>> /\ opened[c] = ""
    /\ request[c] # <<>> => name[c] \in Names
    /\ opened[c] # "" => opened[c] \in Cuts[name[c]] /\ name[c] \in Names

QInv == Ranges /\ Queue /\ NamesFit

LEMMA InitQInv == ASSUME Init PROVE QInv
<1>1. backlog = <<>> /\ cur \notin Clients /\ cur = "nobody" /\ srv = "accept"
  BY ConstantsAssumption DEF Init
<1>2. \A c \in Clients :
        /\ at[c] = "start" /\ conn[c] = "open"
        /\ opened[c] = "" /\ request[c] = <<>> /\ ~Waiting(c)
  <2>1. \A c : ~Waiting(c)
    BY <1>1 DEF Waiting
  <2> QED BY <2>1 DEF Init
<1>3. Ranges
  <2>1. /\ opened \in [Clients -> OpenNames]
        /\ at \in [Clients -> {"start", "prompt", "open", "recv"} \cup Ended]
        /\ name \in [Clients -> Names \cup {""}]
        /\ conn \in [Clients -> {"open", "eof", "reset"}]
        /\ pos \in Nat /\ killable \in Killed
    BY DEF Init, OpenNames, Ended
  <2>2. <<>> \in Seq(Units) /\ <<>> \in Seq(Clients)
    OBVIOUS
  <2>3. /\ request \in [Clients -> {<<>>, <<"rest">>, <<"front", "rest">>}]
        /\ data \in [Clients -> Seq(Units)]
        /\ saved \in [Clients -> Seq(Units)]
    BY <2>2 DEF Init
  <2> QED BY <1>1, <2>1, <2>2, <2>3 DEF Ranges
<1>4. Queue
  <2>1. DOMAIN backlog = {}
    BY <1>1
  <2> QED BY <1>1, <1>2, <2>1 DEF Queue
<1>5. NamesFit
  BY <1>2 DEF NamesFit
<1> QED BY <1>3, <1>4, <1>5 DEF QInv

LEMMA ReadFits ==
  ASSUME QInv, RecvName \/ RecvNothing
  PROVE  \E n \in OpenNames :
           /\ Open(n)
           /\ n # "" => n \in Cuts[name[cur]] /\ name[cur] \in Names
           /\ cur \in Clients
           /\ at[cur] \notin {"start", "prompt"}
           /\ request' \in [Clients -> {<<>>, <<"rest">>, <<"front", "rest">>}]
           /\ \A c \in Clients : request'[c] = request[c] \/ c = cur
           /\ request'[cur] # <<>> => name[cur] \in Names
           /\ UNCHANGED <<cur, backlog, at, name, data, conn, saved, killable>>
<1>1. cur \in Clients /\ srv = "recv"
  BY DEF RecvName, RecvNothing, QInv, Queue
<1>2. CASE RecvName
  <2>1. name[cur] \in Names /\ at[cur] \notin {"start", "prompt"}
    BY <1>1, <1>2 DEF RecvName, QInv, NamesFit
  <2>2. Tail(request[cur]) \in {<<>>, <<"rest">>}
    <3>1. CASE request[cur] = <<"rest">>
      BY <3>1
    <3>2. CASE request[cur] = <<"front", "rest">>
      BY <3>2
    <3> QED BY <1>1, <1>2, <3>1, <3>2 DEF RecvName, QInv, Ranges
  <2>3. PICK n \in Cuts[name[cur]] :
          Open(n) /\ (request' = [request EXCEPT ![cur] = <<>>]
                        \/ request' = [request EXCEPT ![cur] = Tail(@)])
    BY <1>2, <2>1, ConstantsAssumption DEF RecvName
  <2>4. n \in OpenNames
    BY <2>1, <2>3 DEF OpenNames
  <2>5. /\ request' \in [Clients -> {<<>>, <<"rest">>, <<"front", "rest">>}]
        /\ \A c \in Clients : request'[c] = request[c] \/ c = cur
    BY <1>1, <2>2, <2>3 DEF QInv, Ranges
  <2> QED BY <1>1, <1>2, <2>1, <2>3, <2>4, <2>5 DEF RecvName
<1>3. CASE RecvNothing
  <2>1. "" \in OpenNames /\ Open("")
    BY <1>3 DEF OpenNames, RecvNothing
  <2> QED BY <1>1, <1>3, <2>1 DEF RecvNothing, QInv, Ranges, NamesFit, Ended
<1> QED BY <1>2, <1>3
LEMMA AcceptQInv == ASSUME QInv, Accept PROVE QInv'
<1>1. /\ backlog \in Seq(Clients) /\ backlog # <<>> /\ srv = "accept"
      /\ backlog' = Tail(backlog) /\ cur' = Head(backlog) /\ srv' = "recv"
      /\ UNCHANGED <<opened, pos, at, name, request, data, conn, saved, killable>>
  BY DEF Accept, QInv, Ranges
<1>2. /\ DOMAIN backlog = 1 .. Len(backlog) /\ Len(backlog) \in Nat \ {0}
      /\ DOMAIN backlog' = 1 .. Len(backlog) - 1
      /\ \A i \in DOMAIN backlog' : backlog'[i] = backlog[i + 1]
      /\ cur' = backlog[1] /\ cur' \in Clients /\ backlog' \in Seq(Clients)
  BY <1>1
<1>3. /\ Waiting(cur') /\ ~Waiting(cur)'
      /\ \A c \in Clients : Waiting(c)' => Waiting(c)
  <2>1. \A i \in DOMAIN backlog' : i + 1 \in DOMAIN backlog /\ i + 1 # 1
    BY <1>2
  <2>2. 1 \in DOMAIN backlog
    BY <1>2
  <2>3. \A i, j \in DOMAIN backlog : backlog[i] = backlog[j] => i = j
    BY DEF QInv, Queue
  <2>4. Waiting(cur')
    BY <1>2, <2>2 DEF Waiting
  <2>5. ~Waiting(cur)'
    BY <1>2, <2>1, <2>2, <2>3 DEF Waiting
  <2>6. \A c \in Clients : Waiting(c)' => Waiting(c)
    BY <1>2, <2>1 DEF Waiting
  <2> QED BY <2>4, <2>5, <2>6
<1>4. Ranges'
  BY <1>1, <1>2 DEF QInv, Ranges
<1>5. Queue'
  <2>1. \A i, j \in DOMAIN backlog' : backlog'[i] = backlog'[j] => i = j
    <3>1. SUFFICES ASSUME NEW i \in DOMAIN backlog', NEW j \in DOMAIN backlog',
                          backlog'[i] = backlog'[j]
                   PROVE  i = j
      OBVIOUS
    <3>2. i + 1 \in DOMAIN backlog /\ j + 1 \in DOMAIN backlog /\ i \in Int /\ j \in Int
      BY <1>2
    <3>3. backlog[i + 1] = backlog[j + 1]
      BY <1>2, <3>1
    <3>4. i + 1 = j + 1
      BY <3>2, <3>3 DEF QInv, Queue
    <3> QED BY <3>2, <3>4
  <2>2. conn[cur'] = "open" /\ at[cur'] # "start" /\ opened[cur'] = ""
    BY <1>2, <1>3 DEF QInv, Queue
  <2> QED BY <1>1, <1>2, <1>3, <2>1, <2>2 DEF QInv, Queue
<1>6. NamesFit'
  BY <1>1 DEF QInv, NamesFit
<1> QED BY <1>4, <1>5, <1>6 DEF QInv

LEMMA ReadQInv == ASSUME QInv, RecvName \/ RecvNothing PROVE QInv'
<1>1. PICK n \in OpenNames :
         /\ Open(n)
         /\ n # "" => n \in Cuts[name[cur]] /\ name[cur] \in Names
         /\ cur \in Clients
         /\ at[cur] \notin {"start", "prompt"}
         /\ request' \in [Clients -> {<<>>, <<"rest">>, <<"front", "rest">>}]
         /\ \A c \in Clients : request'[c] = request[c] \/ c = cur
         /\ request'[cur] # <<>> => name[cur] \in Names
         /\ UNCHANGED <<cur, backlog, at, name, data, conn, saved, killable>>
  BY ReadFits
<1>2. /\ opened' = [opened EXCEPT ![cur] = n]
      /\ pos' = 0
      /\ srv' \in {"send", "close"} /\ (srv' = "send" => n \in DOMAIN File)
  BY <1>1 DEF Open
<1>3. Ranges'
  BY <1>1, <1>2 DEF QInv, Ranges
<1>4. \A c : Waiting(c)' <=> Waiting(c)
  BY <1>1 DEF Waiting
<1>5. Queue'
  BY <1>1, <1>2, <1>4 DEF QInv, Queue, Ranges
<1>6. NamesFit'
  BY <1>1, <1>2 DEF QInv, NamesFit, Ranges
<1> QED BY <1>3, <1>5, <1>6 DEF QInv

LEMMA NextBlockType ==
  ASSUME QInv, srv = "send"
  PROVE  /\ opened[cur] \in DOMAIN File /\ File[opened[cur]] \in Seq(Units)
         /\ Content(opened[cur]) = File[opened[cur]]
         /\ NextBlock \in Seq(Units) /\ Len(NextBlock) \in Nat
         /\ NextBlock # <<>> => pos + Len(NextBlock) <= Len(File[opened[cur]])
         /\ \A i \in 1 .. Len(NextBlock) : NextBlock[i] = File[opened[cur]][pos + i]
<1>1. opened[cur] \in DOMAIN File /\ File[opened[cur]] \in Seq(Units) /\ pos \in Nat
  BY ConstantsAssumption DEF QInv, Queue, Ranges
<1> DEFINE all == File[opened[cur]]
           last == IF pos + Block < Len(all) THEN pos + Block ELSE Len(all)
<1>2. last \in Nat /\ last <= Len(all) /\ all \in Seq(Units) /\ pos \in Nat
  <2>1. Block \in Nat
    BY ConstantsAssumption
  <2>2. Len(all) \in Nat
    BY <1>1
  <2> QED BY <1>1, <2>1, <2>2
<1>3. NextBlock = SubSeq(all, pos + 1, last)
  BY DEF NextBlock
<1> HIDE DEF all, last
<1>4. /\ NextBlock \in Seq(Units)
      /\ Len(NextBlock) = IF pos + 1 <= last THEN last - pos ELSE 0
      /\ \A i \in 1 .. Len(NextBlock) : NextBlock[i] = all[pos + i]
  BY <1>2, <1>3
<1>5. Len(NextBlock) \in Nat /\ (NextBlock # <<>> => pos + Len(NextBlock) <= Len(all))
  BY <1>2, <1>4
<1> QED BY <1>1, <1>4, <1>5 DEF all, Content

LEMMA SendQInv == ASSUME QInv, SendBlock \/ SendInVain \/ EndOfFile PROVE QInv'
<1>1. /\ srv = "send" /\ cur \in Clients
      /\ srv' \in {"send", "close"}
      /\ UNCHANGED <<cur, opened, backlog, at, name, request, conn, saved, killable>>
  BY DEF SendBlock, SendInVain, EndOfFile, QInv, Queue
<1>2. pos' \in Nat /\ data' \in [Clients -> Seq(Units)]
  <2>1. NextBlock \in Seq(Units) /\ Len(NextBlock) \in Nat
    BY <1>1, NextBlockType
  <2>2. pos \in Nat /\ data \in [Clients -> Seq(Units)]
    BY DEF QInv, Ranges
  <2>3. pos' \in {pos, pos + Len(NextBlock)}
    BY DEF SendBlock, SendInVain, EndOfFile
  <2>4. data' = data \/ data' = [data EXCEPT ![cur] = @ \o NextBlock]
    BY DEF SendBlock, SendInVain, EndOfFile
  <2>5. data[cur] \o NextBlock \in Seq(Units)
    BY <1>1, <2>1, <2>2
  <2>6. pos' \in Nat
    BY <2>1, <2>2, <2>3
  <2>7. data' \in [Clients -> Seq(Units)]
    BY <2>2, <2>4, <2>5
  <2> QED BY <2>6, <2>7
<1>3. Ranges'
  BY <1>1, <1>2 DEF QInv, Ranges
<1>4. \A c : Waiting(c)' <=> Waiting(c)
  BY <1>1 DEF Waiting
<1>5. Queue'
  BY <1>1, <1>4 DEF QInv, Queue
<1>6. NamesFit'
  BY <1>1 DEF QInv, NamesFit
<1> QED BY <1>3, <1>5, <1>6 DEF QInv
LEMMA PrefixType ==
  ASSUME NEW S, NEW s \in Seq(S), NEW t \in Prefixes(s)
  PROVE  t \in Seq(S) /\ Len(t) <= Len(s) /\ \A i \in 1 .. Len(t) : t[i] = s[i]
<1>1. PICK l \in 0 .. Len(s) : t = SubSeq(s, 1, l)
  BY DEF Prefixes
<1> QED BY <1>1

\* Close and the two ends of the server keep or shorten what is on its way.
LEMMA DeliverType ==
  ASSUME QInv, NEW c \in Clients, Deliver(c)
  PROVE  \E kept \in Prefixes(data[c]) :
           data' = [data EXCEPT ![c] = kept] /\ data' \in [Clients -> Seq(Units)]
<1>1. PICK kept \in Prefixes(data[c]) : data' = [data EXCEPT ![c] = kept]
  BY DEF Deliver
<1>2. kept \in Seq(Units)
  BY PrefixType DEF QInv, Ranges
<1>3. data' \in [Clients -> Seq(Units)]
  BY <1>1, <1>2 DEF QInv, Ranges
<1> QED BY <1>1, <1>3

LEMMA CloseQInv == ASSUME QInv, Close PROVE QInv'
<1>1. /\ srv = "close" /\ cur \in Clients
      /\ conn' = [conn EXCEPT ![cur] = EndOf(cur)]
      /\ srv' = "accept" /\ cur' = "nobody" /\ cur' \notin Clients
      /\ UNCHANGED <<opened, pos, backlog, at, name, request, saved, killable>>
  BY ConstantsAssumption DEF Close, QInv, Queue
<1>2. data' \in [Clients -> Seq(Units)]
  BY <1>1, DeliverType DEF Close
<1>3. EndOf(cur) \in {"eof", "reset"}
  BY DEF EndOf
<1>4. Ranges'
  BY <1>1, <1>2, <1>3 DEF QInv, Ranges
<1>5. \A c : Waiting(c)' <=> Waiting(c)
  BY <1>1 DEF Waiting
<1>6. Queue'
  BY <1>1, <1>3, <1>5 DEF QInv, Queue, Ranges
<1>7. NamesFit'
  BY <1>1 DEF QInv, NamesFit
<1> QED BY <1>4, <1>6, <1>7 DEF QInv

LEMMA DeathQInv == ASSUME QInv, SendKills \/ ServerKilled PROVE QInv'
<1>1. /\ srv' = "killed" /\ cur' = "nobody" /\ cur' \notin Clients /\ backlog' = <<>>
      /\ conn' = [c \in Clients |-> CASE c = cur -> EndOf(c)
                                      [] c \in ToSet(backlog) -> "reset"
                                      [] OTHER -> conn[c]]
      /\ UNCHANGED <<opened, pos, at, name, request, saved, killable>>
  BY ConstantsAssumption DEF SendKills, ServerKilled, Dies
<1>2. data' \in [Clients -> Seq(Units)]
  <2>1. CASE data' = data
    BY <2>1 DEF QInv, Ranges
  <2>2. CASE cur \in Clients /\ Deliver(cur)
    BY <2>2, DeliverType
  <2> QED BY <2>1, <2>2 DEF SendKills, ServerKilled, QInv, Ranges
<1>3. \A c \in Clients : conn'[c] = conn[c] \/ conn'[c] \in {"eof", "reset"}
  BY <1>1 DEF EndOf
<1>4. Ranges'
  <2>1. conn' \in [Clients -> {"open", "eof", "reset"}]
    BY <1>1, <1>3 DEF QInv, Ranges
  <2>2. backlog' \in Seq(Clients)
    BY <1>1
  <2> QED BY <1>1, <1>2, <2>1, <2>2 DEF QInv, Ranges
<1>5. DOMAIN backlog' = {} /\ \A c : ~Waiting(c)'
  BY <1>1 DEF Waiting
<1>6. Queue'
  <2>1. \A c \in Clients : at[c] = "start" => conn'[c] = "open"
    <3>1. SUFFICES ASSUME NEW c \in Clients, at[c] = "start" PROVE conn'[c] = "open"
      OBVIOUS
    <3>2. c # cur /\ ~Waiting(c) /\ conn[c] = "open"
      BY <3>1 DEF QInv, Queue
    <3>3. c \notin ToSet(backlog)
      BY <3>2 DEF ToSet, Waiting
    <3> QED BY <1>1, <3>2, <3>3
  <2>2. \A c \in Clients : at[c] = "done" => conn'[c] # "open"
    BY <1>3 DEF QInv, Queue
  <2> QED BY <1>1, <1>5, <2>1, <2>2 DEF Queue
<1>7. NamesFit'
  BY <1>1 DEF QInv, NamesFit
<1> QED BY <1>4, <1>6, <1>7 DEF QInv

LEMMA ConnectQInv == ASSUME QInv, NEW c \in Clients, Connect(c) PROVE QInv'
<1>1. /\ at[c] = "start" /\ at' \in {[at EXCEPT ![c] = "prompt"], [at EXCEPT ![c] = "failed"]}
      /\ backlog' = backlog \/ backlog' = Append(backlog, c)
      /\ UNCHANGED <<srv, cur, opened, pos, name, request, data, conn, saved, killable>>
  BY DEF Connect, Go
<1>2. c # cur /\ ~Waiting(c) /\ conn[c] = "open" /\ opened[c] = "" /\ request[c] = <<>>
  BY <1>1 DEF QInv, Queue, NamesFit
<1>3. backlog \in Seq(Clients) /\ backlog' \in Seq(Clients)
  <2>1. backlog \in Seq(Clients)
    BY DEF QInv, Ranges
  <2>2. Append(backlog, c) \in Seq(Clients)
    BY <2>1
  <2> QED BY <1>1, <2>1, <2>2
<1>4. Ranges'
  BY <1>1, <1>3 DEF QInv, Ranges, Ended
<1>5. \A d : Waiting(d)' => Waiting(d) \/ d = c
  <2>1. CASE backlog' = backlog
    BY <2>1 DEF Waiting
  <2>2. CASE backlog' = Append(backlog, c)
    BY <1>3, <2>2 DEF Waiting
  <2> QED BY <1>1, <2>1, <2>2
<1>6. \A i, j \in DOMAIN backlog' : backlog'[i] = backlog'[j] => i = j
  <2>1. CASE backlog' = backlog
    BY <2>1 DEF QInv, Queue
  <2>2. CASE backlog' = Append(backlog, c)
    <3>1. /\ DOMAIN backlog' = DOMAIN backlog \cup {Len(backlog) + 1}
          /\ \A i \in DOMAIN backlog : backlog'[i] = backlog[i] /\ i # Len(backlog) + 1
          /\ backlog'[Len(backlog) + 1] = c
      BY <1>3, <2>2
    <3>2. \A i \in DOMAIN backlog : backlog'[i] # c
      BY <1>2, <3>1 DEF Waiting
    <3>3. \A i, j \in DOMAIN backlog : backlog'[i] = backlog'[j] => i = j
      BY <3>1 DEF QInv, Queue
    <3> QED BY <3>1, <3>2, <3>3
  <2> QED BY <1>1, <2>1, <2>2
<1>7. Queue'
  BY <1>1, <1>2, <1>5, <1>6 DEF QInv, Queue, Ranges
<1>8. NamesFit'
  BY <1>1, <1>2 DEF QInv, NamesFit, Ranges
<1> QED BY <1>4, <1>7, <1>8 DEF QInv

LEMMA TypeQInv == ASSUME QInv, NEW c \in Clients, Type(c) PROVE QInv'
<1>1. PICK n \in Names : name' = [name EXCEPT ![c] = n]
  BY DEF Type
<1>2. /\ at[c] = "prompt" /\ at' \in {[at EXCEPT ![c] = "open"], [at EXCEPT ![c] = "killed"]}
      /\ request' \in {request, [request EXCEPT ![c] = <<"front", "rest">>]}
      /\ UNCHANGED <<srv, cur, opened, pos, backlog, data, conn, saved, killable>>
  BY DEF Type, Go
<1>3. Ranges'
  BY <1>1, <1>2 DEF QInv, Ranges, Ended
<1>4. \A d : Waiting(d)' <=> Waiting(d)
  BY <1>2 DEF Waiting
<1>5. Queue'
  BY <1>2, <1>4 DEF QInv, Queue, Ranges
<1>6. NamesFit'
  <2>1. DOMAIN at = Clients /\ DOMAIN name = Clients /\ DOMAIN request = Clients
    BY DEF QInv, Ranges
  <2>2. /\ request[c] = <<>> /\ opened[c] = "" /\ opened' = opened
        /\ name'[c] = n /\ at'[c] \in {"open", "killed"}
    BY <1>1, <1>2, <2>1 DEF QInv, NamesFit
  <2>3. \A d \in Clients \ {c} : at'[d] = at[d] /\ name'[d] = name[d] /\ request'[d] = request[d]
    BY <1>1, <1>2, <2>1
  <2>4. ASSUME NEW d \in Clients
        PROVE  /\ at'[d] \in {"start", "prompt"} => request'[d] = <<>> /\ opened'[d] = ""
               /\ request'[d] # <<>> => name'[d] \in Names
               /\ opened'[d] # "" => opened'[d] \in Cuts[name'[d]] /\ name'[d] \in Names
    <3>1. CASE d = c
      BY <2>2, <3>1
    <3>2. CASE d # c
      BY <2>2, <2>3, <3>2 DEF QInv, NamesFit
    <3> QED
      BY <3>1, <3>2
  <2> QED
    BY <2>4 DEF NamesFit
<1> QED BY <1>3, <1>5, <1>6 DEF QInv

\* The steps of a client that has sent its request, or is killed.
ClientGoesOn(c) == OpenCopy(c) \/ Receive(c) \/ WriteFails(c) \/ StopReceiving(c) \/ ClientKilled(c)

LEMMA SavedType ==
  ASSUME QInv, NEW c \in Clients, ClientGoesOn(c)
  PROVE  data' \in [Clients -> Seq(Units)] /\ saved' \in [Clients -> Seq(Units)]
<1>1. data \in [Clients -> Seq(Units)] /\ saved \in [Clients -> Seq(Units)]
  BY DEF QInv, Ranges
<1>2. CASE data' = data /\ saved' = saved
  BY <1>1, <1>2
<1>3. CASE Receive(c)
  <2>1. PICK k \in 1 .. Block :
          /\ k <= Len(data[c])
          /\ saved' = [saved EXCEPT ![c] = @ \o SubSeq(data[c], 1, k)]
          /\ data' = [data EXCEPT ![c] = SubSeq(@, k + 1, Len(@))]
    BY <1>3 DEF Receive
  <2>2. Block \in Nat
    BY ConstantsAssumption
  <2>3. SubSeq(data[c], 1, k) \in Seq(Units) /\ SubSeq(data[c], k + 1, Len(data[c])) \in Seq(Units)
    BY <1>1, <2>1, <2>2
  <2>4. saved[c] \o SubSeq(data[c], 1, k) \in Seq(Units)
    BY <1>1, <2>3
  <2> QED BY <1>1, <2>1, <2>3, <2>4
<1>4. CASE WriteFails(c)
  <2>1. PICK k \in 0 .. Len(data[c]) - 1 :
          saved' = [saved EXCEPT ![c] = @ \o SubSeq(data[c], 1, k)]
    BY <1>4 DEF WriteFails
  <2>2. SubSeq(data[c], 1, k) \in Seq(Units)
    BY <1>1, <2>1
  <2>3. saved[c] \o SubSeq(data[c], 1, k) \in Seq(Units) /\ data' = data
    BY <1>1, <1>4, <2>2 DEF WriteFails
  <2> QED BY <1>1, <2>1, <2>3
<1>5. CASE ClientKilled(c)
  <2>1. PICK kept \in Prefixes(saved[c]) : saved' = [saved EXCEPT ![c] = kept]
    BY <1>5 DEF ClientKilled
  <2>2. kept \in Seq(Units) /\ data' = data
    BY <1>1, <1>5, PrefixType DEF ClientKilled
  <2> QED BY <1>1, <2>1, <2>2
<1> QED BY <1>2, <1>3, <1>4, <1>5 DEF ClientGoesOn, OpenCopy, StopReceiving

LEMMA ClientQInv == ASSUME QInv, NEW c \in Clients, ClientGoesOn(c) PROVE QInv'
<1>1. /\ at[c] # "start" /\ at' = [at EXCEPT ![c] = at'[c]]
      /\ at'[c] \in {"recv"} \cup Ended
      /\ at'[c] = "done" => conn[c] # "open"
      /\ UNCHANGED <<srv, cur, opened, pos, backlog, name, request, conn, killable>>
  BY DEF ClientGoesOn, OpenCopy, Receive, WriteFails, StopReceiving, ClientKilled, Go, Ended,
         QInv, Ranges
<1>2. Ranges'
  BY <1>1, SavedType DEF QInv, Ranges
<1>3. \A d : Waiting(d)' <=> Waiting(d)
  BY <1>1 DEF Waiting
<1>4. Queue'
  BY <1>1, <1>3 DEF QInv, Queue, Ranges, Ended
<1>5. NamesFit'
  BY <1>1 DEF QInv, NamesFit, Ranges, Ended
<1> QED BY <1>2, <1>4, <1>5 DEF QInv

LEMMA NextQInv == ASSUME QInv, [Next]_vars PROVE QInv'
<1>1. CASE Accept
  BY <1>1, AcceptQInv
<1>2. CASE RecvName \/ RecvNothing
  BY <1>2, ReadQInv
<1>3. CASE SendBlock \/ SendInVain \/ EndOfFile
  BY <1>3, SendQInv
<1>4. CASE Close
  BY <1>4, CloseQInv
<1>5. CASE SendKills \/ ServerKilled
  BY <1>5, DeathQInv
<1>6. ASSUME NEW c \in Clients, Client(c) \/ Type(c) \/ ClientKilled(c) PROVE QInv'
  BY <1>6, ConnectQInv, TypeQInv, ClientQInv DEF Client, ClientGoesOn
<1>7. CASE UNCHANGED vars
  BY <1>7 DEF vars, QInv, Ranges, Queue, NamesFit, Waiting
<1> QED BY <1>1, <1>2, <1>3, <1>4, <1>5, <1>6, <1>7 DEF Next, Server

LEMMA QInvHolds == SafeSpec => []QInv
<1>1. Init => QInv
  BY InitQInv
<1>2. QInv /\ [Next]_vars => QInv'
  BY NextQInv
<1> QED BY <1>1, <1>2, PTL DEF SafeSpec
-----------------------------------------------------------------------------
Fits == \A c \in Clients : Len(data[c]) <= Window

LEMMA NextFits == ASSUME QInv, Fits, [Next]_vars PROVE Fits'
<1>1. data \in [Clients -> Seq(Units)] /\ Window \in Nat /\ Block \in Nat
  BY ConstantsAssumption DEF QInv, Ranges
<1>2. CASE data' = data
  BY <1>2 DEF Fits
<1>3. CASE SendBlock
  <2>1. /\ srv = "send" /\ cur \in Clients /\ Len(data[cur]) + Len(NextBlock) <= Window
        /\ data' = [data EXCEPT ![cur] = @ \o NextBlock]
    BY <1>3 DEF SendBlock, QInv, Queue
  <2>2. NextBlock \in Seq(Units)
    BY <2>1, NextBlockType
  <2>3. Len(data[cur] \o NextBlock) = Len(data[cur]) + Len(NextBlock)
    BY <1>1, <2>1, <2>2
  <2> QED BY <1>1, <2>1, <2>3 DEF Fits
<1>4. ASSUME NEW c \in Clients, Deliver(c) PROVE Fits'
  <2>1. PICK kept \in Prefixes(data[c]) : data' = [data EXCEPT ![c] = kept]
    BY <1>4 DEF Deliver
  <2>2. Len(kept) <= Len(data[c]) /\ Len(kept) \in Nat /\ Len(data[c]) \in Nat
    BY <1>1, PrefixType
  <2>3. Len(kept) <= Window
    BY <1>1, <2>2 DEF Fits
  <2> QED BY <1>1, <2>1, <2>3 DEF Fits
<1>5. ASSUME NEW c \in Clients, Receive(c) PROVE Fits'
  <2>1. PICK k \in 1 .. Block :
           k <= Len(data[c]) /\ data' = [data EXCEPT ![c] = SubSeq(@, k + 1, Len(@))]
    BY <1>5 DEF Receive
  <2>2. Len(SubSeq(data[c], k + 1, Len(data[c]))) <= Len(data[c])
    <3>1. data[c] \in Seq(Units) /\ k \in Nat /\ Len(data[c]) \in Nat
      BY <1>1, <2>1
    <3> QED BY <2>1, <3>1
  <2>3. Len(SubSeq(data[c], k + 1, Len(data[c]))) <= Window
    <3> DEFINE x == Len(SubSeq(data[c], k + 1, Len(data[c])))  y == Len(data[c])
    <3>1. x \in Int /\ y \in Int /\ x <= y /\ y <= Window
      <4>1. data[c] \in Seq(Units) /\ k \in Nat
        BY <1>1, <2>1
      <4> QED BY <2>2, <4>1 DEF Fits
    <3> HIDE DEF x, y
    <3>2. x <= Window
      BY <1>1, <3>1
    <3> QED BY <3>2 DEF x
  <2> QED BY <1>1, <2>1, <2>3 DEF Fits
<1>6. CASE Close \/ ServerKilled
  <2>1. (cur \in Clients /\ Deliver(cur)) \/ data' = data
    BY <1>6 DEF Close, ServerKilled, QInv, Queue, Ranges
  <2> QED BY <1>2, <1>4, <2>1
<1>7. CASE \/ Accept \/ RecvName \/ RecvNothing \/ SendInVain \/ SendKills \/ EndOfFile
           \/ UNCHANGED vars
  BY <1>2, <1>7 DEF Accept, RecvName, RecvNothing, SendInVain, SendKills, EndOfFile, vars
<1>8. ASSUME NEW c \in Clients, Client(c) \/ Type(c) \/ ClientKilled(c) PROVE Fits'
  <2>1. Receive(c) \/ data' = data
    BY <1>8 DEF Client, Connect, Type, OpenCopy, WriteFails, StopReceiving, ClientKilled
  <2> QED BY <1>2, <1>5, <2>1
<1> QED BY <1>3, <1>6, <1>7, <1>8 DEF Next, Server

\* The positions, the queue of connections, the requests and what TCP holds stay
\* in their ranges.
THEOREM TypeCorrect == SafeSpec => []TypeOK
<1>1. Init => Fits
  <2>1. Len(<<>>) = 0 /\ 0 <= Window
    <3>1. Window \in Nat
      BY ConstantsAssumption
    <3> QED BY ONLY <3>1
  <2>2. Init => \A c \in Clients : data[c] = <<>>
    BY DEF Init
  <2> QED BY <2>1, <2>2 DEF Fits
<1>2. QInv /\ Fits /\ [Next]_vars => Fits'
  BY NextFits
<1>3. QInv /\ Fits => TypeOK
  BY DEF QInv, Ranges, Fits, TypeOK, OpenNames
<1> QED BY <1>1, <1>2, <1>3, QInvHolds, PTL DEF SafeSpec
-----------------------------------------------------------------------------
LEMMA EndedStays ==
  ASSUME QInv, [Next]_vars, NEW c \in Clients, at[c] \in Ended
  PROVE  at'[c] = at[c]
<1>1. CASE Server \/ ServerKilled \/ UNCHANGED vars
  BY <1>1 DEF Server, Accept, RecvName, RecvNothing, SendBlock, SendInVain, SendKills, Dies,
              EndOfFile, Close, ServerKilled, vars
<1>2. ASSUME NEW d \in Clients, Client(d) \/ Type(d) \/ ClientKilled(d) PROVE at'[c] = at[c]
  BY <1>2 DEF Client, Connect, Type, OpenCopy, Receive, WriteFails, StopReceiving, ClientKilled,
              Go, Ended, QInv, Ranges
<1> QED BY <1>1, <1>2 DEF Next

LEMMA NextDies ==
  ASSUME QInv, DiesOnlyOfLeavers, [Next]_vars PROVE DiesOnlyOfLeavers'
<1>1. killable' = killable
  <2>1. CASE Server \/ ServerKilled \/ UNCHANGED vars
    BY <2>1 DEF Server, Accept, RecvName, RecvNothing, SendBlock, SendInVain, SendKills, Dies,
                EndOfFile, Close, ServerKilled, vars
  <2>2. ASSUME NEW d \in Clients, Client(d) \/ Type(d) \/ ClientKilled(d)
        PROVE  killable' = killable
    BY <2>2 DEF Client, Connect, Type, OpenCopy, Receive, WriteFails, StopReceiving, ClientKilled
  <2> QED BY <2>1, <2>2 DEF Next
<1>2. CASE SendKills
  <2>1. cur \in Clients /\ at[cur] \in Ended \ {"done"} /\ at' = at
    BY <1>2 DEF SendKills, Dies, QInv, Queue
  <2> QED BY <2>1 DEF DiesOnlyOfLeavers
<1>3. CASE ServerKilled
  BY <1>1, <1>3 DEF ServerKilled, DiesOnlyOfLeavers
<1>4. CASE ~SendKills /\ ~ServerKilled
  <2>1. Up' <=> Up
    <3>1. CASE Server \/ UNCHANGED vars
      BY <1>4, <3>1 DEF Server, Accept, RecvName, RecvNothing, Open, SendBlock, SendInVain,
                        EndOfFile, Close, vars, Up
    <3>2. ASSUME NEW d \in Clients, Client(d) \/ Type(d) \/ ClientKilled(d) PROVE srv' = srv
      BY <3>2 DEF Client, Connect, Type, OpenCopy, Receive, WriteFails, StopReceiving,
                  ClientKilled
    <3> QED BY <1>4, <3>1, <3>2 DEF Next, Up
  <2> QED BY <1>1, <2>1, EndedStays DEF DiesOnlyOfLeavers
<1> QED BY <1>2, <1>3, <1>4

\* The loop of the server ends only if the server is killed from outside, or if
\* a client has left before the end of its file (test_server2.cpp:46 and :86).
THEOREM DiesOfLeavers == SafeSpec => []DiesOnlyOfLeavers
<1>1. Init => DiesOnlyOfLeavers
  BY DEF Init, DiesOnlyOfLeavers, Up
<1>2. QInv /\ DiesOnlyOfLeavers /\ [Next]_vars => DiesOnlyOfLeavers'
  BY NextDies
<1> QED BY <1>1, <1>2, QInvHolds, PTL DEF SafeSpec
-----------------------------------------------------------------------------
Total(c) == Len(saved[c]) + Len(data[c])

\* What a client has saved is a beginning of its file, ...
Kept(c) ==
  LET all == Content(opened[c]) IN
    /\ Len(saved[c]) <= Len(all)
    /\ \A i \in 1 .. Len(saved[c]) : saved[c][i] = all[i]

\* ... what is on its way to it continues that, ...
Coming(c) ==
  LET all == Content(opened[c]) IN
    /\ Total(c) <= Len(all)
    /\ \A i \in 1 .. Len(data[c]) : data[c][i] = all[Len(saved[c]) + i]

\* ... and both together are what the server has read, in the end everything.
InStep(c) ==
  LET size == Len(Content(opened[c])) IN
    /\ c = cur /\ srv = "send" => Total(c) = pos
    /\ c = cur /\ srv = "close" => Total(c) = size
    /\ Up /\ conn[c] # "open" /\ request[c] = <<>> => Total(c) = size

Stream(c) ==
  /\ Kept(c)
  /\ at[c] \notin Ended => Coming(c) /\ InStep(c)
  /\ at[c] = "done" /\ Up /\ request[c] = <<>> => Len(saved[c]) = Len(Content(opened[c]))

SInv == \A c \in Clients : Stream(c)

LEMMA ContentType == \A n : Content(n) \in Seq(Units) /\ Len(Content(n)) \in Nat
<1>1. <<>> \in Seq(Units)
  OBVIOUS
<1>2. \A n : Content(n) \in Seq(Units)
  BY <1>1, ConstantsAssumption DEF Content
<1> QED BY <1>2

LEMMA EmptyContent == Content("") = <<>> /\ Len(<<>>) = 0
  BY ConstantsAssumption DEF Content

LEMMA InitSInv == ASSUME Init PROVE SInv
<1> SUFFICES ASSUME NEW c \in Clients PROVE Stream(c)
  BY DEF SInv
<1>1. /\ saved[c] = <<>> /\ data[c] = <<>> /\ opened[c] = "" /\ at[c] = "start"
      /\ conn[c] = "open" /\ srv = "accept"
  BY DEF Init
<1>2. Len(saved[c]) = 0 /\ Len(data[c]) = 0 /\ Len(Content(opened[c])) = 0
  BY <1>1, EmptyContent
<1>3. Kept(c) /\ Coming(c)
  BY <1>2 DEF Kept, Coming, Total
<1>4. InStep(c) /\ at[c] # "done"
  BY <1>1 DEF InStep
<1> QED BY <1>3, <1>4 DEF Stream

\* A step that is not about a client leaves its stream alone.
LEMMA Frame ==
  ASSUME NEW c \in Clients, Stream(c), Up' => Up,
         saved'[c] = saved[c], data'[c] = data[c], opened'[c] = opened[c],
         at'[c] = at[c], conn'[c] = conn[c], request'[c] = request[c],
         c = cur' /\ srv' \in {"send", "close"} => c = cur /\ srv' = srv /\ pos' = pos
  PROVE  Stream(c)'
  BY DEF Stream, Kept, Coming, InStep, Total
LEMMA LengthsAreNaturals ==
  ASSUME QInv, NEW c \in Clients
  PROVE  /\ saved[c] \in Seq(Units) /\ data[c] \in Seq(Units)
         /\ Len(saved[c]) \in Nat /\ Len(data[c]) \in Nat
<1>1. saved[c] \in Seq(Units) /\ data[c] \in Seq(Units)
  BY DEF QInv, Ranges
<1> QED BY <1>1

LEMMA ReadSInv == ASSUME QInv, SInv, RecvName \/ RecvNothing PROVE SInv'
<1>1. PICK n \in OpenNames :
         /\ Open(n)
         /\ cur \in Clients
         /\ \A c \in Clients : request'[c] = request[c] \/ c = cur
         /\ UNCHANGED <<cur, at, data, conn, saved>>
  BY ReadFits
<1>2. /\ opened' = [opened EXCEPT ![cur] = n] /\ pos' = 0
      /\ srv' = IF n \in DOMAIN File THEN "send" ELSE "close"
  BY <1>1 DEF Open
<1>3. opened[cur] = "" /\ conn[cur] = "open" /\ at[cur] # "done" /\ srv = "recv"
      /\ opened'[cur] = n
  BY <1>1, <1>2 DEF RecvName, RecvNothing, QInv, Queue, Ranges
<1>4. Len(saved[cur]) = 0 /\ (at[cur] \notin Ended => Len(data[cur]) = 0)
  <2>1. Len(saved[cur]) \in Nat /\ Len(data[cur]) \in Nat
    BY <1>1, LengthsAreNaturals
  <2>2. Len(Content(opened[cur])) = 0
    BY <1>3, EmptyContent
  <2>3. Len(saved[cur]) <= Len(Content(opened[cur]))
    BY <1>1 DEF SInv, Stream, Kept
  <2>4. at[cur] \notin Ended => Len(saved[cur]) + Len(data[cur]) <= Len(Content(opened[cur]))
    BY <1>1 DEF SInv, Stream, Coming, Total
  <2>5. saved \in [Clients -> Seq(Units)] /\ data \in [Clients -> Seq(Units)]
    BY DEF QInv, Ranges
  <2> QED BY <1>1, <2>1, <2>2, <2>3, <2>4, <2>5
<1>5. Len(Content(n)) \in Nat /\ (srv' = "close" => Len(Content(n)) = 0)
  BY <1>2, ContentType, EmptyContent DEF Content
<1>6. Stream(cur)'
  <2> USE <1>4, <1>5
  <2>1. /\ saved'[cur'] = saved[cur] /\ data'[cur'] = data[cur] /\ opened'[cur'] = n
        /\ conn'[cur'] = "open" /\ cur' = cur
    BY <1>1, <1>3
  <2>2. Kept(cur)'
    BY <2>1 DEF Kept
  <2>5. at[cur] \notin Ended => Total(cur)' = 0
    <3> DEFINE s == Len(saved[cur])  d == Len(data[cur])  p == Total(cur)'
    <3>1. p = s + d /\ (at[cur] \notin Ended => s = 0 /\ d = 0)
      BY <2>1 DEF Total
    <3> HIDE DEF s, d, p
    <3>2. at[cur] \notin Ended => p = 0
      BY ONLY <3>1
    <3> QED BY <3>2 DEF p
  <2>3. at[cur] \notin Ended => Coming(cur)'
    BY <2>1, <2>5 DEF Coming
  <2>4. at[cur] \notin Ended => InStep(cur)'
    BY <1>2, <2>1, <2>5 DEF InStep
  <2> QED BY <1>1, <1>3, <2>1, <2>2, <2>3, <2>4 DEF Stream
<1>7. ASSUME NEW c \in Clients, c # cur PROVE Stream(c)'
  BY <1>1, <1>2, <1>3, <1>7, Frame DEF SInv, Up, QInv, Ranges
<1> QED BY <1>1, <1>6, <1>7 DEF SInv

LEMMA SendSInv == ASSUME QInv, SInv, SendBlock PROVE SInv'
<1>1. /\ srv = "send" /\ cur \in Clients /\ at[cur] \notin Ended /\ NextBlock # <<>>
      /\ data' = [data EXCEPT ![cur] = @ \o NextBlock]
      /\ pos' = pos + Len(NextBlock)
      /\ UNCHANGED <<srv, cur, opened, at, request, conn, saved>>
  BY DEF SendBlock, QInv, Queue
<1> DEFINE all == Content(opened[cur])
<1>2. /\ NextBlock \in Seq(Units) /\ Len(NextBlock) \in Nat
      /\ pos + Len(NextBlock) <= Len(all)
      /\ \A i \in 1 .. Len(NextBlock) : NextBlock[i] = all[pos + i]
  BY <1>1, NextBlockType
<1>3. /\ data[cur] \in Seq(Units) /\ saved[cur] \in Seq(Units)
      /\ Len(data[cur]) \in Nat /\ Len(saved[cur]) \in Nat /\ pos \in Nat
      /\ data'[cur] = data[cur] \o NextBlock
  BY <1>1, LengthsAreNaturals DEF QInv, Ranges
<1>4. Len(data'[cur]) = Len(data[cur]) + Len(NextBlock)
  BY <1>2, <1>3
<1>5. Stream(cur) /\ Total(cur) = pos
  BY <1>1 DEF SInv, Stream, InStep
<1>5a. /\ saved'[cur'] = saved[cur] /\ cur' = cur /\ opened'[cur'] = opened[cur]
      /\ data'[cur'] = data'[cur] /\ Len(saved[cur]) + Len(data[cur]) = pos
  BY <1>1, <1>5 DEF Total
<1>5b. Total(cur)' = pos'
  <2>1. Total(cur)' = Len(saved[cur]) + Len(data'[cur])
    BY <1>5a DEF Total
  <2>2. pos' = pos + Len(NextBlock)
    BY <1>1
  <2> DEFINE s == Len(saved[cur])  d == Len(data[cur])  b == Len(NextBlock)
             t == Len(data'[cur])  p == Total(cur)'
  <2>3. /\ s \in Nat /\ d \in Nat /\ b \in Nat /\ t = d + b /\ s + d = pos
        /\ p = s + t /\ pos' = pos + b
    BY <1>2, <1>3, <1>4, <1>5a, <2>1, <2>2
  <2> HIDE DEF s, d, b, t, p
  <2>4. p = pos'
    BY <2>3
  <2> QED BY <2>4 DEF p
<1>6. Coming(cur)'
  <2>2. ASSUME NEW i \in 1 .. Len(data'[cur]) PROVE data'[cur][i] = all[Len(saved[cur]) + i]
    <3>1. CASE i <= Len(data[cur])
      <4>1. i \in 1 .. Len(data[cur]) /\ data'[cur][i] = data[cur][i]
        BY <1>2, <1>3, <1>4, <3>1
      <4> QED BY <1>1, <1>5, <4>1 DEF Stream, Coming
    <3>2. CASE i > Len(data[cur])
      <4> DEFINE k == i - Len(data[cur])
      <4>1. k \in 1 .. Len(NextBlock) /\ data'[cur][i] = NextBlock[k]
        BY <1>2, <1>3, <1>4, <3>2
      <4>2. pos + k = Len(saved[cur]) + i
        <5> DEFINE s == Len(saved[cur])  d == Len(data[cur])
        <5>1. s \in Nat /\ d \in Nat /\ s + d = pos /\ k = i - d
          BY <1>3, <1>5a
        <5>3. i \in Int
          OBVIOUS
        <5> HIDE DEF s, d, k
        <5>2. pos + k = s + i
          BY <5>1, <5>3
        <5> QED BY <5>2 DEF s
      <4> QED BY <1>2, <4>1, <4>2
    <3> QED BY <1>3, <1>4, <3>1, <3>2
  <2>3. pos' <= Len(all)
    BY <1>1, <1>2
  <2> QED BY <1>5a, <1>5b, <2>2, <2>3 DEF Coming
<1>7. Stream(cur)'
  <2>2. conn[cur] = "open" /\ at[cur] # "done"
    BY <1>1 DEF QInv, Queue
  <2>3. Kept(cur)'
    BY <1>5, <1>5a DEF Stream, Kept
  <2> QED BY <1>1, <1>6, <1>5b, <2>2, <2>3 DEF Stream, InStep
<1>8. ASSUME NEW c \in Clients, c # cur PROVE Stream(c)'
  BY <1>1, <1>8, Frame DEF SInv, Up, QInv, Ranges
<1> QED BY <1>1, <1>7, <1>8 DEF SInv

LEMMA EndSInv == ASSUME QInv, SInv, EndOfFile \/ SendInVain PROVE SInv'
<1>1. /\ srv = "send" /\ cur \in Clients /\ srv' \in {"send", "close"}
      /\ UNCHANGED <<cur, opened, at, request, data, conn, saved>>
      /\ at[cur] \in Ended \/ (srv' = "close" /\ NextBlock = <<>> /\ pos' = pos)
  BY DEF EndOfFile, SendInVain, QInv, Queue
<1>2. conn[cur] = "open" /\ at[cur] # "done"
  BY <1>1 DEF QInv, Queue
<1>3. at[cur] \notin Ended => Total(cur) = Len(Content(opened[cur]))
  <2>1. SUFFICES ASSUME at[cur] \notin Ended PROVE Total(cur) = Len(Content(opened[cur]))
    OBVIOUS
  <2> DEFINE all == File[opened[cur]]
  <2>2. Total(cur) = pos /\ Total(cur) <= Len(Content(opened[cur]))
    BY <1>1, <2>1 DEF SInv, Stream, InStep, Coming
  <2>3. /\ Content(opened[cur]) = all /\ all \in Seq(Units) /\ Len(all) \in Nat
        /\ pos \in Nat /\ Block \in Nat \ {0}
    <3>1. pos \in Nat /\ Block \in Nat \ {0}
      BY ConstantsAssumption DEF QInv, Ranges
    <3>2. Content(opened[cur]) = all /\ all \in Seq(Units)
      BY <1>1, NextBlockType
    <3> QED BY <3>1, <3>2
  <2>4. ASSUME pos < Len(all) PROVE FALSE
    <3> DEFINE last == IF pos + Block < Len(all) THEN pos + Block ELSE Len(all)
    <3>1. last \in Nat /\ pos + 1 <= last /\ last <= Len(all)
      BY <2>3, <2>4
    <3>2. NextBlock = SubSeq(all, pos + 1, last)
      BY DEF NextBlock
    <3> HIDE DEF last, all
    <3>3. Len(NextBlock) = last - pos
      BY <2>3, <3>1, <3>2
    <3>4. Len(NextBlock) = 0
      BY <1>1, <2>1
    <3> QED BY <2>3, <3>1, <3>3, <3>4
  <2> QED BY <2>2, <2>3, <2>4
<1>4. Stream(cur)'
  BY <1>1, <1>2, <1>3 DEF SInv, Stream, Kept, Coming, InStep, Total
<1>5. ASSUME NEW c \in Clients, c # cur PROVE Stream(c)'
  BY <1>1, <1>5, Frame DEF SInv, Up, QInv, Ranges
<1> QED BY <1>1, <1>4, <1>5 DEF SInv

LEMMA AcceptSInv == ASSUME QInv, SInv, Accept PROVE SInv'
<1>1. /\ srv' = "recv" /\ srv = "accept"
      /\ UNCHANGED <<opened, at, request, data, conn, saved>>
  BY DEF Accept
<1>2. ASSUME NEW c \in Clients PROVE Stream(c)'
  BY <1>1, Frame DEF SInv, Up
<1> QED BY <1>2 DEF SInv

LEMMA ShorterComing ==
  ASSUME QInv, NEW c \in Clients, Coming(c), NEW kept \in Prefixes(data[c]),
         data'[c] = kept, saved'[c] = saved[c], opened'[c] = opened[c]
  PROVE  Coming(c)'
<1>1. /\ kept \in Seq(Units) /\ Len(kept) <= Len(data[c])
      /\ \A i \in 1 .. Len(kept) : kept[i] = data[c][i]
  BY LengthsAreNaturals, PrefixType
<1>2. /\ Len(kept) \in Nat /\ Len(data[c]) \in Nat /\ Len(saved[c]) \in Nat
      /\ Len(Content(opened[c])) \in Nat
  BY <1>1, LengthsAreNaturals, ContentType
<1> DEFINE all == Content(opened[c])
           s == Len(saved[c])  d == Len(data[c])  k == Len(kept)  a == Len(all)
<1>3. /\ s \in Nat /\ d \in Nat /\ k \in Nat /\ a \in Nat /\ k <= d /\ s + d <= a
  BY <1>1, <1>2 DEF Coming, Total
<1>4. ASSUME NEW i \in 1 .. k PROVE i \in 1 .. d
  <2> HIDE DEF s, d, k, a, all
  <2> QED BY <1>3
<1>5. s + k <= a
  <2> HIDE DEF s, d, k, a, all
  <2> QED BY <1>3
<1>6. \A i \in 1 .. k : kept[i] = all[s + i]
  BY <1>1, <1>4 DEF Coming
<1> QED BY <1>5, <1>6 DEF Coming, Total

LEMMA CloseSInv == ASSUME QInv, SInv, Close PROVE SInv'
<1>1. PICK z \in Clients : z = cur
  BY DEF Close, QInv, Queue
<1>2. /\ srv = "close" /\ Deliver(z)
      /\ conn' = [conn EXCEPT ![z] = EndOf(z)]
      /\ srv' = "accept" /\ cur' = "nobody" /\ cur' \notin Clients
      /\ UNCHANGED <<opened, pos, at, request, saved>>
  BY <1>1, ConstantsAssumption DEF Close
<1>3. PICK kept \in Prefixes(data[z]) :
         /\ EndOf(z) = "eof" => kept = data[z]
         /\ data' = [data EXCEPT ![z] = kept]
  BY <1>2 DEF Deliver
<1>4. Stream(z)'
  <2>1. at[z] # "done" /\ Stream(z) /\ data'[z] = kept
    BY <1>1, <1>3 DEF QInv, Queue, SInv, Ranges
  <2>2. Kept(z)'
    BY <1>2, <2>1 DEF Stream, Kept
  <2>3. at[z] \notin Ended => Coming(z)'
    BY <1>2, <2>1, ShorterComing DEF Stream
  <2>4. at[z] \notin Ended => Total(z) = Len(Content(opened[z]))
    BY <1>1, <1>2, <2>1 DEF Stream, InStep
  <2>5. request[z] = <<>> => Total(z)' = Total(z)
    BY <1>2, <1>3, <2>1 DEF EndOf, Total
  <2>6. at[z] \notin Ended => InStep(z)'
    BY <1>2, <2>4, <2>5 DEF InStep
  <2> QED BY <1>2, <2>1, <2>2, <2>3, <2>6 DEF Stream
<1>5. ASSUME NEW c \in Clients, c # z PROVE Stream(c)'
  BY <1>1, <1>2, <1>3, <1>5, Frame DEF SInv, Up, QInv, Ranges
<1> QED BY <1>4, <1>5 DEF SInv

LEMMA DeathSInv == ASSUME QInv, SInv, SendKills \/ ServerKilled PROVE SInv'
<1>1. /\ srv' = "killed" /\ cur' \notin Clients
      /\ data' = data \/ (cur \in Clients /\ Deliver(cur))
      /\ UNCHANGED <<opened, at, request, saved>>
  BY ConstantsAssumption DEF SendKills, ServerKilled, Dies, QInv, Ranges
<1>2. ASSUME NEW c \in Clients PROVE Stream(c)'
  <2>1. Stream(c)
    BY DEF SInv
  <2>2. Kept(c)'
    BY <1>1, <2>1 DEF Stream, Kept
  <2>3. at[c] \notin Ended => Coming(c)'
    <3>1. CASE data'[c] = data[c]
      BY <1>1, <2>1, <3>1 DEF Stream, Coming, Total
    <3>2. CASE c = cur /\ Deliver(cur)
      <4>1. \E kept \in Prefixes(data[c]) : data'[c] = kept
        BY <3>2 DEF Deliver, QInv, Ranges
      <4> QED BY <1>1, <2>1, <4>1, ShorterComing DEF Stream
    <3> QED BY <1>1, <3>1, <3>2 DEF Deliver, QInv, Ranges
  <2>4. InStep(c)' /\ ~Up'
    BY <1>1 DEF InStep, Up
  <2> QED BY <1>1, <2>2, <2>3, <2>4 DEF Stream
<1> QED BY <1>2 DEF SInv

\* What is received, or written of it, prolongs the file in the right way.
LEMMA LongerKept ==
  ASSUME QInv, NEW c \in Clients, Kept(c), Coming(c), NEW k \in Nat, k <= Len(data[c]),
         saved'[c] = saved[c] \o SubSeq(data[c], 1, k), opened'[c] = opened[c]
  PROVE  Kept(c)' /\ Len(saved'[c]) = Len(saved[c]) + k
<1> DEFINE s == saved[c]  d == data[c]  p == SubSeq(d, 1, k)  all == Content(opened[c])
<1>1. /\ s \in Seq(Units) /\ d \in Seq(Units) /\ Len(s) \in Nat /\ Len(d) \in Nat
      /\ Len(all) \in Nat
  BY LengthsAreNaturals, ContentType
<1>2. /\ k <= Len(d) /\ saved'[c] = s \o p /\ Len(s) + Len(d) <= Len(all)
      /\ \A i \in 1 .. Len(s) : s[i] = all[i]
      /\ \A i \in 1 .. Len(d) : d[i] = all[Len(s) + i]
  BY DEF Kept, Coming, Total
<1> HIDE DEF s, d, all
<1>3. p \in Seq(Units) /\ Len(p) = k /\ \A i \in 1 .. k : p[i] = d[i]
  BY <1>1, <1>2
<1> HIDE DEF p
<1>4. Len(s \o p) = Len(s) + k
  <2>1. Len(s \o p) = Len(s) + Len(p)
    BY ONLY <1>1, <1>3
  <2> QED BY <1>3, <2>1
<1>5. Len(s) + k <= Len(all)
  BY <1>1, <1>2
<1>6. ASSUME NEW i \in 1 .. Len(s \o p) PROVE (s \o p)[i] = all[i]
  <2>1. CASE i <= Len(s)
    <3>1. i \in 1 .. Len(s) /\ (s \o p)[i] = s[i]
      BY <1>1, <1>3, <1>4, <2>1
    <3> QED BY <1>2, <3>1
  <2>2. CASE i > Len(s)
    <3>1. i - Len(s) \in 1 .. k /\ i - Len(s) \in 1 .. Len(d) /\ (s \o p)[i] = p[i - Len(s)]
      BY <1>1, <1>2, <1>3, <1>4, <2>2
    <3>2. Len(s) + (i - Len(s)) = i
      BY <1>1, <1>4
    <3> QED BY <1>2, <1>3, <3>1, <3>2
  <2> QED BY <1>1, <1>4, <2>1, <2>2
<1> QED BY <1>2, <1>4, <1>5, <1>6 DEF Kept, all, s, d

LEMMA ReceiveStream == ASSUME QInv, NEW c \in Clients, Stream(c), Receive(c) PROVE Stream(c)'
<1>1. /\ at[c] = "recv" /\ at' = [at EXCEPT ![c] = "recv"] /\ data[c] # <<>>
      /\ UNCHANGED <<srv, cur, opened, pos, request, conn>>
  BY DEF Receive, Go
<1>2. PICK k \in 1 .. Block :
         /\ k <= Len(data[c])
         /\ saved' = [saved EXCEPT ![c] = @ \o SubSeq(data[c], 1, k)]
         /\ data' = [data EXCEPT ![c] = SubSeq(@, k + 1, Len(@))]
  BY DEF Receive
<1>3. /\ k \in Nat /\ k >= 1 /\ at'[c] = "recv" /\ at[c] \notin Ended /\ at'[c] \notin Ended
      /\ saved'[c] = saved[c] \o SubSeq(data[c], 1, k)
      /\ data'[c] = SubSeq(data[c], k + 1, Len(data[c]))
  <2>1. k \in Nat /\ k >= 1
    <3>1. Block \in Nat
      BY ConstantsAssumption
    <3> QED BY ONLY <3>1, k \in 1 .. Block
  <2>2. at'[c] = "recv" /\ at[c] \notin Ended /\ at'[c] \notin Ended
    BY <1>1 DEF QInv, Ranges, Ended
  <2> QED BY <1>2, <2>1, <2>2 DEF QInv, Ranges
<1>4. Kept(c) /\ Coming(c) /\ InStep(c)
  BY <1>3 DEF Stream
<1>5. Kept(c)' /\ Len(saved'[c]) = Len(saved[c]) + k
  BY <1>1, <1>2, <1>3, <1>4, LongerKept
<1> DEFINE s == Len(saved[c])  d == data[c]
           rest == SubSeq(d, k + 1, Len(d))
           all == Content(opened[c])
<1>6. d \in Seq(Units) /\ Len(d) \in Nat /\ s \in Nat /\ k <= Len(d)
  BY <1>2, LengthsAreNaturals
<1>7. rest \in Seq(Units) /\ Len(rest) = Len(d) - k /\ \A i \in 1 .. Len(rest) : rest[i] = d[k + i]
  <2> HIDE DEF d, s
  <2>1. k + 1 \in Nat /\ k \in Nat /\ 1 <= k
    BY <1>3
  <2> QED BY <1>6, <2>1
<1>8. Total(c)' = Total(c)
  <2>1. Total(c)' = (s + k) + Len(rest) /\ Total(c) = s + Len(d)
    BY <1>3, <1>5 DEF Total
  <2> DEFINE x == Total(c)'  y == Total(c)
  <2>2. x = (s + k) + Len(rest) /\ y = s + Len(d) /\ k \in Nat
    BY <1>3, <2>1
  <2> HIDE DEF x, y, s, d, rest
  <2>3. x = y
    BY <1>6, <1>7, <2>2
  <2> QED BY <2>3 DEF x, y
<1>9. Coming(c)'
  <2>1. ASSUME NEW i \in 1 .. Len(rest) PROVE rest[i] = all[(s + k) + i]
    <3>1. /\ \A j \in 1 .. Len(d) : d[j] = all[s + j]
      BY <1>4 DEF Coming
    <3> HIDE DEF s, d, rest, all
    <3>2. k + i \in 1 .. Len(d) /\ s + (k + i) = (s + k) + i
      BY <1>3, <1>6, <1>7
    <3> QED BY <1>7, <3>1, <3>2
  <2> QED BY <1>1, <1>3, <1>4, <1>5, <1>8, <2>1 DEF Coming
<1>10. InStep(c)'
  BY <1>1, <1>4, <1>8 DEF InStep, Up
<1> QED BY <1>3, <1>5, <1>9, <1>10 DEF Stream

LEMMA LeaveStream ==
  ASSUME QInv, NEW c \in Clients, Stream(c), WriteFails(c) \/ StopReceiving(c) \/ ClientKilled(c)
  PROVE  Stream(c)'
<1>1. UNCHANGED <<srv, cur, opened, pos, request, data, conn>>
  BY DEF WriteFails, StopReceiving, ClientKilled
<1>2. CASE WriteFails(c)
  <2>1. PICK k \in 0 .. Len(data[c]) - 1 :
           saved' = [saved EXCEPT ![c] = @ \o SubSeq(data[c], 1, k)]
    BY <1>2 DEF WriteFails
  <2>2. k \in Nat /\ k <= Len(data[c])
    BY <2>1, LengthsAreNaturals
  <2>3. /\ at[c] = "recv" /\ at'[c] = "short" /\ at'[c] \in Ended /\ at[c] \notin Ended
        /\ saved'[c] = saved[c] \o SubSeq(data[c], 1, k)
    BY <1>2, <2>1 DEF WriteFails, Go, QInv, Ranges, Ended
  <2>4. Kept(c)'
    BY <1>1, <2>2, <2>3, LongerKept DEF Stream
  <2> QED BY <2>3, <2>4 DEF Stream
<1>3. CASE StopReceiving(c)
  <2>1. /\ at[c] = "recv" /\ at'[c] = "done" /\ at'[c] \in Ended /\ at[c] \notin Ended
        /\ saved' = saved /\ data[c] = <<>> /\ conn[c] # "open"
    BY <1>3 DEF StopReceiving, Go, QInv, Ranges, Ended
  <2>2. Kept(c)'
    BY <1>1, <2>1 DEF Stream, Kept
  <2>3. Up /\ request[c] = <<>> => Len(saved[c]) = Len(Content(opened[c]))
    <3> DEFINE s == Len(saved[c])  d == Len(data[c])  a == Len(Content(opened[c]))
    <3>1. Up /\ request[c] = <<>> => s + d = a
      BY <2>1 DEF Stream, InStep, Total
    <3>2. s \in Nat /\ d = 0
      BY <2>1, LengthsAreNaturals
    <3> HIDE DEF s, d, a
    <3>3. Up /\ request[c] = <<>> => s = a
      BY <3>1, <3>2
    <3> QED BY <3>3 DEF s, a
  <2> QED BY <1>1, <2>1, <2>2, <2>3 DEF Stream, Up
<1>4. CASE ClientKilled(c)
  <2>1. PICK kept \in Prefixes(saved[c]) : saved' = [saved EXCEPT ![c] = kept]
    BY <1>4 DEF ClientKilled
  <2>2. at'[c] = "killed" /\ at'[c] \in Ended /\ saved'[c] = kept
    BY <1>4, <2>1 DEF ClientKilled, QInv, Ranges, Ended
  <2>3. /\ kept \in Seq(Units) /\ Len(kept) <= Len(saved[c]) /\ Len(kept) \in Nat
        /\ \A i \in 1 .. Len(kept) : kept[i] = saved[c][i]
    <3>1. saved[c] \in Seq(Units)
      BY LengthsAreNaturals
    <3> QED BY <3>1, PrefixType
  <2>4. Len(saved[c]) \in Nat /\ Len(Content(opened[c])) \in Nat
    BY LengthsAreNaturals, ContentType
  <2>5. Kept(c)'
    <3> DEFINE k == Len(kept)  s == Len(saved[c])  a == Len(Content(opened[c]))
    <3>1. k \in Nat /\ s \in Nat /\ a \in Nat /\ k <= s /\ s <= a
      BY <2>3, <2>4 DEF Stream, Kept
    <3> HIDE DEF k, s, a
    <3>2. k <= a /\ \A i \in 1 .. k : i \in 1 .. s
      BY <3>1
    <3> QED BY <1>1, <2>2, <2>3, <3>2 DEF Stream, Kept, k, s, a
  <2> QED BY <2>2, <2>5 DEF Stream
<1> QED BY <1>2, <1>3, <1>4

LEMMA BeginStream ==
  ASSUME QInv, NEW c \in Clients, Stream(c), Connect(c) \/ Type(c) \/ OpenCopy(c)
  PROVE  Stream(c)'
<1>1. /\ UNCHANGED <<srv, cur, opened, pos, data, conn, saved>>
      /\ at[c] \notin Ended /\ at'[c] # "done"
      /\ request'[c] = <<>> => request[c] = <<>>
  <2>1. UNCHANGED <<srv, cur, opened, pos, data, conn, saved>>
    BY DEF Connect, Type, OpenCopy
  <2>2. at[c] \notin Ended /\ at'[c] # "done"
    BY DEF Connect, Type, OpenCopy, Go, QInv, Ranges, Ended
  <2>3. request' = request \/ request' = [request EXCEPT ![c] = <<"front", "rest">>]
    BY DEF Connect, Type, OpenCopy
  <2>4. <<"front", "rest">> # <<>>
    OBVIOUS
  <2> QED BY <2>1, <2>2, <2>3, <2>4 DEF QInv, Ranges
<1>2. Kept(c)' /\ Coming(c)'
  BY <1>1 DEF Stream, Kept, Coming, Total
<1>3. InStep(c)'
  BY <1>1 DEF Stream, InStep, Total, Up
<1> QED BY <1>1, <1>2, <1>3 DEF Stream

LEMMA ClientSInv ==
  ASSUME QInv, SInv, NEW c \in Clients, Client(c) \/ Type(c) \/ ClientKilled(c)
  PROVE  SInv'
<1>1. Stream(c)'
  BY BeginStream, ReceiveStream, LeaveStream DEF SInv, Client
<1>2. /\ UNCHANGED <<srv, cur, opened, pos, conn>>
      /\ \A d \in Clients \ {c} :
           saved'[d] = saved[d] /\ data'[d] = data[d] /\ at'[d] = at[d] /\ request'[d] = request[d]
  BY DEF Client, Connect, Type, OpenCopy, Receive, WriteFails, StopReceiving, ClientKilled, Go,
         QInv, Ranges
<1>3. ASSUME NEW d \in Clients, d # c PROVE Stream(d)'
  BY <1>2, <1>3, Frame DEF SInv, Up
<1> QED BY <1>1, <1>3 DEF SInv

LEMMA NextSInv == ASSUME QInv, SInv, [Next]_vars PROVE SInv'
<1>1. CASE Accept
  BY <1>1, AcceptSInv
<1>2. CASE RecvName \/ RecvNothing
  BY <1>2, ReadSInv
<1>3. CASE SendBlock
  BY <1>3, SendSInv
<1>4. CASE SendInVain \/ EndOfFile
  BY <1>4, EndSInv
<1>5. CASE Close
  BY <1>5, CloseSInv
<1>6. CASE SendKills \/ ServerKilled
  BY <1>6, DeathSInv
<1>7. ASSUME NEW c \in Clients, Client(c) \/ Type(c) \/ ClientKilled(c) PROVE SInv'
  BY <1>7, ClientSInv
<1>8. CASE UNCHANGED vars
  <2>1. ASSUME NEW c \in Clients PROVE Stream(c)'
    BY <1>8, Frame DEF SInv, vars, Up
  <2> QED BY <2>1 DEF SInv
<1> QED BY <1>1, <1>2, <1>3, <1>4, <1>5, <1>6, <1>7, <1>8 DEF Next, Server

LEMMA SInvHolds == SafeSpec => []SInv
<1>1. Init => SInv
  BY InitSInv
<1>2. QInv /\ SInv /\ [Next]_vars => SInv'
  BY NextSInv
<1> QED BY <1>1, <1>2, QInvHolds, PTL DEF SafeSpec

\* A client holds, at any time and whoever has been killed, a beginning of the
\* file whose name the server has read from it (test_server2.cpp:65-92,
\* test_client2.cpp:84-101).
THEOREM SavedPrefix == SafeSpec => []SavedIsPrefix
<1>1. QInv /\ SInv => SavedIsPrefix
  <2> SUFFICES ASSUME QInv, SInv, NEW c \in Clients
               PROVE  /\ IsPrefix(saved[c], Content(opened[c]))
                      /\ opened[c] # "" => opened[c] \in Cuts[name[c]]
    BY DEF SavedIsPrefix
  <2>1. opened[c] # "" => opened[c] \in Cuts[name[c]]
    BY DEF QInv, NamesFit
  <2> DEFINE s == saved[c]  all == Content(opened[c])
  <2>2. /\ s \in Seq(Units) /\ all \in Seq(Units) /\ Len(s) \in Nat /\ Len(all) \in Nat
        /\ Len(s) <= Len(all) /\ \A i \in 1 .. Len(s) : s[i] = all[i]
    BY LengthsAreNaturals, ContentType DEF SInv, Stream, Kept
  <2> HIDE DEF s, all
  <2>3. SubSeq(s, 1, Len(s)) = SubSeq(all, 1, Len(s))
    BY <2>2
  <2>4. IsPrefix(s, all)
    BY <2>2, <2>3 DEF IsPrefix
  <2> QED BY <2>1, <2>4 DEF s, all
<1> QED BY <1>1, QInvHolds, SInvHolds, PTL

\* A client that ends by itself while the server lives, its request read
\* entirely, has the whole file (test_client2.cpp:90-103).
THEOREM Complete == SafeSpec => []CompleteIfSpared
<1>1. QInv /\ SInv => CompleteIfSpared
  <2> SUFFICES ASSUME QInv, SInv, NEW c \in Clients, at[c] = "done", Up, request[c] = <<>>
               PROVE  saved[c] = Content(opened[c])
    BY DEF CompleteIfSpared
  <2> DEFINE s == saved[c]  all == Content(opened[c])
  <2>1. /\ s \in Seq(Units) /\ all \in Seq(Units) /\ Len(s) = Len(all)
        /\ \A i \in 1 .. Len(s) : s[i] = all[i]
    BY LengthsAreNaturals, ContentType DEF SInv, Stream, Kept
  <2> HIDE DEF s, all
  <2>2. s = all
    BY <2>1
  <2> QED BY <2>2 DEF s, all
<1> QED BY <1>1, QInvHolds, SInvHolds, PTL
-----------------------------------------------------------------------------
(* ForkServer: who is served *)


\* Some connection has got the descriptor in connect_fd.
Lucky == \E i \in DOMAIN slots : slots[i] = connectFd

\* Nobody but this loop opens or closes a descriptor, and it closes connect_fd.
OthersStay == \A fd \in F!Fds : fd <= F!Listener /\ fd # connectFd => files[fd] # "free"

\* Then everything below connect_fd is taken, and it is itself free again
\* whenever accept is called.
LowestWhenLucky ==
  Lucky /\ connectFd \in F!Fds =>
    /\ \A fd \in F!Fds : fd < connectFd => files[fd] # "free"
    /\ fSrv = "accept" => files[connectFd] = "free"

\* Before that it is free, if accept may ever return it.
FreeBefore ==
  connectFd \in F!Fds /\ connectFd > F!Listener /\ ~Lucky => files[connectFd] = "free"

\* A standard stream is closed in the first turn.
StreamClosed ==
  connectFd \in F!Fds /\ connectFd < F!Listener =>
    /\ fSrv = "accept" => F!Lost = {} \/ files[connectFd] = "free"
    /\ \A c, d \in F!Lost : c = d

\* The connections of lost clients stay open.
LostStay == \A c \in F!Lost : slot[c] \in F!Fds /\ files[slot[c]] = c

LostBelow ==
  connectFd \in F!Fds /\ connectFd > F!Listener =>
    \A c \in F!Lost : slot[c] \in F!Listener + 1 .. connectFd - 1

FRanges ==
  /\ connectFd \in Int
  /\ files \in [F!Fds -> Callers \cup {"free", "std", "listener"}]
  /\ slot \in [Callers -> F!Fds \cup {-1}]
  /\ slots \in Seq(F!Fds)
  /\ fBacklog \in Seq(Callers)

FInv ==
  /\ FRanges
  /\ OthersStay
  /\ LowestWhenLucky
  /\ FreeBefore
  /\ StreamClosed
  /\ LostStay
  /\ LostBelow
  /\ F!OnceRightAlwaysRight

LEMMA InitFInv == ASSUME F!Init PROVE FInv
  BY CallersAssumption DEF F!ForkAssumption, F!Init, FInv, FRanges, OthersStay, LowestWhenLucky, Lucky, FreeBefore,
         StreamClosed, LostStay, LostBelow, F!OnceRightAlwaysRight, F!Lost, F!Fds, F!Listener

\* Steps that touch no descriptor.
LEMMA QuietStep ==
  ASSUME FInv, fBacklog' \in Seq(Callers), fSrv' = "accept" => fSrv = "accept",
         UNCHANGED <<connectFd, files, slots, slot>>
  PROVE  FInv'
  BY DEF FInv, FRanges, OthersStay, LowestWhenLucky, Lucky, FreeBefore,
         StreamClosed, LostStay, LostBelow, F!OnceRightAlwaysRight, F!Lost

LEMMA AcceptStep == ASSUME FInv, F!Accept PROVE FInv'
<1> USE CallersAssumption DEF F!ForkAssumption, F!Fds, F!Listener
<1>1. PICK fd \in F!Fds : /\ F!Lowest(fd)
                        /\ files' = [files EXCEPT ![fd] = Head(fBacklog)]
                        /\ slot' = [slot EXCEPT ![Head(fBacklog)] = fd]
                        /\ slots' = Append(slots, fd)
  BY DEF F!Accept
<1> DEFINE c == Head(fBacklog)
<1>2. c \in Callers /\ fBacklog' \in Seq(Callers) /\ fSrv = "accept" /\ fSrv' = "recv"
      /\ connectFd' = connectFd
  BY DEF F!Accept, FInv, FRanges
<1>3. FRanges'
  <2>1. slots \in Seq(F!Fds) /\ slots' \in Seq(F!Fds)
    BY <1>1 DEF FInv, FRanges
  <2>2. slot' \in [Callers -> F!Fds \cup {-1}]
    BY <1>1, <1>2 DEF FInv, FRanges
  <2>3. files' \in [F!Fds -> Callers \cup {"free", "std", "listener"}]
    BY <1>1, <1>2 DEF FInv, FRanges
  <2> QED BY <1>2, <2>1, <2>2, <2>3 DEF FInv, FRanges
<1>4. Lucky' <=> Lucky \/ fd = connectFd
  <2>1. /\ DOMAIN slots = 1 .. Len(slots) /\ Len(slots) \in Nat
        /\ DOMAIN slots' = 1 .. Len(slots) + 1
        /\ \A i \in DOMAIN slots : slots'[i] = slots[i]
        /\ slots'[Len(slots) + 1] = fd
    <3>1. slots \in Seq(F!Fds) /\ slots' = Append(slots, fd)
      BY <1>1 DEF FInv, FRanges
    <3> HIDE DEF F!Fds
    <3> QED
      BY <3>1
  <2>2. Lucky' <=> \E i \in DOMAIN slots' : slots'[i] = connectFd
    BY <1>2 DEF Lucky
  <2>3. ASSUME NEW i \in DOMAIN slots', slots'[i] = connectFd PROVE Lucky \/ fd = connectFd
    <3>1. i \in DOMAIN slots \/ i = Len(slots) + 1
      BY <2>1
    <3> QED BY <2>1, <2>3, <3>1 DEF Lucky
  <2>4. Lucky => Lucky'
    BY <2>1, <2>2 DEF Lucky
  <2>5. fd = connectFd => Lucky'
    <3>1. Len(slots) + 1 \in DOMAIN slots'
      BY <2>1
    <3> QED BY <2>1, <2>2, <3>1
  <2> QED BY <2>2, <2>3, <2>4, <2>5
<1>5. \A x \in F!Fds : files'[x] # "free" <=> files[x] # "free" \/ x = fd
  BY <1>1, <1>2 DEF FInv, FRanges
<1>6. Lucky => fd = connectFd
  <2>1. Lucky => connectFd \in F!Fds
    BY DEF Lucky, FInv, FRanges
  <2> QED BY <1>1, <1>2, <2>1 DEF FInv, LowestWhenLucky, F!Lowest, FRanges
<1>7. connectFd \in F!Fds /\ connectFd > F!Listener => fd <= connectFd /\ fd > F!Listener
  BY <1>1, <1>2, <1>6 DEF FInv, FreeBefore, F!Lowest, FRanges, OthersStay
<1>8. F!Lost' \subseteq F!Lost \cup {c} /\ (fd = connectFd => F!Lost' \subseteq F!Lost)
  BY <1>1, <1>2 DEF F!Lost, FInv, FRanges
<1>9. OthersStay'
  BY <1>2, <1>5 DEF OthersStay, FInv
<1>10. LowestWhenLucky'
  BY <1>1, <1>2, <1>4, <1>5, <1>6 DEF LowestWhenLucky, FInv, F!Lowest
<1>11. FreeBefore'
  BY <1>1, <1>2, <1>4, <1>5 DEF FreeBefore, FInv, FRanges
<1>12. StreamClosed'
  <2> SUFFICES ASSUME connectFd \in F!Fds, connectFd < F!Listener PROVE \A x, y \in F!Lost' : x = y
    BY <1>2 DEF StreamClosed
  <2>1. CASE F!Lost = {}
    BY <2>1, <1>8
  <2>2. CASE files[connectFd] = "free"
    <3>1. fd = connectFd
      BY <2>2, <1>1 DEF F!Lowest, FInv, OthersStay, FRanges
    <3> QED BY <3>1, <1>8 DEF FInv, StreamClosed
  <2> QED BY <2>1, <2>2, <1>2 DEF FInv, StreamClosed
<1>13. \A x \in F!Lost' : x # c => x \in F!Lost /\ slot'[x] = slot[x] /\ slot[x] # fd
  BY <1>1, <1>2, <1>8 DEF FInv, LostStay, F!Lost, FRanges, F!Lowest
<1>14. slot'[c] = fd /\ files'[fd] = c
  BY <1>1, <1>2 DEF FInv, FRanges
<1>15. LostStay'
  BY <1>1, <1>2, <1>13, <1>14 DEF FInv, LostStay, FRanges
<1>16. LostBelow'
  <2> SUFFICES ASSUME connectFd \in F!Fds, connectFd > F!Listener, NEW x \in F!Lost'
               PROVE  slot'[x] \in F!Listener + 1 .. connectFd - 1
    BY <1>2 DEF LostBelow
  <2>1. CASE x = c
    <3>1. slot'[x] = fd /\ fd # connectFd
      BY <1>2, <1>14, <2>1 DEF F!Lost
    <3>2. fd <= connectFd /\ fd > F!Listener
      BY <1>7
    <3> QED
      BY <1>1, <3>1, <3>2 DEF F!Fds
  <2>2. CASE x # c
    BY <2>2, <1>13 DEF FInv, LostBelow
  <2> QED BY <2>1, <2>2
<1>17. F!OnceRightAlwaysRight'
  <2> SUFFICES ASSUME NEW i \in DOMAIN slots', NEW j \in DOMAIN slots', i < j,
                      slots'[i] = connectFd
               PROVE  slots'[j] = connectFd
    BY <1>2 DEF F!OnceRightAlwaysRight
  <2>0. /\ DOMAIN slots = 1 .. Len(slots) /\ Len(slots) \in Nat
        /\ DOMAIN slots' = 1 .. Len(slots) + 1
        /\ \A k \in DOMAIN slots : slots'[k] = slots[k]
        /\ slots'[Len(slots) + 1] = fd
    <3>1. slots \in Seq(F!Fds) /\ slots' = Append(slots, fd)
      BY <1>1 DEF FInv, FRanges
    <3> HIDE DEF F!Fds
    <3> QED
      BY <3>1
  <2>1. i \in DOMAIN slots /\ slots[i] = connectFd
    BY <2>0
  <2>2. CASE j \in DOMAIN slots
    BY <2>0, <2>1, <2>2 DEF FInv, F!OnceRightAlwaysRight
  <2>3. CASE j \notin DOMAIN slots
    <3>1. j = Len(slots) + 1
      BY <2>0, <2>3
    <3>2. fd = connectFd
      BY <1>6, <2>1 DEF Lucky
    <3> QED
      BY <2>0, <3>1, <3>2
  <2> QED BY <2>2, <2>3
<1> QED BY <1>3, <1>9, <1>10, <1>11, <1>12, <1>15, <1>16, <1>17 DEF FInv

LEMMA CloseStep == ASSUME FInv, F!Close PROVE FInv'
<1> USE CallersAssumption DEF F!ForkAssumption, F!Fds, F!Listener
<1>1. /\ files' = [fd \in F!Fds |-> IF fd = connectFd THEN "free" ELSE files[fd]]
      /\ UNCHANGED <<connectFd, slots, slot>>
  BY DEF F!Close
<1>2. FRanges'
  BY <1>1 DEF F!Close, FInv, FRanges
<1>3. OthersStay' /\ LowestWhenLucky' /\ FreeBefore'
  BY <1>1 DEF FInv, FRanges, OthersStay, LowestWhenLucky, FreeBefore, Lucky
<1>4. F!Lost' = F!Lost
  BY <1>1 DEF F!Lost
<1>5. StreamClosed' /\ LostBelow'
  BY <1>1, <1>4 DEF FInv, StreamClosed, LostBelow
<1>6. LostStay'
  <2> SUFFICES ASSUME NEW c \in F!Lost PROVE slot[c] \in F!Fds /\ files'[slot[c]] = c
    BY <1>1, <1>4 DEF LostStay
  <2>1. slot[c] # connectFd /\ slot[c] \in F!Fds /\ files[slot[c]] = c
    BY DEF FInv, LostStay, F!Lost
  <2> QED BY <1>1, <2>1
<1>7. F!OnceRightAlwaysRight'
  BY <1>1 DEF FInv, F!OnceRightAlwaysRight
<1> QED BY <1>2, <1>3, <1>5, <1>6, <1>7 DEF FInv

LEMMA NextFInv == ASSUME FInv, [F!Next]_fVars PROVE FInv'
<1> USE QuietStep
<1>1. CASE F!Accept
  BY <1>1, AcceptStep
<1>2. CASE F!Close
  BY <1>2, CloseStep
<1>3. CASE F!AcceptFails \/ F!Recv \/ F!Fork
  BY <1>3 DEF F!AcceptFails, F!Recv, F!Fork, FInv, FRanges
<1>4. ASSUME NEW c \in Callers, F!Child(c) \/ F!Client(c) \/ F!Type(c) \/ F!Leave(c) PROVE FInv'
  <2>1. fBacklog \in Seq(Callers) /\ Append(fBacklog, c) \in Seq(Callers)
    BY DEF FInv, FRanges
  <2>2. fBacklog' \in {fBacklog, Append(fBacklog, c)}
        /\ UNCHANGED <<connectFd, fSrv, files, slots, slot>>
    BY <1>4 DEF F!Child, F!ChildSend, F!ChildExits, F!Client, F!Connect, F!Receive, F!ReceiveNothing,
                F!Type, F!Leave, F!Go
  <2> QED BY <2>1, <2>2
<1>5. CASE UNCHANGED fVars
  BY <1>5 DEF fVars, FInv, FRanges
<1> QED BY <1>1, <1>2, <1>3, <1>4, <1>5 DEF F!Next, F!Server

LEMMA FInvHolds == F!SafeSpec => []FInv
<1>1. F!Init => FInv
  BY InitFInv
<1>2. FInv /\ [F!Next]_fVars => FInv'
  BY NextFInv
<1> QED BY <1>1, <1>2, PTL DEF F!SafeSpec, F!vars, fVars

\* Once a connection has got the descriptor that connect_fd happens to hold, all
\* later ones get it (test_server8.cpp:51 and :70).
THEOREM RightForEver == F!SafeSpec => []F!OnceRightAlwaysRight
<1>1. FInv => F!OnceRightAlwaysRight
  BY DEF FInv
<1> QED BY <1>1, FInvHolds, PTL

\* The bound on the clients that are never served: the first part of FewLost.
LostBound ==
  connectFd \in F!Fds \ {F!Listener} =>
    Cardinality(F!Lost) <= IF connectFd < F!Listener THEN 1 ELSE connectFd - F!Listener - 1

LEMMA LostCounted == ASSUME FInv PROVE LostBound
<1> SUFFICES ASSUME connectFd \in F!Fds, connectFd # F!Listener
             PROVE  Cardinality(F!Lost) <= IF connectFd < F!Listener THEN 1
                                         ELSE connectFd - F!Listener - 1
  BY DEF LostBound
<1>1. CASE connectFd < F!Listener
  <2>1. \A c, d \in F!Lost : c = d
    BY <1>1 DEF FInv, StreamClosed
  <2>2. CASE F!Lost = {}
    BY <1>1, <2>2, FS_EmptySet
  <2>3. CASE F!Lost # {}
    <3>1. PICK c \in F!Lost : TRUE
      BY <2>3
    <3>2. F!Lost = {c}
      BY <2>1, <3>1
    <3> QED BY <1>1, <3>2, FS_Singleton
  <2> QED BY <2>2, <2>3
<1>2. CASE connectFd > F!Listener
  <2> DEFINE Below == F!Listener + 1 .. connectFd - 1
             f == [c \in F!Lost |-> slot[c]]
  <2>1. \A c \in F!Lost : slot[c] \in Below /\ files[slot[c]] = c
    BY <1>2 DEF FInv, LostBelow, LostStay
  <2>2. f \in [F!Lost -> Below] /\ \A c, d \in F!Lost : f[c] = f[d] => c = d
    BY <2>1
  <2>3. f \in Injection(F!Lost, Below)
    BY <2>2 DEF Injection, IsInjective
  <2>4. IsFiniteSet(Below) /\ Cardinality(Below) = connectFd - F!Listener - 1
    <3>1. F!Listener + 1 \in Int /\ connectFd - 1 \in Int /\ connectFd \in Int
      BY DEF F!Fds, F!Listener, FInv, FRanges
    <3> QED BY <3>1, <1>2, FS_Interval DEF F!Listener
  <2>5. Cardinality(F!Lost) <= Cardinality(Below)
    BY <2>3, <2>4, FS_Injection
  <2> QED BY <1>2, <2>4, <2>5 DEF F!Listener, FInv, FRanges
<1> QED BY <1>1, <1>2 DEF FInv, FRanges, F!Listener

-----------------------------------------------------------------------------
(* ForkServer: how many are lost, and what the others get *)

\* A connection waits once, from connect to accept.
InLine(c) == \E i \in DOMAIN fBacklog : fBacklog[i] = c

Line ==
  /\ fBacklog \in Seq(Callers)
  /\ \A i, j \in DOMAIN fBacklog : fBacklog[i] = fBacklog[j] => i = j
  /\ \A c \in Callers : InLine(c) => slot[c] = -1 /\ fAt[c] # "start"
  /\ \A c \in Callers : fAt[c] = "start" => slot[c] = -1
  /\ \A c \in Callers : F!Listening /\ fAt[c] # "start" => InLine(c) \/ slot[c] # -1

\* Only the connection in connect_fd gets a child, and it has one, or there can
\* be no more, when the parent closes it.
Greeters ==
  /\ \A fd \in F!Fds, c \in Callers : files[fd] = c => slot[c] = fd
  /\ \A c \in Callers : c \in greeted \/ child[c] # "none" => slot[c] = connectFd /\ slot[c] # -1
  /\ \A c \in Callers : child[c] \in {"close", "zombie"} => c \in greeted
  /\ \A c \in Callers :
       slot[c] = connectFd /\ slot[c] # -1 /\ (files[connectFd] # c \/ fSrv = "close") =>
         child[c] # "none" \/ born = ChildLimit

\* What a client that has ended has been told.
Told ==
  \A c \in Callers :
    /\ fAt[c] = "answered" => c \in greeted
    /\ fAt[c] = "empty" =>
         ~F!Listening \/ (slot[c] = connectFd /\ slot[c] # -1 /\ born = ChildLimit)

FullInv == FInv /\ F!TypeOK /\ Line /\ Greeters /\ Told

LEMMA InitFullInv == ASSUME F!Init PROVE FullInv
<1> USE DEF F!Init, F!Fds, F!Listener
<1>1. FInv
  BY InitFInv
<1>2. F!TypeOK
  BY CallersAssumption DEF F!TypeOK, F!ForkAssumption
<1>3. Line
  BY DEF Line, InLine
<1>4. Greeters
  BY CallersAssumption DEF Greeters, F!ForkAssumption
<1>5. Told
  BY DEF Told
<1> QED
  BY <1>1, <1>2, <1>3, <1>4, <1>5 DEF FullInv

\* The connection that is accepted was waiting, once, and no other stops.
LEMMA HeadLeaves ==
  ASSUME FullInv, F!Accept
  PROVE  /\ Head(fBacklog) \in Callers /\ fBacklog' \in Seq(Callers)
         /\ InLine(Head(fBacklog)) /\ slot[Head(fBacklog)] = -1
         /\ \A i, j \in DOMAIN fBacklog' : fBacklog'[i] = fBacklog'[j] => i = j
         /\ \A c : InLine(c)' <=> InLine(c) /\ c # Head(fBacklog)
<1>1. /\ fBacklog \in Seq(Callers) /\ fBacklog # <<>> /\ fBacklog' = Tail(fBacklog)
      /\ \A i, j \in DOMAIN fBacklog : fBacklog[i] = fBacklog[j] => i = j
  BY DEF F!Accept, FullInv, Line
<1>2. /\ DOMAIN fBacklog = 1 .. Len(fBacklog) /\ Len(fBacklog) \in Nat \ {0}
      /\ DOMAIN fBacklog' = 1 .. Len(fBacklog) - 1
      /\ \A i \in DOMAIN fBacklog' : fBacklog'[i] = fBacklog[i + 1]
      /\ Head(fBacklog) = fBacklog[1] /\ fBacklog[1] \in Callers
      /\ fBacklog' \in Seq(Callers)
  BY <1>1
<1>3. \A i \in DOMAIN fBacklog' : i + 1 \in DOMAIN fBacklog /\ i + 1 # 1 /\ i \in Int
  BY <1>2
<1>4. InLine(fBacklog[1])
  <2>1. 1 \in DOMAIN fBacklog
    BY <1>2
  <2> QED BY <2>1 DEF InLine
<1>5. ASSUME NEW i \in DOMAIN fBacklog', NEW j \in DOMAIN fBacklog', fBacklog'[i] = fBacklog'[j]
      PROVE  i = j
  <2>1. i + 1 = j + 1
    BY <1>1, <1>2, <1>3, <1>5
  <2> QED BY <1>3, <2>1
<1>6. ASSUME NEW c, InLine(c)' PROVE InLine(c) /\ c # fBacklog[1]
  <2>1. PICK i \in DOMAIN fBacklog' : fBacklog'[i] = c
    BY <1>6 DEF InLine
  <2>2. i + 1 \in DOMAIN fBacklog /\ fBacklog[i + 1] = c /\ i + 1 # 1 /\ 1 \in DOMAIN fBacklog
    BY <1>2, <1>3, <2>1
  <2> QED BY <1>1, <2>2 DEF InLine
<1>7. ASSUME NEW c, InLine(c), c # fBacklog[1] PROVE InLine(c)'
  <2>1. PICK i \in DOMAIN fBacklog : fBacklog[i] = c
    BY <1>7 DEF InLine
  <2>2. i # 1
    BY <1>7, <2>1
  <2>3. i - 1 \in DOMAIN fBacklog' /\ (i - 1) + 1 = i
    BY <1>2, <2>1, <2>2
  <2> QED BY <1>2, <2>1, <2>3 DEF InLine
<1>8. slot[fBacklog[1]] = -1
  BY <1>2, <1>4 DEF FullInv, Line
<1> QED
  BY <1>2, <1>4, <1>5, <1>6, <1>7, <1>8

\* A connection is made: it waits behind the others.
LEMMA NewInLine ==
  ASSUME FullInv, NEW d \in Callers, ~InLine(d), fBacklog' = Append(fBacklog, d)
  PROVE  /\ fBacklog' \in Seq(Callers)
         /\ \A i, j \in DOMAIN fBacklog' : fBacklog'[i] = fBacklog'[j] => i = j
         /\ \A c : InLine(c)' <=> InLine(c) \/ c = d
<1>1. /\ fBacklog \in Seq(Callers)
      /\ \A i, j \in DOMAIN fBacklog : fBacklog[i] = fBacklog[j] => i = j
  BY DEF FullInv, Line
<1>2. /\ DOMAIN fBacklog = 1 .. Len(fBacklog) /\ Len(fBacklog) \in Nat
      /\ DOMAIN fBacklog' = 1 .. Len(fBacklog) + 1
      /\ \A i \in DOMAIN fBacklog : fBacklog'[i] = fBacklog[i]
      /\ fBacklog'[Len(fBacklog) + 1] = d
      /\ fBacklog' \in Seq(Callers)
  BY <1>1
<1>3. \A i \in DOMAIN fBacklog' : i \in DOMAIN fBacklog \/ i = Len(fBacklog) + 1
  BY <1>2
<1>4. \A i \in DOMAIN fBacklog : i \in DOMAIN fBacklog' /\ fBacklog[i] # d
  BY <1>2 DEF InLine
<1>5. \A i, j \in DOMAIN fBacklog' : fBacklog'[i] = fBacklog'[j] => i = j
  BY <1>1, <1>2, <1>3, <1>4
<1>6. InLine(d)'
  <2>1. Len(fBacklog) + 1 \in DOMAIN fBacklog'
    BY <1>2
  <2> QED BY <1>2, <2>1 DEF InLine
<1>7. ASSUME NEW c, c # d PROVE InLine(c)' <=> InLine(c)
  BY <1>2, <1>3, <1>4, <1>7 DEF InLine
<1> QED
  BY <1>2, <1>5, <1>6, <1>7

LEMMA AcceptFull == ASSUME FullInv, F!Accept PROVE FullInv'
<1> DEFINE h == Head(fBacklog)
<1>1. PICK fd \in F!Fds : /\ F!Lowest(fd)
                        /\ files' = [files EXCEPT ![fd] = h]
                        /\ slot' = [slot EXCEPT ![h] = fd]
                        /\ slots' = Append(slots, fd)
  BY DEF F!Accept
<1>2. /\ h \in Callers /\ fBacklog' \in Seq(Callers) /\ InLine(h) /\ slot[h] = -1
      /\ \A i, j \in DOMAIN fBacklog' : fBacklog'[i] = fBacklog'[j] => i = j
      /\ \A c : InLine(c)' <=> InLine(c) /\ c # h
  BY HeadLeaves
<1>3. /\ fSrv = "accept" /\ fSrv' = "recv"
      /\ UNCHANGED <<connectFd, born, child, greeted, fAt>>
  BY DEF F!Accept
<1>4. /\ F!TypeOK /\ Line /\ Greeters /\ Told /\ F!ForkAssumption
      /\ files[fd] = "free" /\ fd # -1
  BY <1>1, CallersAssumption DEF FullInv, F!Lowest, F!Fds
<1> HIDE DEF h
<1>5. FInv'
  BY AcceptStep DEF FullInv
<1>6. F!TypeOK'
  <2>1. slots' \in Seq(F!Fds)
    BY <1>1, <1>4 DEF F!TypeOK
  <2> QED
    BY <1>1, <1>2, <1>3, <1>4, <2>1 DEF F!TypeOK
<1>7. F!Listening' => F!Listening
  BY <1>1, <1>2, <1>4 DEF F!Listening, F!TypeOK, F!ForkAssumption
<1>8. Line'
  BY <1>1, <1>2, <1>3, <1>4, <1>7 DEF Line, F!TypeOK
<1>9. Greeters'
  <2>1. \A x \in F!Fds, c \in Callers : files'[x] = c => slot'[c] = x
    BY <1>1, <1>2, <1>4, CallersAssumption DEF Greeters, F!TypeOK, F!Fds, F!ForkAssumption
  <2>2. \A c \in Callers : c \in greeted \/ child[c] # "none" => c # h
    BY <1>2, <1>4 DEF Greeters
  <2>3. ASSUME NEW c \in Callers, c # h, slot'[c] = connectFd, slot'[c] # -1,
               files'[connectFd] # c
        PROVE  child[c] # "none" \/ born = ChildLimit
    <3>1. slot[c] = connectFd /\ slot[c] # -1
      BY <1>1, <1>4, <2>3 DEF F!TypeOK
    <3>2. files[connectFd] # c
      BY <1>1, <1>4, <2>3, CallersAssumption DEF F!TypeOK, F!ForkAssumption
    <3> QED
      BY <1>4, <3>1, <3>2 DEF Greeters
  <2>4. slot'[h] = connectFd => files'[connectFd] = h
    BY <1>1, <1>2, <1>4 DEF F!TypeOK
  <2> QED
    BY <1>1, <1>2, <1>3, <1>4, <2>1, <2>2, <2>3, <2>4 DEF Greeters, F!TypeOK
<1>10. Told'
  BY <1>1, <1>2, <1>3, <1>4, <1>7 DEF Told, F!TypeOK, Greeters, Line
<1> QED
  BY <1>5, <1>6, <1>8, <1>9, <1>10 DEF FullInv

\* The other steps of the server.
LEMMA TurnFull == ASSUME FullInv, F!AcceptFails \/ F!Recv \/ F!Fork \/ F!Close PROVE FullInv'
<1>1. /\ FInv /\ F!TypeOK /\ Line /\ Greeters /\ Told
      /\ F!ForkAssumption /\ -1 \notin F!Fds
  BY CallersAssumption DEF FullInv, F!Fds
<1>2. FInv'
  BY <1>1, NextFInv DEF F!Next, F!Server
<1>3. CASE F!AcceptFails \/ F!Recv
  <2>1. F!TypeOK'
    BY <1>1, <1>3 DEF F!AcceptFails, F!Recv, F!TypeOK
  <2>2. Line'
    BY <1>1, <1>3 DEF F!AcceptFails, F!Recv, Line, InLine, F!Listening
  <2>3. Greeters'
    BY <1>1, <1>3 DEF F!AcceptFails, F!Recv, Greeters
  <2>4. Told'
    BY <1>1, <1>3 DEF F!AcceptFails, F!Recv, Told, F!Listening
  <2> QED
    BY <1>2, <2>1, <2>2, <2>3, <2>4 DEF FullInv
<1>4. CASE F!Fork
  <2>1. F!TypeOK'
    BY <1>1, <1>4 DEF F!Fork, F!TypeOK, F!ForkAssumption
  <2>2. Line'
    BY <1>1, <1>4 DEF F!Fork, Line, InLine, F!Listening
  <2>3. Greeters'
    <3>1. /\ born < ChildLimit \/ born = ChildLimit
          /\ born < ChildLimit <=> ~(born = ChildLimit)
      BY <1>1 DEF F!TypeOK, F!ForkAssumption
    <3>2. \A c \in F!Served : c \in Callers /\ slot[c] = connectFd /\ slot[c] # -1
      BY <1>1 DEF F!Served, Greeters
    <3>3. \A c \in Callers : child[c] # "none" => child'[c] # "none"
      BY <1>1, <1>4 DEF F!Fork, F!TypeOK
    <3>4. ASSUME NEW c \in Callers, slot[c] = connectFd, slot[c] # -1
          PROVE  child'[c] # "none" \/ born' = ChildLimit
      <4>1. CASE files[connectFd] = c
        <5>1. c \in F!Served
          BY <1>1, <3>4, <4>1 DEF F!Served, F!TypeOK
        <5> QED
          BY <1>4, <3>1, <5>1 DEF F!Fork
      <4>2. CASE files[connectFd] # c
        <5>1. child[c] # "none" \/ born = ChildLimit
          BY <1>1, <3>4, <4>2 DEF Greeters
        <5> QED
          BY <1>4, <3>1, <3>3, <5>1 DEF F!Fork
      <4> QED
        BY <4>1, <4>2
    <3>5. \A c \in Callers : /\ child'[c] # "none" => child[c] # "none" \/ c \in F!Served
                            /\ child'[c] \in {"close", "zombie"} => child'[c] = child[c]
      BY <1>1, <1>4 DEF F!Fork, F!TypeOK
    <3> QED
      BY <1>1, <1>4, <3>2, <3>4, <3>5 DEF F!Fork, Greeters
  <2>4. Told'
    BY <1>1, <1>4 DEF F!Fork, Told, F!Listening, F!TypeOK, F!ForkAssumption
  <2> QED
    BY <1>2, <2>1, <2>2, <2>3, <2>4 DEF FullInv
<1>5. CASE F!Close
  <2>0. /\ \A fd \in F!Fds : files'[fd] = IF fd = connectFd THEN "free" ELSE files[fd]
        /\ F!Listener \in F!Fds
    BY <1>1, <1>5 DEF F!Close, F!Fds, F!Listener, F!ForkAssumption
  <2>1. F!TypeOK'
    BY <1>1, <1>5 DEF F!Close, F!TypeOK
  <2>2. Line'
    <3>1. CASE connectFd = F!Listener
      <4>1. DOMAIN fBacklog' = {} /\ fBacklog' \in Seq(Callers)
        BY <1>5, <3>1 DEF F!Close
      <4> QED
        BY <1>1, <1>5, <2>0, <3>1, <4>1 DEF F!Close, Line, InLine, F!Listening
    <3>2. CASE connectFd # F!Listener
      BY <1>1, <1>5, <2>0, <3>2 DEF F!Close, Line, InLine, F!Listening
    <3> QED
      BY <3>1, <3>2
  <2>3. Greeters'
    BY <1>1, <1>5, <2>0 DEF F!Close, Greeters, F!ForkAssumption
  <2>4. Told'
    BY <1>1, <1>5, <2>0 DEF F!Close, Told, F!Listening
  <2> QED
    BY <1>2, <2>1, <2>2, <2>3, <2>4 DEF FullInv
<1> QED
  BY <1>3, <1>4, <1>5

LEMMA ChildFull == ASSUME FullInv, NEW c \in Callers, F!Child(c) PROVE FullInv'
<1>1. FInv /\ F!TypeOK /\ Line /\ Greeters /\ Told
  BY DEF FullInv
<1>2. FInv'
  BY <1>1, NextFInv DEF F!Next
<1> USE DEF F!Child, F!ChildSend, F!ChildExits
<1>3. F!TypeOK'
  BY <1>1 DEF F!TypeOK
<1>4. Line'
  BY <1>1 DEF Line, InLine, F!Listening
<1>5. Greeters'
  BY <1>1 DEF Greeters, F!TypeOK
<1>6. Told'
  BY <1>1 DEF Told, F!Listening
<1> QED
  BY <1>2, <1>3, <1>4, <1>5, <1>6 DEF FullInv

\* A client that is told nothing: if the server listens, it has been accepted
\* into connect_fd, and its connection has been closed without a child.
LEMMA NothingFull == ASSUME FullInv, NEW c \in Callers, F!ReceiveNothing(c) PROVE FullInv'
<1>1. FInv /\ F!TypeOK /\ Line /\ Greeters /\ Told
  BY DEF FullInv
<1>2. FInv'
  BY <1>1, NextFInv DEF F!Next, F!Client
<1>3. /\ fAt[c] = "recv" /\ fAt' = [fAt EXCEPT ![c] = "empty"] /\ c \notin greeted
      /\ ~F!Connected(c)
      /\ UNCHANGED <<connectFd, fSrv, files, fBacklog, slots, slot, born, child, greeted>>
  BY DEF F!ReceiveNothing, F!Go
<1>4. F!TypeOK'
  BY <1>1, <1>3 DEF F!TypeOK, F!Ended
<1>5. Line'
  BY <1>1, <1>3 DEF Line, InLine, F!Listening, F!TypeOK
<1>6. Greeters'
  BY <1>1, <1>3 DEF Greeters
<1>7. ASSUME F!Listening PROVE slot[c] = connectFd /\ slot[c] # -1 /\ born = ChildLimit
  <2>1. ~InLine(c) /\ (\A fd \in F!Fds : files[fd] # c) /\ child[c] \notin {"send", "close"}
    BY <1>3 DEF F!Connected, F!ToSet, InLine
  <2>2. slot[c] # -1
    BY <1>1, <1>3, <1>7, <2>1 DEF Line
  <2>3. slot[c] = connectFd
    BY <1>1, <2>1, <2>2 DEF FInv, LostStay, F!Lost
  <2>4. child[c] = "none"
    BY <1>1, <1>3, <2>1 DEF Greeters, F!TypeOK
  <2>5. connectFd \in F!Fds
    BY <1>1, <2>2, <2>3 DEF F!TypeOK
  <2> QED
    BY <1>1, <2>1, <2>2, <2>3, <2>4, <2>5 DEF Greeters
<1>8. Told'
  BY <1>1, <1>3, <1>7 DEF Told, F!Listening, F!TypeOK
<1> QED
  BY <1>2, <1>4, <1>5, <1>6, <1>8 DEF FullInv

LEMMA ClientFull ==
  ASSUME FullInv, NEW c \in Callers, F!Connect(c) \/ F!Receive(c) \/ F!Type(c) \/ F!Leave(c)
  PROVE  FullInv'
<1>1. FInv /\ F!TypeOK /\ Line /\ Greeters /\ Told
  BY DEF FullInv
<1>2. FInv'
  BY <1>1, NextFInv DEF F!Next, F!Client
<1>3. CASE F!Connect(c)
  <2>1. /\ fAt[c] = "start" /\ ~InLine(c) /\ slot[c] = -1
        /\ UNCHANGED <<connectFd, fSrv, files, slots, slot, born, child, greeted>>
        /\ fAt' = [fAt EXCEPT ![c] = "prompt"] \/ fAt' = [fAt EXCEPT ![c] = "failed"]
        /\ F!Listening => fBacklog' = Append(fBacklog, c)
        /\ ~F!Listening => UNCHANGED fBacklog
    BY <1>1, <1>3 DEF F!Connect, F!Go, Line
  <2>2. fBacklog' \in Seq(Callers)
    BY <1>1, <2>1 DEF Line
  <2>3. F!TypeOK'
    BY <1>1, <2>1, <2>2 DEF F!TypeOK, F!Ended
  <2>4. Line'
    <3>1. CASE F!Listening
      BY <1>1, <2>1, <3>1, NewInLine DEF Line, F!TypeOK, F!Listening
    <3>2. CASE ~F!Listening
      BY <1>1, <2>1, <3>2 DEF Line, InLine, F!TypeOK, F!Listening
    <3> QED
      BY <3>1, <3>2
  <2>5. Greeters'
    BY <1>1, <2>1 DEF Greeters
  <2>6. Told'
    BY <1>1, <2>1 DEF Told, F!Listening, F!TypeOK
  <2> QED
    BY <1>2, <2>3, <2>4, <2>5, <2>6 DEF FullInv
<1>4. CASE F!Receive(c) \/ F!Type(c) \/ F!Leave(c)
  <2>1. /\ fAt[c] \in {"prompt", "recv"}
        /\ fAt' = [fAt EXCEPT ![c] = "recv"] \/ fAt' = [fAt EXCEPT ![c] = "failed"]
             \/ fAt' = [fAt EXCEPT ![c] = "killed"]
             \/ (fAt' = [fAt EXCEPT ![c] = "answered"] /\ c \in greeted)
        /\ UNCHANGED <<connectFd, fSrv, files, fBacklog, slots, slot, born, child, greeted>>
    BY <1>4 DEF F!Receive, F!Type, F!Leave, F!Go
  <2>2. F!TypeOK'
    BY <1>1, <2>1 DEF F!TypeOK, F!Ended
  <2>3. Line'
    BY <1>1, <2>1 DEF Line, InLine, F!Listening, F!TypeOK
  <2>4. Greeters'
    BY <1>1, <2>1 DEF Greeters
  <2>5. Told'
    BY <1>1, <2>1 DEF Told, F!Listening, F!TypeOK
  <2> QED
    BY <1>2, <2>2, <2>3, <2>4, <2>5 DEF FullInv
<1> QED
  BY <1>3, <1>4

LEMMA NextFull == FullInv /\ [F!Next]_fVars => FullInv'
<1> SUFFICES ASSUME FullInv, [F!Next]_fVars PROVE FullInv'
  OBVIOUS
<1>1. CASE F!Server
  BY <1>1, AcceptFull, TurnFull DEF F!Server
<1>2. ASSUME NEW c \in Callers, F!Child(c) \/ F!Client(c) \/ F!Type(c) \/ F!Leave(c)
      PROVE  FullInv'
  BY <1>2, ChildFull, NothingFull, ClientFull DEF F!Client
<1>3. CASE UNCHANGED fVars
  <2>1. FInv'
    BY NextFInv DEF FullInv
  <2> QED
    BY <1>3, <2>1 DEF fVars, FullInv, F!TypeOK, Line, InLine, Greeters, Told, F!Listening
<1> QED
  BY <1>1, <1>2, <1>3 DEF F!Next

\* A client that was answered was accepted into connect_fd, and so was one that
\* got nothing while the server listens.
LEMMA FullIsFewLost == FullInv => FewLost
<1> SUFFICES ASSUME FullInv PROVE FewLost
  OBVIOUS
<1>1. LostBound
  BY LostCounted DEF FullInv
<1>2. \A c \in Callers : fAt[c] = "answered" => slot[c] = connectFd
  BY DEF FullInv, Told, Greeters
<1>3. F!Cardinality(F!Lost) = Cardinality(F!Lost)
  BY DEF F!Cardinality, Cardinality
<1> QED
  BY <1>1, <1>2, <1>3 DEF FewLost, FullInv, F!FewLost, LostBound, Told

\* With a connect_fd that is a descriptor, and not the listening socket, at most
\* as many clients are lost as there were free descriptors below it, one if it
\* is a standard stream (test_server8.cpp:57); the others are greeted, or get
\* nothing because the server can have no more children.
THEOREM FewAreLost == MCSpec => []FewLost
<1>1. MCInit => FullInv
  BY InitFullInv DEF MCInit
<1>2. FullInv /\ [MCNext]_allVars => FullInv'
  BY NextFull DEF MCNext, Transfers, Forks, Meets, allVars, fVars
<1> QED
  BY <1>1, <1>2, FullIsFewLost, PTL DEF MCSpec
=============================================================================
