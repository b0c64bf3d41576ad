---------------------------- MODULE Tools_proofs ----------------------------
(***************************************************************************)
(* The directory traversal, for every tree, filter and number of           *)
(* interferences: what is listed was there; a tree nobody touches, with    *)
(* directories that can be opened, is listed without gaps or repetitions   *)
(* (with folders below another directory than . excepted).                 *)
(*                                                                         *)
(* The option samples, for every command line: getopt reports what is      *)
(* meant from left to right, in spite of its permuting the arguments, and  *)
(* each program does what its line says.                                   *)
(***************************************************************************)
EXTENDS MCTools, SequenceTheorems, FiniteSetTheorems, WellFoundedInduction, TLAPS

Called == at \in {"open", "read", "done"}

Distinct(s) == \A i, j \in DOMAIN s : s[i] = s[j] => i = j

Types ==
  /\ at \in {"shell", "open", "read", "usage", "done"}
  /\ stage \in {"files", "folders", "inside"}
  /\ list \in Seq(Seq(Names))
  /\ dirs \in Seq(Names)
  /\ changes \in Nat
  /\ refused \in BOOLEAN
  /\ tree \in [Paths -> {"none", "file", "dir", "other"}]

\* Which lists are made for which type, and when there are folders left.
StageFits ==
  /\ at \in {"shell", "usage"} => list = <<>> /\ dirs = <<>>
  /\ Called =>
       /\ call.type \in 0 .. 2
       /\ call.type = 2 => stage = "folders" /\ dirs = <<>>
       /\ call.type = 1 => stage = "files"
       /\ stage = "files" => dirs = <<>>
       /\ stage = "inside" /\ at # "done" => dirs # <<>>
       /\ at = "done" => dirs = <<>> /\ (call.type = 0 => stage # "files")

\* Whatever the program has seen, or may still be shown, has been there.
SeenExisted ==
  /\ at # "shell" => Facts(tree) \subseteq ever
  /\ at = "read" =>
       \A e \in unread \ Dots :
         e.name \in Names /\ <<Target \o <<e.name>>, e.kind>> \in ever
  /\ \A n \in ToSet(dirs) :
       n \in call.filter /\ <<call.path \o <<n>>, "dir">> \in ever

\* What ListedExisted says of one item of the list.
ItemExisted(l) ==
  /\ ToSet(l) \subseteq call.filter
  /\ Len(l) \in {1, 2}
  /\ Len(l) = 2 => <<call.path \o <<l[1]>>, "dir">> \in ever /\ <<l, "file">> \in ever
  /\ Len(l) = 1 => <<call.path \o l, IF call.type = 2 THEN "dir" ELSE "file">> \in ever

ItemsExisted == \A l \in ToSet(list) : ItemExisted(l)

EInv == Types /\ StageFits /\ SeenExisted /\ ItemsExisted

Kind == IF stage = "folders" THEN "dir" ELSE "file"

Files == Matching(call.path, "file")
Folders == Matching(call.path, "dir")

\* The names that are still to come from the directory being read.
Pending ==
  CASE at = "open" -> Matching(Target, Kind)
    [] at = "read" ->
         {n \in Matching(Target, Kind) : [name |-> n, kind |-> Kind] \in unread}
    [] OTHER -> {}

\* The files inside folders that have been read.
Inside ==
  {l \in Names \X Names :
     /\ l[1] \in Folders
     /\ l[2] \in Matching(<<l[1]>>, "file")
     /\ \/ l[1] \notin ToSet(dirs)
        \/ dirs # <<>> /\ l[1] = Head(dirs) /\ l[2] \notin Pending}

\* The list as far as it should have got.
SoFar ==
  CASE stage = "files" -> {<<n>> : n \in Files \ Pending}
    [] stage = "folders" /\ call.type = 2 -> {<<n>> : n \in Folders \ Pending}
    [] stage = "folders" /\ call.type # 2 -> {<<n>> : n \in Files}
    [] OTHER -> {<<n>> : n \in Files} \cup Inside

\* In a tree that nobody touches, and whose directories can be opened, the list
\* and the folders to read are exact.
Exact ==
  changes = 0 /\ ~refused /\ Called =>
    /\ tree \in Trees
    /\ at = "read" => owed = unread /\ unread \subseteq Entries(tree, Target)
    /\ Distinct(list) /\ Distinct(dirs)
    /\ ToSet(list) = SoFar
    /\ stage = "folders" /\ call.type = 0 => ToSet(dirs) = Folders \ Pending
    /\ stage = "inside" => ToSet(dirs) \subseteq Folders
-----------------------------------------------------------------------------
(* Paths, sequences and their elements *)

\* A path is its directory and its last name.
LEMMA FrontLast ==
  ASSUME NEW p \in Paths
  PROVE  /\ Last(p) \in Names
         /\ Front(p) \in Seq(Names)
         /\ p = Front(p) \o <<Last(p)>>
<1>1. p \in Seq(Names) /\ p # <<>>
  BY KindsAssumption
<1>2. Len(p) \in Nat \ {0} /\ Len(p) \in 1 .. Len(p)
  BY <1>1, EmptySeq
<1>3. Last(p) \in Names
  BY <1>1, <1>2, ElementOfSeq DEF Last
<1>4. \A i \in 1 .. Len(p) : p[i] \in Names
  BY <1>1, ElementOfSeq
<1>5. \A i \in 1 .. Len(p) - 1 : p[i] \in Names
  BY <1>2, <1>4
<1>6. /\ Front(p) \in Seq(Names)
      /\ Len(Front(p)) = Len(p) - 1
      /\ \A i \in 1 .. Len(p) - 1 : Front(p)[i] = p[i]
  <2>1. /\ SubSeq(p, 1, Len(p) - 1) \in Seq(Names)
        /\ Len(SubSeq(p, 1, Len(p) - 1)) = IF 1 <= Len(p) - 1 THEN Len(p) - 1 - 1 + 1 ELSE 0
        /\ \A i \in 1 .. Len(p) - 1 - 1 + 1 : SubSeq(p, 1, Len(p) - 1)[i] = p[1 + i - 1]
    BY <1>2, <1>5, SubSeqProperties
  <2> DEFINE n == Len(p)  f == SubSeq(p, 1, n - 1)
  <2> HIDE DEF n, f
  <2>2. f \in Seq(Names) /\ Len(f) = n - 1 /\ \A i \in 1 .. n - 1 : f[i] = p[i]
    <3>1. n \in Nat \ {0}
      BY <1>2 DEF n
    <3>2. /\ f \in Seq(Names) /\ Len(f) = IF 1 <= n - 1 THEN n - 1 - 1 + 1 ELSE 0
          /\ \A i \in 1 .. n - 1 - 1 + 1 : f[i] = p[1 + i - 1]
      BY <2>1 DEF n, f
    <3> QED BY <3>1, <3>2
  <2> QED BY <2>2 DEF Front, n, f
<1>7. <<Last(p)>> \in Seq(Names)
  BY <1>3
<1> DEFINE q == Front(p) \o <<Last(p)>>
<1>8. /\ q \in Seq(Names)
      /\ Len(q) = Len(p)
      /\ \A i \in 1 .. Len(p) : q[i] = IF i <= Len(p) - 1 THEN Front(p)[i] ELSE <<Last(p)>>[i - (Len(p) - 1)]
  BY <1>2, <1>6, <1>7, ConcatProperties
<1>9. \A i \in 1 .. Len(p) : q[i] = p[i]
  <2> HIDE DEF q
  <2> TAKE i \in 1 .. Len(p)
  <2>1. CASE i <= Len(p) - 1
    BY <1>2, <1>6, <1>8, <2>1
  <2>2. CASE i = Len(p)
    BY <1>2, <1>8, <2>2 DEF Last
  <2> QED BY <1>2, <2>1, <2>2
<1>10. q = p
  <2> HIDE DEF q
  <2> QED BY <1>1, <1>8, <1>9, SeqEqual
<1> QED BY <1>3, <1>6, <1>10

LEMMA Appended ==
  ASSUME NEW S, NEW s \in Seq(S), NEW x \in S
  PROVE  /\ Append(s, x) \in Seq(S)
         /\ ToSet(Append(s, x)) = ToSet(s) \cup {x}
         /\ Distinct(s) /\ x \notin ToSet(s) => Distinct(Append(s, x))
<1>1. /\ Append(s, x) \in Seq(S) /\ Len(s) \in Nat
      /\ DOMAIN s = 1 .. Len(s) /\ DOMAIN Append(s, x) = 1 .. Len(s) + 1
      /\ \A i \in 1 .. Len(s) : Append(s, x)[i] = s[i]
      /\ Append(s, x)[Len(s) + 1] = x
  OBVIOUS
<1>2. ToSet(Append(s, x)) = ToSet(s) \cup {x}
  <2> DEFINE t == Append(s, x)  n == Len(s)
  <2> HIDE DEF t, n
  <2>0. n \in Nat /\ 1 .. n + 1 = (1 .. n) \cup {n + 1}
    BY <1>1 DEF n
  <2>1. DOMAIN t = DOMAIN s \cup {n + 1} /\ t[n + 1] = x /\ \A i \in DOMAIN s : t[i] = s[i]
    BY <1>1, <2>0 DEF t, n
  <2> QED BY <2>1 DEF ToSet, t
<1>3. ASSUME Distinct(s), x \notin ToSet(s) PROVE Distinct(Append(s, x))
  BY <1>1, <1>3 DEF Distinct, ToSet
<1> QED BY <1>1, <1>2, <1>3

LEMMA Beheaded ==
  ASSUME NEW S, NEW s \in Seq(S), s # <<>>
  PROVE  /\ Tail(s) \in Seq(S) /\ Head(s) \in S /\ Head(s) \in ToSet(s)
         /\ ToSet(Tail(s)) \subseteq ToSet(s)
         /\ Distinct(s) => Distinct(Tail(s)) /\ ToSet(Tail(s)) = ToSet(s) \ {Head(s)}
<1>1. /\ Tail(s) \in Seq(S) /\ Len(s) \in Nat \ {0} /\ Head(s) = s[1]
      /\ DOMAIN s = 1 .. Len(s) /\ DOMAIN Tail(s) = 1 .. Len(s) - 1
      /\ \A i \in 1 .. Len(s) - 1 : Tail(s)[i] = s[i + 1]
  BY HeadTailProperties, EmptySeq
<1> DEFINE t == Tail(s)  n == Len(s)
<1> HIDE DEF t, n
<1>2. n \in Nat \ {0} /\ DOMAIN s = 1 .. n /\ DOMAIN t = 1 .. n - 1 /\ \A i \in 1 .. n - 1 : t[i] = s[i + 1]
  BY <1>1 DEF t, n
<1>3. \A i \in 1 .. n - 1 : i + 1 \in 1 .. n /\ i + 1 # 1
  BY <1>2
<1>4. \A j \in 1 .. n : j = 1 \/ (j - 1 \in 1 .. n - 1 /\ (j - 1) + 1 = j)
  BY <1>2
<1>5. Head(s) \in ToSet(s) /\ ToSet(t) \subseteq ToSet(s) /\ ToSet(s) \subseteq ToSet(t) \cup {Head(s)}
  <2>1. 1 \in 1 .. n /\ Head(s) = s[1]
    BY <1>1, <1>2
  <2>2. ToSet(t) \subseteq ToSet(s)
    BY <1>2, <1>3 DEF ToSet
  <2>3. ASSUME NEW j \in 1 .. n PROVE s[j] = Head(s) \/ s[j] \in ToSet(t)
    <3>1. CASE j - 1 \in 1 .. n - 1 /\ (j - 1) + 1 = j
      <4>1. t[j - 1] = s[j] /\ j - 1 \in DOMAIN t
        BY <1>2, <3>1
      <4> QED BY <4>1 DEF ToSet
    <3> QED BY <1>4, <2>1, <3>1
  <2>4. Head(s) \in ToSet(s)
    BY <1>2, <2>1 DEF ToSet
  <2>5. ToSet(s) \subseteq ToSet(t) \cup {Head(s)}
    BY <1>2, <2>3 DEF ToSet
  <2> QED BY <2>2, <2>4, <2>5
<1>6. ASSUME Distinct(s) PROVE Distinct(t) /\ Head(s) \notin ToSet(t)
  <2>1. Distinct(t)
    <3> SUFFICES ASSUME NEW i \in 1 .. n - 1, NEW j \in 1 .. n - 1, t[i] = t[j] PROVE i = j
      BY <1>2 DEF Distinct
    <3>1. s[i + 1] = s[j + 1] /\ i + 1 \in 1 .. n /\ j + 1 \in 1 .. n
      BY <1>2
    <3>2. i + 1 = j + 1
      BY <1>2, <1>6, <3>1 DEF Distinct
    <3> QED BY <3>2
  <2>2. ASSUME NEW i \in 1 .. n - 1 PROVE t[i] # Head(s)
    <3>1. s[i + 1] # s[1]
      BY <1>2, <1>3, <1>6 DEF Distinct
    <3> QED BY <1>1, <1>2, <3>1
  <2>3. Head(s) \notin ToSet(t)
    BY <1>2, <2>2 DEF ToSet
  <2> QED BY <2>1, <2>3
<1> QED BY <1>1, <1>5, <1>6 DEF t

\* A sequence without repetition has as many elements as places.
LEMMA DistinctCounts ==
  ASSUME NEW S, NEW s \in Seq(S), Distinct(s)
  PROVE  Cardinality(ToSet(s)) = Len(s)
<1>1. Len(s) \in Nat /\ s \in [1 .. Len(s) -> ToSet(s)] /\ DOMAIN s = 1 .. Len(s)
  BY DEF ToSet
<1>2. s \in Bijection(1 .. Len(s), ToSet(s))
  BY <1>1 DEF Bijection, Injection, Surjection, Distinct, ToSet, IsInjective
<1>3. ExistsBijection(1 .. Len(s), ToSet(s))
  BY <1>2 DEF ExistsBijection
<1>4. IsFiniteSet(1 .. Len(s)) /\ Cardinality(1 .. Len(s)) = Len(s)
  BY <1>1, FS_Interval
<1> QED BY <1>3, <1>4, FS_Bijection
-----------------------------------------------------------------------------
(* What is listed was there *)

LEMMA EInit == Init => EInv
<1> SUFFICES ASSUME Init PROVE EInv
  OBVIOUS
<1>1. Types
  <2>1. refused \in BOOLEAN
    BY DEF Init
  <2> QED BY <2>1 DEF Init, Nothing, Types
<1>2. ToSet(dirs) = {} /\ DOMAIN list = {}
  BY DEF Init, ToSet
<1> QED
  BY <1>1, <1>2 DEF Init, EInv, StageFits, SeenExisted, ItemsExisted, Called, ToSet

\* An entry of a directory is a path of the tree, or one of the dots.
LEMMA EntryExists ==
  ASSUME NEW t, NEW p, NEW e \in Entries(t, p) \ Dots
  PROVE  e.name \in Names /\ <<p \o <<e.name>>, e.kind>> \in Facts(t)
<1>1. PICK q \in Paths : Front(q) = p /\ e = [name |-> Last(q), kind |-> t[q]]
  BY DEF Entries
<1> QED BY <1>1, FrontLast DEF Facts

LEMMA EInvoke ==
  ASSUME EInv, at = "shell",
         NEW type \in 0 .. 3, NEW path, NEW filter, NEW found \in Trees,
         Invoke(type, path, filter, found)
  PROVE  EInv'
<1>1. Types' /\ StageFits'
  <2>1. found \in [Paths -> {"none", "file", "dir", "other"}]
    BY KindsAssumption DEF Trees
  <2> QED BY <2>1 DEF EInv, Types, StageFits, Called, Invoke
<1>2. ToSet(dirs') = {} /\ DOMAIN list' = {}
  BY DEF EInv, StageFits, Invoke, ToSet
<1> QED
  BY <1>1, <1>2 DEF EInv, Invoke, SeenExisted, ItemsExisted, ToSet

LEMMA EOpenDir == EInv /\ OpenDir => EInv'
<1> SUFFICES ASSUME EInv, OpenDir PROVE EInv'
  OBVIOUS
<1> USE DEF OpenDir
<1>1. Types' /\ StageFits' /\ ItemsExisted'
  BY DEF EInv, Types, StageFits, Called, ItemsExisted, ItemExisted
<1>2. Target' = Target
  BY DEF Target
<1>3. SeenExisted'
  BY <1>2, EntryExists DEF EInv, SeenExisted
<1> QED BY <1>1, <1>3 DEF EInv

\* The next list, if there is one, starts with the folders that are left.
LEMMA ENextStage ==
  ASSUME EInv, at \in {"open", "read"}, NextStage,
         UNCHANGED <<tree, call, list, changes, ever>>, refused' \in BOOLEAN
  PROVE  EInv'
<1>1. /\ stage = "inside" => dirs # <<>>
      /\ dirs \in Seq(Names)
  BY DEF EInv, Types, StageFits, Called
<1>2. dirs' \in Seq(Names) /\ ToSet(dirs') \subseteq ToSet(dirs)
  BY <1>1, Beheaded DEF NextStage
<1>3. /\ at' \in {"open", "done"} /\ stage' \in {"files", "folders", "inside"}
      /\ stage # "inside" => dirs' = dirs
      /\ call.type # 0 => stage' = stage /\ at' = "done"
      /\ call.type = 0 => stage' # "files" /\ (stage' = "inside" /\ at' # "done" => dirs' # <<>>)
      /\ call.type = 0 /\ at' = "done" => dirs' = <<>>
  BY DEF NextStage, EInv, Types, StageFits, Called
<1>4. Types' /\ StageFits'
  BY <1>1, <1>2, <1>3 DEF EInv, Types, StageFits, Called
<1>5. SeenExisted' /\ ItemsExisted'
  BY <1>2, <1>3 DEF EInv, SeenExisted, ItemsExisted, ItemExisted
<1> QED BY <1>4, <1>5 DEF EInv

LEMMA EReadDir == EInv /\ ReadDir => EInv'
<1> SUFFICES ASSUME EInv, ReadDir PROVE EInv'
  OBVIOUS
<1>0. UNCHANGED <<tree, at, call, stage, changes, ever, refused>> /\ at = "read"
  BY DEF ReadDir
<1>1. PICK e \in unread :
        /\ unread' = unread \ {e}
        /\ owed' = owed \ {e}
        /\ \/ Wanted(e) /\ stage = "folders" /\ call.type = 0 /\ dirs' = Append(dirs, e.name) /\ UNCHANGED list
           \/ /\ Wanted(e) /\ (stage # "folders" \/ call.type # 0) /\ UNCHANGED dirs
              /\ list' = Append(list, IF stage = "inside" THEN <<Head(dirs), e.name>> ELSE <<e.name>>)
           \/ UNCHANGED <<list, dirs>>
  BY Zenon DEF ReadDir
<1>2. /\ list \in Seq(Seq(Names)) /\ dirs \in Seq(Names)
      /\ stage = "inside" => dirs # <<>> /\ call.type = 0
      /\ stage = "folders" => call.type \in {0, 2}
      /\ stage = "files" => call.type \in {0, 1} /\ dirs = <<>>
  BY <1>0 DEF EInv, Types, StageFits, Called
<1>3. Target' = Target
  BY <1>0, <1>1, <1>2 DEF Target
<1>4. ASSUME Wanted(e)
      PROVE  /\ e.name \in Names /\ e.name \in call.filter
             /\ e.kind = Kind /\ <<Target \o <<e.name>>, e.kind>> \in ever
  <2>1. e \notin Dots
    BY <1>4 DEF Wanted, Dots
  <2> QED BY <1>0, <1>4, <2>1 DEF EInv, SeenExisted, Wanted, Kind
<1>5. CASE Wanted(e) /\ stage = "folders" /\ call.type = 0 /\ dirs' = Append(dirs, e.name) /\ UNCHANGED list
  <2>1. dirs' \in Seq(Names) /\ ToSet(dirs') = ToSet(dirs) \cup {e.name}
    BY <1>2, <1>4, <1>5, Appended
  <2>2. <<call.path \o <<e.name>>, "dir">> \in ever
    BY <1>4, <1>5 DEF Target, Kind
  <2>3. Types' /\ StageFits'
    BY <1>0, <1>2, <1>5, <2>1 DEF EInv, Types, StageFits, Called
  <2>4. SeenExisted' /\ ItemsExisted'
    BY <1>0, <1>1, <1>3, <1>4, <1>5, <2>1, <2>2 DEF EInv, SeenExisted, ItemsExisted, ItemExisted
  <2> QED BY <2>3, <2>4 DEF EInv
<1>6. CASE /\ Wanted(e) /\ (stage # "folders" \/ call.type # 0) /\ UNCHANGED dirs
           /\ list' = Append(list, IF stage = "inside" THEN <<Head(dirs), e.name>> ELSE <<e.name>>)
  <2> DEFINE l == IF stage = "inside" THEN <<Head(dirs), e.name>> ELSE <<e.name>>
  <2>1. l \in Seq(Names)
    BY <1>2, <1>4, <1>6, Beheaded
  <2>2. ItemExisted(l)
    <3>1. CASE stage = "inside"
      <4>1. Head(dirs) \in ToSet(dirs) /\ Head(dirs) \in Names
        BY <1>2, <3>1, Beheaded
      <4>2. Head(dirs) \in call.filter /\ <<call.path \o <<Head(dirs)>>, "dir">> \in ever
        BY <4>1 DEF EInv, SeenExisted
      <4>3. l = <<Head(dirs)>> \o <<e.name>> /\ Len(l) = 2 /\ l[1] = Head(dirs)
            /\ ToSet(l) = {Head(dirs), e.name}
        BY <1>4, <1>6, <3>1, <4>1 DEF ToSet
      <4>4. <<l, "file">> \in ever
        <5>1. Target = <<Head(dirs)>> /\ Kind = "file"
          BY <3>1 DEF Target, Kind
        <5> QED BY <1>4, <1>6, <4>3, <5>1
      <4>5. ToSet(l) \subseteq call.filter /\ Len(l) = 2 /\ l[1] = Head(dirs)
        BY <1>4, <1>6, <4>2, <4>3
      <4> HIDE DEF l
      <4>6. <<call.path \o <<l[1]>>, "dir">> \in ever
        BY <4>2, <4>5
      <4> QED BY <4>4, <4>5, <4>6 DEF ItemExisted
    <3>2. CASE stage # "inside"
      <4>1. l = <<e.name>> /\ Len(l) = 1 /\ ToSet(l) = {e.name}
        BY <3>2 DEF ToSet
      <4>2. Target = call.path /\ Kind = IF call.type = 2 THEN "dir" ELSE "file"
        BY <1>0, <1>2, <1>6, <3>2 DEF Target, Kind, EInv, Types
      <4>3. <<call.path \o l, IF call.type = 2 THEN "dir" ELSE "file">> \in ever
        BY <1>4, <1>6, <4>1, <4>2
      <4> HIDE DEF l
      <4>4. ToSet(l) \subseteq call.filter
        BY <1>4, <1>6, <4>1
      <4> HIDE DEF l
      <4> QED BY <4>1, <4>3, <4>4 DEF ItemExisted
    <3> QED BY <3>1, <3>2
  <2> HIDE DEF l
  <2>3. list' = Append(list, l) /\ list' \in Seq(Seq(Names))
    BY <1>2, <1>6, <2>1, Appended DEF l
  <2>4. Types' /\ StageFits'
    BY <1>0, <1>2, <1>6, <2>3 DEF EInv, Types, StageFits, Called
  <2>5. ItemsExisted'
    <3>1. ToSet(list') = ToSet(list) \cup {l}
      BY <1>2, <2>1, <2>3, Appended
    <3>2. \A k \in ToSet(list') : ItemExisted(k)
      BY <2>2, <3>1 DEF EInv, ItemsExisted
    <3> QED BY <1>0, <3>2 DEF ItemsExisted, ItemExisted
  <2>6. SeenExisted'
    BY <1>0, <1>1, <1>3, <1>6 DEF EInv, SeenExisted
  <2> QED BY <2>4, <2>5, <2>6 DEF EInv
<1>7. CASE UNCHANGED <<list, dirs>>
  <2>1. Types' /\ StageFits' /\ ItemsExisted'
    BY <1>0, <1>7 DEF EInv, Types, StageFits, Called, ItemsExisted, ItemExisted
  <2>2. SeenExisted'
    BY <1>0, <1>1, <1>3, <1>7 DEF EInv, SeenExisted
  <2> QED BY <2>1, <2>2 DEF EInv
<1> QED BY <1>1, <1>5, <1>6, <1>7

\* Other processes: what comes into the directory being read has come to be.
LEMMA EChange ==
  ASSUME EInv, NEW p \in Paths, NEW kind \in {"none", "file", "dir", "other"},
         Change(p, kind)
  PROVE  EInv'
<1> DEFINE new == [name |-> Last(p), kind |-> kind]
<1>1. /\ Running /\ UNCHANGED <<at, call, stage, list, dirs, refused>> /\ changes' = changes + 1
      /\ tree' = [tree EXCEPT ![p] = kind] /\ ever' = ever \cup Facts(tree')
      /\ \/ unread' = unread
         \/ at = "read" /\ Front(p) = Target /\ unread' = unread \cup {new}
  BY DEF Change
<1>2. Types' /\ StageFits'
  BY <1>1 DEF EInv, Types, StageFits, Called, Running
<1>3. ItemsExisted'
  BY <1>1 DEF EInv, ItemsExisted, ItemExisted
<1>4. Target' = Target
  BY <1>1 DEF Target
<1>5. ASSUME at = "read", Front(p) = Target
      PROVE  new.name \in Names /\ <<Target \o <<new.name>>, new.kind>> \in ever'
  <2>1. tree'[p] = kind
    BY <1>1 DEF EInv, Types
  <2>2. <<p, kind>> \in ever'
    BY <1>1, <2>1 DEF Facts
  <2> QED BY <1>5, <2>2, FrontLast
<1>6. SeenExisted'
  <2>1. Facts(tree)' \subseteq ever'
    BY <1>1 DEF Facts
  <2>2. ASSUME at' = "read", NEW e \in unread' \ Dots
        PROVE  e.name \in Names /\ <<Target' \o <<e.name>>, e.kind>> \in ever'
    <3>1. CASE e \in unread
      BY <1>1, <1>4, <2>2, <3>1 DEF EInv, SeenExisted
    <3>2. CASE e = new /\ at = "read" /\ Front(p) = Target
      BY <1>4, <1>5, <3>2
    <3> QED BY <1>1, <2>2, <3>1, <3>2
  <2>3. \A n \in ToSet(dirs)' : n \in call'.filter /\ <<call'.path \o <<n>>, "dir">> \in ever'
    BY <1>1 DEF EInv, SeenExisted
  <2> QED BY <2>1, <2>2, <2>3 DEF SeenExisted
<1> QED BY <1>2, <1>3, <1>6 DEF EInv

LEMMA ENext == EInv /\ [Next]_vars => EInv'
<1> SUFFICES ASSUME EInv, [Next]_vars PROVE EInv'
  OBVIOUS
<1>1. ASSUME at = "shell",
             NEW type \in 0 .. 3, NEW path \in Starts, NEW filter \in Filters,
             NEW found \in Trees, Invoke(type, path, filter, found)
      PROVE  EInv'
  BY <1>1, EInvoke
<1>2. CASE OpenDir
  BY <1>2, EOpenDir
<1>3. CASE OpenFails
  BY <1>3, ENextStage DEF OpenFails, EInv, Types
<1>4. CASE ReadDir
  BY <1>4, EReadDir
<1>5. CASE CloseDir
  BY <1>5, ENextStage DEF CloseDir, EInv, Types
<1>6. ASSUME NEW p \in Paths, NEW kind \in {"none", "file", "dir", "other"}, Change(p, kind)
      PROVE  EInv'
  BY <1>6, EChange
<1>7. CASE UNCHANGED vars
  BY <1>7 DEF vars, EInv, Types, StageFits, Called, SeenExisted, ItemsExisted,
     ItemExisted, Target
<1> QED
  BY <1>1, <1>2, <1>3, <1>4, <1>5, <1>6, <1>7 DEF Next, Step

LEMMA EAlways == Spec => []EInv
  BY EInit, ENext, PTL DEF Spec

\* Lines 37 and 64: every name that is printed matches and was there, below
\* the directory it was looked for in, whatever other processes do meanwhile.
THEOREM PrintedExisted == Spec => []ListedExisted
<1>1. ASSUME EInv, NEW i \in DOMAIN list PROVE list[i] \in ToSet(list)
  BY DEF ToSet
<1>2. EInv => ListedExisted
  BY <1>1 DEF EInv, ItemsExisted, ItemExisted, ListedExisted
<1> QED
  BY <1>2, EAlways, PTL
-----------------------------------------------------------------------------
(* A tree nobody touches *)

\* What matches in a directory is what readdir finds there and is wanted.
LEMMA MatchingIsFound ==
  ASSUME NEW p, NEW k \in {"file", "dir"}, NEW n
  PROVE  n \in Matching(p, k) <=>
           /\ n \in Names /\ n \in call.filter
           /\ [name |-> n, kind |-> k] \in Entries(tree, p)
<1>1. ASSUME n \in Matching(p, k)
      PROVE  n \in Names /\ n \in call.filter /\ [name |-> n, kind |-> k] \in Entries(tree, p)
  <2>1. PICK q \in Paths : Front(q) = p /\ tree[q] = k /\ n = Last(q) /\ n \in call.filter
    BY <1>1 DEF Matching
  <2> QED BY <2>1, FrontLast DEF Entries
<1>2. ASSUME n \in Names, n \in call.filter, [name |-> n, kind |-> k] \in Entries(tree, p)
      PROVE  n \in Matching(p, k)
  <2>1. [name |-> n, kind |-> k] \notin Dots
    <3>1. n # "." /\ n # ".."
      BY <1>2, KindsAssumption
    <3>2. [name |-> n, kind |-> k].name = n
      OBVIOUS
    <3> QED BY <3>1, <3>2 DEF Dots
  <2>2. PICK q \in Paths : Front(q) = p /\ [name |-> n, kind |-> k] = [name |-> Last(q), kind |-> tree[q]]
    BY <1>2, <2>1 DEF Entries
  <2>3. n = Last(q) /\ k = tree[q]
    BY <2>2
  <2> QED BY <1>2, <2>2, <2>3 DEF Matching
<1> QED BY <1>1, <1>2

\* Nothing is below what is no directory.
LEMMA NothingBelow ==
  ASSUME tree \in Trees, NEW p, ~IsDir(tree, p), NEW k \in {"file", "dir"}
  PROVE  Matching(p, k) = {}
  BY DEF Matching, Trees, IsDir

LEMMA XInvoke ==
  ASSUME EInv, at = "shell",
         NEW type \in 0 .. 3, NEW path, NEW filter, NEW found \in Trees,
         Invoke(type, path, filter, found)
  PROVE  Exact'
<1> SUFFICES ASSUME Called' PROVE Exact'
  BY DEF Exact
<1>1. /\ list' = <<>> /\ dirs' = <<>> /\ at' = "open" /\ tree' \in Trees
      /\ call'.type = type /\ type \in 0 .. 2
      /\ stage' = IF type = 2 THEN "folders" ELSE "files"
  BY DEF Invoke, EInv, StageFits, Called
<1>2. ToSet(list') = {} /\ ToSet(dirs') = {} /\ Distinct(list') /\ Distinct(dirs')
  BY <1>1 DEF ToSet, Distinct
<1>3. Target' = call'.path
  BY <1>1 DEF Target
<1>4. Pending' = IF type = 2 THEN Folders' ELSE Files'
  BY <1>1, <1>3 DEF Pending, Kind, Folders, Files
<1>5. SoFar' = {}
  BY <1>1, <1>4 DEF SoFar
<1> QED BY <1>1, <1>2, <1>5 DEF Exact

LEMMA XOpenDir == EInv /\ Exact /\ OpenDir => Exact'
<1> SUFFICES ASSUME EInv, Exact, OpenDir, changes = 0, ~refused PROVE Exact'
  BY DEF Exact, OpenDir
<1>1. /\ at = "open" /\ at' = "read" /\ unread' = Entries(tree, Target) /\ owed' = unread'
      /\ UNCHANGED <<tree, call, stage, list, dirs, changes, refused>>
  BY DEF OpenDir
<1>2. Target' = Target /\ Kind' = Kind /\ Files' = Files /\ Folders' = Folders
  BY <1>1 DEF Target, Kind, Files, Folders, Matching
<1>3. Matching(Target, Kind)' = Matching(Target, Kind) /\ Kind \in {"file", "dir"}
  BY <1>1, <1>2 DEF Matching, Kind
<1>4. Pending' = Pending
  BY <1>1, <1>2, <1>3, MatchingIsFound DEF Pending
<1>5. Inside' = Inside
  BY <1>1, <1>2, <1>4 DEF Inside, Matching
<1>6. SoFar' = SoFar
  BY <1>1, <1>2, <1>4, <1>5 DEF SoFar
<1> QED BY <1>1, <1>2, <1>4, <1>6 DEF Exact, Called

\* A directory has been read to its end, or could not be opened.
LEMMA XNextStage ==
  ASSUME EInv, Exact, at \in {"open", "read"}, Pending = {}, NextStage,
         UNCHANGED <<tree, call, list, changes>>, refused => refused'
  PROVE  Exact'
<1> SUFFICES ASSUME changes = 0, ~refused PROVE Exact'
  BY DEF Exact
<1>1. /\ call.type \in 0 .. 2 /\ dirs \in Seq(Names)
      /\ call.type = 2 => stage = "folders" /\ dirs = <<>>
      /\ call.type = 1 => stage = "files"
      /\ stage = "files" => dirs = <<>>
      /\ stage = "inside" => dirs # <<>>
      /\ stage \in {"files", "folders", "inside"}
  BY DEF EInv, Types, StageFits, Called
<1>2. /\ tree \in Trees /\ Distinct(list) /\ Distinct(dirs)
      /\ ToSet(list) = SoFar
      /\ stage = "folders" /\ call.type = 0 => ToSet(dirs) = Folders
      /\ stage = "inside" => ToSet(dirs) \subseteq Folders
  BY DEF Exact, Called
<1>3. Files' = Files /\ Folders' = Folders /\ \A p : Matching(p, "file")' = Matching(p, "file")
  BY DEF Files, Folders, Matching
<1>4. at' \in {"open", "done"}
  BY DEF NextStage
<1>5. CASE call.type # 0
  <2>1. at' = "done" /\ dirs' = dirs /\ stage' = stage /\ stage # "inside" /\ dirs = <<>>
    BY <1>1, <1>5 DEF NextStage
  <2>2. Pending' = {}
    BY <2>1 DEF Pending
  <2>3. SoFar' = SoFar
    BY <1>1, <1>3, <1>5, <2>1, <2>2 DEF SoFar
  <2> QED BY <1>2, <1>5, <2>1, <2>3 DEF Exact
<1>6. CASE call.type = 0 /\ stage = "files"
  <2>1. stage' = "folders" /\ at' = "open" /\ dirs' = <<>> /\ call' = call
    BY <1>1, <1>6 DEF NextStage
  <2>2. Pending' = Folders'
    BY <2>1 DEF Pending, Target, Kind, Folders
  <2>3. SoFar' = {<<n>> : n \in Files}
    BY <1>3, <1>6, <2>1 DEF SoFar
  <2>4. SoFar = {<<n>> : n \in Files}
    BY <1>6 DEF SoFar
  <2>5. ToSet(dirs') = {} /\ Distinct(dirs')
    BY <2>1 DEF ToSet, Distinct
  <2> QED BY <1>2, <1>6, <2>1, <2>2, <2>3, <2>4, <2>5 DEF Exact
<1>7. CASE call.type = 0 /\ stage = "folders"
  <2>1. dirs' = dirs /\ ToSet(dirs) = Folders /\ SoFar = {<<n>> : n \in Files}
    BY <1>2, <1>7 DEF NextStage, SoFar
  <2>2. CASE dirs = <<>>
    <3>1. stage' = "folders" /\ at' = "done"
      BY <1>7, <2>1, <2>2 DEF NextStage
    <3>2. Pending' = {} /\ SoFar' = {<<n>> : n \in Files}
      BY <1>3, <1>7, <3>1 DEF Pending, SoFar
    <3> QED BY <1>2, <1>3, <2>1, <3>1, <3>2 DEF Exact
  <2>3. CASE dirs # <<>>
    <3>1. stage' = "inside" /\ at' = "open"
      BY <1>7, <2>1, <2>3 DEF NextStage
    <3>2. Pending' = Matching(<<Head(dirs)>>, "file")
      BY <1>3, <2>1, <3>1 DEF Pending, Target, Kind
    <3>3. Inside' = {}
      BY <1>3, <2>1, <3>2 DEF Inside
    <3>4. SoFar' = {<<n>> : n \in Files}
      BY <1>3, <3>1, <3>3 DEF SoFar
    <3> QED BY <1>2, <1>3, <2>1, <3>1, <3>4 DEF Exact
  <2> QED BY <2>2, <2>3
<1>8. CASE call.type = 0 /\ stage = "inside"
  <2>1. /\ dirs' = Tail(dirs) /\ stage' = "inside" /\ dirs # <<>>
        /\ at' = "open" <=> dirs' # <<>>
    BY <1>1, <1>8 DEF NextStage
  <2>2. /\ Distinct(dirs') /\ ToSet(dirs') = ToSet(dirs) \ {Head(dirs)} /\ Head(dirs) \in ToSet(dirs)
    BY <1>1, <1>2, <2>1, Beheaded
  <2>3. dirs' # <<>> => Pending' = Matching(<<Head(dirs')>>, "file")
    <3>1. dirs' # <<>> => at' = "open" /\ Target' = <<Head(dirs')>> /\ Kind' = "file"
      BY <2>1 DEF Target, Kind
    <3> QED BY <1>3, <3>1 DEF Pending
  <2>4. Inside' = Inside
    <3>1. ASSUME NEW l \in Names \X Names, l[1] \in Folders, l[2] \in Matching(<<l[1]>>, "file")
          PROVE  (l[1] \notin ToSet(dirs') \/ (dirs' # <<>> /\ l[1] = Head(dirs') /\ l[2] \notin Pending'))
                 <=> (l[1] \notin ToSet(dirs) \/ (dirs # <<>> /\ l[1] = Head(dirs) /\ l[2] \notin Pending))
      BY <1>3, <2>1, <2>2, <2>3, <3>1
    <3> QED BY <1>3, <3>1 DEF Inside
  <2>5. SoFar' = SoFar
    BY <1>3, <1>8, <2>1, <2>4 DEF SoFar
  <2> QED BY <1>2, <1>3, <1>4, <1>8, <2>1, <2>2, <2>5 DEF Exact
<1> QED BY <1>1, <1>5, <1>6, <1>7, <1>8

LEMMA XReadDir == EInv /\ Exact /\ ReadDir => Exact'
<1> SUFFICES ASSUME EInv, Exact, ReadDir PROVE Exact'
  OBVIOUS
<1>0. UNCHANGED <<tree, at, call, stage, changes, refused>> /\ at = "read"
  BY DEF ReadDir
<1> SUFFICES ASSUME changes = 0, ~refused PROVE Exact'
  BY <1>0 DEF Exact
<1>1. PICK e \in unread :
        /\ unread' = unread \ {e}
        /\ owed' = owed \ {e}
        /\ \/ Wanted(e) /\ stage = "folders" /\ call.type = 0 /\ dirs' = Append(dirs, e.name) /\ UNCHANGED list
           \/ /\ Wanted(e) /\ (stage # "folders" \/ call.type # 0) /\ UNCHANGED dirs
              /\ list' = Append(list, IF stage = "inside" THEN <<Head(dirs), e.name>> ELSE <<e.name>>)
           \/ ~Wanted(e) /\ UNCHANGED <<list, dirs>>
  BY Zenon DEF ReadDir
<1>2. /\ list \in Seq(Seq(Names)) /\ dirs \in Seq(Names)
      /\ stage \in {"files", "folders", "inside"}
      /\ stage = "inside" => dirs # <<>> /\ call.type = 0
      /\ stage = "folders" => call.type \in {0, 2}
      /\ stage = "files" => call.type \in {0, 1} /\ dirs = <<>>
  BY <1>0 DEF EInv, Types, StageFits, Called
<1>3. /\ tree \in Trees /\ Distinct(list) /\ Distinct(dirs)
      /\ owed = unread /\ unread \subseteq Entries(tree, Target)
      /\ ToSet(list) = SoFar
      /\ stage = "folders" /\ call.type = 0 => ToSet(dirs) = Folders \ Pending
      /\ stage = "inside" => ToSet(dirs) \subseteq Folders
  BY <1>0 DEF Exact, Called
<1>4. Target' = Target /\ Kind' = Kind /\ Files' = Files /\ Folders' = Folders
  BY <1>0, <1>1, <1>2 DEF Target, Kind, Files, Folders, Matching
<1>5. /\ \A p, k : Matching(p, k)' = Matching(p, k)
      /\ Kind \in {"file", "dir"} /\ (stage = "folders" <=> Kind = "dir")
  BY <1>0 DEF Matching, Kind
<1> DEFINE due == Matching(Target, Kind)  n == e.name
<1>6. Pending = {m \in due : [name |-> m, kind |-> Kind] \in unread}
  BY <1>0 DEF Pending
<1>7. Pending' = {m \in due : [name |-> m, kind |-> Kind] \in unread \ {e}}
  BY <1>0, <1>1, <1>4, <1>5 DEF Pending
<1>8. ASSUME Wanted(e)
      PROVE  e = [name |-> n, kind |-> Kind] /\ n \in Names /\ n \in due /\ n \in Pending
             /\ Pending' = Pending \ {n}
  <2>1. n \in call.filter /\ e.kind = Kind
    BY <1>8 DEF Wanted, Kind
  <2>2. e \in Entries(tree, Target) /\ e \notin Dots
    BY <1>3, <1>8 DEF Wanted, Dots
  <2>3. e = [name |-> n, kind |-> Kind] /\ n \in Names
    <3>1. PICK q \in Paths : e = [name |-> Last(q), kind |-> tree[q]]
      BY <2>2 DEF Entries
    <3> QED BY <2>1, <3>1, FrontLast
  <2>4. n \in due
    BY <1>5, <2>1, <2>2, <2>3, MatchingIsFound
  <2>5. n \in Pending
    BY <1>6, <2>3, <2>4
  <2>6. \A m : [name |-> m, kind |-> Kind] = e <=> m = n
    <3>1. \A m : [name |-> m, kind |-> Kind].name = m
      OBVIOUS
    <3> QED BY <2>3, <3>1
  <2>7. Pending' = Pending \ {n}
    BY <1>6, <1>7, <2>6
  <2> QED BY <2>3, <2>4, <2>5, <2>7
<1>9. ASSUME ~Wanted(e) PROVE Pending' = Pending
  <2>1. ASSUME NEW m \in due, e = [name |-> m, kind |-> Kind] PROVE FALSE
    <3>1. m \in Names /\ m \in call.filter
      BY <1>5, <2>1, MatchingIsFound
    <3>2. e.name = m /\ e.kind = Kind
      BY <2>1
    <3>3. m \notin {".", ".."}
      BY <3>1, KindsAssumption
    <3> QED BY <1>9, <3>1, <3>2, <3>3 DEF Wanted, Kind
  <2> QED BY <1>6, <1>7, <2>1
<1> HIDE DEF n
<1>10. CASE Wanted(e) /\ stage = "folders" /\ call.type = 0 /\ dirs' = Append(dirs, e.name) /\ UNCHANGED list
  <2>1. n \in Names /\ n \in Folders /\ n \in Pending /\ Pending' = Pending \ {n} /\ dirs' = Append(dirs, n)
    BY <1>2, <1>5, <1>8, <1>10 DEF Target, Folders, n
  <2>2. ToSet(dirs) = Folders \ Pending
    BY <1>3, <1>10
  <2>3. Distinct(dirs') /\ ToSet(dirs') = ToSet(dirs) \cup {n}
    BY <1>2, <1>3, <2>1, <2>2, Appended
  <2>4. ToSet(dirs') = Folders' \ Pending'
    BY <1>4, <2>1, <2>2, <2>3
  <2>5. SoFar' = SoFar
    BY <1>0, <1>4, <1>10 DEF SoFar
  <2> QED BY <1>0, <1>1, <1>3, <1>4, <1>10, <2>3, <2>4, <2>5 DEF Exact
<1>11. CASE /\ Wanted(e) /\ (stage # "folders" \/ call.type # 0) /\ UNCHANGED dirs
            /\ list' = Append(list, IF stage = "inside" THEN <<Head(dirs), e.name>> ELSE <<e.name>>)
  <2>1. /\ n \in Names /\ n \in due /\ n \in Pending /\ Pending' = Pending \ {n}
        /\ list' = Append(list, IF stage = "inside" THEN <<Head(dirs), n>> ELSE <<n>>)
    BY <1>8, <1>11 DEF n
  <2>2. CASE stage = "inside"
    <3> DEFINE d == Head(dirs)  l == <<d, n>>
    <3>1. d \in ToSet(dirs) /\ d \in Names /\ d \in Folders
      BY <1>2, <1>3, <2>2, Beheaded
    <3>2. due = Matching(<<d>>, "file") /\ due' = due
      BY <1>4, <1>5, <2>2 DEF Target, Kind
    <3>3. l \in Seq(Names) /\ l \in Names \X Names
      BY <2>1, <3>1
    <3>4. l \notin Inside
      BY <2>1, <3>1 DEF Inside
    <3>5. l \notin ToSet(list)
      <4>1. \A m : <<m>> # l
        OBVIOUS
      <4> QED BY <1>3, <2>2, <3>4, <4>1 DEF SoFar
    <3>6. ToSet(list') = ToSet(list) \cup {l} /\ Distinct(list')
      <4>1. list' = Append(list, l)
        BY <2>1, <2>2
      <4> HIDE DEF d, l
      <4> QED BY <1>2, <1>3, <3>3, <3>5, <4>1, Appended
    <3>7. Inside' = Inside \cup {l}
      <4>1. ASSUME NEW k \in Names \X Names PROVE k \in Inside' <=> k \in Inside \/ k = l
        <5>1. k = l <=> k[1] = d /\ k[2] = n
          BY <4>1
        <5>2. dirs' = dirs /\ Head(dirs') = d /\ Head(dirs) = d /\ dirs # <<>>
          BY <1>2, <1>11, <2>2
        <5> HIDE DEF d, l, due
        <5>3. k \in Inside' <=> /\ k[1] \in Folders /\ k[2] \in Matching(<<k[1]>>, "file")
                                /\ k[1] \notin ToSet(dirs) \/ (k[1] = d /\ k[2] \notin Pending')
          BY <1>4, <1>5, <4>1, <5>2 DEF Inside
        <5>4. k \in Inside <=> /\ k[1] \in Folders /\ k[2] \in Matching(<<k[1]>>, "file")
                               /\ k[1] \notin ToSet(dirs) \/ (k[1] = d /\ k[2] \notin Pending)
          BY <4>1, <5>2 DEF Inside
        <5> QED BY <2>1, <3>1, <3>2, <5>1, <5>3, <5>4
      <4>2. Inside' \subseteq Names \X Names /\ Inside \subseteq Names \X Names
        BY DEF Inside
      <4> QED BY <3>3, <4>1, <4>2
    <3>8. SoFar' = SoFar \cup {l}
      BY <1>0, <1>4, <2>2, <3>7 DEF SoFar
    <3> QED BY <1>0, <1>1, <1>3, <1>4, <1>11, <2>2, <3>6, <3>8 DEF Exact
  <2>3. CASE stage # "inside"
    <3> DEFINE l == <<n>>
    <3>1. l \in Seq(Names) /\ list' = Append(list, l)
      BY <2>1, <2>3
    <3>2. PICK all \in {Files, Folders} :
             /\ n \in all /\ SoFar = {<<m>> : m \in all \ Pending}
             /\ SoFar' = {<<m>> : m \in all \ Pending'}
      <4>1. CASE stage = "files"
        BY <1>0, <1>4, <2>1, <4>1 DEF SoFar, Files, Target, Kind
      <4>2. CASE stage = "folders" /\ call.type = 2
        BY <1>0, <1>4, <2>1, <4>2 DEF SoFar, Folders, Target, Kind
      <4> QED BY <1>2, <1>11, <2>3, <4>1, <4>2
    <3>3. \A m : <<m>> = l <=> m = n
      OBVIOUS
    <3>4. l \notin SoFar /\ SoFar' = SoFar \cup {l}
      BY <2>1, <3>2, <3>3
    <3>5. ToSet(list') = ToSet(list) \cup {l} /\ Distinct(list')
      <4> HIDE DEF l
      <4> QED BY <1>2, <1>3, <3>1, <3>4, Appended
    <3>6. ~(stage = "folders" /\ call.type = 0)
      BY <1>11
    <3> HIDE DEF l
    <3> QED BY <1>0, <1>1, <1>3, <1>4, <1>11, <2>3, <3>4, <3>5, <3>6 DEF Exact
  <2> QED BY <2>2, <2>3
<1>12. CASE ~Wanted(e) /\ UNCHANGED <<list, dirs>>
  <2>1. Pending' = Pending
    BY <1>9, <1>12
  <2>2. Inside' = Inside
    BY <1>4, <1>5, <1>12, <2>1 DEF Inside
  <2>3. SoFar' = SoFar
    BY <1>0, <1>4, <2>1, <2>2 DEF SoFar
  <2> QED BY <1>0, <1>1, <1>3, <1>4, <1>12, <2>1, <2>3 DEF Exact
<1> QED BY <1>1, <1>10, <1>11, <1>12

LEMMA XNext == EInv /\ Exact /\ [Next]_vars => Exact'
<1> SUFFICES ASSUME EInv, Exact, [Next]_vars PROVE Exact'
  OBVIOUS
<1>1. ASSUME at = "shell",
             NEW type \in 0 .. 3, NEW path \in Starts, NEW filter \in Filters,
             NEW found \in Trees, Invoke(type, path, filter, found)
      PROVE  Exact'
  BY <1>1, XInvoke
<1>2. CASE OpenDir
  BY <1>2, XOpenDir
<1>3. CASE OpenFails
  <2>1. /\ at = "open" /\ NextStage /\ UNCHANGED <<tree, call, list, changes>>
        /\ refused' = (refused \/ IsDir(tree, Target))
    BY <1>3 DEF OpenFails
  <2>2. CASE changes = 0 /\ ~refused'
    <3>1. tree \in Trees /\ Kind \in {"file", "dir"} /\ ~refused /\ ~IsDir(tree, Target)
      BY <2>1, <2>2 DEF Exact, Called, Kind
    <3>2. Pending = {}
      BY <2>1, <3>1, NothingBelow DEF Pending
    <3>3. refused => refused'
      BY <3>1
    <3> QED BY <2>1, <3>2, <3>3, XNextStage
  <2> QED BY <2>1, <2>2 DEF Exact
<1>4. CASE ReadDir
  BY <1>4, XReadDir
<1>5. CASE CloseDir
  <2>1. at = "read" /\ owed = {} /\ NextStage /\ UNCHANGED <<tree, call, list, changes, refused>>
    BY <1>5 DEF CloseDir
  <2>2. CASE changes = 0 /\ ~refused
    <3>1. unread = {}
      BY <2>1, <2>2 DEF Exact, Called
    <3>2. Pending = {}
      BY <2>1, <3>1 DEF Pending
    <3> QED BY <2>1, <3>2, XNextStage
  <2> QED BY <2>1, <2>2 DEF Exact
<1>6. ASSUME NEW p \in Paths, NEW kind \in {"none", "file", "dir", "other"}, Change(p, kind)
      PROVE  Exact'
  BY <1>6 DEF Change, EInv, Types, Exact
<1>7. CASE UNCHANGED vars
  <2>1. /\ Target' = Target /\ Kind' = Kind /\ Files' = Files /\ Folders' = Folders
        /\ \A p, k : Matching(p, k)' = Matching(p, k)
    BY <1>7 DEF vars, Target, Kind, Files, Folders, Matching
  <2>2. Pending' = Pending
    BY <1>7, <2>1 DEF vars, Pending
  <2>3. Inside' = Inside
    BY <1>7, <2>1, <2>2 DEF vars, Inside
  <2>4. SoFar' = SoFar
    BY <1>7, <2>1, <2>2, <2>3 DEF vars, SoFar
  <2> QED BY <1>7, <2>1, <2>2, <2>4 DEF vars, Exact, Called
<1> QED
  BY <1>1, <1>2, <1>3, <1>4, <1>5, <1>6, <1>7 DEF Next, Step

LEMMA XInit == Init => Exact
  BY DEF Init, Exact, Called

LEMMA XAlways == Spec => [](EInv /\ Exact)
  BY EInit, ENext, XInit, XNext, PTL DEF Spec

\* Lines 24, 51 and 78: a tree that stays as it is, and whose directories can
\* all be opened, is listed once and nothing else is by GetListFiles and
\* GetListFolders; GetListFilesR leaves out no file of the directory, and no file
\* of its folders if the directory is the working directory.  (Of the folders of
\* any other nothing is stated: ListsInside.)
THEOREM ListedCompletely == Spec => []ListsAll
<1>1. ASSUME EInv, Exact, Undisturbed
      PROVE  /\ call.type \in 0 .. 2 /\ dirs = <<>> /\ Pending = {}
             /\ stage \in {"files", "folders", "inside"}
             /\ call.type = 2 => stage = "folders"
             /\ call.type = 1 => stage = "files"
             /\ call.type = 0 => stage # "files"
             /\ ToSet(list) = SoFar
             /\ stage = "folders" /\ call.type = 0 => Folders = {}
  <2>1. /\ dirs = <<>> /\ call.type \in 0 .. 2 /\ stage \in {"files", "folders", "inside"}
        /\ call.type = 2 => stage = "folders"
        /\ call.type = 1 => stage = "files"
        /\ call.type = 0 => stage # "files"
    BY <1>1 DEF EInv, Types, StageFits, Called, Undisturbed
  <2>2. ToSet(dirs) = {} /\ Pending = {}
    BY <1>1, <2>1 DEF ToSet, Pending, Undisturbed
  <2>3. ToSet(list) = SoFar /\ (stage = "folders" /\ call.type = 0 => Folders = {})
    BY <1>1, <2>2 DEF Exact, Called, Undisturbed
  <2> QED BY <2>1, <2>2, <2>3
<1>2. ASSUME EInv, Exact, Undisturbed
      PROVE  /\ call.type = 1 => ToSet(list) = FilesHere
             /\ call.type = 2 => ToSet(list) = FoldersHere
             /\ call.type = 0 => FilesHere \subseteq ToSet(list)
  <2>1. FilesHere = {<<n>> : n \in Files} /\ FoldersHere = {<<n>> : n \in Folders}
    BY DEF FilesHere, FoldersHere, Files, Folders
  <2> QED BY <1>1, <1>2, <2>1 DEF SoFar
<1>3. ASSUME EInv, Exact, Undisturbed, call.type = 0, call.path = <<>>
      PROVE  FilesInside \subseteq ToSet(list)
  <2>1. \A d \in Folders : d \in Names /\ call.path \o <<d>> = <<d>>
    <3>1. \A d \in Folders : d \in Names
      BY MatchingIsFound DEF Folders
    <3>2. \A d \in Names : <<d>> \in Seq(Names)
      OBVIOUS
    <3> QED BY <1>3, <3>1, <3>2, ConcatEmptySeq
  <2>2. CASE stage = "folders"
    BY <1>1, <1>3, <2>2 DEF FilesInside, Folders
  <2>3. CASE stage = "inside"
    <3>1. Inside \subseteq ToSet(list)
      BY <1>1, <1>3, <2>3 DEF SoFar
    <3>2. Inside = {l \in Names \X Names : l[1] \in Folders /\ l[2] \in Matching(<<l[1]>>, "file")}
      BY <1>1, <1>3 DEF Inside, ToSet
    <3>3. ASSUME NEW d \in Folders, NEW n \in Matching(call.path \o <<d>>, "file")
          PROVE  <<d, n>> \in Inside
      <4>1. n \in Matching(<<d>>, "file") /\ d \in Names /\ n \in Names
        BY <2>1, <3>3, MatchingIsFound
      <4> QED BY <3>2, <4>1
    <3>4. ASSUME NEW l \in FilesInside PROVE l \in Inside
      <4>1. PICK d \in Folders : l \in {<<d, n>> : n \in Matching(call.path \o <<d>>, "file")}
        BY <3>4 DEF FilesInside, Folders
      <4>2. PICK n \in Matching(call.path \o <<d>>, "file") : l = <<d, n>>
        BY <4>1
      <4> QED BY <3>3, <4>2
    <3> QED BY <3>1, <3>4
  <2> QED BY <1>1, <1>3, <2>2, <2>3
<1>4. ASSUME EInv, Exact, Undisturbed
      PROVE  Cardinality(ToSet(list)) = Len(list)
  BY <1>4, DistinctCounts DEF EInv, Types, Exact, Called, Undisturbed
<1>5. EInv /\ Exact => ListsAll
  BY <1>2, <1>3, <1>4 DEF ListsAll
<1> QED
  BY <1>5, XAlways, PTL

-----------------------------------------------------------------------------
(* The option samples (Options, GetOpt): naturals, sequences and blocks       *)
(* of arguments                                                               *)

\* A non-empty set of natural numbers has a least member.
LEMMA LeastMember ==
  ASSUME NEW T, T \subseteq Nat, T # {}
  PROVE  \E n \in T : \A m \in T : n <= m
<1> DEFINE R == OpToRel(<, Nat)
<1>1. IsWellFoundedOn(R, Nat)
  BY NatLessThanWellFounded
<1>2. \A m, n \in Nat : m < n => <<m, n>> \in R
  BY DEF OpToRel
<1> HIDE DEF R
<1>3. PICK n \in T : \A m \in T : ~(<<m, n>> \in R)
  BY <1>1, WFMin
<1>4. ASSUME NEW m \in T PROVE n <= m
  <2>1. m \in Nat /\ n \in Nat
    OBVIOUS
  <2>2. ~(m < n)
    BY <1>2, <1>3, <2>1
  <2> QED  BY <2>1, <2>2
<1> QED  BY <1>3, <1>4

\* A set of numbers that holds 0 and each successor holds all of them.
LEMMA SuccessorSet ==
  ASSUME NEW S, 0 \in S, \A n \in Nat : n \in S => n + 1 \in S
  PROVE  Nat \subseteq S
<1> DEFINE T == Nat \ S
<1> SUFFICES ASSUME T # {} PROVE FALSE
  OBVIOUS
<1>1. T \subseteq Nat
  OBVIOUS
<1> HIDE DEF T
<1>2. PICK n \in T : \A m \in T : n <= m
  BY <1>1, LeastMember
<1>3. n \in Nat /\ n # 0
  BY DEF T
<1>4. n - 1 \in Nat /\ ~(n <= n - 1) /\ (n - 1) + 1 = n
  BY <1>3
<1>5. n - 1 \in S
  BY <1>2, <1>4 DEF T
<1> QED
  BY <1>3, <1>4, <1>5 DEF T

\* What is read depends on three places further on.
AgreeAhead(f, g, line, i, k) ==
  /\ i <= Len(line) => f[<<i + 1, 1>>] = g[<<i + 1, 1>>] /\ f[<<i + 2, 1>>] = g[<<i + 2, 1>>]
  /\ i <= Len(line) /\ k < Len(line[i].text) => f[<<i, k + 1>>] = g[<<i, k + 1>>]

LEMMA ReadsAhead ==
  ASSUME NEW f, NEW g, NEW line, NEW letters, NEW valued, NEW long, NEW i \in Nat, NEW k \in Nat,
         AgreeAhead(f, g, line, i, k), Len(line) \in Nat
  PROVE  O!ReadFrom(f, line, letters, valued, long, i, k)
           = O!ReadFrom(g, line, letters, valued, long, i, k)
<1> USE DEF AgreeAhead
<1>1. CASE i > Len(line)
  BY <1>1 DEF O!ReadFrom
<1>2. CASE i <= Len(line)
  <2>1. \A c : O!ValueBehind(f, line, c, i) = O!ValueBehind(g, line, c, i)
    BY <1>2 DEF O!ValueBehind
  <2>2. O!ReadName(f, line, long, i) = O!ReadName(g, line, long, i)
    BY <1>2, <2>1 DEF O!ReadName
  <2>3. O!ReadLetter(f, line, letters, valued, i, k) = O!ReadLetter(g, line, letters, valued, i, k)
    BY <1>2, <2>1 DEF O!ReadLetter
  <2> QED
    BY <1>2, <2>2, <2>3 DEF O!ReadFrom
<1> QED
  BY <1>1, <1>2

Fixed(g, line, letters, valued, long) ==
  g = [p \in (1 .. Len(line) + 2) \X Nat |-> O!ReadFrom(g, line, letters, valued, long, p[1], p[2])]

ReadInRows(g, line, letters, valued, long, first) ==
  \A i \in first .. Len(line) + 2, k \in Nat :
    g[<<i, k>>] = O!ReadFrom(g, line, letters, valued, long, i, k)

\* One row more can be read: from its last letter to its first.
LEMMA OneRowMore ==
  ASSUME NEW line, NEW letters, NEW valued, NEW long, Len(line) \in Nat,
         \A i \in 1 .. Len(line) : Len(line[i].text) \in Nat,
         NEW g, NEW row \in 1 .. Len(line) + 2,
         ReadInRows(g, line, letters, valued, long, row + 1)
  PROVE  \E h : ReadInRows(h, line, letters, valued, long, row)
<1> DEFINE n == Len(line) + 2
           Places == (1 .. n) \X Nat
           B(h, i, k) == O!ReadFrom(h, line, letters, valued, long, i, k)
           L == IF row <= Len(line) THEN Len(line[row].text) ELSE 0
           Read(h, u) == /\ \A i \in row + 1 .. n, k \in Nat : h[<<i, k>>] = g[<<i, k>>]
                         /\ \A k \in Nat : k > L - u => h[<<row, k>>] = B(h, row, k)
           U == {u \in Nat : \E h : Read(h, u)}
<1>1. L \in Nat /\ n \in Nat /\ row \in 1 .. n /\ n = Len(line) + 2 /\ Len(line) \in Nat
  OBVIOUS
<1>2. ASSUME NEW h, NEW f, NEW i \in row .. n, NEW k \in Nat,
             \A j \in row + 1 .. n, m \in Nat : h[<<j, m>>] = f[<<j, m>>],
             i = row /\ k < L => h[<<i, k + 1>>] = f[<<i, k + 1>>]
      PROVE  B(h, i, k) = B(f, i, k)
  <2>1. i \in Nat /\ k + 1 \in Nat /\ 1 \in Nat
    BY <1>1
  <2>2. i <= Len(line) => i + 1 \in row + 1 .. n /\ i + 2 \in row + 1 .. n
    BY <1>1
  <2>3. i <= Len(line) => h[<<i + 1, 1>>] = f[<<i + 1, 1>>] /\ h[<<i + 2, 1>>] = f[<<i + 2, 1>>]
    BY <1>2, <2>1, <2>2
  <2>4. i <= Len(line) /\ k < Len(line[i].text) => h[<<i, k + 1>>] = f[<<i, k + 1>>]
    <3>1. CASE i = row
      BY <1>2, <3>1
    <3>2. CASE i # row
      BY <1>1, <1>2, <2>1, <3>2
    <3> QED BY <3>1, <3>2
  <2>5. AgreeAhead(h, f, line, i, k)
    BY <2>3, <2>4 DEF AgreeAhead
  <2> HIDE DEF L, n
  <2> QED
    BY <1>1, <2>1, <2>5, ReadsAhead
<1> HIDE DEF B, L, n
<1>3. 0 \in U
  <2> DEFINE h == [p \in Places |-> IF p[1] = row THEN B(g, row, p[2]) ELSE g[p]]
  <2>1. ASSUME NEW i \in row + 1 .. n, NEW k \in Nat PROVE h[<<i, k>>] = g[<<i, k>>]
    <3>1. i \in 1 .. n /\ i # row
      BY <1>1
    <3>2. <<i, k>> \in Places /\ <<i, k>>[1] = i
      BY <3>1
    <3> QED BY <3>1, <3>2
  <2>2. \A k \in Nat : h[<<row, k>>] = B(g, row, k)
    BY <1>1
  <2> HIDE DEF h
  <2>3. ASSUME NEW k \in Nat, k > L - 0 PROVE h[<<row, k>>] = B(h, row, k)
    <3>1. row \in row .. n /\ ~(k < L)
      BY <1>1, <2>3
    <3>2. B(h, row, k) = B(g, row, k)
      BY <1>2, <2>1, <3>1
    <3> QED
      BY <2>2, <3>2
  <2>4. Read(h, 0)
    BY <2>1, <2>3
  <2> QED
    BY <2>4
<1>4. ASSUME NEW u \in Nat, u \in U PROVE u + 1 \in U
  <2>1. PICK h : Read(h, u)
    BY <1>4
  <2>2. CASE L - u < 0
    <3>1. \A k \in Nat : k > L - u
      BY <1>1, <2>2
    <3>2. Read(h, u + 1) /\ u + 1 \in Nat
      BY <2>1, <3>1
    <3> HIDE DEF Read
    <3> QED BY <3>2
  <2>3. CASE L - u >= 0
    <3> DEFINE k0 == L - u
               f == [p \in Places |-> IF p = <<row, k0>> THEN B(h, row, k0) ELSE h[p]]
    <3>1. k0 \in Nat /\ u \in Nat /\ k0 = L - u
      BY <1>1, <2>3
    <3> HIDE DEF k0
    <3>2. ASSUME NEW i \in row + 1 .. n, NEW k \in Nat PROVE f[<<i, k>>] = h[<<i, k>>]
      <4>1. <<i, k>> \in Places /\ <<i, k>> # <<row, k0>>
        BY <1>1
      <4> QED BY <4>1
    <3>3. f[<<row, k0>>] = B(h, row, k0)
      BY <1>1, <3>1
    <3>4. \A k \in Nat : k # k0 => f[<<row, k>>] = h[<<row, k>>]
      BY <1>1
    <3> HIDE DEF f
    <3>5. ASSUME NEW k \in Nat, k >= k0 PROVE B(f, row, k) = B(h, row, k)
      <4>1. row \in row .. n /\ k + 1 \in Nat /\ k + 1 # k0
        BY <1>1, <3>1, <3>5
      <4>2. f[<<row, k + 1>>] = h[<<row, k + 1>>]
        BY <3>4, <4>1
      <4> QED
        BY <1>2, <3>2, <4>1, <4>2
    <3>6. ASSUME NEW k \in Nat, k > L - (u + 1) PROVE f[<<row, k>>] = B(f, row, k)
      <4>1. k >= k0 /\ (k # k0 => k > L - u)
        BY <1>1, <3>1, <3>6
      <4> QED
        BY <2>1, <3>3, <3>4, <3>5, <4>1
    <3>7. \A i \in row + 1 .. n, k \in Nat : f[<<i, k>>] = g[<<i, k>>]
      BY <2>1, <3>2
    <3>8. Read(f, u + 1) /\ u + 1 \in Nat
      BY <3>6, <3>7
    <3> HIDE DEF Read
    <3> QED BY <3>8
  <2> QED BY <1>1, <2>2, <2>3
<1>5. L + 1 \in U
  <2> HIDE DEF U
  <2> QED BY <1>1, <1>3, <1>4, SuccessorSet
<1>6. PICK h : Read(h, L + 1)
  BY <1>5
<1>7. \A k \in Nat : h[<<row, k>>] = B(h, row, k)
  BY <1>1, <1>6
<1>8. ASSUME NEW i \in row + 1 .. n, NEW k \in Nat PROVE h[<<i, k>>] = B(h, i, k)
  <2>1. i \in row .. n /\ i # row
    BY <1>1
  <2>2. B(h, i, k) = B(g, i, k)
    BY <1>2, <1>6, <2>1
  <2>3. g[<<i, k>>] = B(g, i, k)
    BY DEF B, n, ReadInRows
  <2> QED
    BY <1>6, <2>2, <2>3
<1>9. \A i \in row .. n : i = row \/ i \in row + 1 .. n
  BY <1>1
<1>10. \A i \in row .. n, k \in Nat : h[<<i, k>>] = B(h, i, k)
  BY <1>7, <1>8, <1>9
<1> QED
  BY <1>10 DEF B, n, ReadInRows

\* Readings is well defined: each place of the line has its reading.
LEMMA ReadingsExist ==
  ASSUME NEW line, NEW letters, NEW valued, NEW long, Len(line) \in Nat,
         \A i \in 1 .. Len(line) : Len(line[i].text) \in Nat
  PROVE  Fixed(O!Readings(line, letters, valued, long), line, letters, valued, long)
<1> DEFINE n == Len(line) + 2
           B(h, i, k) == O!ReadFrom(h, line, letters, valued, long, i, k)
           Rows(g, t) == \A i \in 1 .. n, k \in Nat : i > n - t => g[<<i, k>>] = B(g, i, k)
           S == {t \in Nat : \E g : Rows(g, t)}
<1>1. n \in Nat /\ n = Len(line) + 2
  OBVIOUS
<1>2. 0 \in S
  <2>1. Rows(n, 0)
    BY <1>1
  <2> QED BY <2>1
<1>3. ASSUME NEW t \in Nat, t \in S PROVE t + 1 \in S
  <2>1. PICK g : Rows(g, t)
    BY <1>3
  <2>2. CASE t >= n
    <3>1. Rows(g, t + 1) /\ t + 1 \in Nat
      BY <1>1, <2>1, <2>2
    <3> HIDE DEF Rows
    <3> QED BY <3>1
  <2>3. CASE t < n
    <3> DEFINE row == n - t
    <3>1. row \in 1 .. n
      BY <1>1, <2>3
    <3>2. ASSUME NEW i \in row + 1 .. n, NEW k \in Nat PROVE g[<<i, k>>] = B(g, i, k)
      <4>1. i \in 1 .. n /\ i > n - t
        BY <1>1, <3>1
      <4> HIDE DEF B
      <4> QED BY <2>1, <4>1
    <3>3. \A i \in 1 .. n : i > n - (t + 1) => i \in row .. n
      BY <1>1
    <3> HIDE DEF row
    <3>4. PICK h : \A i \in row .. n, k \in Nat : h[<<i, k>>] = B(h, i, k)
      <4>1. ReadInRows(g, line, letters, valued, long, row + 1)
        BY <3>2 DEF ReadInRows
      <4>2. PICK h : ReadInRows(h, line, letters, valued, long, row)
        BY <3>1, <4>1, OneRowMore
      <4> QED BY <4>2 DEF ReadInRows
    <3>5. Rows(h, t + 1) /\ t + 1 \in Nat
      <4> HIDE DEF B
      <4> QED BY <3>3, <3>4
    <3> HIDE DEF Rows
    <3> QED BY <3>5
  <2>4. t >= n \/ t < n
    BY <1>1
  <2> HIDE DEF S
  <2> QED BY <2>2, <2>3, <2>4
<1>4. n \in S
  <2> HIDE DEF S, n
  <2> QED BY <1>1, <1>2, <1>3, SuccessorSet
<1>5. PICK g : Rows(g, n)
  BY <1>4
<1> DEFINE f == [p \in (1 .. n) \X Nat |-> g[p]]
<1>6. \A i \in 1 .. n, k \in Nat : f[<<i, k>>] = g[<<i, k>>]
  OBVIOUS
<1>7. ASSUME NEW i \in 1 .. n, NEW k \in Nat PROVE g[<<i, k>>] = B(f, i, k)
  <2> HIDE DEF f
  <2>1. g[<<i, k>>] = B(g, i, k)
    BY <1>1, <1>5
  <2>2. i \in Nat /\ k + 1 \in Nat /\ (i <= Len(line) => i + 1 \in 1 .. n /\ i + 2 \in 1 .. n)
    BY <1>1
  <2>3. /\ i <= Len(line) => g[<<i + 1, 1>>] = f[<<i + 1, 1>>] /\ g[<<i + 2, 1>>] = f[<<i + 2, 1>>]
        /\ g[<<i, k + 1>>] = f[<<i, k + 1>>]
    BY <1>6, <2>2
  <2>4. AgreeAhead(g, f, line, i, k)
    BY <2>3 DEF AgreeAhead
  <2>5. B(g, i, k) = B(f, i, k)
    BY <2>2, <2>4, ReadsAhead
  <2> QED BY <2>1, <2>5
<1>8. f = [p \in (1 .. n) \X Nat |-> B(f, p[1], p[2])]
  <2> DEFINE h == [p \in (1 .. n) \X Nat |-> B(f, p[1], p[2])]
  <2>1. ASSUME NEW p \in (1 .. n) \X Nat PROVE g[p] = B(f, p[1], p[2])
    <3>1. p[1] \in 1 .. n /\ p[2] \in Nat /\ p = <<p[1], p[2]>>
      OBVIOUS
    <3> HIDE DEF f, n
    <3> QED BY <1>7, <3>1
  <2> HIDE DEF B
  <2> QED BY <2>1
<1>9. Fixed(f, line, letters, valued, long)
  BY <1>8 DEF Fixed
<1>10. O!Readings(line, letters, valued, long) = CHOOSE h : Fixed(h, line, letters, valued, long)
  BY DEF O!Readings, Fixed
<1> HIDE DEF f
<1> QED
  BY <1>9, <1>10

\* What holds of a place if it holds of those read after it holds of all places.
LEMMA Backwards ==
  ASSUME NEW line, Len(line) \in Nat, \A i \in 1 .. Len(line) : Len(line[i].text) \in Nat,
         NEW S,
         \A i \in 1 .. Len(line) + 2, k \in Nat :
           /\ i <= Len(line) => <<i + 1, 1>> \in S /\ <<i + 2, 1>> \in S
           /\ i <= Len(line) /\ k < Len(line[i].text) => <<i, k + 1>> \in S
           => <<i, k>> \in S
  PROVE  \A i \in 1 .. Len(line) + 2, k \in Nat : <<i, k>> \in S
<1> DEFINE n == Len(line)
           Rows(t) == \A i \in 1 .. n + 2, k \in Nat : i > n + 2 - t => <<i, k>> \in S
           T == {t \in Nat : Rows(t)}
<1>1. n \in Nat /\ n = Len(line)
  OBVIOUS
<1>2. Rows(0)
  BY <1>1
<1>3. ASSUME NEW t \in Nat, Rows(t) PROVE Rows(t + 1)
  <2> SUFFICES ASSUME NEW row \in 1 .. n + 2, row = n + 2 - t PROVE \A k \in Nat : <<row, k>> \in S
    BY <1>1, <1>3
  <2> DEFINE L == IF row <= n THEN Len(line[row].text) ELSE 0
             U == {u \in Nat : \A k \in Nat : k > L - u => <<row, k>> \in S}
  <2>1. L \in Nat
    BY <1>1
  <2>2. row <= n => <<row + 1, 1>> \in S /\ <<row + 2, 1>> \in S
    <3>1. row <= n => row + 1 \in 1 .. n + 2 /\ row + 2 \in 1 .. n + 2 /\ row + 1 > n + 2 - t /\ row + 2 > n + 2 - t
      BY <1>1
    <3> QED BY <1>3, <3>1
  <2>3. ASSUME NEW k \in Nat, k < L => <<row, k + 1>> \in S PROVE <<row, k>> \in S
    <3>1. row <= Len(line) /\ k < Len(line[row].text) => <<row, k + 1>> \in S
      BY <1>1, <2>3
    <3> QED BY <1>1, <2>2, <3>1
  <2> HIDE DEF L
  <2>4. 0 \in U
    <3>1. ASSUME NEW k \in Nat, k > L - 0 PROVE <<row, k>> \in S
      <4>1. ~(k < L)
        BY <2>1, <3>1
      <4> QED BY <2>3, <4>1
    <3> QED BY <3>1
  <2>5. ASSUME NEW u \in Nat, u \in U PROVE u + 1 \in U
    <3>1. ASSUME NEW k \in Nat, k > L - (u + 1) PROVE <<row, k>> \in S
      <4>1. CASE k > L - u
        BY <2>5, <4>1
      <4>2. CASE ~(k > L - u)
        <5>1. k + 1 \in Nat /\ k + 1 > L - u
          BY <2>1, <3>1, <4>2
        <5> QED BY <2>3, <2>5, <5>1
      <4> QED BY <4>1, <4>2
    <3> QED BY <3>1
  <2>6. L + 1 \in U
    <3> HIDE DEF U
    <3> QED BY <2>1, <2>4, <2>5, SuccessorSet
  <2>7. \A k \in Nat : k > L - (L + 1)
    BY <2>1
  <2> QED BY <2>6, <2>7
<1>4. n + 2 \in T
  <2>1. 0 \in T /\ \A t \in Nat : t \in T => t + 1 \in T
    BY <1>2, <1>3
  <2>2. n + 2 \in Nat
    BY <1>1
  <2> HIDE DEF T, n
  <2> QED BY <2>1, <2>2, SuccessorSet
<1>5. Rows(n + 2)
  BY <1>4
<1>6. \A i \in 1 .. n + 2 : i > n + 2 - (n + 2)
  BY <1>1
<1> QED
  BY <1>5, <1>6
-----------------------------------------------------------------------------
(* Command lines and readings *)

OptionValues == {O!None} \cup [dash : 0 .. 2, text : Seq(O!Symbols)]
GoodOptions == [option : O!Symbols, value : OptionValues]
ReadingType == [options : Seq(GoodOptions), words : Seq(O!Arguments), faulty : BOOLEAN]

\* The letters and names of a program.
Vocabularies(letters, valued, long) ==
  /\ letters \subseteq O!Symbols /\ valued \subseteq letters
  /\ DOMAIN long \subseteq O!Symbols /\ \A name \in DOMAIN long : long[name] \in BOOLEAN

LEMMA LineFacts ==
  ASSUME NEW line \in O!Lines
  PROVE  /\ line \in Seq(O!Arguments) /\ Len(line) \in Nat /\ DOMAIN line = 1 .. Len(line)
         /\ \A i \in 1 .. Len(line) :
              /\ line[i] \in O!Arguments /\ line[i].pos = i /\ line[i].dash \in 0 .. 2
              /\ line[i].text \in Seq(O!Symbols) /\ Len(line[i].text) \in Nat
              /\ line[i].dash = 2 => Len(line[i].text) <= 2
<1>1. line \in Seq(O!Arguments) /\ Len(line) \in Nat /\ DOMAIN line = 1 .. Len(line)
  BY DEF O!Lines
<1>2. ASSUME NEW i \in 1 .. Len(line)
      PROVE  /\ line[i] \in O!Arguments /\ line[i].pos = i /\ line[i].dash \in 0 .. 2
             /\ line[i].text \in Seq(O!Symbols) /\ Len(line[i].text) \in Nat
             /\ line[i].dash = 2 => Len(line[i].text) <= 2
  <2>1. line[i] \in O!Arguments
    BY <1>1, ElementOfSeq
  <2>2. line[i].pos = i
    BY <1>1 DEF O!Lines
  <2>3. line[i].text \in Seq(O!Symbols)
    BY <2>1 DEF O!Arguments
  <2>4. Len(line[i].text) \in Nat
    BY <2>3, LenProperties
  <2> QED BY <2>1, <2>2, <2>3, <2>4 DEF O!Arguments
<1> QED BY <1>1, <1>2

LEMMA InsideType ==
  ASSUME NEW t \in Seq(O!Symbols), NEW k \in Nat
  PROVE  SubSeq(t, k + 1, Len(t)) \in Seq(O!Symbols)
<1>1. Len(t) \in Nat /\ \A i \in k + 1 .. Len(t) : t[i] \in O!Symbols
  BY LenProperties, ElementOfSeq
<1> QED BY <1>1, SubSeqProperties

LEMMA FaultyType ==
  ASSUME NEW r \in ReadingType
  PROVE  /\ O!Faulty(r) \in ReadingType /\ O!Faulty(r).faulty
         /\ O!Faulty(r).options = r.options /\ O!Faulty(r).words = r.words
BY DEF O!Faulty, ReadingType

LEMMA WithType ==
  ASSUME NEW r \in ReadingType, NEW o \in O!Symbols, NEW v \in OptionValues
  PROVE  /\ O!With(o, v, r) \in ReadingType
         /\ O!With(o, v, r).options = <<[option |-> o, value |-> v]>> \o r.options
         /\ O!With(o, v, r).words = r.words /\ O!With(o, v, r).faulty = r.faulty
<1>1. <<[option |-> o, value |-> v]>> \in Seq(GoodOptions)
  BY DEF GoodOptions
<1>2. <<[option |-> o, value |-> v]>> \o r.options \in Seq(GoodOptions)
  BY <1>1, ConcatProperties DEF ReadingType
<1> HIDE DEF OptionValues, GoodOptions
<1> QED BY <1>2 DEF O!With, ReadingType

\* The readings of a line satisfy their definition, and are readings.
LEMMA ReadingFacts ==
  ASSUME NEW line \in O!Lines, NEW letters, NEW valued, NEW long,
         Vocabularies(letters, valued, long),
         NEW i \in 1 .. Len(line) + 2, NEW k \in Nat
  PROVE  LET f == O!Readings(line, letters, valued, long)
         IN  /\ f[<<i, k>>] = O!ReadFrom(f, line, letters, valued, long, i, k)
             /\ f[<<i, k>>] \in ReadingType
<1> DEFINE f == O!Readings(line, letters, valued, long)
           n == Len(line)
<1>1. /\ line \in Seq(O!Arguments) /\ n \in Nat
      /\ \A j \in 1 .. n :
           /\ line[j] \in O!Arguments /\ line[j].dash \in 0 .. 2
           /\ line[j].text \in Seq(O!Symbols) /\ Len(line[j].text) \in Nat
  BY LineFacts
<1>2. f = [p \in (1 .. n + 2) \X Nat |-> O!ReadFrom(f, line, letters, valued, long, p[1], p[2])]
  <2>1. Len(line) \in Nat /\ \A j \in 1 .. Len(line) : Len(line[j].text) \in Nat
    BY <1>1
  <2>2. Fixed(O!Readings(line, letters, valued, long), line, letters, valued, long)
    BY <2>1, ReadingsExist
  <2> QED BY <2>2 DEF Fixed
<1> HIDE DEF f
<1>3. ASSUME NEW j \in 1 .. n + 2, NEW m \in Nat
      PROVE  f[<<j, m>>] = O!ReadFrom(f, line, letters, valued, long, j, m)
  <2>1. <<j, m>> \in (1 .. n + 2) \X Nat /\ <<j, m>>[1] = j /\ <<j, m>>[2] = m
    OBVIOUS
  <2> QED BY <1>2, <2>1
<1> DEFINE S == {p \in (1 .. n + 2) \X Nat : f[p] \in ReadingType}
<1>4. ASSUME NEW j \in 1 .. n + 2, NEW m \in Nat,
             j <= n => <<j + 1, 1>> \in S /\ <<j + 2, 1>> \in S,
             j <= n /\ m < Len(line[j].text) => <<j, m + 1>> \in S
      PROVE  <<j, m>> \in S
  <2> SUFFICES O!ReadFrom(f, line, letters, valued, long, j, m) \in ReadingType
    BY <1>3
  <2>1. O!NothingLeft \in ReadingType
    BY DEF O!NothingLeft, ReadingType
  <2>2. CASE j > n
    BY <1>1, <2>1, <2>2 DEF O!ReadFrom
  <2>3. CASE j <= n
    <3>1. /\ j \in 1 .. n /\ f[<<j + 1, 1>>] \in ReadingType /\ f[<<j + 2, 1>>] \in ReadingType
          /\ m < Len(line[j].text) => f[<<j, m + 1>>] \in ReadingType
      BY <1>1, <1>4, <2>3
    <3>2. O!None \in OptionValues
      BY DEF OptionValues
    <3>3. \A q \in Nat : O!Inside(line[j], q) \in OptionValues
      BY <1>1, <3>1, InsideType DEF O!Inside, OptionValues
    <3>4. j # n => O!Text(line[j + 1]) \in OptionValues
      BY <1>1, <3>1 DEF O!Text, OptionValues
    <3>5. \A o \in O!Symbols : O!ValueBehind(f, line, o, j) \in ReadingType
      BY <3>1, <3>4, WithType, FaultyType DEF O!ValueBehind
    <3>6. O!ReadName(f, line, long, j) \in ReadingType
      <4> DEFINE name == line[j].text[1]
      <4>1. CASE name \notin DOMAIN long
        <5>1. O!ReadName(f, line, long, j) = O!Faulty(f[<<j + 1, 1>>])
          BY <4>1 DEF O!ReadName
        <5> QED BY <3>1, <5>1, FaultyType
      <4>2. CASE name \in DOMAIN long
        <5>1. name \in O!Symbols /\ O!Inside(line[j], 1) \in OptionValues
          BY <3>3, <4>2 DEF Vocabularies
        <5>2. \/ O!ReadName(f, line, long, j) = O!Faulty(f[<<j + 1, 1>>])
              \/ O!ReadName(f, line, long, j) = O!With(name, O!Inside(line[j], 1), f[<<j + 1, 1>>])
              \/ O!ReadName(f, line, long, j) = O!With(name, O!None, f[<<j + 1, 1>>])
              \/ O!ReadName(f, line, long, j) = O!ValueBehind(f, line, name, j)
          BY <4>2 DEF O!ReadName
        <5> HIDE DEF name
        <5> QED BY <3>1, <3>2, <3>5, <5>1, <5>2, WithType, FaultyType
      <4> QED BY <4>1, <4>2
    <3>7. O!ReadLetter(f, line, letters, valued, j, m) \in ReadingType
      <4> DEFINE c == line[j].text[m]
                 behind == IF m < Len(line[j].text) THEN f[<<j, m + 1>>] ELSE f[<<j + 1, 1>>]
      <4>1. behind \in ReadingType
        BY <3>1
      <4>2. CASE c \notin letters
        <5>1. O!ReadLetter(f, line, letters, valued, j, m) = O!Faulty(behind)
          BY <4>2 DEF O!ReadLetter
        <5> QED BY <4>1, <5>1, FaultyType
      <4>3. CASE c \in letters
        <5>1. c \in O!Symbols /\ O!Inside(line[j], m) \in OptionValues
          BY <3>3, <4>3 DEF Vocabularies
        <5>2. \/ O!ReadLetter(f, line, letters, valued, j, m) = O!With(c, O!None, behind)
              \/ O!ReadLetter(f, line, letters, valued, j, m) = O!With(c, O!Inside(line[j], m), f[<<j + 1, 1>>])
              \/ O!ReadLetter(f, line, letters, valued, j, m) = O!ValueBehind(f, line, c, j)
          BY <4>3 DEF O!ReadLetter
        <5> HIDE DEF c, behind
        <5> QED BY <3>1, <3>2, <3>5, <4>1, <5>1, <5>2, WithType
      <4> QED BY <4>2, <4>3
    <3>8. [O!NothingLeft EXCEPT !.words = SubSeq(line, j + 1, Len(line))] \in ReadingType
      <4>1. SubSeq(line, j + 1, Len(line)) \in Seq(O!Arguments)
        <5>1. \A q \in j + 1 .. Len(line) : line[q] \in O!Arguments
          BY <1>1, <3>1
        <5>2. j + 1 \in Int /\ Len(line) \in Int
          BY <1>1
        <5> QED BY <5>1, <5>2, SubSeqProperties
      <4> QED BY <2>1, <4>1 DEF ReadingType
    <3>9. [f[<<j + 1, 1>>] EXCEPT !.words = <<line[j]>> \o @] \in ReadingType
      <4>1. <<line[j]>> \in Seq(O!Arguments)
        BY <1>1, <3>1
      <4>2. <<line[j]>> \o f[<<j + 1, 1>>].words \in Seq(O!Arguments)
        BY <3>1, <4>1, ConcatProperties DEF ReadingType
      <4> QED BY <3>1, <4>2 DEF ReadingType
    <3> QED
      BY <1>1, <3>1, <3>6, <3>7, <3>8, <3>9 DEF O!ReadFrom
  <2> QED BY <1>1, <2>2, <2>3
<1>5. <<i, k>> \in S
  <2> HIDE DEF S, n
  <2>1. \A j \in 1 .. Len(line) : Len(line[j].text) \in Nat
    BY <1>1 DEF n
  <2> QED BY <1>1, <1>4, <2>1, Backwards DEF n
<1> QED
  BY <1>3, <1>5 DEF f
-----------------------------------------------------------------------------
(* getopt's permutation of argv *)

ScanType ==
  [argv : Seq(O!Arguments), optind : Nat, first : Nat, last : Nat, rest : Seq(O!Symbols)]

\* The blocks of argv are in order.
Ordered(s) ==
  /\ s \in ScanType
  /\ 1 <= s.first /\ s.first <= s.last /\ s.last <= s.optind /\ s.optind <= Len(s.argv) + 1

\* Nothing has been moved yet from optind on.
Untouched(s, line) ==
  Len(s.argv) = Len(line) /\ \A i \in s.optind .. Len(line) : s.argv[i] = line[i]

\* The words that have been passed over.
Skipped(s) == SubSeq(s.argv, s.first, s.last - 1)

LEMMA BlockFacts ==
  ASSUME NEW S, NEW q \in Seq(S), NEW a \in Nat, NEW b \in Nat,
         1 <= a, a <= b, b <= Len(q) + 1
  PROVE  /\ SubSeq(q, a, b - 1) \in Seq(S) /\ Len(SubSeq(q, a, b - 1)) = b - a
         /\ \A i \in 1 .. b - a : SubSeq(q, a, b - 1)[i] = q[a + i - 1]
<1>1. Len(q) \in Nat /\ a \in Int /\ b - 1 \in Int
  BY LenProperties
<1>2. ASSUME NEW i \in a .. b - 1 PROVE q[i] \in S
  <2>1. i \in 1 .. Len(q)
    BY <1>1
  <2> QED BY <2>1, ElementOfSeq
<1>3. /\ SubSeq(q, a, b - 1) \in Seq(S)
      /\ Len(SubSeq(q, a, b - 1)) = IF a <= b - 1 THEN (b - 1) - a + 1 ELSE 0
      /\ \A i \in 1 .. (b - 1) - a + 1 : SubSeq(q, a, b - 1)[i] = q[a + i - 1]
  BY <1>1, <1>2, SubSeqProperties
<1>4. (b - 1) - a + 1 = b - a /\ (IF a <= b - 1 THEN (b - 1) - a + 1 ELSE 0) = b - a
  BY <1>1
<1> QED BY <1>3, <1>4

\* Two neighbouring blocks change places.
Exchanged(q, a, b, c) ==
  SubSeq(q, 1, a - 1) \o SubSeq(q, b, c - 1) \o SubSeq(q, a, b - 1) \o SubSeq(q, c, Len(q))

LEMMA BlocksExchanged ==
  ASSUME NEW S, NEW q \in Seq(S), NEW a \in Nat, NEW b \in Nat, NEW c \in Nat,
         1 <= a, a <= b, b <= c, c <= Len(q) + 1
  PROVE  /\ Exchanged(q, a, b, c) \in Seq(S) /\ Len(Exchanged(q, a, b, c)) = Len(q)
         /\ \A i \in c .. Len(q) : Exchanged(q, a, b, c)[i] = q[i]
         /\ SubSeq(Exchanged(q, a, b, c), a + c - b, c - 1) = SubSeq(q, a, b - 1)
<1> DEFINE n == Len(q)
           x1 == SubSeq(q, 1, a - 1)
           x2 == SubSeq(q, b, c - 1)
           x3 == SubSeq(q, a, b - 1)
           x4 == SubSeq(q, c, n)
           r2 == x1 \o x2
           r3 == r2 \o x3
           r == r3 \o x4
<1>0. n \in Nat
  BY LenProperties
<1>1. x1 \in Seq(S) /\ Len(x1) = a - 1
  BY <1>0, BlockFacts
<1>2. x2 \in Seq(S) /\ Len(x2) = c - b
  BY <1>0, BlockFacts
<1>3. x3 \in Seq(S) /\ Len(x3) = b - a /\ \A i \in 1 .. b - a : x3[i] = q[a + i - 1]
  BY <1>0, BlockFacts
<1>4. x4 \in Seq(S) /\ Len(x4) = n + 1 - c /\ \A i \in 1 .. n + 1 - c : x4[i] = q[c + i - 1]
  <2>1. n + 1 \in Nat /\ (n + 1) - 1 = n /\ c <= n + 1 /\ 1 <= c /\ n + 1 <= Len(q) + 1
    BY <1>0
  <2>2. /\ SubSeq(q, c, (n + 1) - 1) \in Seq(S) /\ Len(SubSeq(q, c, (n + 1) - 1)) = (n + 1) - c
        /\ \A i \in 1 .. (n + 1) - c : SubSeq(q, c, (n + 1) - 1)[i] = q[c + i - 1]
    <3> HIDE DEF n
    <3> QED BY <2>1, BlockFacts
  <2> QED BY <2>1, <2>2
<1> HIDE DEF x1, x2, x3, x4
<1>5. r2 \in Seq(S) /\ Len(r2) = (a - 1) + (c - b)
  <2>1. r2 \in Seq(S) /\ Len(r2) = Len(x1) + Len(x2)
    BY <1>1, <1>2, ConcatProperties
  <2> QED BY <1>1, <1>2, <2>1
<1> HIDE DEF r2
<1> DEFINE e == (a - 1) + (c - b)
<1>e. e \in Nat /\ e + (b - a) = c - 1
  BY <1>0
<1> HIDE DEF e
<1>6. /\ r3 \in Seq(S) /\ Len(r3) = c - 1
      /\ \A i \in 1 .. b - a : r3[e + i] = x3[i]
  <2>1. Len(r2) = e /\ Len(x3) = b - a
    BY <1>3, <1>5 DEF e
  <2>2. /\ r3 \in Seq(S) /\ Len(r3) = e + (b - a)
        /\ \A i \in 1 .. e + (b - a) : r3[i] = IF i <= e THEN r2[i] ELSE x3[i - e]
    <3>1. /\ r3 \in Seq(S) /\ Len(r3) = Len(r2) + Len(x3)
          /\ \A i \in 1 .. Len(r2) + Len(x3) : r3[i] = IF i <= Len(r2) THEN r2[i] ELSE x3[i - Len(r2)]
      BY <1>3, <1>5, ConcatProperties
    <3> QED BY <2>1, <3>1
  <2>3. ASSUME NEW i \in 1 .. b - a PROVE r3[e + i] = x3[i]
    <3>1. e + i \in 1 .. e + (b - a) /\ ~(e + i <= e) /\ (e + i) - e = i
      BY <1>e
    <3> HIDE DEF r3
    <3>2. r3[e + i] = x3[(e + i) - e]
      BY <2>2, <3>1
    <3> QED BY <3>1, <3>2
  <2> QED BY <1>e, <2>2, <2>3
<1> HIDE DEF r3
<1>7. /\ r \in Seq(S) /\ Len(r) = n
      /\ \A i \in 1 .. n : r[i] = IF i <= c - 1 THEN r3[i] ELSE x4[i - (c - 1)]
  <2>1. /\ r \in Seq(S) /\ Len(r) = Len(r3) + Len(x4)
        /\ \A i \in 1 .. Len(r3) + Len(x4) : r[i] = IF i <= Len(r3) THEN r3[i] ELSE x4[i - Len(r3)]
    BY <1>4, <1>6, ConcatProperties
  <2>2. Len(r3) + Len(x4) = n /\ Len(r3) = c - 1
    BY <1>0, <1>4, <1>6
  <2> QED BY <2>1, <2>2
<1>8. ASSUME NEW i \in c .. n PROVE r[i] = q[i]
  <2> HIDE DEF r
  <2>1. i \in 1 .. n /\ ~(i <= c - 1) /\ i - (c - 1) \in 1 .. n + 1 - c /\ c + (i - (c - 1)) - 1 = i
    BY <1>0
  <2> QED BY <1>4, <1>7, <2>1
<1>9. SubSeq(r, a + c - b, c - 1) = x3
  <2> HIDE DEF r, n
  <2> DEFINE d == a + c - b
             y == SubSeq(r, d, c - 1)
  <2>1. d \in Nat /\ 1 <= d /\ d <= c /\ c <= Len(r) + 1 /\ c - d = b - a
    BY <1>0, <1>7 DEF n
  <2> HIDE DEF d
  <2>2. y \in Seq(S) /\ Len(y) = c - d /\ \A i \in 1 .. c - d : y[i] = r[d + i - 1]
    BY <1>7, <2>1, BlockFacts
  <2>3. ASSUME NEW i \in 1 .. b - a PROVE y[i] = x3[i]
    <3>1. d + i - 1 = e + i /\ e + i \in 1 .. n /\ e + i <= c - 1
      BY <1>0, <1>e, <2>1 DEF d, e, n
    <3>2. r[e + i] = r3[e + i]
      BY <1>7, <3>1
    <3>3. y[i] = r[d + i - 1]
      BY <2>1, <2>2
    <3> QED BY <1>6, <3>1, <3>2, <3>3
  <2> HIDE DEF y
  <2>4. y = x3
    BY <1>3, <2>1, <2>2, <2>3, SeqEqual
  <2> QED BY <2>4 DEF y, d
<1> QED
  BY <1>7, <1>8, <1>9 DEF Exchanged, r, r3, r2, x1, x2, x3, x4

LEMMA ExchangeFacts ==
  ASSUME NEW s, Ordered(s)
  PROVE  LET t == O!Exchange(s)
         IN  /\ t \in ScanType /\ t.optind = s.optind /\ t.rest = s.rest
             /\ Len(t.argv) = Len(s.argv)
             /\ \A i \in s.optind .. Len(s.argv) : t.argv[i] = s.argv[i]
             /\ 1 <= t.first /\ t.first <= t.optind /\ t.last = s.optind
             /\ SubSeq(t.argv, t.first, t.optind - 1) = Skipped(s)
<1> DEFINE t == O!Exchange(s)
           r == Exchanged(s.argv, s.first, s.last, s.optind)
<1>1. /\ s.argv \in Seq(O!Arguments) /\ Len(s.argv) \in Nat
      /\ s.first \in Nat /\ s.last \in Nat /\ s.optind \in Nat
      /\ 1 <= s.first /\ s.first <= s.last /\ s.last <= s.optind /\ s.optind <= Len(s.argv) + 1
  BY LenProperties DEF Ordered, ScanType
<1>2. /\ r \in Seq(O!Arguments) /\ Len(r) = Len(s.argv)
      /\ \A i \in s.optind .. Len(s.argv) : r[i] = s.argv[i]
      /\ SubSeq(r, s.first + s.optind - s.last, s.optind - 1) = SubSeq(s.argv, s.first, s.last - 1)
  <2> HIDE DEF t
  <2>1. /\ Exchanged(s.argv, s.first, s.last, s.optind) \in Seq(O!Arguments)
        /\ Len(Exchanged(s.argv, s.first, s.last, s.optind)) = Len(s.argv)
        /\ \A i \in s.optind .. Len(s.argv) :
              Exchanged(s.argv, s.first, s.last, s.optind)[i] = s.argv[i]
        /\ SubSeq(Exchanged(s.argv, s.first, s.last, s.optind), s.first + s.optind - s.last, s.optind - 1)
             = SubSeq(s.argv, s.first, s.last - 1)
    <3> DEFINE q == s.argv  a == s.first  b == s.last  c == s.optind
    <3>1. /\ q \in Seq(O!Arguments) /\ a \in Nat /\ b \in Nat /\ c \in Nat
          /\ 1 <= a /\ a <= b /\ b <= c /\ c <= Len(q) + 1
      BY <1>1
    <3> HIDE DEF q, a, b, c, r
    <3>2. /\ Exchanged(q, a, b, c) \in Seq(O!Arguments)
          /\ Len(Exchanged(q, a, b, c)) = Len(q)
          /\ \A i \in c .. Len(q) : Exchanged(q, a, b, c)[i] = q[i]
          /\ SubSeq(Exchanged(q, a, b, c), a + c - b, c - 1) = SubSeq(q, a, b - 1)
      BY <3>1, BlocksExchanged
    <3> QED BY <3>2 DEF q, a, b, c
  <2> QED BY <2>1
<1>3. t = [s EXCEPT !.argv = r, !.first = @ + s.optind - s.last, !.last = s.optind]
  BY DEF O!Exchange, Exchanged
<1> HIDE DEF t, r
<1>4. /\ t.argv = r /\ t.first = s.first + s.optind - s.last /\ t.last = s.optind
      /\ t.optind = s.optind /\ t.rest = s.rest
  BY <1>3 DEF Ordered, ScanType
<1>5. t.first \in Nat /\ 1 <= t.first /\ t.first <= t.optind
  BY <1>1, <1>4
<1>6. t \in ScanType
  BY <1>1, <1>2, <1>3, <1>4, <1>5 DEF Ordered, ScanType
<1> QED
  BY <1>2, <1>4, <1>5, <1>6 DEF t, Skipped

\* Whatever Permute does, the words passed over end where optind is.
LEMMA PermuteFacts ==
  ASSUME NEW s, Ordered(s)
  PROVE  LET t == O!Permute(s)
         IN  /\ t \in ScanType /\ t.optind = s.optind /\ t.rest = s.rest
             /\ Len(t.argv) = Len(s.argv)
             /\ \A i \in s.optind .. Len(s.argv) : t.argv[i] = s.argv[i]
             /\ 1 <= t.first /\ t.first <= t.optind
             /\ SubSeq(t.argv, t.first, t.optind - 1) = Skipped(s)
<1>1. CASE s.first # s.last /\ s.last # s.optind
  <2>1. O!Permute(s) = O!Exchange(s)
    BY <1>1 DEF O!Permute
  <2> QED BY <2>1, ExchangeFacts
<1>2. CASE s.first = s.last /\ s.last # s.optind
  <2> DEFINE t == O!Permute(s)
  <2>1. t = [s EXCEPT !.first = s.optind]
    BY <1>2 DEF O!Permute
  <2> HIDE DEF t
  <2>2. /\ t \in ScanType /\ t.optind = s.optind /\ t.rest = s.rest /\ t.argv = s.argv
        /\ t.first = s.optind
    BY <2>1 DEF Ordered, ScanType
  <2>3. /\ s.first \in Nat /\ s.last \in Nat /\ s.optind \in Nat
        /\ 1 <= s.first /\ s.first <= s.last /\ s.last <= s.optind
    BY DEF Ordered, ScanType
  <2>4. SubSeq(s.argv, s.optind, s.optind - 1) = <<>> /\ SubSeq(s.argv, s.first, s.last - 1) = <<>>
    BY <1>2, <2>3, SubSeqEmpty
  <2>5. SubSeq(t.argv, t.first, t.optind - 1) = Skipped(s)
    BY <2>2, <2>4 DEF Skipped
  <2>6. 1 <= t.first /\ t.first <= t.optind /\ Len(t.argv) = Len(s.argv)
        /\ \A i \in s.optind .. Len(s.argv) : t.argv[i] = s.argv[i]
    BY <2>2, <2>3
  <2> QED BY <2>2, <2>5, <2>6 DEF t
<1>3. CASE s.last = s.optind
  <2>1. O!Permute(s) = s
    BY <1>3 DEF O!Permute
  <2>2. 1 <= s.first /\ s.first <= s.optind
    BY <1>3 DEF Ordered, ScanType
  <2> QED BY <1>3, <2>1, <2>2 DEF Ordered, Skipped
<1> QED
  BY <1>1, <1>2, <1>3

LEMMA MinFacts ==
  ASSUME NEW T, T \subseteq Nat, T # {}
  PROVE  O!Min(T) \in T /\ \A m \in T : O!Min(T) <= m
<1>1. PICK n \in T : \A m \in T : n <= m
  BY LeastMember
<1> QED
  BY <1>1 DEF O!Min

LEMMA SameBlock ==
  ASSUME NEW S, NEW q \in Seq(S), NEW r \in Seq(S), NEW a \in Nat, NEW b \in Nat,
         1 <= a, a <= b, b <= Len(q) + 1, Len(r) = Len(q),
         \A i \in a .. b - 1 : q[i] = r[i]
  PROVE  SubSeq(q, a, b - 1) = SubSeq(r, a, b - 1)
<1> DEFINE x == SubSeq(q, a, b - 1)
           y == SubSeq(r, a, b - 1)
<1>1. x \in Seq(S) /\ Len(x) = b - a /\ \A i \in 1 .. b - a : x[i] = q[a + i - 1]
  BY BlockFacts
<1>2. y \in Seq(S) /\ Len(y) = b - a /\ \A i \in 1 .. b - a : y[i] = r[a + i - 1]
  BY BlockFacts
<1> HIDE DEF x, y
<1>3. ASSUME NEW i \in 1 .. b - a PROVE x[i] = y[i]
  <2>1. a + i - 1 \in a .. b - 1
    OBVIOUS
  <2>2. q[a + i - 1] = r[a + i - 1]
    BY <2>1
  <2> QED BY <1>1, <1>2, <2>2
<1>4. x = y
  BY <1>1, <1>2, <1>3, SeqEqual
<1> QED
  BY <1>4 DEF x, y

LEMMA TwoBlocks ==
  ASSUME NEW S, NEW q \in Seq(S), NEW a \in Nat, NEW b \in Nat, NEW c \in Nat,
         1 <= a, a <= b, b <= c, c <= Len(q) + 1
  PROVE  SubSeq(q, a, c - 1) = SubSeq(q, a, b - 1) \o SubSeq(q, b, c - 1)
<1>1. Len(q) \in Nat
  BY LenProperties
<1>2. a \in 1 .. Len(q) + 1 /\ b - 1 \in a - 1 .. Len(q) /\ c - 1 \in b - 1 .. Len(q) /\ (b - 1) + 1 = b
  BY <1>1
<1>3. SubSeq(q, a, b - 1) \o SubSeq(q, (b - 1) + 1, c - 1) = SubSeq(q, a, c - 1)
  BY <1>2, ConcatAdjacentSubSeq
<1> QED
  BY <1>2, <1>3

\* f holds the readings of a line.
IsReading(f, line, letters, valued, long) ==
  /\ line \in O!Lines /\ Vocabularies(letters, valued, long)
  /\ \A i \in 1 .. Len(line) + 2, k \in Nat :
       /\ f[<<i, k>>] = O!ReadFrom(f, line, letters, valued, long, i, k)
       /\ f[<<i, k>>] \in ReadingType

LEMMA ReadingsAreReadings ==
  ASSUME NEW line \in O!Lines, NEW letters, NEW valued, NEW long, Vocabularies(letters, valued, long)
  PROVE  IsReading(O!Readings(line, letters, valued, long), line, letters, valued, long)
BY ReadingFacts DEF IsReading

\* Words are read one after the other.
LEMMA WordsRead ==
  ASSUME NEW f, NEW line, NEW letters, NEW valued, NEW long,
         IsReading(f, line, letters, valued, long),
         NEW i \in 1 .. Len(line) + 1, NEW j \in i .. Len(line) + 1,
         \A m \in i .. j - 1 : O!Plain(line[m])
  PROVE  /\ f[<<i, 1>>].options = f[<<j, 1>>].options /\ f[<<i, 1>>].faulty = f[<<j, 1>>].faulty
         /\ f[<<i, 1>>].words = SubSeq(line, i, j - 1) \o f[<<j, 1>>].words
<1> DEFINE n == Len(line)
           Read(h) == /\ f[<<h, 1>>].options = f[<<j, 1>>].options /\ f[<<h, 1>>].faulty = f[<<j, 1>>].faulty
                      /\ f[<<h, 1>>].words = SubSeq(line, h, j - 1) \o f[<<j, 1>>].words
           T == {t \in Nat : j - t >= i => Read(j - t)}
<1>1. line \in O!Lines /\ line \in Seq(O!Arguments) /\ n \in Nat
      /\ \A m \in 1 .. n : line[m] \in O!Arguments
  BY LineFacts DEF IsReading
<1>2. j \in Nat /\ i \in Nat /\ 1 <= i /\ i <= j /\ j <= n + 1
  BY <1>1
<1>3. \A h \in 1 .. n + 1 : f[<<h, 1>>] \in ReadingType
  BY <1>1 DEF IsReading
<1>4. Read(j)
  <2>1. SubSeq(line, j, j - 1) = <<>>
    BY <1>2, SubSeqEmpty
  <2>2. f[<<j, 1>>].words \in Seq(O!Arguments)
    BY <1>2, <1>3 DEF ReadingType
  <2>3. <<>> \o f[<<j, 1>>].words = f[<<j, 1>>].words
    BY <2>2, ConcatEmptySeq
  <2> QED BY <2>1, <2>3
<1>5. ASSUME NEW h \in i .. j - 1, Read(h + 1) PROVE Read(h)
  <2>1. /\ h \in 1 .. n /\ h \in 1 .. n + 2 /\ h + 1 \in 1 .. n + 1 /\ ~(h > n) /\ h + 1 <= j
        /\ j - 1 \in h .. n /\ h \in 1 .. n + 1
    BY <1>1, <1>2
  <2>2. O!Plain(line[h]) /\ ~O!Terminator(line[h])
    BY DEF O!Plain, O!Terminator
  <2>3. f[<<h, 1>>] = [f[<<h + 1, 1>>] EXCEPT !.words = <<line[h]>> \o @]
    <3>1. f[<<h, 1>>] = O!ReadFrom(f, line, letters, valued, long, h, 1)
      BY <1>1, <2>1 DEF IsReading
    <3> QED BY <2>1, <2>2, <3>1 DEF O!ReadFrom
  <2>4. /\ f[<<h, 1>>].options = f[<<h + 1, 1>>].options /\ f[<<h, 1>>].faulty = f[<<h + 1, 1>>].faulty
        /\ f[<<h, 1>>].words = <<line[h]>> \o f[<<h + 1, 1>>].words
    BY <1>3, <2>1, <2>3 DEF ReadingType
  <2>5. SubSeq(line, h, j - 1) = <<line[h]>> \o SubSeq(line, h + 1, j - 1)
    BY <1>1, <2>1, SubSeqRecursiveFirst
  <2>6. /\ <<line[h]>> \in Seq(O!Arguments) /\ SubSeq(line, h + 1, j - 1) \in Seq(O!Arguments)
        /\ f[<<j, 1>>].words \in Seq(O!Arguments)
    <3>1. SubSeq(line, h + 1, j - 1) \in Seq(O!Arguments)
      BY <1>1, <1>2, <2>1, BlockFacts
    <3>2. f[<<j, 1>>] \in ReadingType
      <4>1. j \in 1 .. n + 1
        BY <1>2
      <4> QED BY <1>3, <4>1
    <3>3. f[<<j, 1>>].words \in Seq(O!Arguments)
      BY <3>2 DEF ReadingType
    <3> QED BY <1>1, <2>1, <3>1, <3>3
  <2>7. (<<line[h]>> \o SubSeq(line, h + 1, j - 1)) \o f[<<j, 1>>].words
          = <<line[h]>> \o (SubSeq(line, h + 1, j - 1) \o f[<<j, 1>>].words)
    <3> DEFINE x == <<line[h]>>  y == SubSeq(line, h + 1, j - 1)  z == f[<<j, 1>>].words
    <3>1. x \in Seq(O!Arguments) /\ y \in Seq(O!Arguments) /\ z \in Seq(O!Arguments)
      BY <2>6
    <3> HIDE DEF x, y, z
    <3>2. (x \o y) \o z = x \o (y \o z)
      BY <3>1, ConcatAssociative
    <3> QED BY <3>2 DEF x, y, z
  <2>8. /\ f[<<h, 1>>].options = f[<<j, 1>>].options /\ f[<<h, 1>>].faulty = f[<<j, 1>>].faulty
        /\ f[<<h + 1, 1>>].words = SubSeq(line, h + 1, j - 1) \o f[<<j, 1>>].words
    BY <1>5, <2>4
  <2>9. f[<<h, 1>>].words = <<line[h]>> \o (SubSeq(line, h + 1, j - 1) \o f[<<j, 1>>].words)
    BY <2>4, <2>8
  <2>10. f[<<h, 1>>].words = SubSeq(line, h, j - 1) \o f[<<j, 1>>].words
    BY <2>5, <2>7, <2>9
  <2> QED BY <2>8, <2>10
<1>6. 0 \in T
  BY <1>2, <1>4
<1>7. ASSUME NEW t \in Nat, t \in T PROVE t + 1 \in T
  <2>1. ASSUME j - (t + 1) >= i PROVE Read(j - (t + 1))
    <3> DEFINE h == j - (t + 1)
    <3>1. h \in i .. j - 1 /\ h + 1 = j - t /\ j - t >= i
      BY <1>2, <2>1
    <3>2. Read(h + 1)
      <4> HIDE DEF Read, h
      <4> QED BY <1>7, <3>1
    <3> HIDE DEF Read
    <3> QED BY <1>5, <3>1, <3>2
  <2> HIDE DEF Read
  <2> QED BY <2>1
<1>8. j - i \in T
  <2>1. j - i \in Nat
    BY <1>2
  <2> HIDE DEF T
  <2> QED BY <1>6, <1>7, <2>1, SuccessorSet
<1>9. Read(i)
  <2>1. j - (j - i) = i
    BY <1>2
  <2> HIDE DEF Read
  <2> QED BY <1>2, <1>8, <2>1
<1> QED
  BY <1>9

\* The letter of its cluster getopt stands at.
LetterAt(s, line) == IF s.rest = <<>> THEN 1 ELSE Len(line[s.optind].text) - Len(s.rest) + 1

ScanOK(s, line) ==
  /\ Ordered(s) /\ Untouched(s, line)
  /\ s.rest # <<>> =>
       /\ s.optind <= Len(line) /\ line[s.optind].dash = 1
       /\ LetterAt(s, line) \in 2 .. Len(line[s.optind].text)
       /\ s.rest = SubSeq(line[s.optind].text, LetterAt(s, line), Len(line[s.optind].text))

\* What is still to be read.
Left(f, s, line) == f[<<s.optind, LetterAt(s, line)>>]

\* The words passed over and those to come.
AllWords(f, s, line) == Skipped(s) \o Left(f, s, line).words

LEMMA ScanFacts ==
  ASSUME NEW line \in O!Lines, NEW s, ScanOK(s, line)
  PROVE  /\ s.argv \in Seq(O!Arguments) /\ Len(s.argv) = Len(line) /\ Len(line) \in Nat
         /\ s.first \in Nat /\ s.last \in Nat /\ s.optind \in Nat /\ s.rest \in Seq(O!Symbols)
         /\ 1 <= s.first /\ s.first <= s.last /\ s.last <= s.optind /\ s.optind <= Len(line) + 1
         /\ \A i \in s.optind .. Len(line) : s.argv[i] = line[i]
         /\ Skipped(s) \in Seq(O!Arguments)
         /\ O!Argc(s) = Len(line) + 1
<1>1. /\ s.argv \in Seq(O!Arguments) /\ Len(s.argv) = Len(line) /\ Len(line) \in Nat
      /\ s.first \in Nat /\ s.last \in Nat /\ s.optind \in Nat /\ s.rest \in Seq(O!Symbols)
      /\ 1 <= s.first /\ s.first <= s.last /\ s.last <= s.optind /\ s.optind <= Len(line) + 1
      /\ \A i \in s.optind .. Len(line) : s.argv[i] = line[i]
  BY LineFacts DEF ScanOK, Ordered, Untouched, ScanType
<1>2. Skipped(s) \in Seq(O!Arguments)
  BY <1>1, BlockFacts DEF Skipped
<1> QED
  BY <1>1, <1>2 DEF O!Argc

\* Where getopt stands after having passed over words.
LEMMA Joined ==
  ASSUME NEW S, NEW x \in Seq(S), NEW y \in Seq(S), NEW z \in Seq(S)
  PROVE  (x \o y) \o z = x \o (y \o z) /\ x \o y \in Seq(S)
BY ConcatAssociative, ConcatProperties

\* The words are passed over one after the other.
LEMMA SkipFacts ==
  ASSUME NEW f, NEW line, NEW letters, NEW valued, NEW long,
         IsReading(f, line, letters, valued, long),
         NEW s, ScanOK(s, line), s.rest = <<>>
  PROVE  LET w == O!SkipWords(O!Permute(s))
         IN  /\ ScanOK(w, line) /\ w.rest = <<>> /\ s.optind <= w.optind
             /\ Left(f, w, line).options = Left(f, s, line).options
             /\ Left(f, w, line).faulty = Left(f, s, line).faulty
             /\ AllWords(f, w, line) = AllWords(f, s, line)
             /\ w.optind <= Len(line) => ~O!Plain(line[w.optind])
             /\ \A m \in s.optind .. w.optind - 1 : O!Plain(line[m])
             /\ w.last = w.optind
<1> DEFINE n == Len(line)
           p == O!Permute(s)
           T == {i \in p.optind .. O!Argc(p) : i = O!Argc(p) \/ ~O!Plain(p.argv[i])}
           next == O!Min(T)
           w == O!SkipWords(p)
<1>1. line \in O!Lines /\ line \in Seq(O!Arguments) /\ n \in Nat
  BY LineFacts DEF IsReading
<1>2. /\ s.argv \in Seq(O!Arguments) /\ Len(s.argv) = n
      /\ s.optind \in Nat /\ 1 <= s.optind /\ s.optind <= n + 1
      /\ \A i \in s.optind .. n : s.argv[i] = line[i]
      /\ Skipped(s) \in Seq(O!Arguments) /\ Ordered(s)
  BY <1>1, ScanFacts DEF ScanOK
<1>3. /\ p \in ScanType /\ p.optind = s.optind /\ p.rest = <<>> /\ Len(p.argv) = n
      /\ \A i \in s.optind .. n : p.argv[i] = s.argv[i]
      /\ 1 <= p.first /\ p.first <= p.optind
      /\ SubSeq(p.argv, p.first, p.optind - 1) = Skipped(s)
  BY <1>2, PermuteFacts
<1> HIDE DEF p
<1>4. p.argv \in Seq(O!Arguments) /\ p.first \in Nat /\ O!Argc(p) = n + 1
  BY <1>3 DEF ScanType, O!Argc
<1>5. T \subseteq Nat /\ T # {}
  <2>1. n + 1 \in T
    BY <1>1, <1>2, <1>3, <1>4
  <2>2. T \subseteq Nat
    BY <1>1, <1>2, <1>3, <1>4
  <2> QED BY <2>1, <2>2
<1>6. next \in T /\ \A m \in T : next <= m
  <2> HIDE DEF T
  <2> QED BY <1>5, MinFacts
<1>7. w = [p EXCEPT !.optind = next, !.last = next]
  BY DEF O!SkipWords
<1> HIDE DEF w, next
<1>8. /\ next \in Nat /\ s.optind <= next /\ next <= n + 1
      /\ next <= n => ~O!Plain(line[next])
  <2>1. next \in s.optind .. n + 1 /\ (next = n + 1 \/ ~O!Plain(p.argv[next]))
    BY <1>3, <1>4, <1>6
  <2>2. next <= n => p.argv[next] = line[next]
    BY <1>1, <1>2, <1>3, <2>1
  <2> QED BY <1>1, <1>2, <2>1, <2>2
<1>9. \A m \in s.optind .. next - 1 : O!Plain(line[m])
  <2> SUFFICES ASSUME NEW m \in s.optind .. next - 1, ~O!Plain(line[m]) PROVE FALSE
    OBVIOUS
  <2>1. m \in s.optind .. n /\ m < next
    BY <1>1, <1>2, <1>8
  <2>2. m \in T
    BY <1>1, <1>2, <1>3, <1>4, <2>1
  <2> HIDE DEF T
  <2> QED BY <1>2, <1>6, <1>8, <2>1, <2>2
<1> HIDE DEF T
<1>10. /\ w \in ScanType /\ w.argv = p.argv /\ w.optind = next /\ w.last = next /\ w.first = p.first
       /\ w.rest = <<>>
  BY <1>3, <1>7, <1>8 DEF ScanType
<1>11. ScanOK(w, line)
  <2>1. Ordered(w)
    BY <1>2, <1>3, <1>4, <1>8, <1>10 DEF Ordered
  <2>2. Untouched(w, line)
    BY <1>2, <1>3, <1>8, <1>10 DEF Untouched
  <2> QED BY <1>10, <2>1, <2>2 DEF ScanOK
<1>12. /\ Left(f, s, line) = f[<<s.optind, 1>>] /\ Left(f, w, line) = f[<<next, 1>>]
  BY <1>10 DEF Left, LetterAt
<1>13. /\ f[<<s.optind, 1>>].options = f[<<next, 1>>].options
       /\ f[<<s.optind, 1>>].faulty = f[<<next, 1>>].faulty
       /\ f[<<s.optind, 1>>].words = SubSeq(line, s.optind, next - 1) \o f[<<next, 1>>].words
  <2> DEFINE i == s.optind
  <2>1. i \in 1 .. Len(line) + 1 /\ next \in i .. Len(line) + 1
    BY <1>1, <1>2, <1>8
  <2>2. \A m \in i .. next - 1 : O!Plain(line[m])
    BY <1>9
  <2> HIDE DEF i
  <2>3. /\ f[<<i, 1>>].options = f[<<next, 1>>].options
        /\ f[<<i, 1>>].faulty = f[<<next, 1>>].faulty
        /\ f[<<i, 1>>].words = SubSeq(line, i, next - 1) \o f[<<next, 1>>].words
    BY <2>1, <2>2, WordsRead
  <2> QED BY <2>3 DEF i
<1>14. Skipped(w) = Skipped(s) \o SubSeq(line, s.optind, next - 1)
  <2>1. SubSeq(p.argv, s.optind, next - 1) = SubSeq(line, s.optind, next - 1)
    <3> DEFINE q == p.argv  a == s.optind
    <3>1. /\ q \in Seq(O!Arguments) /\ a \in Nat /\ 1 <= a /\ a <= next /\ next <= Len(q) + 1
          /\ Len(line) = Len(q) /\ \A i \in a .. next - 1 : q[i] = line[i]
      BY <1>1, <1>2, <1>3, <1>4, <1>8
    <3> HIDE DEF q, a
    <3>2. SubSeq(q, a, next - 1) = SubSeq(line, a, next - 1)
      BY <1>1, <1>8, <3>1, SameBlock
    <3> QED BY <3>2 DEF q, a
  <2>2. SubSeq(p.argv, p.first, next - 1)
          = SubSeq(p.argv, p.first, s.optind - 1) \o SubSeq(p.argv, s.optind, next - 1)
    <3> DEFINE q == p.argv  a == p.first  b == s.optind
    <3>1. /\ q \in Seq(O!Arguments) /\ a \in Nat /\ b \in Nat /\ next \in Nat
          /\ 1 <= a /\ a <= b /\ b <= next /\ next <= Len(q) + 1
      BY <1>2, <1>3, <1>4, <1>8
    <3> HIDE DEF q, a, b
    <3>2. SubSeq(q, a, next - 1) = SubSeq(q, a, b - 1) \o SubSeq(q, b, next - 1)
      BY <3>1, TwoBlocks
    <3> QED BY <3>2 DEF q, a, b
  <2> QED BY <1>3, <1>10, <2>1, <2>2 DEF Skipped
<1>15. AllWords(f, w, line) = AllWords(f, s, line)
  <2> DEFINE x == Skipped(s)  y == SubSeq(line, s.optind, next - 1)  z == f[<<next, 1>>].words
  <2>1. x \in Seq(O!Arguments) /\ y \in Seq(O!Arguments)
    BY <1>1, <1>2, <1>8, BlockFacts
  <2>2. z \in Seq(O!Arguments)
    <3>1. next \in 1 .. Len(line) + 2
      BY <1>1, <1>2, <1>8
    <3>2. f[<<next, 1>>] \in ReadingType
      BY <3>1 DEF IsReading
    <3> QED BY <3>2 DEF ReadingType
  <2>3. AllWords(f, w, line) = (x \o y) \o z /\ AllWords(f, s, line) = x \o (y \o z)
    BY <1>12, <1>13, <1>14 DEF AllWords
  <2> HIDE DEF x, y, z
  <2> QED BY <2>1, <2>2, <2>3, Joined
<1> QED
  BY <1>8, <1>9, <1>10, <1>11, <1>12, <1>13, <1>15 DEF w, p

\* Behind "--" there are only words.
LEMMA TerminatorFacts ==
  ASSUME NEW f, NEW line, NEW letters, NEW valued, NEW long,
         IsReading(f, line, letters, valued, long),
         NEW w, ScanOK(w, line), w.rest = <<>>, w.last = w.optind,
         w.optind <= Len(line), O!Terminator(line[w.optind])
  PROVE  LET t == O!SkipTerminator(w)
         IN  /\ ScanOK(t, line) /\ t.rest = <<>> /\ t.optind = Len(line) + 1 /\ t.last = t.optind
             /\ Left(f, t, line).options = Left(f, w, line).options
             /\ Left(f, t, line).faulty = Left(f, w, line).faulty
             /\ AllWords(f, t, line) = AllWords(f, w, line)
<1> DEFINE n == Len(line)
           i == w.optind
           v == [w EXCEPT !.optind = @ + 1]
           p == O!Permute(v)
           t == O!SkipTerminator(w)
<1>1. line \in O!Lines /\ line \in Seq(O!Arguments) /\ n \in Nat
  BY LineFacts DEF IsReading
<1>2. /\ w.argv \in Seq(O!Arguments) /\ Len(w.argv) = n /\ O!Argc(w) = n + 1
      /\ w.first \in Nat /\ 1 <= w.first /\ w.first <= i
      /\ i \in Nat /\ 1 <= i /\ i <= n
      /\ \A m \in i .. n : w.argv[m] = line[m]
      /\ Skipped(w) \in Seq(O!Arguments) /\ w \in ScanType
  BY <1>1, ScanFacts DEF ScanOK, Ordered
<1>3. /\ v \in ScanType /\ v.optind = i + 1 /\ v.argv = w.argv /\ v.first = w.first /\ v.last = i
      /\ v.rest = <<>>
  BY <1>2 DEF ScanType
<1>4. t = [p EXCEPT !.last = n + 1, !.optind = n + 1]
  <2>1. w.optind < O!Argc(w) /\ O!Terminator(w.argv[w.optind])
    BY <1>1, <1>2
  <2> HIDE DEF p
  <2>2. t = [O!Permute([w EXCEPT !.optind = @ + 1]) EXCEPT !.last = O!Argc(w), !.optind = O!Argc(w)]
    BY <2>1 DEF O!SkipTerminator
  <2> QED BY <1>2, <2>2 DEF p
<1> HIDE DEF v, t
<1>5. Ordered(v) /\ Skipped(v) = Skipped(w)
  BY <1>1, <1>2, <1>3 DEF Ordered, Skipped
<1>6. /\ p \in ScanType /\ p.optind = i + 1 /\ p.rest = <<>> /\ Len(p.argv) = n
      /\ \A m \in i + 1 .. n : p.argv[m] = line[m]
      /\ 1 <= p.first /\ p.first <= i + 1
      /\ SubSeq(p.argv, p.first, (i + 1) - 1) = Skipped(w)
  <2> DEFINE o == i + 1
  <2>1. /\ p \in ScanType /\ p.optind = o /\ p.rest = <<>> /\ Len(p.argv) = n
        /\ \A m \in o .. n : p.argv[m] = w.argv[m]
        /\ 1 <= p.first /\ p.first <= o
        /\ SubSeq(p.argv, p.first, o - 1) = Skipped(w)
    <3> HIDE DEF o
    <3>1. v.optind = o /\ Len(v.argv) = n
      BY <1>2, <1>3 DEF o
    <3> QED BY <1>3, <1>5, <3>1, PermuteFacts
  <2>2. \A m \in o .. n : w.argv[m] = line[m]
    BY <1>2
  <2> QED BY <2>1, <2>2
<1> HIDE DEF p
<1>7. p.argv \in Seq(O!Arguments) /\ p.first \in Nat
  BY <1>6 DEF ScanType
<1>8. /\ t \in ScanType /\ t.argv = p.argv /\ t.first = p.first /\ t.last = n + 1 /\ t.optind = n + 1
      /\ t.rest = <<>>
  <2> DEFINE e == n + 1
  <2>1. e \in Nat /\ t = [p EXCEPT !.last = e, !.optind = e]
    BY <1>1, <1>4
  <2> HIDE DEF e
  <2>2. /\ t \in ScanType /\ t.argv = p.argv /\ t.first = p.first /\ t.last = e /\ t.optind = e
        /\ t.rest = <<>>
    BY <1>6, <2>1 DEF ScanType
  <2> QED BY <2>2 DEF e
<1>9. ScanOK(t, line)
  <2>1. Ordered(t)
    BY <1>1, <1>2, <1>6, <1>7, <1>8 DEF Ordered
  <2>2. Untouched(t, line)
    <3>1. \A m \in n + 1 .. n : t.argv[m] = line[m]
      BY <1>1
    <3> QED BY <1>6, <1>8, <3>1 DEF Untouched
  <2> QED BY <1>8, <2>1, <2>2 DEF ScanOK
<1>10. Skipped(t) = Skipped(w) \o SubSeq(line, i + 1, n)
  <2> DEFINE q == p.argv  a == p.first  b == i + 1  c == n + 1
  <2>1. /\ q \in Seq(O!Arguments) /\ a \in Nat /\ b \in Nat /\ c \in Nat
        /\ 1 <= a /\ a <= b /\ 1 <= b /\ b <= c /\ c <= Len(q) + 1 /\ Len(line) = Len(q)
    BY <1>1, <1>2, <1>6, <1>7
  <2>2. \A m \in b .. c - 1 : q[m] = line[m]
    BY <1>1, <1>2, <1>6
  <2>3. Skipped(t) = SubSeq(q, a, c - 1) /\ SubSeq(q, a, b - 1) = Skipped(w) /\ c - 1 = n
    <3>1. Skipped(t) = SubSeq(p.argv, p.first, (n + 1) - 1)
      BY <1>8 DEF Skipped
    <3>2. c - 1 = n
      BY <1>1
    <3> QED BY <1>6, <3>1, <3>2
  <2> HIDE DEF q, a, b, c
  <2>4. SubSeq(q, a, c - 1) = SubSeq(q, a, b - 1) \o SubSeq(q, b, c - 1)
    BY <2>1, TwoBlocks
  <2>5. SubSeq(q, b, c - 1) = SubSeq(line, b, c - 1)
    BY <1>1, <2>1, <2>2, SameBlock
  <2>6. Skipped(t) = Skipped(w) \o SubSeq(line, b, n)
    BY <2>3, <2>4, <2>5
  <2> QED BY <2>6 DEF b
<1>11. /\ Left(f, w, line) = [O!NothingLeft EXCEPT !.words = SubSeq(line, i + 1, n)]
       /\ Left(f, t, line) = O!NothingLeft
  <2>1. Left(f, w, line) = f[<<i, 1>>] /\ Left(f, t, line) = f[<<n + 1, 1>>]
    BY <1>8 DEF Left, LetterAt
  <2>2. f[<<i, 1>>] = O!ReadFrom(f, line, letters, valued, long, i, 1)
    <3>1. i \in 1 .. Len(line) + 2 /\ 1 \in Nat
      BY <1>1, <1>2
    <3> HIDE DEF i
    <3> QED BY <3>1 DEF IsReading
  <2>3. f[<<n + 1, 1>>] = O!ReadFrom(f, line, letters, valued, long, n + 1, 1)
    <3>1. n + 1 \in 1 .. Len(line) + 2 /\ 1 \in Nat
      BY <1>1
    <3> DEFINE m == n + 1
    <3>2. m \in 1 .. Len(line) + 2
      BY <3>1
    <3> HIDE DEF m
    <3>3. f[<<m, 1>>] = O!ReadFrom(f, line, letters, valued, long, m, 1)
      BY <3>1, <3>2 DEF IsReading
    <3> QED BY <3>3 DEF m
  <2>4. ~(i > Len(line)) /\ n + 1 > Len(line)
    BY <1>1, <1>2
  <2>5. O!ReadFrom(f, line, letters, valued, long, n + 1, 1) = O!NothingLeft
    BY <2>4 DEF O!ReadFrom
  <2>6. O!ReadFrom(f, line, letters, valued, long, i, 1)
          = [O!NothingLeft EXCEPT !.words = SubSeq(line, i + 1, Len(line))]
    <3>1. O!Terminator(line[i]) /\ ~O!Plain(line[i])
      BY DEF O!Terminator, O!Plain
    <3> HIDE DEF i
    <3> QED BY <2>4, <3>1 DEF O!ReadFrom
  <2> QED BY <2>1, <2>2, <2>3, <2>5, <2>6
<1>12. /\ Left(f, w, line).options = <<>> /\ Left(f, t, line).options = <<>>
       /\ Left(f, w, line).faulty = FALSE /\ Left(f, t, line).faulty = FALSE
       /\ Left(f, w, line).words = SubSeq(line, i + 1, n) /\ Left(f, t, line).words = <<>>
  <2> DEFINE e == SubSeq(line, i + 1, n)
  <2>1. Left(f, w, line) = [O!NothingLeft EXCEPT !.words = e]
    BY <1>11
  <2> HIDE DEF e
  <2>2. /\ Left(f, w, line).options = <<>> /\ Left(f, w, line).faulty = FALSE
        /\ Left(f, w, line).words = e
    BY <2>1 DEF O!NothingLeft
  <2>3. /\ Left(f, t, line).options = <<>> /\ Left(f, t, line).faulty = FALSE
        /\ Left(f, t, line).words = <<>>
    BY <1>11 DEF O!NothingLeft
  <2> QED BY <2>2, <2>3 DEF e
<1>13. AllWords(f, t, line) = AllWords(f, w, line)
  <2> DEFINE x == Skipped(t)
  <2>1. x \in Seq(O!Arguments)
    BY <1>1, <1>9, ScanFacts
  <2>2. x \o <<>> = x
    <3> HIDE DEF x
    <3> QED BY <2>1, ConcatEmptySeq
  <2> QED BY <1>10, <1>12, <2>2 DEF AllWords
<1> QED
  BY <1>8, <1>9, <1>12, <1>13 DEF t

\* getopt goes on to the next option, if there is one.
LEMMA AdvanceFacts ==
  ASSUME NEW f, NEW line, NEW letters, NEW valued, NEW long,
         IsReading(f, line, letters, valued, long),
         NEW s, ScanOK(s, line), s.rest = <<>>
  PROVE  LET t == O!Advance(s)
         IN  /\ ScanOK(t, line) /\ t.rest = <<>> /\ s.optind <= t.optind /\ t.last = t.optind
             /\ Left(f, t, line).options = Left(f, s, line).options
             /\ Left(f, t, line).faulty = Left(f, s, line).faulty
             /\ AllWords(f, t, line) = AllWords(f, s, line)
             /\ t.optind <= Len(line) =>
                  /\ ~O!Plain(line[t.optind]) /\ ~O!Terminator(line[t.optind])
                  /\ \A m \in s.optind .. t.optind - 1 : O!Plain(line[m])
<1> DEFINE w == O!SkipWords(O!Permute(s))
<1>1. /\ ScanOK(w, line) /\ w.rest = <<>> /\ s.optind <= w.optind
      /\ Left(f, w, line).options = Left(f, s, line).options
      /\ Left(f, w, line).faulty = Left(f, s, line).faulty
      /\ AllWords(f, w, line) = AllWords(f, s, line)
      /\ w.optind <= Len(line) => ~O!Plain(line[w.optind])
      /\ \A m \in s.optind .. w.optind - 1 : O!Plain(line[m])
      /\ w.last = w.optind
  BY SkipFacts
<1>2. O!Advance(s) = O!SkipTerminator(w)
  BY DEF O!Advance
<1> HIDE DEF w
<1>3. /\ line \in O!Lines /\ Len(line) \in Nat /\ w.optind \in Nat /\ O!Argc(w) = Len(line) + 1
      /\ s.optind \in Nat /\ s.optind <= Len(line) + 1
      /\ w.optind <= Len(line) => w.argv[w.optind] = line[w.optind]
  <2>1. line \in O!Lines
    BY DEF IsReading
  <2>2. /\ Len(line) \in Nat /\ w.optind \in Nat /\ O!Argc(w) = Len(line) + 1
        /\ s.optind \in Nat /\ s.optind <= Len(line) + 1
        /\ \A i \in w.optind .. Len(line) : w.argv[i] = line[i]
    BY <1>1, <2>1, ScanFacts
  <2> QED BY <2>1, <2>2
<1>4. CASE w.optind <= Len(line) /\ O!Terminator(line[w.optind])
  <2>1. /\ ScanOK(O!SkipTerminator(w), line) /\ O!SkipTerminator(w).rest = <<>>
        /\ O!SkipTerminator(w).optind = Len(line) + 1
        /\ O!SkipTerminator(w).last = O!SkipTerminator(w).optind
        /\ Left(f, O!SkipTerminator(w), line).options = Left(f, w, line).options
        /\ Left(f, O!SkipTerminator(w), line).faulty = Left(f, w, line).faulty
        /\ AllWords(f, O!SkipTerminator(w), line) = AllWords(f, w, line)
    BY <1>1, <1>4, TerminatorFacts
  <2>2. ~(Len(line) + 1 <= Len(line))
    BY <1>3
  <2> QED BY <1>1, <1>2, <1>3, <2>1, <2>2
<1>5. CASE ~(w.optind <= Len(line) /\ O!Terminator(line[w.optind]))
  <2>1. O!SkipTerminator(w) = w
    <3>1. w.optind < O!Argc(w) => w.optind <= Len(line)
      BY <1>3
    <3> QED BY <1>3, <1>5, <3>1 DEF O!SkipTerminator
  <2> QED BY <1>1, <1>2, <1>5, <2>1
<1> QED
  BY <1>4, <1>5

\* What a call that finds an option does to what is still to be read: r is the
\* reading before it.
Outcome(f, c, line, r, skipped, names) ==
  /\ ScanOK(c.scan, line) /\ Skipped(c.scan) = skipped
  /\ Left(f, c.scan, line).words = r.words
  /\ \/ c.option = "?" /\ r.faulty /\ Left(f, c.scan, line).options = r.options
     \/ /\ c.option \in names /\ c.value \in OptionValues
        /\ r.options = <<[option |-> c.option, value |-> c.value]>> \o Left(f, c.scan, line).options
        /\ r.faulty = Left(f, c.scan, line).faulty

LEMMA BadOption ==
  ASSUME NEW f, NEW line, NEW skipped, NEW names, NEW t, NEW q \in ReadingType,
         ScanOK(t, line), Skipped(t) = skipped, Left(f, t, line) = q
  PROVE  Outcome(f, O!Found(t, "?", O!None), line, O!Faulty(q), skipped, names)
<1>1. O!Found(t, "?", O!None).scan = t /\ O!Found(t, "?", O!None).option = "?"
  BY DEF O!Found
<1>2. /\ O!Faulty(q).faulty /\ O!Faulty(q).options = q.options /\ O!Faulty(q).words = q.words
  BY FaultyType
<1> QED
  BY <1>1, <1>2 DEF Outcome

LEMMA GoodOption ==
  ASSUME NEW f, NEW line, NEW skipped, NEW names, NEW t, NEW q \in ReadingType,
         ScanOK(t, line), Skipped(t) = skipped, Left(f, t, line) = q,
         NEW o \in names, o \in O!Symbols, NEW v \in OptionValues
  PROVE  Outcome(f, O!Found(t, o, v), line, O!With(o, v, q), skipped, names)
<1>1. O!Found(t, o, v).scan = t /\ O!Found(t, o, v).option = o /\ O!Found(t, o, v).value = v
  BY DEF O!Found
<1>2. /\ O!With(o, v, q).options = <<[option |-> o, value |-> v]>> \o q.options
      /\ O!With(o, v, q).words = q.words /\ O!With(o, v, q).faulty = q.faulty
  BY WithType
<1> QED
  BY <1>1, <1>2 DEF Outcome

\* Going on to another argument, and nothing else.
LEMMA NextArgument ==
  ASSUME NEW f, NEW line \in O!Lines, NEW s, Ordered(s), Untouched(s, line),
         NEW t \in ScanType, t.argv = s.argv, t.first = s.first, t.last = s.last, t.rest = <<>>,
         s.optind <= t.optind, t.optind <= Len(line) + 1
  PROVE  /\ ScanOK(t, line) /\ Skipped(t) = Skipped(s)
         /\ Left(f, t, line) = f[<<t.optind, 1>>]
<1>1. /\ s.optind \in Nat /\ t.optind \in Nat /\ Len(line) \in Nat /\ Len(s.argv) = Len(line)
      /\ s.first \in Nat /\ s.last \in Nat
  BY LineFacts DEF Ordered, ScanType, Untouched
<1>2. Ordered(t)
  BY <1>1 DEF Ordered
<1>3. Untouched(t, line)
  BY <1>1 DEF Untouched
<1> QED
  BY <1>2, <1>3 DEF ScanOK, Skipped, Left, LetterAt

\* The value of an option in the next argument.
LEMMA TakeValueFacts ==
  ASSUME NEW f, NEW line, NEW letters, NEW valued, NEW long,
         IsReading(f, line, letters, valued, long),
         NEW t, ScanOK(t, line), t.rest = <<>>,
         NEW i \in 1 .. Len(line), t.optind = i + 1,
         NEW names, NEW o \in names, o \in O!Symbols
  PROVE  /\ Outcome(f, O!TakeValue(t, o), line, O!ValueBehind(f, line, o, i), Skipped(t), names)
         /\ O!TakeValue(t, o).scan.optind > i
<1>1. line \in O!Lines /\ Len(line) \in Nat /\ i \in Nat
  BY LineFacts DEF IsReading
<1>2. /\ t.argv \in Seq(O!Arguments) /\ Len(t.argv) = Len(line) /\ O!Argc(t) = Len(line) + 1
      /\ \A m \in i + 1 .. Len(line) : t.argv[m] = line[m]
  BY <1>1, ScanFacts
<1>3. \A m \in 1 .. Len(line) + 2 : f[<<m, 1>>] \in ReadingType
  BY DEF IsReading
<1>4. CASE i = Len(line)
  <2> DEFINE q == f[<<i + 1, 1>>]
  <2>1. O!TakeValue(t, o) = O!Found(t, "?", O!None) /\ O!ValueBehind(f, line, o, i) = O!Faulty(q)
    BY <1>1, <1>2, <1>4 DEF O!TakeValue, O!ValueBehind
  <2>2. Left(f, t, line) = q
    BY DEF Left, LetterAt
  <2>3. q \in ReadingType
    <3>1. i + 1 \in 1 .. Len(line) + 2
      BY <1>1
    <3> QED BY <1>3, <3>1
  <2>4. O!Found(t, "?", O!None).scan.optind = i + 1
    BY DEF O!Found
  <2> HIDE DEF q
  <2>5. Outcome(f, O!Found(t, "?", O!None), line, O!Faulty(q), Skipped(t), names)
    BY <2>2, <2>3, BadOption
  <2> QED BY <1>1, <2>1, <2>4, <2>5
<1>5. CASE i # Len(line)
  <2> DEFINE q == f[<<i + 2, 1>>]
             u == [t EXCEPT !.optind = @ + 1]
             v == O!Text(line[i + 1])
  <2>1. O!TakeValue(t, o) = O!Found(u, o, v) /\ O!ValueBehind(f, line, o, i) = O!With(o, v, q)
    <3>1. t.optind # O!Argc(t) /\ t.argv[t.optind] = line[i + 1]
      BY <1>1, <1>2, <1>5
    <3>2. O!TakeValue(t, o) = O!Found([t EXCEPT !.optind = @ + 1], o, O!Text(t.argv[t.optind]))
      BY <3>1 DEF O!TakeValue
    <3> QED BY <1>5, <3>1, <3>2 DEF O!ValueBehind
  <2>2. q \in ReadingType
    <3>1. i + 2 \in 1 .. Len(line) + 2
      BY <1>1
    <3> QED BY <1>3, <3>1
  <2>3. v \in OptionValues
    <3>1. i + 1 \in 1 .. Len(line)
      BY <1>1, <1>5
    <3>2. line[i + 1].dash \in 0 .. 2 /\ line[i + 1].text \in Seq(O!Symbols)
      BY <1>1, <3>1, LineFacts
    <3> QED BY <3>2 DEF O!Text, OptionValues
  <2>4. u \in ScanType /\ u.argv = t.argv /\ u.first = t.first /\ u.last = t.last /\ u.rest = <<>>
        /\ u.optind = i + 2
    <3> DEFINE next == i + 2
    <3>1. next \in Nat /\ u = [t EXCEPT !.optind = next]
      <4>1. (i + 1) + 1 = i + 2 /\ i + 2 \in Nat
        BY <1>1
      <4> QED BY <4>1
    <3>2. t \in ScanType
      BY DEF ScanOK, Ordered
    <3> HIDE DEF next, u
    <3>3. /\ u \in ScanType /\ u.argv = t.argv /\ u.first = t.first /\ u.last = t.last
          /\ u.rest = <<>> /\ u.optind = next
      BY <3>1, <3>2 DEF ScanType
    <3> QED BY <3>3 DEF next
  <2>5. ScanOK(u, line) /\ Skipped(u) = Skipped(t) /\ Left(f, u, line) = q
    <3>1. Ordered(t) /\ Untouched(t, line) /\ t.optind <= u.optind /\ u.optind <= Len(line) + 1
      BY <1>1, <1>5, <2>4 DEF ScanOK
    <3> HIDE DEF u
    <3>2. ScanOK(u, line) /\ Skipped(u) = Skipped(t) /\ Left(f, u, line) = f[<<u.optind, 1>>]
      BY <1>1, <2>4, <3>1, NextArgument
    <3> QED BY <2>4, <3>2
  <2>6. O!Found(u, o, v).scan.optind = i + 2
    BY <2>4 DEF O!Found
  <2> HIDE DEF q, u, v
  <2>7. Outcome(f, O!Found(u, o, v), line, O!With(o, v, q), Skipped(t), names)
    BY <2>2, <2>3, <2>5, GoodOption
  <2> QED BY <1>1, <2>1, <2>6, <2>7
<1> QED
  BY <1>4, <1>5

\* Where a letter of a cluster stands.
LetterOf(u, line) == Len(line[u.optind].text) - Len(u.rest) + 1

InCluster(u, line) ==
  /\ Ordered(u) /\ Untouched(u, line) /\ u.rest # <<>>
  /\ u.optind <= Len(line) /\ line[u.optind].dash = 1
  /\ LetterOf(u, line) \in 1 .. Len(line[u.optind].text)
  /\ u.rest = SubSeq(line[u.optind].text, LetterOf(u, line), Len(line[u.optind].text))

\* What is read at a letter.
LEMMA LetterRead ==
  ASSUME NEW f, NEW line, NEW letters, NEW valued, NEW long,
         IsReading(f, line, letters, valued, long),
         NEW i \in 1 .. Len(line), line[i].dash = 1, line[i].text # <<>>, NEW k \in Nat
  PROVE  f[<<i, k>>] = O!ReadLetter(f, line, letters, valued, i, k)
<1>1. Len(line) \in Nat
  BY LineFacts DEF IsReading
<1>2. f[<<i, k>>] = O!ReadFrom(f, line, letters, valued, long, i, k)
  BY <1>1 DEF IsReading
<1>3. ~O!Terminator(line[i]) /\ ~O!Plain(line[i]) /\ ~(i > Len(line)) /\ line[i].dash # 2
  BY <1>1 DEF O!Terminator, O!Plain
<1> QED
  BY <1>2, <1>3 DEF O!ReadFrom

LEMMA LetterFacts ==
  ASSUME NEW f, NEW line, NEW letters, NEW valued, NEW long,
         IsReading(f, line, letters, valued, long),
         NEW u, InCluster(u, line)
  PROVE  LET c == O!Letter(u, letters, valued)
         IN  /\ Outcome(f, c, line, f[<<u.optind, LetterOf(u, line)>>], Skipped(u), letters)
             /\ u.optind <= c.scan.optind
             /\ c.scan.optind = u.optind => c.scan.rest # <<>>
<1> DEFINE i == u.optind
           k == LetterOf(u, line)
           text == line[i].text
           o == text[k]
           t == [u EXCEPT !.rest = Tail(@), !.optind = IF Len(u.rest) = 1 THEN @ + 1 ELSE @]
           c == O!Letter(u, letters, valued)
           behind == IF k < Len(text) THEN f[<<i, k + 1>>] ELSE f[<<i + 1, 1>>]
           sk == Skipped(u)
<1>1. line \in O!Lines /\ Len(line) \in Nat /\ Vocabularies(letters, valued, long)
  BY LineFacts DEF IsReading
<1>2. /\ u \in ScanType /\ i \in Nat /\ 1 <= i /\ i <= Len(line) /\ i \in 1 .. Len(line)
      /\ Ordered(u) /\ Untouched(u, line)
  BY <1>1 DEF InCluster, Ordered, ScanType
<1>3. /\ text \in Seq(O!Symbols) /\ Len(text) \in Nat /\ k \in 1 .. Len(text) /\ k \in Nat
      /\ u.rest = SubSeq(text, k, Len(text)) /\ line[i].dash = 1
  <2>1. text \in Seq(O!Symbols) /\ Len(text) \in Nat
    BY <1>1, <1>2, LineFacts
  <2> QED BY <2>1 DEF InCluster
<1>4. u.rest \in Seq(O!Symbols) /\ Len(u.rest) = Len(text) + 1 - k
  <2>1. u.rest \in Seq(O!Symbols) /\ Len(u.rest) \in Nat
    BY <1>2 DEF ScanType
  <2> QED BY <1>3, <2>1 DEF LetterOf
<1>5. Head(u.rest) = o /\ Tail(u.rest) = SubSeq(text, k + 1, Len(text))
  <2> HIDE DEF text, k
  <2>1. Len(text) \in k .. Len(text)
    BY <1>3
  <2> QED BY <1>3, <2>1, HeadTailOfSubSeq
<1>6. o \in O!Symbols
  <2> HIDE DEF text, k
  <2> QED BY <1>3, ElementOfSeq
<1>7. f[<<i, k>>] = O!ReadLetter(f, line, letters, valued, i, k)
  <2>1. text # <<>>
    BY <1>3
  <2> HIDE DEF i, k
  <2> QED BY <1>2, <1>3, <2>1, LetterRead DEF text
<1>8. /\ f[<<i + 1, 1>>] \in ReadingType /\ f[<<i, k + 1>>] \in ReadingType
  <2>1. i + 1 \in 1 .. Len(line) + 2 /\ i \in 1 .. Len(line) + 2 /\ k + 1 \in Nat /\ 1 \in Nat
    BY <1>1, <1>2, <1>3
  <2> DEFINE i1 == i + 1  k1 == k + 1
  <2>2. i1 \in 1 .. Len(line) + 2 /\ i \in 1 .. Len(line) + 2 /\ k1 \in Nat
    BY <2>1
  <2> HIDE DEF i, k, i1, k1
  <2>3. f[<<i1, 1>>] \in ReadingType /\ f[<<i, k1>>] \in ReadingType
    BY <2>1, <2>2 DEF IsReading
  <2> QED BY <2>3 DEF i1, k1
<1>9. /\ t \in ScanType /\ t.argv = u.argv /\ t.first = u.first /\ t.last = u.last
      /\ t.rest = SubSeq(text, k + 1, Len(text))
      /\ t.optind = IF k = Len(text) THEN i + 1 ELSE i
      /\ k = Len(text) => t.rest = <<>>
      /\ k < Len(text) => t.rest # <<>> /\ Len(t.rest) = Len(text) - k
  <2> DEFINE tail == Tail(u.rest)
             next == IF Len(u.rest) = 1 THEN i + 1 ELSE i
  <2>1. t = [u EXCEPT !.rest = tail, !.optind = next]
    OBVIOUS
  <2>2. tail \in Seq(O!Symbols) /\ Len(tail) = Len(text) - k
    <3>1. Len(u.rest) = Len(text) + 1 - k /\ u.rest # <<>>
      BY <1>4 DEF InCluster
    <3>2. tail \in Seq(O!Symbols) /\ Len(tail) = Len(u.rest) - 1
      BY <1>4, <3>1, HeadTailProperties
    <3> QED BY <1>3, <3>1, <3>2
  <2>3. next \in Nat /\ next = IF k = Len(text) THEN i + 1 ELSE i
    <3>1. (Len(u.rest) = 1) = (k = Len(text))
      BY <1>3, <1>4
    <3> QED BY <1>2, <3>1
  <2>4. tail = SubSeq(text, k + 1, Len(text))
    BY <1>5
  <2>5. (k = Len(text) => tail = <<>>) /\ (k < Len(text) => tail # <<>>)
    <3>1. k = Len(text) => tail = <<>>
      BY <1>3, <2>4, SubSeqEmpty
    <3> HIDE DEF tail, k
    <3>2. k < Len(text) => tail # <<>>
      BY <1>3, <2>2
    <3> QED BY <3>1, <3>2
  <2> HIDE DEF tail, next, t, text, k, i
  <2>6. t \in ScanType /\ t.argv = u.argv /\ t.first = u.first /\ t.last = u.last
        /\ t.rest = tail /\ t.optind = next
    BY <1>2, <2>1, <2>2, <2>3 DEF ScanType
  <2> QED BY <2>2, <2>3, <2>4, <2>5, <2>6
<1> HIDE DEF t
<1>10. ScanOK(t, line) /\ Skipped(t) = sk /\ Left(f, t, line) = behind /\ behind \in ReadingType
  <2>1. CASE k = Len(text)
    <3>1. t.optind = i + 1 /\ t.rest = <<>> /\ u.optind <= t.optind /\ t.optind <= Len(line) + 1
      BY <1>1, <1>2, <1>9, <2>1
    <3>2. ScanOK(t, line) /\ Skipped(t) = sk /\ Left(f, t, line) = f[<<t.optind, 1>>]
      BY <1>1, <1>2, <1>9, <3>1, NextArgument
    <3>3. behind = f[<<i + 1, 1>>]
      BY <1>3, <2>1
    <3> QED BY <1>8, <3>1, <3>2, <3>3
  <2>2. CASE k # Len(text)
    <3>1. k < Len(text) /\ t.optind = i /\ t.rest # <<>> /\ Len(t.rest) = Len(text) - k
      BY <1>3, <1>9, <2>2
    <3>2. LetterAt(t, line) = k + 1
      BY <1>3, <3>1 DEF LetterAt
    <3>3. Ordered(t) /\ Untouched(t, line)
      BY <1>2, <1>9, <3>1 DEF Ordered, Untouched
    <3>4. ScanOK(t, line)
      <4>1. k + 1 \in 2 .. Len(text)
        BY <1>3, <3>1
      <4> HIDE DEF k, text
      <4> QED BY <1>2, <1>3, <1>9, <3>1, <3>2, <3>3, <4>1 DEF ScanOK, text
    <3>5. Skipped(t) = sk
      BY <1>9 DEF Skipped
    <3>6. Left(f, t, line) = f[<<i, k + 1>>] /\ behind = f[<<i, k + 1>>]
      BY <3>1, <3>2 DEF Left
    <3> QED BY <1>8, <3>4, <3>5, <3>6
  <2> QED BY <2>1, <2>2
<1>11. /\ u.optind <= t.optind
       /\ t.optind = u.optind => t.rest # <<>>
  <2>1. CASE k = Len(text)
    <3>1. t.optind = i + 1
      BY <1>9, <2>1
    <3> QED BY <1>2, <3>1
  <2>2. CASE k # Len(text)
    <3>1. k < Len(text) /\ t.optind = i
      BY <1>3, <1>9, <2>2
    <3> QED BY <1>2, <1>9, <3>1
  <2> QED BY <2>1, <2>2
<1>12. c = CASE o \notin letters -> O!Found(t, "?", O!None)
             [] o \in letters \ valued -> O!Found(t, o, O!None)
             [] o \in valued /\ t.rest # <<>> ->
                  O!Found([t EXCEPT !.rest = <<>>, !.optind = @ + 1], o,
                          [dash |-> 0, text |-> t.rest])
             [] OTHER -> O!TakeValue(t, o)
  BY <1>5 DEF O!Letter, t
<1> HIDE DEF c
<1>13. CASE o \notin letters
  <2>1. c = O!Found(t, "?", O!None)
    BY <1>1, <1>12, <1>13 DEF Vocabularies
  <2>2. f[<<i, k>>] = O!Faulty(behind)
    BY <1>7, <1>13 DEF O!ReadLetter
  <2>3. c.scan = t
    BY <2>1 DEF O!Found
  <2> HIDE DEF behind, sk
  <2>4. Outcome(f, O!Found(t, "?", O!None), line, O!Faulty(behind), sk, letters)
    BY <1>10, BadOption
  <2> QED BY <1>11, <2>1, <2>2, <2>3, <2>4 DEF sk, c
<1>14. CASE o \in letters \ valued
  <2>1. c = O!Found(t, o, O!None)
    BY <1>12, <1>14
  <2>2. f[<<i, k>>] = O!With(o, O!None, behind)
    BY <1>7, <1>14 DEF O!ReadLetter
  <2>3. c.scan = t
    BY <2>1 DEF O!Found
  <2>4. O!None \in OptionValues /\ o \in letters /\ o \in O!Symbols
    BY <1>6, <1>14 DEF OptionValues
  <2> HIDE DEF behind, sk, o
  <2>5. Outcome(f, O!Found(t, o, O!None), line, O!With(o, O!None, behind), sk, letters)
    BY <1>10, <2>4, GoodOption
  <2> QED BY <1>11, <2>1, <2>2, <2>3, <2>5 DEF sk, c
<1>15. CASE o \in valued /\ k < Len(text)
  <2> DEFINE w == [t EXCEPT !.rest = <<>>, !.optind = @ + 1]
             v == O!Inside(line[i], k)
             q == f[<<i + 1, 1>>]
  <2>1. t.rest # <<>> /\ t.optind = i /\ v = [dash |-> 0, text |-> t.rest] /\ o \in letters
    BY <1>1, <1>3, <1>9, <1>15 DEF O!Inside, Vocabularies
  <2>2. c = O!Found(w, o, v)
    <3> HIDE DEF w, v
    <3> QED BY <1>12, <1>15, <2>1 DEF w
  <2>3. f[<<i, k>>] = O!With(o, v, q)
    BY <1>7, <1>15, <2>1 DEF O!ReadLetter
  <2>4. w \in ScanType /\ w.argv = u.argv /\ w.first = u.first /\ w.last = u.last /\ w.rest = <<>>
        /\ w.optind = i + 1
    <3> DEFINE next == i + 1
    <3>1. next \in Nat /\ w = [t EXCEPT !.rest = <<>>, !.optind = next]
      BY <1>2, <2>1
    <3> HIDE DEF next, w, i
    <3>2. /\ w \in ScanType /\ w.argv = t.argv /\ w.first = t.first /\ w.last = t.last /\ w.rest = <<>>
          /\ w.optind = next
      <4>1. t \in ScanType /\ <<>> \in Seq(O!Symbols)
        BY <1>9
      <4> QED BY <3>1, <4>1 DEF ScanType
    <3> QED BY <1>9, <3>2 DEF next
  <2>5. v \in OptionValues
    <3>1. t.rest \in Seq(O!Symbols)
      BY <1>9 DEF ScanType
    <3> HIDE DEF v
    <3> QED BY <2>1, <3>1 DEF OptionValues
  <2>6. ScanOK(w, line) /\ Skipped(w) = sk /\ Left(f, w, line) = q
    <3>1. u.optind <= w.optind /\ w.optind <= Len(line) + 1
      BY <1>1, <1>2, <2>4
    <3> HIDE DEF w
    <3>2. ScanOK(w, line) /\ Skipped(w) = sk /\ Left(f, w, line) = f[<<w.optind, 1>>]
      BY <1>1, <1>2, <2>4, <3>1, NextArgument
    <3> QED BY <2>4, <3>2
  <2>7. c.scan = w /\ u.optind < w.optind /\ w.optind # u.optind /\ u.optind <= w.optind
    <3>1. c.scan = w
      BY <2>2 DEF O!Found
    <3> QED BY <1>2, <2>4, <3>1
  <2>8. q \in ReadingType
    BY <1>8
  <2> HIDE DEF q, sk, o, v, w
  <2>9. Outcome(f, O!Found(w, o, v), line, O!With(o, v, q), sk, letters)
    BY <1>6, <2>1, <2>5, <2>6, <2>8, GoodOption
  <2> QED BY <2>2, <2>3, <2>7, <2>9 DEF sk, c
<1>16. CASE o \in valued /\ ~(k < Len(text))
  <2>1. k = Len(text) /\ t.rest = <<>> /\ t.optind = i + 1 /\ o \in letters
    <3>1. k = Len(text)
      BY <1>3, <1>16
    <3>2. t.rest = <<>> /\ t.optind = i + 1
      BY <1>9, <3>1
    <3>3. o \in letters
      BY <1>1, <1>16 DEF Vocabularies
    <3> QED BY <3>1, <3>2, <3>3
  <2>2. c = O!TakeValue(t, o)
    BY <1>12, <1>16, <2>1
  <2>3. f[<<i, k>>] = O!ValueBehind(f, line, o, i)
    BY <1>7, <1>16, <2>1 DEF O!ReadLetter
  <2> HIDE DEF o, i
  <2>4. /\ Outcome(f, O!TakeValue(t, o), line, O!ValueBehind(f, line, o, i), Skipped(t), letters)
        /\ O!TakeValue(t, o).scan.optind > i
    BY <1>2, <1>6, <1>10, <2>1, TakeValueFacts
  <2>5. ScanOK(O!TakeValue(t, o).scan, line)
    BY <2>4 DEF Outcome
  <2>6. O!TakeValue(t, o).scan.optind \in Nat
    BY <1>1, <2>5, ScanFacts
  <2> QED BY <1>2, <1>10, <2>2, <2>3, <2>4, <2>6 DEF c, i
<1> QED
  BY <1>13, <1>14, <1>15, <1>16 DEF c

\* What is read at a long option.
LEMMA NameRead ==
  ASSUME NEW f, NEW line, NEW letters, NEW valued, NEW long,
         IsReading(f, line, letters, valued, long),
         NEW i \in 1 .. Len(line), line[i].dash = 2, line[i].text # <<>>
  PROVE  f[<<i, 1>>] = O!ReadName(f, line, long, i)
<1>1. Len(line) \in Nat
  BY LineFacts DEF IsReading
<1>2. f[<<i, 1>>] = O!ReadFrom(f, line, letters, valued, long, i, 1)
  BY <1>1 DEF IsReading
<1>3. ~O!Terminator(line[i]) /\ ~O!Plain(line[i]) /\ ~(i > Len(line)) /\ line[i].dash = 2
  BY <1>1 DEF O!Terminator, O!Plain
<1> QED
  BY <1>2, <1>3 DEF O!ReadFrom

LEMMA LongFacts ==
  ASSUME NEW f, NEW line, NEW letters, NEW valued, NEW long,
         IsReading(f, line, letters, valued, long),
         NEW s, ScanOK(s, line), s.rest = <<>>, s.optind <= Len(line),
         line[s.optind].dash = 2, line[s.optind].text # <<>>
  PROVE  LET c == O!LongOption(s, long)
         IN  /\ Outcome(f, c, line, f[<<s.optind, 1>>], Skipped(s), DOMAIN long)
             /\ s.optind < c.scan.optind
<1> DEFINE i == s.optind
           text == line[i].text
           name == text[1]
           t == [s EXCEPT !.optind = @ + 1]
           c == O!LongOption(s, long)
           next == f[<<i + 1, 1>>]
           v == O!Inside(line[i], 1)
           sk == Skipped(s)
           names == DOMAIN long
<1>1. line \in O!Lines /\ Len(line) \in Nat /\ Vocabularies(letters, valued, long)
  BY LineFacts DEF IsReading
<1>2. /\ s \in ScanType /\ i \in Nat /\ 1 <= i /\ i <= Len(line) /\ i \in 1 .. Len(line)
      /\ Ordered(s) /\ Untouched(s, line) /\ s.argv[i] = line[i]
  <2>1. /\ i \in Nat /\ 1 <= i /\ \A m \in i .. Len(line) : s.argv[m] = line[m]
    BY <1>1, ScanFacts
  <2> QED BY <1>1, <2>1 DEF ScanOK, Ordered
<1>3. text \in Seq(O!Symbols) /\ Len(text) \in {1, 2}
  <2>1. text \in Seq(O!Symbols) /\ Len(text) \in Nat /\ Len(text) <= 2
    BY <1>1, <1>2, LineFacts
  <2>2. Len(text) # 0
    <3> HIDE DEF text
    <3>1. text # <<>>
      BY DEF text
    <3> QED BY <2>1, <3>1, EmptySeq
  <2> DEFINE m == Len(text)
  <2>3. m \in Nat /\ m <= 2 /\ m # 0
    BY <2>1, <2>2
  <2> HIDE DEF m
  <2>4. m \in {1, 2}
    BY <2>3
  <2> QED BY <2>1, <2>4 DEF m
<1>4. f[<<i, 1>>] = O!ReadName(f, line, long, i)
  <2> HIDE DEF i
  <2> QED BY <1>2, NameRead DEF i
<1>5. next \in ReadingType
  <2> DEFINE i1 == i + 1
  <2>1. i1 \in 1 .. Len(line) + 2 /\ 1 \in Nat
    BY <1>1, <1>2
  <2> HIDE DEF i1
  <2>2. f[<<i1, 1>>] \in ReadingType
    BY <2>1 DEF IsReading
  <2> QED BY <2>2 DEF i1
<1>6. /\ t \in ScanType /\ t.argv = s.argv /\ t.first = s.first /\ t.last = s.last /\ t.rest = <<>>
      /\ t.optind = i + 1
  <2> DEFINE i1 == i + 1
  <2>1. i1 \in Nat /\ t = [s EXCEPT !.optind = i1]
    BY <1>2
  <2> HIDE DEF i1, t
  <2>2. /\ t \in ScanType /\ t.argv = s.argv /\ t.first = s.first /\ t.last = s.last /\ t.rest = <<>>
        /\ t.optind = i1
    BY <1>2, <2>1 DEF ScanType
  <2> QED BY <2>2 DEF i1
<1> HIDE DEF t
<1>7. ScanOK(t, line) /\ Skipped(t) = sk /\ Left(f, t, line) = next
  <2>1. s.optind <= t.optind /\ t.optind <= Len(line) + 1
    BY <1>1, <1>2, <1>6
  <2>2. ScanOK(t, line) /\ Skipped(t) = Skipped(s) /\ Left(f, t, line) = f[<<t.optind, 1>>]
    BY <1>1, <1>2, <1>6, <2>1, NextArgument
  <2> QED BY <1>6, <2>2
<1>8. s.optind < t.optind
  BY <1>2, <1>6
<1>9. c = CASE name \notin DOMAIN long -> O!Found(t, "?", O!None)
            [] name \in DOMAIN long /\ Len(text) = 2 ->
                 IF long[name]
                   THEN O!Found(t, name, [dash |-> 0, text |-> Tail(text)])
                   ELSE O!Found(t, "?", O!None)
            [] OTHER -> IF long[name] THEN O!TakeValue(t, name) ELSE O!Found(t, name, O!None)
  BY <1>2 DEF O!LongOption, t
<1>10. v \in OptionValues
  <2>1. SubSeq(text, 1 + 1, Len(text)) \in Seq(O!Symbols)
    BY <1>3, InsideType
  <2> QED BY <2>1 DEF OptionValues, O!Inside
<1>11. O!None \in OptionValues
  BY DEF OptionValues
<1>12. (1 < Len(text)) = (Len(text) = 2)
  <2> DEFINE m == Len(text)
  <2>1. m \in {1, 2}
    BY <1>3
  <2> HIDE DEF m
  <2>2. (1 < m) = (m = 2)
    BY <2>1
  <2> QED BY <2>2 DEF m
<1> HIDE DEF c
<1>13. CASE name \notin DOMAIN long \/ (Len(text) = 2 /\ ~long[name])
  <2>1. c = O!Found(t, "?", O!None)
    BY <1>9, <1>13
  <2>2. f[<<i, 1>>] = O!Faulty(next)
    <3>1. name \notin DOMAIN long \/ (1 < Len(text) /\ ~long[name])
      BY <1>12, <1>13
    <3> QED BY <1>4, <3>1 DEF O!ReadName
  <2>3. c.scan = t
    BY <2>1 DEF O!Found
  <2> HIDE DEF next, sk, names
  <2>4. Outcome(f, O!Found(t, "?", O!None), line, O!Faulty(next), sk, names)
    BY <1>5, <1>7, BadOption
  <2> QED BY <1>8, <2>1, <2>2, <2>3, <2>4 DEF sk, c, names
<1>14. ASSUME name \in DOMAIN long PROVE name \in names /\ name \in O!Symbols /\ long[name] \in BOOLEAN
  BY <1>1, <1>14 DEF Vocabularies
<1>15. CASE name \in DOMAIN long /\ Len(text) = 2 /\ long[name]
  <2>1. v = [dash |-> 0, text |-> Tail(text)]
    <3>1. text # <<>> /\ 1 + 1 = 2
      OBVIOUS
    <3> HIDE DEF text
    <3>2. Tail(text) = SubSeq(text, 2, Len(text))
      BY <1>3, <3>1, TailIsSubSeq
    <3> QED BY <3>1, <3>2 DEF O!Inside, text
  <2>2. c = O!Found(t, name, v)
    <3> HIDE DEF v
    <3> QED BY <1>9, <1>15, <2>1
  <2>3. f[<<i, 1>>] = O!With(name, v, next)
    <3>1. 1 < Len(text)
      BY <1>12, <1>15
    <3> QED BY <1>4, <1>15, <3>1 DEF O!ReadName
  <2>4. c.scan = t
    BY <2>2 DEF O!Found
  <2>5. name \in names /\ name \in O!Symbols
    BY <1>14, <1>15
  <2> HIDE DEF next, sk, names, v, name
  <2>6. Outcome(f, O!Found(t, name, v), line, O!With(name, v, next), sk, names)
    BY <1>5, <1>7, <1>10, <2>5, GoodOption
  <2> QED BY <1>8, <2>2, <2>3, <2>4, <2>6 DEF sk, c, names
<1>16. CASE name \in DOMAIN long /\ Len(text) # 2 /\ ~long[name]
  <2>1. c = O!Found(t, name, O!None)
    BY <1>9, <1>16
  <2>2. f[<<i, 1>>] = O!With(name, O!None, next)
    <3>1. ~(1 < Len(text))
      BY <1>12, <1>16
    <3> QED BY <1>4, <1>16, <3>1 DEF O!ReadName
  <2>3. c.scan = t
    BY <2>1 DEF O!Found
  <2>4. name \in names /\ name \in O!Symbols
    BY <1>14, <1>16
  <2> HIDE DEF next, sk, names, name
  <2>5. Outcome(f, O!Found(t, name, O!None), line, O!With(name, O!None, next), sk, names)
    BY <1>5, <1>7, <1>11, <2>4, GoodOption
  <2> QED BY <1>8, <2>1, <2>2, <2>3, <2>5 DEF sk, c, names
<1>17. CASE name \in DOMAIN long /\ Len(text) # 2 /\ long[name]
  <2>1. c = O!TakeValue(t, name)
    BY <1>9, <1>17
  <2>2. f[<<i, 1>>] = O!ValueBehind(f, line, name, i)
    <3>1. ~(1 < Len(text))
      BY <1>12, <1>17
    <3> QED BY <1>4, <1>17, <3>1 DEF O!ReadName
  <2>3. name \in names /\ name \in O!Symbols
    BY <1>14, <1>17
  <2> HIDE DEF names, name, i
  <2>4. /\ Outcome(f, O!TakeValue(t, name), line, O!ValueBehind(f, line, name, i), Skipped(t), names)
        /\ O!TakeValue(t, name).scan.optind > i
    BY <1>2, <1>6, <1>7, <2>3, TakeValueFacts
  <2>5. ScanOK(O!TakeValue(t, name).scan, line)
    BY <2>4 DEF Outcome
  <2>6. O!TakeValue(t, name).scan.optind \in Nat
    BY <1>1, <2>5, ScanFacts
  <2> QED BY <1>2, <1>7, <2>1, <2>2, <2>4, <2>6 DEF c, i, names
<1> QED
  BY <1>3, <1>13, <1>14, <1>15, <1>16, <1>17 DEF c

\* A call that finds no option any more.
Ended(f, c, s, line) ==
  /\ c.option = "end" /\ Left(f, s, line).options = <<>> /\ Left(f, s, line).faulty = FALSE
  /\ c.scan.argv \in Seq(O!Arguments) /\ c.scan.optind \in Nat /\ 1 <= c.scan.optind
  /\ O!Argc(c.scan) = Len(c.scan.argv) + 1
  /\ O!Remaining(c.scan) = AllWords(f, s, line)

\* A call that finds one.
FoundOption(f, c, s, line, letters, long) ==
  /\ ScanOK(c.scan, line) /\ AllWords(f, c.scan, line) = AllWords(f, s, line)
  /\ \/ /\ c.option = "?" /\ Left(f, s, line).faulty
        /\ Left(f, c.scan, line).options = Left(f, s, line).options
     \/ /\ c.option \in letters \cup DOMAIN long /\ c.value \in OptionValues
        /\ Left(f, s, line).options
             = <<[option |-> c.option, value |-> c.value]>> \o Left(f, c.scan, line).options
        /\ Left(f, s, line).faulty = Left(f, c.scan, line).faulty

\* Where it finds it.
FoundThere(c, s, line, long) ==
  /\ c.from \in Nat /\ s.optind <= c.from /\ c.from <= Len(line) /\ c.from <= c.scan.optind
  /\ c.scan.optind = c.from => c.scan.rest # <<>>
  /\ c.from # s.optind => s.rest = <<>> /\ \A m \in s.optind .. c.from - 1 : O!Plain(line[m])
  /\ line[c.from].dash = 1 \/ c.option \in DOMAIN long \cup {"?"}

LEMMA EndFacts ==
  ASSUME NEW f, NEW line, NEW letters, NEW valued, NEW long,
         IsReading(f, line, letters, valued, long),
         NEW t, ScanOK(t, line), t.rest = <<>>, t.optind = Len(line) + 1, t.last = t.optind
  PROVE  Ended(f, O!AllDone(t), t, line)
<1> DEFINE n == Len(line)
           u == [t EXCEPT !.optind = t.first]
           c == O!AllDone(t)
<1>1. line \in O!Lines /\ n \in Nat
  BY LineFacts DEF IsReading
<1>2. /\ t.argv \in Seq(O!Arguments) /\ Len(t.argv) = n /\ t.first \in Nat /\ 1 <= t.first
      /\ Skipped(t) \in Seq(O!Arguments) /\ t \in ScanType
  BY <1>1, ScanFacts DEF ScanOK, Ordered
<1>3. c = O!Found(u, "end", O!None)
  <2>1. (IF t.first # t.last THEN t.first ELSE t.optind) = t.first
    OBVIOUS
  <2>2. c = O!Found([t EXCEPT !.optind = IF t.first # t.last THEN t.first ELSE t.optind], "end", O!None)
    BY DEF O!AllDone
  <2> QED BY <2>1, <2>2
<1>4. u.argv = t.argv /\ u.optind = t.first
  BY <1>2 DEF ScanType
<1>5. c.scan = u /\ c.option = "end"
  BY <1>3 DEF O!Found
<1> HIDE DEF c, u
<1>6. O!Remaining(c.scan) = Skipped(t)
  <2>1. O!Remaining(c.scan) = SubSeq(t.argv, t.first, n)
    BY <1>2, <1>4, <1>5 DEF O!Remaining
  <2>2. Skipped(t) = SubSeq(t.argv, t.first, (n + 1) - 1) /\ (n + 1) - 1 = n
    BY <1>1 DEF Skipped
  <2> QED BY <2>1, <2>2
<1>7. Left(f, t, line) = O!NothingLeft
  <2> DEFINE i == n + 1
  <2>1. i \in 1 .. Len(line) + 2 /\ 1 \in Nat /\ i > Len(line)
    BY <1>1
  <2>2. Left(f, t, line) = f[<<i, 1>>]
    BY DEF Left, LetterAt
  <2> HIDE DEF i
  <2>3. f[<<i, 1>>] = O!ReadFrom(f, line, letters, valued, long, i, 1)
    BY <2>1 DEF IsReading
  <2> QED BY <2>1, <2>2, <2>3 DEF O!ReadFrom
<1>8. /\ Left(f, t, line).options = <<>> /\ Left(f, t, line).words = <<>>
      /\ Left(f, t, line).faulty = FALSE
  BY <1>7 DEF O!NothingLeft
<1>9. AllWords(f, t, line) = Skipped(t)
  <2> DEFINE x == Skipped(t)
  <2>1. x \in Seq(O!Arguments)
    BY <1>2
  <2>2. x \o <<>> = x
    <3> HIDE DEF x
    <3> QED BY <2>1, ConcatEmptySeq
  <2> QED BY <1>8, <2>2 DEF AllWords
<1>10. O!Argc(c.scan) = Len(c.scan.argv) + 1
  BY DEF O!Argc
<1> QED
  BY <1>2, <1>4, <1>5, <1>6, <1>8, <1>9, <1>10 DEF Ended, c

\* The argument getopt stands at is recorded.
LEMMA FromFacts ==
  ASSUME NEW f, NEW c, NEW line, NEW r, NEW skipped, NEW names, NEW p,
         Outcome(f, c, line, r, skipped, names),
         NEW s, NEW o, NEW v, c = O!Found(s, o, v)
  PROVE  LET d == [c EXCEPT !.from = p]
         IN  /\ Outcome(f, d, line, r, skipped, names) /\ d.from = p /\ d.scan = c.scan
             /\ d.option = c.option
<1> DEFINE d == [c EXCEPT !.from = p]
<1>1. d.from = p /\ d.scan = c.scan /\ d.option = c.option /\ d.value = c.value
  BY DEF O!Found
<1> HIDE DEF d
<1>2. Outcome(f, d, line, r, skipped, names)
  BY <1>1 DEF Outcome
<1> QED
  BY <1>1, <1>2 DEF d

\* Every call but the last yields such a record.
LEMMA LetterFound ==
  ASSUME NEW s, NEW letters, NEW valued
  PROVE  \E t, o, v : O!Letter(s, letters, valued) = O!Found(t, o, v)
<1> DEFINE c == Head(s.rest)
           t == [s EXCEPT !.rest = Tail(@), !.optind = IF Len(s.rest) = 1 THEN @ + 1 ELSE @]
<1>1. \/ O!Letter(s, letters, valued) = O!Found(t, "?", O!None)
      \/ O!Letter(s, letters, valued) = O!Found(t, c, O!None)
      \/ O!Letter(s, letters, valued)
           = O!Found([t EXCEPT !.rest = <<>>, !.optind = @ + 1], c, [dash |-> 0, text |-> t.rest])
      \/ O!Letter(s, letters, valued) = O!TakeValue(t, c)
  <2> DEFINE u == [t EXCEPT !.rest = <<>>, !.optind = @ + 1]
             v == [dash |-> 0, text |-> t.rest]
  <2>1. O!Letter(s, letters, valued)
          = CASE c \notin letters -> O!Found(t, "?", O!None)
              [] c \in letters \ valued -> O!Found(t, c, O!None)
              [] c \in valued /\ t.rest # <<>> -> O!Found(u, c, v)
              [] OTHER -> O!TakeValue(t, c)
    BY DEF O!Letter
  <2> HIDE DEF u, v, t, c
  <2>2. \/ O!Letter(s, letters, valued) = O!Found(t, "?", O!None)
        \/ O!Letter(s, letters, valued) = O!Found(t, c, O!None)
        \/ O!Letter(s, letters, valued) = O!Found(u, c, v)
        \/ O!Letter(s, letters, valued) = O!TakeValue(t, c)
    BY <2>1
  <2> QED BY <2>2 DEF u, v
<1>2. \/ O!TakeValue(t, c) = O!Found(t, "?", O!None)
      \/ O!TakeValue(t, c) = O!Found([t EXCEPT !.optind = @ + 1], c, O!Text(t.argv[t.optind]))
  <2> HIDE DEF t, c
  <2> QED BY DEF O!TakeValue
<1> HIDE DEF t, c
<1> QED
  BY <1>1, <1>2

LEMMA LongFound ==
  ASSUME NEW s, NEW long
  PROVE  \E t, o, v : O!LongOption(s, long) = O!Found(t, o, v)
<1> DEFINE text == s.argv[s.optind].text
           name == text[1]
           t == [s EXCEPT !.optind = @ + 1]
<1>1. \/ O!LongOption(s, long) = O!Found(t, "?", O!None)
      \/ O!LongOption(s, long) = O!Found(t, name, [dash |-> 0, text |-> Tail(text)])
      \/ O!LongOption(s, long) = O!Found(t, name, O!None)
      \/ O!LongOption(s, long) = O!TakeValue(t, name)
  <2> DEFINE v == [dash |-> 0, text |-> Tail(text)]
  <2>1. O!LongOption(s, long)
          = CASE name \notin DOMAIN long -> O!Found(t, "?", O!None)
              [] name \in DOMAIN long /\ Len(text) = 2 ->
                   IF long[name] THEN O!Found(t, name, v) ELSE O!Found(t, "?", O!None)
              [] OTHER -> IF long[name] THEN O!TakeValue(t, name) ELSE O!Found(t, name, O!None)
    BY DEF O!LongOption
  <2> HIDE DEF v, t, name, text
  <2>2. \/ O!LongOption(s, long) = O!Found(t, "?", O!None)
        \/ O!LongOption(s, long) = O!Found(t, name, v)
        \/ O!LongOption(s, long) = O!Found(t, name, O!None)
        \/ O!LongOption(s, long) = O!TakeValue(t, name)
    BY <2>1
  <2> QED BY <2>2 DEF v
<1>2. \/ O!TakeValue(t, name) = O!Found(t, "?", O!None)
      \/ O!TakeValue(t, name) = O!Found([t EXCEPT !.optind = @ + 1], name, O!Text(t.argv[t.optind]))
  <2> HIDE DEF t, name
  <2> QED BY DEF O!TakeValue
<1> HIDE DEF t, name
<1> QED
  BY <1>1, <1>2

LEMMA FromOutcome ==
  ASSUME NEW f, NEW d, NEW line, NEW r, NEW skipped, NEW names, NEW s, NEW letters, NEW long,
         Outcome(f, d, line, r, skipped, names), names \subseteq letters \cup DOMAIN long,
         Left(f, s, line).options = r.options, Left(f, s, line).faulty = r.faulty,
         AllWords(f, s, line) = skipped \o r.words
  PROVE  FoundOption(f, d, s, line, letters, long)
<1>1. AllWords(f, d.scan, line) = AllWords(f, s, line)
  BY DEF Outcome, AllWords
<1> QED
  BY <1>1 DEF Outcome, FoundOption

\* At the first letter of a cluster.
LEMMA ClusterStart ==
  ASSUME NEW line \in O!Lines, NEW t, ScanOK(t, line), t.rest = <<>>, t.optind <= Len(line),
         line[t.optind].dash = 1, line[t.optind].text # <<>>
  PROVE  LET u == [t EXCEPT !.rest = line[t.optind].text]
         IN  /\ InCluster(u, line) /\ LetterOf(u, line) = 1 /\ u.optind = t.optind
             /\ Skipped(u) = Skipped(t)
<1> DEFINE i == t.optind
           text == line[i].text
           u == [t EXCEPT !.rest = text]
           m == Len(text)
<1>1. t \in ScanType /\ i \in 1 .. Len(line) /\ Ordered(t) /\ Untouched(t, line) /\ Len(line) \in Nat
  BY ScanFacts DEF ScanOK, Ordered
<1>2. text \in Seq(O!Symbols) /\ m \in Nat /\ text # <<>>
  BY <1>1, LineFacts
<1>3. 1 <= m /\ SubSeq(text, 1, m) = text
  <2> HIDE DEF text
  <2>1. m # 0
    BY <1>2, EmptySeq
  <2>2. SubSeq(text, 1, m) = text
    BY <1>2, SubSeqFull
  <2> QED BY <1>2, <2>1, <2>2
<1> HIDE DEF text, u
<1>4. /\ u \in ScanType /\ u.argv = t.argv /\ u.first = t.first /\ u.last = t.last /\ u.optind = i
      /\ u.rest = text
  BY <1>1, <1>2 DEF ScanType, u
<1>5. Ordered(u) /\ Untouched(u, line) /\ Skipped(u) = Skipped(t)
  BY <1>1, <1>4 DEF Ordered, Untouched, Skipped
<1>6. LetterOf(u, line) = 1
  <2>1. LetterOf(u, line) = m - m + 1
    BY <1>4 DEF LetterOf, text
  <2> HIDE DEF m
  <2> QED BY <1>2, <2>1
<1>7. InCluster(u, line)
  <2>1. 1 \in 1 .. m
    BY <1>2, <1>3
  <2>2. line[u.optind].text = text /\ line[u.optind].dash = 1 /\ u.optind <= Len(line)
    BY <1>4 DEF text
  <2> HIDE DEF i
  <2> QED BY <1>2, <1>3, <1>4, <1>5, <1>6, <2>1, <2>2 DEF InCluster
<1> QED
  BY <1>4, <1>5, <1>6, <1>7 DEF u, text

\* The position of a call that finds an option.
LEMMA WhereFound ==
  ASSUME NEW line \in O!Lines, NEW d, NEW s, NEW long, NEW p \in 1 .. Len(line),
         d.from = p, s.optind \in Nat, s.optind <= p, d.scan.optind \in Nat, p <= d.scan.optind,
         d.scan.optind = p => d.scan.rest # <<>>,
         p # s.optind => s.rest = <<>> /\ \A m \in s.optind .. p - 1 : O!Plain(line[m]),
         line[p].dash = 1 \/ d.option \in DOMAIN long \cup {"?"}
  PROVE  FoundThere(d, s, line, long)
<1>1. Len(line) \in Nat
  BY LineFacts
<1> QED
  BY <1>1 DEF FoundThere

\* A call that is not inside a group of letters looks at the next argument.
LEMMA CallAhead ==
  ASSUME NEW s, s.rest = <<>>, NEW letters, NEW valued, NEW long
  PROVE  LET t == O!Advance(s)
         IN  O!Call(s, letters, valued, long)
               = IF t.optind = O!Argc(t)
                   THEN O!AllDone(t)
                   ELSE [(IF t.argv[t.optind].dash = 2
                            THEN O!LongOption(t, long)
                            ELSE O!Letter([t EXCEPT !.rest = t.argv[t.optind].text], letters, valued))
                           EXCEPT !.from = t.argv[t.optind].pos]
BY DEF O!Call

\* A call finds an option unless there is none left, and what it finds is what
\* is read next.
LEMMA CallFacts ==
  ASSUME NEW f, NEW line, NEW letters, NEW valued, NEW long,
         IsReading(f, line, letters, valued, long),
         NEW s, ScanOK(s, line)
  PROVE  LET c == O!Call(s, letters, valued, long)
         IN  \/ Ended(f, c, s, line)
             \/ FoundOption(f, c, s, line, letters, long) /\ FoundThere(c, s, line, long)
<1> DEFINE n == Len(line)
           c == O!Call(s, letters, valued, long)
<1>1. line \in O!Lines /\ n \in Nat /\ s.optind \in Nat
  <2>1. line \in O!Lines
    BY DEF IsReading
  <2> QED BY <2>1, ScanFacts
<1>2. CASE s.rest = <<>>
  <2> DEFINE t == O!Advance(s)
             i == t.optind
             r == Left(f, t, line)
  <2>1. /\ ScanOK(t, line) /\ t.rest = <<>> /\ s.optind <= t.optind /\ t.last = t.optind
        /\ Left(f, t, line).options = Left(f, s, line).options
        /\ Left(f, t, line).faulty = Left(f, s, line).faulty
        /\ AllWords(f, t, line) = AllWords(f, s, line)
        /\ t.optind <= Len(line) =>
             /\ ~O!Plain(line[t.optind]) /\ ~O!Terminator(line[t.optind])
             /\ \A m \in s.optind .. t.optind - 1 : O!Plain(line[m])
    BY <1>2, AdvanceFacts
  <2> HIDE DEF t
  <2>2. /\ O!Argc(t) = n + 1 /\ i \in Nat /\ 1 <= i /\ i <= n + 1
        /\ \A m \in i .. n : t.argv[m] = line[m]
    BY <1>1, <2>1, ScanFacts
  <2>3. c = IF t.optind = O!Argc(t)
              THEN O!AllDone(t)
              ELSE [(IF t.argv[t.optind].dash = 2
                       THEN O!LongOption(t, long)
                       ELSE O!Letter([t EXCEPT !.rest = t.argv[t.optind].text], letters, valued))
                      EXCEPT !.from = t.argv[t.optind].pos]
    BY <1>2, CallAhead DEF t
  <2>4. CASE i = n + 1
    <3>1. c = O!AllDone(t)
      BY <2>2, <2>3, <2>4
    <3>2. Ended(f, c, t, line)
      <4> HIDE DEF c
      <4> QED BY <2>1, <2>4, <3>1, EndFacts
    <3>3. Ended(f, c, s, line)
      <4> HIDE DEF c
      <4> QED BY <2>1, <3>2 DEF Ended
    <3> QED BY <3>3
  <2>5. CASE i # n + 1
    <3>1. i <= n /\ i \in 1 .. n /\ t.argv[i] = line[i]
      BY <1>1, <2>2, <2>5
    <3>2. line[i].pos = i /\ line[i].dash \in 0 .. 2
      BY <1>1, <3>1, LineFacts
    <3>3. line[i].dash # 0 /\ line[i].text # <<>>
      BY <2>1, <3>1, <3>2 DEF O!Plain, O!Terminator
    <3>4. i # s.optind => s.rest = <<>> /\ \A m \in s.optind .. i - 1 : O!Plain(line[m])
      BY <1>2, <2>1, <3>1
    <3>5. f[<<i, 1>>] = r
      BY <2>1 DEF Left, LetterAt
    <3>6. AllWords(f, s, line) = Skipped(t) \o r.words
      BY <2>1 DEF AllWords
    <3>7. CASE line[i].dash = 2
      <4> DEFINE e == O!LongOption(t, long)
                 names == DOMAIN long
                 sk == Skipped(t)
      <4>1. c = [e EXCEPT !.from = i]
        BY <2>2, <2>3, <2>5, <3>1, <3>2, <3>7
      <4>2. /\ Outcome(f, e, line, f[<<t.optind, 1>>], sk, names)
            /\ t.optind < e.scan.optind
        BY <2>1, <3>1, <3>3, <3>7, LongFacts
      <4>3. PICK x, o, v : e = O!Found(x, o, v)
        BY LongFound
      <4> HIDE DEF e, c
      <4>4. /\ Outcome(f, c, line, r, sk, names) /\ c.from = i /\ c.scan = e.scan
            /\ c.option = e.option
        <5> HIDE DEF i, r, sk, names
        <5>1. Outcome(f, e, line, r, sk, names)
          BY <3>5, <4>2 DEF i
        <5> QED BY <4>1, <4>3, <5>1, FromFacts
      <4>5. FoundOption(f, c, s, line, letters, long)
        <5>1. names \subseteq letters \cup DOMAIN long
          OBVIOUS
        <5>2. Left(f, s, line).options = r.options /\ Left(f, s, line).faulty = r.faulty
          BY <2>1
        <5> HIDE DEF r, sk, names
        <5> QED BY <3>6, <4>4, <5>1, <5>2, FromOutcome DEF sk
      <4>6. c.scan.optind \in Nat /\ i <= c.scan.optind /\ c.scan.optind # i
        <5>1. ScanOK(c.scan, line)
          BY <4>4 DEF Outcome
        <5>2. c.scan.optind \in Nat
          BY <1>1, <5>1, ScanFacts
        <5> QED BY <2>2, <4>2, <4>4, <5>2
      <4>7. c.option \in DOMAIN long \cup {"?"}
        BY <4>4 DEF Outcome
      <4>8. FoundThere(c, s, line, long)
        <5> HIDE DEF i
        <5> QED BY <1>1, <2>1, <3>1, <3>4, <4>4, <4>6, <4>7, WhereFound DEF i
      <4> QED BY <4>5, <4>8 DEF c
    <3>8. CASE line[i].dash # 2
      <4> DEFINE u == [t EXCEPT !.rest = line[i].text]
                 e == O!Letter(u, letters, valued)
                 sk == Skipped(t)
      <4>1. c = [e EXCEPT !.from = i]
        BY <2>2, <2>3, <2>5, <3>1, <3>2, <3>8
      <4>2. line[i].dash = 1
        BY <3>2, <3>3, <3>8
      <4>3. /\ InCluster(u, line) /\ LetterOf(u, line) = 1 /\ u.optind = t.optind
            /\ Skipped(u) = Skipped(t)
        BY <1>1, <2>1, <3>1, <3>3, <4>2, ClusterStart
      <4> HIDE DEF u
      <4>4. /\ Outcome(f, e, line, f[<<u.optind, LetterOf(u, line)>>], Skipped(u), letters)
            /\ u.optind <= e.scan.optind
            /\ e.scan.optind = u.optind => e.scan.rest # <<>>
        BY <4>3, LetterFacts
      <4>5. Outcome(f, e, line, r, sk, letters)
        BY <3>5, <4>3, <4>4
      <4>6. PICK x, o, v : e = O!Found(x, o, v)
        BY LetterFound
      <4> HIDE DEF e, c
      <4>7. /\ Outcome(f, c, line, r, sk, letters) /\ c.from = i /\ c.scan = e.scan
            /\ c.option = e.option
        <5> HIDE DEF i, r, sk
        <5> QED BY <4>1, <4>5, <4>6, FromFacts
      <4>8. FoundOption(f, c, s, line, letters, long)
        <5>1. letters \subseteq letters \cup DOMAIN long
          OBVIOUS
        <5>2. Left(f, s, line).options = r.options /\ Left(f, s, line).faulty = r.faulty
          BY <2>1
        <5> HIDE DEF r, sk
        <5> QED BY <3>6, <4>7, <5>1, <5>2, FromOutcome DEF sk
      <4>9. c.scan.optind \in Nat /\ i <= c.scan.optind /\ (c.scan.optind = i => c.scan.rest # <<>>)
        <5>1. ScanOK(c.scan, line)
          BY <4>7 DEF Outcome
        <5>2. c.scan.optind \in Nat
          BY <1>1, <5>1, ScanFacts
        <5> QED BY <2>2, <4>3, <4>4, <4>7, <5>2
      <4>10. FoundThere(c, s, line, long)
        <5> HIDE DEF i
        <5> QED BY <1>1, <2>1, <3>1, <3>4, <4>2, <4>7, <4>9, WhereFound DEF i
      <4> QED BY <4>8, <4>10 DEF c
    <3> QED BY <3>7, <3>8
  <2> QED BY <2>4, <2>5
<1>3. CASE s.rest # <<>>
  <2> DEFINE i == s.optind
             e == O!Letter(s, letters, valued)
             sk == Skipped(s)
             r == Left(f, s, line)
  <2>1. /\ i \in 1 .. n /\ line[i].dash = 1 /\ s.argv[i] = line[i] /\ O!Argc(s) = n + 1 /\ i # n + 1
    <3>1. /\ O!Argc(s) = n + 1 /\ 1 <= s.optind /\ \A m \in s.optind .. n : s.argv[m] = line[m]
      BY <1>1, ScanFacts
    <3>2. s.optind <= n /\ line[s.optind].dash = 1
      BY <1>3 DEF ScanOK
    <3> QED BY <1>1, <3>1, <3>2
  <2>2. line[i].pos = i
    BY <1>1, <2>1, LineFacts
  <2>3. c = [e EXCEPT !.from = i]
    <3>1. c = IF s.optind = O!Argc(s)
                THEN O!AllDone(s)
                ELSE [(IF s.argv[s.optind].dash = 2
                         THEN O!LongOption(s, long)
                         ELSE O!Letter(s, letters, valued))
                        EXCEPT !.from = s.argv[s.optind].pos]
      BY <1>3 DEF O!Call
    <3> HIDE DEF c
    <3> QED BY <2>1, <2>2, <3>1
  <2>4. InCluster(s, line) /\ LetterOf(s, line) = LetterAt(s, line)
    <3>1. LetterOf(s, line) = LetterAt(s, line)
      BY <1>3 DEF LetterOf, LetterAt
    <3>2. LetterAt(s, line) \in 1 .. Len(line[s.optind].text)
      <4> DEFINE k == LetterAt(s, line)
                 m == Len(line[s.optind].text)
      <4>1. k \in 2 .. m
        BY <1>3 DEF ScanOK
      <4>2. m \in Nat
        BY <1>1, <2>1, LineFacts
      <4> HIDE DEF k, m
      <4>3. k \in 1 .. m
        BY <4>1, <4>2
      <4> QED BY <4>3 DEF k, m
    <3> QED BY <1>3, <3>1, <3>2 DEF ScanOK, InCluster
  <2>5. /\ Outcome(f, e, line, f[<<s.optind, LetterOf(s, line)>>], sk, letters)
        /\ s.optind <= e.scan.optind
        /\ e.scan.optind = s.optind => e.scan.rest # <<>>
    BY <2>4, LetterFacts
  <2>6. Outcome(f, e, line, r, sk, letters)
    BY <2>4, <2>5 DEF Left
  <2>7. PICK x, o, v : e = O!Found(x, o, v)
    BY LetterFound
  <2> HIDE DEF e, c
  <2>8. /\ Outcome(f, c, line, r, sk, letters) /\ c.from = i /\ c.scan = e.scan
        /\ c.option = e.option
    <3> HIDE DEF i, r, sk
    <3> QED BY <2>3, <2>6, <2>7, FromFacts
  <2>9. FoundOption(f, c, s, line, letters, long)
    <3>1. letters \subseteq letters \cup DOMAIN long /\ AllWords(f, s, line) = sk \o r.words
      BY DEF AllWords
    <3> HIDE DEF sk
    <3> QED BY <2>8, <3>1, FromOutcome
  <2>10. c.scan.optind \in Nat /\ i <= c.scan.optind /\ (c.scan.optind = i => c.scan.rest # <<>>)
    <3>1. ScanOK(c.scan, line)
      BY <2>8 DEF Outcome
    <3>2. c.scan.optind \in Nat
      BY <1>1, <3>1, ScanFacts
    <3> QED BY <2>5, <2>8, <3>2
  <2>11. FoundThere(c, s, line, long)
    <3>1. i <= i /\ i = s.optind
      BY <1>1
    <3> HIDE DEF i
    <3> QED BY <1>1, <2>1, <2>8, <2>10, <3>1, WhereFound
  <2> QED BY <2>9, <2>11 DEF c
<1> QED
  BY <1>2, <1>3
-----------------------------------------------------------------------------
(* The programs: one turn of a loop *)

Tests == {"test1", "test2", "test3", "long"}

LEMMA VocabularyOf ==
  ASSUME NEW t, NEW l, NEW v, NEW g, NEW d, O!Letters[t] = l, O!Valued[t] = v, O!Known(t) = g,
         DOMAIN g = d, \A name \in d : g[name] \in BOOLEAN,
         l \subseteq O!Symbols, v \subseteq l, d \subseteq O!Symbols,
         "end" \notin l, "end" \notin d, t # "test2" => "?" \notin l, "?" \notin d
  PROVE  /\ Vocabularies(O!Letters[t], O!Valued[t], O!Known(t))
         /\ "end" \notin O!Letters[t] \cup DOMAIN O!Known(t)
         /\ t # "test2" => "?" \notin O!Letters[t] \cup DOMAIN O!Known(t)
BY DEF Vocabularies

LEMMA ProgramVocabularies ==
  ASSUME NEW t \in Tests
  PROVE  /\ Vocabularies(O!Letters[t], O!Valued[t], O!Known(t))
         /\ "end" \notin O!Letters[t] \cup DOMAIN O!Known(t)
         /\ t # "test2" => "?" \notin O!Letters[t] \cup DOMAIN O!Known(t)
<1>1. CASE t = "long"
  <2> DEFINE l == {"a", "b", "c", "d", "0", "1", "2"}
             v == {"c", "d"}
             d == {"add", "append", "delete", "verbose", "create", "file"}
             g == O!LongOptions
  <2>1. O!Letters[t] = l /\ O!Valued[t] = v
    BY <1>1 DEF O!Letters, O!Valued
  <2>2. O!Known(t) = g
    BY <1>1 DEF O!Known
  <2>3. DOMAIN g = d
    BY DEF O!LongOptions
  <2>4. \A name \in d : g[name] \in BOOLEAN
    <3>1. /\ g["add"] = TRUE /\ g["append"] = FALSE /\ g["delete"] = TRUE /\ g["verbose"] = FALSE
          /\ g["create"] = TRUE /\ g["file"] = TRUE
      BY DEF O!LongOptions
    <3> HIDE DEF g
    <3> QED BY <3>1
  <2>5. /\ l \subseteq O!Symbols /\ v \subseteq l /\ d \subseteq O!Symbols
        /\ "end" \notin l /\ "end" \notin d /\ "?" \notin l /\ "?" \notin d
    <3>1. l \subseteq O!Symbols /\ d \subseteq O!Symbols
      <4>1. O!Letters.long = l /\ DOMAIN O!LongOptions = d
        BY <2>3 DEF O!Letters
      <4> HIDE DEF l, d
      <4> QED BY <4>1 DEF O!Symbols
    <3>2. "end" \notin l /\ "end" \notin d /\ "?" \notin l /\ "?" \notin d /\ v \subseteq l
      OBVIOUS
    <3> QED BY <3>1, <3>2
  <2> HIDE DEF l, v, d, g
  <2> QED BY <2>1, <2>2, <2>3, <2>4, <2>5, VocabularyOf
<1>2. CASE t # "long"
  <2> DEFINE g == O!Known(t)
             d == {}
  <2>1. DOMAIN g = d
    BY <1>2 DEF O!Known
  <2>2. /\ \A name \in d : g[name] \in BOOLEAN
        /\ d \subseteq O!Symbols /\ "end" \notin d /\ "?" \notin d
    OBVIOUS
  <2>3. CASE t = "test1"
    <3> DEFINE l == {"n", "t"}
               v == {"t"}
    <3>1. O!Letters[t] = l /\ O!Valued[t] = v
      BY <2>3 DEF O!Letters, O!Valued
    <3>2. l \subseteq O!Symbols /\ v \subseteq l /\ "end" \notin l /\ "?" \notin l
      <4>1. l \subseteq O!Symbols
        <5>1. O!Letters.test1 = l
          BY DEF O!Letters
        <5> HIDE DEF l
        <5> QED BY <5>1 DEF O!Symbols
      <4>2. v \subseteq l /\ "end" \notin l /\ "?" \notin l
        OBVIOUS
      <4> QED BY <4>1, <4>2
    <3> HIDE DEF l, v, d, g
    <3> QED BY <2>1, <2>2, <3>1, <3>2, VocabularyOf DEF g
  <2>4. CASE t = "test3"
    <3> DEFINE l == {"a", "b", "c"}
               v == {"c"}
    <3>1. O!Letters[t] = l /\ O!Valued[t] = v
      BY <2>4 DEF O!Letters, O!Valued
    <3>2. l \subseteq O!Symbols /\ v \subseteq l /\ "end" \notin l /\ "?" \notin l
      <4>1. l \subseteq O!Symbols
        <5>1. O!Letters.test3 = l
          BY DEF O!Letters
        <5> HIDE DEF l
        <5> QED BY <5>1 DEF O!Symbols
      <4>2. v \subseteq l /\ "end" \notin l /\ "?" \notin l
        OBVIOUS
      <4> QED BY <4>1, <4>2
    <3> HIDE DEF l, v, d, g
    <3> QED BY <2>1, <2>2, <3>1, <3>2, VocabularyOf DEF g
  <2>5. CASE t = "test2"
    <3> DEFINE l == {"f", "s", "o", "p", "w", "h", "z", "t", "d", "a", "b", "?"}
               v == l \ {"p", "?"}
    <3>1. O!Letters[t] = l /\ O!Valued[t] = v
      BY <2>5 DEF O!Letters, O!Valued
    <3>2. l \subseteq O!Symbols /\ v \subseteq l /\ "end" \notin l
      <4>1. l \subseteq O!Symbols
        <5>1. O!Letters.test2 = l
          BY DEF O!Letters
        <5> HIDE DEF l
        <5> QED BY <5>1 DEF O!Symbols
      <4>2. v \subseteq l /\ "end" \notin l
        OBVIOUS
      <4> QED BY <4>1, <4>2
    <3> HIDE DEF l, v, d, g
    <3> QED BY <2>1, <2>2, <2>5, <3>1, <3>2, VocabularyOf DEF g
  <2> QED BY <1>2, <2>3, <2>4, <2>5 DEF Tests
<1> QED
  BY <1>1, <1>2

\* The readings of the command line the program was called with.
ReadingsOf(line, t) == O!Readings(line, O!Letters[t], O!Valued[t], O!Known(t))

Read == ReadingsOf(args, test)

LEMMA Turn ==
  ASSUME test \in Tests, args \in O!Lines, ScanOK(scan, args)
  PROVE  /\ IsReading(Read, args, O!Letters[test], O!Valued[test], O!Known(test))
         /\ \/ Ended(Read, O!GetOption, scan, args)
            \/ /\ O!GetOption.option # "end"
               /\ FoundOption(Read, O!GetOption, scan, args, O!Letters[test], O!Known(test))
               /\ FoundThere(O!GetOption, scan, args, O!Known(test))
<1> DEFINE l == O!Letters[test]
           v == O!Valued[test]
           g == O!Known(test)
           c == O!GetOption
<1>1. Vocabularies(l, v, g) /\ "end" \notin l \cup DOMAIN g
  BY ProgramVocabularies
<1>2. c = O!Call(scan, l, v, g)
  BY DEF O!GetOption
<1> HIDE DEF l, v, g, c
<1>3. IsReading(O!Readings(args, l, v, g), args, l, v, g)
  BY <1>1, ReadingsAreReadings
<1>4. Read = O!Readings(args, l, v, g)
  BY DEF Read, ReadingsOf, l, v, g
<1>5. IsReading(Read, args, l, v, g)
  BY <1>3, <1>4
<1>6. \/ Ended(Read, c, scan, args)
      \/ FoundOption(Read, c, scan, args, l, g) /\ FoundThere(c, scan, args, g)
  BY <1>2, <1>5, CallFacts
<1>7. FoundOption(Read, c, scan, args, l, g) => c.option # "end"
  BY <1>1 DEF FoundOption
<1> QED
  BY <1>5, <1>6, <1>7 DEF l, v, g, c

LEMMA StartFacts ==
  ASSUME NEW line \in O!Lines
  PROVE  ScanOK(O!Start(line), line) /\ O!Start(line).rest = <<>> /\ O!Start(line).optind = 1
<1> DEFINE s == O!Start(line)
<1>1. line \in Seq(O!Arguments) /\ Len(line) \in Nat /\ <<>> \in Seq(O!Symbols)
  BY LineFacts
<1>2. s = [argv |-> line, optind |-> 1, first |-> 1, last |-> 1, rest |-> <<>>]
  BY DEF O!Start
<1> HIDE DEF s
<1>3. s \in ScanType
  BY <1>1, <1>2 DEF ScanType
<1>4. Ordered(s)
  BY <1>1, <1>2, <1>3 DEF Ordered
<1>5. Untouched(s, line)
  BY <1>1, <1>2 DEF Untouched
<1>6. s.rest = <<>> /\ s.optind = 1
  BY <1>2
<1> QED
  BY <1>4, <1>5, <1>6 DEF ScanOK, s

LEMMA Test2Line == O!Test2Args \in O!Lines
<1> DEFINE a1 == [dash |-> 1, text |-> <<"f">>, pos |-> 1]
           a2 == [dash |-> 0, text |-> <<"input.gmn">>, pos |-> 2]
           a3 == [dash |-> 1, text |-> <<"o", "utput.jpg">>, pos |-> 3]
<1>1. a1 \in O!Arguments /\ a2 \in O!Arguments /\ a3 \in O!Arguments
  <2>1. /\ <<"f">> \in Seq(O!Symbols) /\ <<"input.gmn">> \in Seq(O!Symbols)
        /\ <<"o", "utput.jpg">> \in Seq(O!Symbols)
    <3>1. {"f", "o"} \subseteq O!Letters.test2
      BY DEF O!Letters
    <3>2. {"f", "o", "input.gmn", "utput.jpg"} \subseteq O!Symbols
      <4> DEFINE l == O!Letters.test2
      <4>1. {"f", "o"} \subseteq l
        BY <3>1
      <4> HIDE DEF l
      <4>2. l \subseteq O!Symbols
        BY DEF O!Symbols, l
      <4>3. {"input.gmn", "utput.jpg"} \subseteq O!Symbols
        BY DEF O!Symbols
      <4> QED BY <4>1, <4>2, <4>3
    <3> QED BY <3>2
  <2> DEFINE t1 == <<"f">>  t2 == <<"input.gmn">>  t3 == <<"o", "utput.jpg">>
  <2> HIDE DEF t1, t2, t3
  <2>2. \A t \in Seq(O!Symbols), p \in Nat, d \in {0, 1} :
          [dash |-> d, text |-> t, pos |-> p] \in O!Arguments
    BY DEF O!Arguments
  <2> QED BY <2>1, <2>2
<1>2. a1.pos = 1 /\ a2.pos = 2 /\ a3.pos = 3
  OBVIOUS
<1>3. O!Test2Args = <<a1, a2, a3>>
  BY DEF O!Test2Args
<1> HIDE DEF a1, a2, a3
<1>4. <<a1, a2, a3>> \in Seq(O!Arguments) /\ DOMAIN <<a1, a2, a3>> = 1 .. 3
  BY <1>1
<1>5. \A i \in 1 .. 3 : <<a1, a2, a3>>[i].pos = i
  <2> SUFFICES ASSUME NEW i \in 1 .. 3 PROVE <<a1, a2, a3>>[i].pos = i
    OBVIOUS
  <2>1. i = 1 \/ i = 2 \/ i = 3
    OBVIOUS
  <2> QED BY <1>2, <2>1
<1> QED
  BY <1>3, <1>4, <1>5 DEF O!Lines

\* While a program runs, getopt's state fits its command line.
Parsing ==
  oAt = "loop" => test \in Tests /\ args \in O!Lines /\ ScanOK(scan, args)

LEMMA Selections ==
  ASSUME NEW a
  PROVE  O!Selected(a) \in {"test1", "test2", "test3", "error"}
BY DEF O!Selected

LEMMA ParsingStep ==
  ASSUME Parsing, O!Shell \/ O!Next
  PROVE  Parsing'
<1>1. ASSUME NEW a \in O!Lines, NEW t \in Tests \cup {"error"}, O!Invoke(t, a)
      PROVE  Parsing'
  <2>1. CASE t = "error"
    BY <1>1, <2>1 DEF O!Invoke, Parsing
  <2>2. CASE t # "error"
    <3>1. test' = t /\ test' \in Tests /\ scan' = O!Start(args') /\ args' \in O!Lines
      BY <1>1, <2>2, Test2Line DEF O!Invoke
    <3>2. ScanOK(scan', args')
      BY <3>1, StartFacts
    <3>3. ScanOK(scan, args)'
      BY <3>2 DEF ScanOK, Ordered, Untouched, LetterAt, ScanType
    <3> QED BY <3>1, <3>3 DEF Parsing
  <2> QED BY <2>1, <2>2
<1>2. CASE O!Shell
  <2>1. PICK a \in O!Lines : O!Invoke(O!Selected(a), a) \/ O!Invoke("long", a)
    BY <1>2 DEF O!Shell
  <2>2. O!Selected(a) \in Tests \cup {"error"} /\ "long" \in Tests \cup {"error"}
    BY Selections DEF Tests
  <2> QED BY <1>1, <2>1, <2>2
<1>3. ASSUME oAt = "loop", UNCHANGED <<test, args>>, scan' = O!GetOption.scan,
             O!GetOption.option # "end"
      PROVE  Parsing'
  <2>1. test \in Tests /\ args \in O!Lines /\ ScanOK(scan, args)
    BY <1>3 DEF Parsing
  <2>2. ScanOK(O!GetOption.scan, args)
    <3>1. ~Ended(Read, O!GetOption, scan, args)
      BY <1>3 DEF Ended
    <3> QED BY <2>1, <3>1, Turn DEF FoundOption
  <2>3. ScanOK(scan', args')
    BY <1>3, <2>2
  <2>4. ScanOK(scan, args)'
    BY <2>3 DEF ScanOK, Ordered, Untouched, LetterAt, ScanType
  <2> QED BY <1>3, <2>1, <2>4 DEF Parsing
<1>4. CASE O!Test1
  <2>1. CASE O!GetOption.option # "end"
    BY <1>3, <1>4, <2>1 DEF O!Test1, O!InLoop, O!Remember
  <2>2. CASE O!GetOption.option = "end"
    BY <1>4, <2>2 DEF O!Test1, Parsing
  <2> QED BY <2>1, <2>2
<1>5. CASE O!Test2
  <2>1. CASE O!GetOption.option # "end"
    BY <1>3, <1>5, <2>1 DEF O!Test2, O!InLoop
  <2>2. CASE O!GetOption.option = "end"
    BY <1>5, <2>2 DEF O!Test2, Parsing
  <2> QED BY <2>1, <2>2
<1>6. CASE O!Test3
  <2>1. CASE O!GetOption.option # "end"
    BY <1>3, <1>6, <2>1 DEF O!Test3, O!InLoop, O!Remember
  <2>2. CASE O!GetOption.option = "end"
    BY <1>6, <2>2 DEF O!Test3, Parsing
  <2> QED BY <2>1, <2>2
<1>7. CASE O!Long
  <2>1. CASE O!GetOption.option # "end"
    <3>1. oAt = "loop" /\ UNCHANGED <<test, args>> /\ scan' = O!GetOption.scan
      BY <1>7, <2>1 DEF O!Long, O!InLoop
    <3> QED BY <1>3, <2>1, <3>1
  <2>2. CASE O!GetOption.option = "end"
    BY <1>7, <2>2 DEF O!Long, Parsing
  <2> QED BY <2>1, <2>2
<1>8. CASE O!Name
  BY <1>8 DEF O!Name, Parsing
<1> QED
  BY <1>2, <1>4, <1>5, <1>6, <1>7, <1>8 DEF O!Next
-----------------------------------------------------------------------------
(* Digits in two arguments *)

Differ(q) == \E i, j \in DOMAIN q : q[i] # q[j]

Spread == Differ(digits)

\* One more digit.
LEMMA DigitStep ==
  ASSUME NEW q \in Seq(Nat), NEW p \in Nat
  PROVE  /\ Append(q, p) \in Seq(Nat) /\ Append(q, p) # <<>>
         /\ Append(q, p)[Len(Append(q, p))] = p
         /\ q = <<>> => ~Differ(Append(q, p))
         /\ q # <<>> /\ q[Len(q)] # p => Differ(Append(q, p))
         /\ q # <<>> /\ q[Len(q)] = p => (Differ(Append(q, p)) <=> Differ(q))
<1> DEFINE n == Len(q)
           r == Append(q, p)
<1>1. n \in Nat /\ DOMAIN q = 1 .. n /\ (q # <<>> => n # 0) /\ (q = <<>> => n = 0)
  BY EmptySeq, LenProperties
<1>2. /\ r \in Seq(Nat) /\ Len(r) = n + 1 /\ r # <<>> /\ DOMAIN r = 1 .. n + 1
      /\ \A i \in 1 .. n : r[i] = q[i]
      /\ r[n + 1] = p
  BY <1>1, AppendProperties
<1> HIDE DEF r, n
<1>3. q = <<>> => \A i, j \in DOMAIN r : r[i] = r[j]
  <2> SUFFICES ASSUME q = <<>>, NEW i \in DOMAIN r, NEW j \in DOMAIN r PROVE r[i] = r[j]
    OBVIOUS
  <2>1. i = 1 /\ j = 1
    BY <1>1, <1>2
  <2> QED BY <2>1
<1>4. q # <<>> /\ q[n] # p => \E i, j \in DOMAIN r : r[i] # r[j]
  <2> SUFFICES ASSUME q # <<>>, q[n] # p PROVE \E i, j \in DOMAIN r : r[i] # r[j]
    OBVIOUS
  <2>1. n \in 1 .. n /\ n \in DOMAIN r /\ n + 1 \in DOMAIN r
    BY <1>1, <1>2
  <2>2. r[n] # r[n + 1]
    BY <1>2, <2>1
  <2> QED BY <2>1, <2>2
<1>5. ASSUME q # <<>>, q[n] = p, NEW i \in DOMAIN r, NEW j \in DOMAIN r, r[i] # r[j]
      PROVE  \E a, b \in DOMAIN q : q[a] # q[b]
  <2> DEFINE a == IF i = n + 1 THEN n ELSE i
             b == IF j = n + 1 THEN n ELSE j
  <2>1. n \in 1 .. n
    BY <1>1, <1>5
  <2>2. a \in 1 .. n /\ r[i] = q[a]
    <3>1. CASE i = n + 1
      BY <1>2, <1>5, <2>1, <3>1
    <3>2. CASE i # n + 1
      <4>1. i \in 1 .. n
        BY <1>1, <1>2, <3>2
      <4> QED BY <1>2, <3>2, <4>1
    <3> QED BY <3>1, <3>2
  <2>3. b \in 1 .. n /\ r[j] = q[b]
    <3>1. CASE j = n + 1
      BY <1>2, <1>5, <2>1, <3>1
    <3>2. CASE j # n + 1
      <4>1. j \in 1 .. n
        BY <1>1, <1>2, <3>2
      <4> QED BY <1>2, <3>2, <4>1
    <3> QED BY <3>1, <3>2
  <2> HIDE DEF a, b
  <2> QED BY <1>1, <1>5, <2>2, <2>3
<1>6. ASSUME NEW i \in DOMAIN q, NEW j \in DOMAIN q, q[i] # q[j]
      PROVE  \E a, b \in DOMAIN r : r[a] # r[b]
  <2>1. i \in 1 .. n /\ j \in 1 .. n /\ i \in DOMAIN r /\ j \in DOMAIN r
    BY <1>1, <1>2
  <2>2. r[i] # r[j]
    BY <1>2, <1>6, <2>1
  <2> QED BY <2>1, <2>2
<1>7. q # <<>> /\ q[n] = p =>
        ((\E i, j \in DOMAIN r : r[i] # r[j]) <=> \E i, j \in DOMAIN q : q[i] # q[j])
  BY <1>5, <1>6
<1>8. r[Len(r)] = p
  BY <1>2
<1> QED
  BY <1>2, <1>3, <1>4, <1>7, <1>8 DEF r, n, Differ

\* What is remembered of the digits says enough.
DigitsKept ==
  /\ digits \in Seq(Nat) /\ told \in BOOLEAN
  /\ digits = <<>> => digitOptind = 0 /\ ~told
  /\ Spread => told
  /\ told => Spread \/ O!DigitsBehindWord

\* Where the last digit was found, and where getopt stood before.
LastDigit(d) ==
  /\ d \in 1 .. Len(args) /\ digitOptind \in 1 .. d /\ d <= scan.optind
  /\ d = scan.optind => scan.rest # <<>>
  /\ args[d].dash = 1
  /\ digitOptind # d => O!Plain(args[d - 1])

DigitsInv ==
  /\ Parsing /\ DigitsKept
  /\ oAt = "shell" => digits = <<>>
  /\ oAt = "loop" /\ digits # <<>> => test = "long" /\ LastDigit(digits[Len(digits)])

LEMMA DigitsUnchanged ==
  ASSUME DigitsKept, UNCHANGED <<args, digits, digitOptind, told>>
  PROVE  DigitsKept'
BY DEF DigitsKept, Spread, Differ, O!DigitsBehindWord

LEMMA DigitsInit == O!Init => DigitsInv
<1> SUFFICES ASSUME O!Init PROVE DigitsInv
  OBVIOUS
<1>1. digits = <<>> /\ told = FALSE /\ digitOptind = 0 /\ oAt = "shell"
  BY DEF O!Init
<1>2. <<>> \in Seq(Nat) /\ DOMAIN <<>> = {}
  OBVIOUS
<1>3. ~Spread
  BY <1>1, <1>2 DEF Spread, Differ
<1> QED
  BY <1>1, <1>2, <1>3 DEF DigitsInv, DigitsKept, Parsing

\* A digit is remembered.
LEMMA DigitRemembered ==
  ASSUME DigitsInv, oAt = "loop", test = "long", UNCHANGED <<oAt, test, args>>,
         scan' = O!GetOption.scan, O!GetOption.option \in O!Digits,
         FoundThere(O!GetOption, scan, args, O!Known(test)), O!Digit(O!GetOption)
  PROVE  /\ DigitsKept'
         /\ digits' # <<>> /\ LastDigit(digits[Len(digits)])'
<1> DEFINE p == O!GetOption.from
           d == digits[Len(digits)]
           o == scan.optind
<1>1. args \in O!Lines /\ ScanOK(scan, args)
  BY DEF DigitsInv, Parsing
<1>2. Len(args) \in Nat /\ o \in Nat /\ 1 <= o
  BY <1>1, ScanFacts
<1>3. /\ p \in Nat /\ o <= p /\ p <= Len(args) /\ p <= scan'.optind
      /\ scan'.optind = p => scan'.rest # <<>>
      /\ p # o => scan.rest = <<>> /\ O!Plain(args[p - 1])
      /\ args[p].dash = 1
  <2>1. O!GetOption.option \notin DOMAIN O!Known(test) \cup {"?"}
    <3>1. DOMAIN O!Known(test) = {"add", "append", "delete", "verbose", "create", "file"}
      BY DEF O!Known, O!LongOptions
    <3> QED BY <3>1 DEF O!Digits
  <2>2. /\ p \in Nat /\ o <= p /\ p <= Len(args) /\ p <= scan'.optind
        /\ scan'.optind = p => scan'.rest # <<>>
        /\ p # o => scan.rest = <<>> /\ \A m \in o .. p - 1 : O!Plain(args[m])
        /\ args[p].dash = 1
    BY <2>1 DEF FoundThere
  <2>3. p # o => p - 1 \in o .. p - 1
    BY <1>2, <2>2
  <2> QED BY <2>2, <2>3
<1>4. /\ digits' = Append(digits, p) /\ digitOptind' = o
      /\ told' = (told \/ (digitOptind # 0 /\ digitOptind # o))
  BY DEF O!Digit
<1>5. digits \in Seq(Nat) /\ told \in BOOLEAN
  BY DEF DigitsInv, DigitsKept
<1> HIDE DEF p
<1>6. /\ digits' \in Seq(Nat) /\ digits' # <<>> /\ digits'[Len(digits')] = p
      /\ digits = <<>> => ~Spread'
      /\ digits # <<>> /\ d # p => Spread'
      /\ digits # <<>> /\ d = p => (Spread' <=> Spread)
  <2> DEFINE r == Append(digits, p)
  <2>1. /\ r \in Seq(Nat) /\ r # <<>> /\ r[Len(r)] = p
        /\ digits = <<>> => ~Differ(r)
        /\ digits # <<>> /\ d # p => Differ(r)
        /\ digits # <<>> /\ d = p => (Differ(r) <=> Differ(digits))
    BY <1>3, <1>5, DigitStep
  <2>2. digits' = r
    BY <1>4
  <2> HIDE DEF r, d
  <2>3. Spread' <=> Differ(r)
    BY <2>2 DEF Spread, Differ
  <2> QED BY <2>1, <2>2, <2>3 DEF Spread
<1>7. LastDigit(digits[Len(digits)])'
  <2>1. p \in 1 .. Len(args) /\ o \in 1 .. p
    BY <1>2, <1>3
  <2> HIDE DEF o
  <2>2. /\ p \in 1 .. Len(args') /\ digitOptind' \in 1 .. p /\ p <= scan'.optind
        /\ p = scan'.optind => scan'.rest # <<>>
        /\ args'[p].dash = 1
        /\ digitOptind' # p => O!Plain(args'[p - 1])
    BY <1>3, <1>4, <2>1
  <2> QED BY <1>6, <2>2 DEF LastDigit, O!Plain
<1>8. told' \in BOOLEAN
  BY <1>4, <1>5
<1>9. O!DigitsBehindWord' <=> O!DigitsBehindWord
  BY DEF O!DigitsBehindWord, O!Plain
<1>10. CASE digits = <<>>
  <2>1. digitOptind = 0 /\ ~told
    BY <1>10 DEF DigitsInv, DigitsKept
  <2> QED BY <1>4, <1>6, <1>7, <1>8, <1>10, <2>1 DEF DigitsKept
<1>11. CASE digits # <<>> /\ d # p
  <2>1. LastDigit(d)
    BY <1>11 DEF DigitsInv
  <2>2. d \in Nat /\ digitOptind \in 1 .. d /\ d <= o /\ (d = o => scan.rest # <<>>)
    BY <2>1 DEF LastDigit
  <2>3. digitOptind # o
    <3> SUFFICES ASSUME digitOptind = o PROVE FALSE
      OBVIOUS
    <3>1. d = o
      BY <1>2, <2>2
    <3> QED BY <1>3, <1>11, <2>2, <3>1
  <2>4. digitOptind # 0
    BY <2>2
  <2> QED BY <1>4, <1>6, <1>7, <1>8, <1>11, <2>3, <2>4 DEF DigitsKept
<1>12. CASE digits # <<>> /\ d = p
  <2>1. LastDigit(d)
    BY <1>12 DEF DigitsInv
  <2>2. /\ d \in 1 .. Len(args) /\ digitOptind \in 1 .. d /\ d <= o /\ (d = o => scan.rest # <<>>)
        /\ args[d].dash = 1 /\ (digitOptind # d => O!Plain(args[d - 1]))
    BY <2>1 DEF LastDigit
  <2>3. d = o
    BY <1>2, <1>3, <1>12, <2>2
  <2>4. digitOptind # o => O!DigitsBehindWord
    <3> SUFFICES ASSUME digitOptind # o PROVE O!DigitsBehindWord
      OBVIOUS
    <3>1. O!Plain(args[d - 1]) /\ d \in 2 .. Len(args)
      BY <1>2, <2>2, <2>3
    <3>2. Len(args[d].text) > 1
      <4> DEFINE m == Len(args[d].text)
                 k == LetterAt(scan, args)
      <4>1. k \in 2 .. Len(args[o].text)
        BY <1>1, <2>2, <2>3 DEF ScanOK
      <4>2. m \in Nat
        BY <1>1, <2>2, LineFacts
      <4>3. k \in 2 .. m
        BY <2>3, <4>1
      <4> HIDE DEF m, k
      <4>4. m > 1
        BY <4>2, <4>3
      <4> QED BY <4>4 DEF m
    <3> HIDE DEF d
    <3> QED BY <2>2, <3>1, <3>2 DEF O!DigitsBehindWord
  <2>5. (Spread => told) /\ (told => Spread \/ O!DigitsBehindWord)
    BY DEF DigitsInv, DigitsKept
  <2>6. Spread' <=> Spread
    BY <1>6, <1>12
  <2> HIDE DEF o
  <2>7. (Spread' => told') /\ (told' => Spread' \/ O!DigitsBehindWord')
    BY <1>4, <1>9, <2>4, <2>5, <2>6
  <2> QED BY <1>6, <1>7, <1>8, <2>7 DEF DigitsKept
<1> QED
  BY <1>10, <1>11, <1>12

\* A call that remembers no digit.
LEMMA NoDigit ==
  ASSUME DigitsInv, oAt = "loop", test = "long", UNCHANGED <<args, test, digits, digitOptind, told>>,
         scan' = O!GetOption.scan, FoundThere(O!GetOption, scan, args, O!Known(test)),
         digits # <<>>
  PROVE  LastDigit(digits[Len(digits)])'
<1> DEFINE p == O!GetOption.from
           d == digits[Len(digits)]
           o == scan.optind
<1>1. o \in Nat
  BY ScanFacts DEF DigitsInv, Parsing
<1>2. /\ p \in Nat /\ o <= p /\ p <= scan'.optind
      /\ scan'.optind = p => scan'.rest # <<>>
  BY DEF FoundThere
<1>3. LastDigit(d)
  BY DEF DigitsInv
<1>4. /\ d \in 1 .. Len(args) /\ digitOptind \in 1 .. d /\ d <= o
      /\ args[d].dash = 1 /\ (digitOptind # d => O!Plain(args[d - 1]))
  BY <1>3 DEF LastDigit
<1>5. scan'.optind \in Nat
  <2>1. args \in O!Lines /\ test \in Tests /\ ScanOK(scan, args)
    BY DEF DigitsInv, Parsing
  <2>2. CASE Ended(Read, O!GetOption, scan, args)
    BY <2>2 DEF Ended
  <2>3. CASE FoundOption(Read, O!GetOption, scan, args, O!Letters[test], O!Known(test))
    <3>1. ScanOK(O!GetOption.scan, args)
      BY <2>3 DEF FoundOption
    <3> QED BY <2>1, <3>1, ScanFacts
  <2> QED BY <2>1, <2>2, <2>3, Turn
<1>6. d <= scan'.optind /\ (d = scan'.optind => scan'.rest # <<>>)
  <2>1. d \in Nat
    BY <1>4
  <2> HIDE DEF p, d, o
  <2> QED BY <1>1, <1>2, <1>4, <1>5, <2>1
<1> HIDE DEF p, o
<1>7. d' = d
  OBVIOUS
<1> HIDE DEF d
<1>8. LastDigit(d)'
  BY <1>4, <1>6, <1>7 DEF LastDigit, O!Plain
<1> QED
  BY <1>8 DEF d

LEMMA DigitsStep ==
  ASSUME DigitsInv, O!Shell \/ O!Next
  PROVE  DigitsInv'
<1>1. Parsing'
  BY ParsingStep DEF DigitsInv
<1>2. ASSUME UNCHANGED <<args, digits, digitOptind, told>>, oAt # "shell", oAt' # "shell",
             oAt' = "loop" /\ digits # <<>> => test' = "long" /\ LastDigit(digits[Len(digits)])'
      PROVE  DigitsInv'
  <2>1. DigitsKept'
    BY <1>2, DigitsUnchanged DEF DigitsInv
  <2>2. digits' = digits
    BY <1>2
  <2> QED BY <1>1, <1>2, <2>1, <2>2 DEF DigitsInv
<1>3. CASE O!Shell
  <2>1. PICK t, a : O!Invoke(t, a)
    BY <1>3 DEF O!Shell
  <2>2. oAt = "shell" /\ UNCHANGED <<digits, digitOptind, told>> /\ digits = <<>>
    BY <2>1 DEF O!Invoke, DigitsInv
  <2>3. digitOptind = 0 /\ ~told /\ digits' = <<>>
    BY <2>2 DEF DigitsInv, DigitsKept
  <2>4. ~Spread'
    <3>1. DOMAIN <<>> = {}
      OBVIOUS
    <3> QED BY <2>3, <3>1 DEF Spread, Differ
  <2>5. DigitsKept'
    <3>1. digits' \in Seq(Nat) /\ told' = told /\ told \in BOOLEAN /\ digitOptind' = 0
      BY <2>2, <2>3 DEF DigitsInv, DigitsKept
    <3> QED BY <2>3, <2>4, <3>1 DEF DigitsKept
  <2> QED BY <1>1, <2>3, <2>5 DEF DigitsInv
<1>4. CASE O!Test1
  <2>1. /\ UNCHANGED <<args, digits, digitOptind, told>> /\ oAt = "loop" /\ test = "test1"
        /\ oAt' # "shell"
    BY <1>4 DEF O!Test1, O!InLoop, O!Remember
  <2>2. digits = <<>>
    BY <2>1 DEF DigitsInv
  <2> QED BY <1>2, <2>1, <2>2
<1>5. CASE O!Test2
  <2>1. /\ UNCHANGED <<args, digits, digitOptind, told>> /\ oAt = "loop" /\ test = "test2"
        /\ oAt' # "shell"
    BY <1>5 DEF O!Test2, O!InLoop
  <2>2. digits = <<>>
    BY <2>1 DEF DigitsInv
  <2> QED BY <1>2, <2>1, <2>2
<1>6. CASE O!Test3
  <2>1. /\ UNCHANGED <<args, digits, digitOptind, told>> /\ oAt = "loop" /\ test = "test3"
        /\ oAt' # "shell"
    BY <1>6 DEF O!Test3, O!InLoop, O!Remember
  <2>2. digits = <<>>
    BY <2>1 DEF DigitsInv
  <2> QED BY <1>2, <2>1, <2>2
<1>7. CASE O!Name
  <2>1. /\ UNCHANGED <<args, digits, digitOptind, told>> /\ oAt = "name" /\ oAt' # "shell"
        /\ oAt' # "loop"
    BY <1>7 DEF O!Name
  <2> QED BY <1>2, <2>1
<1>8. CASE O!Long
  <2>1. /\ oAt = "loop" /\ test = "long" /\ UNCHANGED <<test, args>>
    BY <1>8 DEF O!Long, O!InLoop
  <2>2. test \in Tests /\ args \in O!Lines /\ ScanOK(scan, args)
    BY <2>1 DEF DigitsInv, Parsing
  <2>3. CASE O!GetOption.option = "end"
    <3>1. oAt' = "done" /\ UNCHANGED <<digits, digitOptind, told>>
      BY <1>8, <2>3 DEF O!Long
    <3> QED BY <1>2, <2>1, <3>1
  <2>4. ASSUME O!GetOption.option # "end" PROVE FoundThere(O!GetOption, scan, args, O!Known(test))
    <3>1. ~Ended(Read, O!GetOption, scan, args)
      BY <2>4 DEF Ended
    <3> QED BY <2>2, <3>1, Turn
  <2>5. CASE O!GetOption.option # "end" /\ O!GetOption.option \in O!Digits
    <3>1. /\ scan' = O!GetOption.scan /\ UNCHANGED oAt /\ O!Digit(O!GetOption)
      <4>1. O!GetOption.option # "?"
        BY <2>5 DEF O!Digits
      <4> QED BY <1>8, <2>5, <4>1 DEF O!Long
    <3>2. DigitsKept' /\ digits' # <<>> /\ LastDigit(digits[Len(digits)])'
      BY <2>1, <2>4, <2>5, <3>1, DigitRemembered
    <3> QED BY <1>1, <2>1, <3>1, <3>2 DEF DigitsInv
  <2>6. CASE O!GetOption.option # "end" /\ O!GetOption.option \notin O!Digits
    <3>1. /\ scan' = O!GetOption.scan /\ UNCHANGED oAt /\ UNCHANGED <<digits, digitOptind, told>>
      BY <1>8, <2>6 DEF O!Long
    <3>2. digits # <<>> => LastDigit(digits[Len(digits)])'
      BY <2>1, <2>4, <2>6, <3>1, NoDigit
    <3> QED BY <1>2, <2>1, <3>1, <3>2
  <2> QED BY <2>3, <2>5, <2>6
<1> QED
  BY <1>3, <1>4, <1>5, <1>6, <1>7, <1>8 DEF O!Next

LEMMA DigitsStutter ==
  ASSUME DigitsInv, UNCHANGED O!vars
  PROVE  DigitsInv'
<1>1. /\ UNCHANGED <<oAt, test, args, scan, digits, digitOptind, told>>
  BY DEF O!vars
<1>2. DigitsKept'
  BY <1>1, DigitsUnchanged DEF DigitsInv
<1>3. Parsing'
  BY <1>1 DEF DigitsInv, Parsing, ScanOK, Ordered, Untouched, LetterAt, ScanType
<1>4. \A d : LastDigit(d) => LastDigit(d)'
  BY <1>1 DEF LastDigit, O!Plain
<1> QED
  BY <1>1, <1>2, <1>3, <1>4 DEF DigitsInv

\* sample_getopt_long's remark on digits in two arguments is right but for the
\* digits of one argument behind a word, whatever the command line.
THEOREM DigitsReportedAlways == O!Spec => []DigitsReported
<1>1. DigitsInv => DigitsReported
  BY DEF DigitsInv, DigitsKept, Spread, Differ, DigitsReported, O!DigitsReported
<1>2. DigitsInv /\ [O!Shell \/ O!Next]_(O!vars) => DigitsInv'
  BY DigitsStep, DigitsStutter
<1> QED
  BY <1>1, <1>2, DigitsInit, PTL DEF O!Spec
-----------------------------------------------------------------------------
(* What is done with the options *)

LEMMA MaxFacts ==
  ASSUME NEW n \in Nat, NEW T, T \subseteq 1 .. n, T # {}
  PROVE  O!Max(T) \in T /\ \A m \in T : m <= O!Max(T)
<1> DEFINE U == {k \in Nat : n - k \in T}
<1>1. U \subseteq Nat /\ U # {}
  <2>1. PICK m \in T : TRUE
    OBVIOUS
  <2>2. n - m \in Nat /\ n - (n - m) = m
    BY <2>1
  <2>3. n - m \in U
    BY <2>1, <2>2
  <2> QED BY <2>3
<1>2. PICK u \in U : \A m \in U : u <= m
  <2> HIDE DEF U
  <2> QED BY <1>1, LeastMember
<1>3. ASSUME NEW m \in T PROVE m <= n - u
  <2>1. m \in 1 .. n /\ n - m \in Nat /\ n - (n - m) = m
    OBVIOUS
  <2>2. n - m \in U
    BY <2>1
  <2>3. u <= n - m
    BY <1>2, <2>2
  <2> QED BY <2>1, <2>3
<1>4. n - u \in T /\ \A m \in T : n - u >= m
  BY <1>2, <1>3
<1>5. O!Max(T) \in T /\ \A m \in T : O!Max(T) >= m
  <2> DEFINE x == n - u
  <2>1. x \in T /\ \A m \in T : x >= m
    BY <1>4
  <2> HIDE DEF x
  <2> QED BY <2>1 DEF O!Max
<1> QED
  BY <1>5

\* The value of the last option that takes one.
LastOf(q, valued) ==
  LET given == {i \in DOMAIN q : q[i].option \in valued}
  IN  IF given = {} THEN O!None ELSE q[O!Max(given)].value

OptionsOf(q) == {q[i].option : i \in DOMAIN q}

Reported(q) == [i \in DOMAIN q |-> [q[i] EXCEPT !.option = O!Reported(@)]]

\* One more option.
LEMMA OneMore ==
  ASSUME NEW q \in Seq(GoodOptions), NEW o \in GoodOptions, NEW valued
  PROVE  /\ LastOf(Append(q, o), valued)
              = IF o.option \in valued THEN o.value ELSE LastOf(q, valued)
         /\ OptionsOf(Append(q, o)) = OptionsOf(q) \cup {o.option}
         /\ Reported(Append(q, o))
              = Append(Reported(q), [option |-> O!Reported(o.option), value |-> o.value])
<1> DEFINE r == Append(q, o)
           n == Len(q)
           was == {i \in DOMAIN q : q[i].option \in valued}
           is == {i \in DOMAIN r : r[i].option \in valued}
<1>1. n \in Nat /\ DOMAIN q = 1 .. n /\ \A i \in 1 .. n : q[i] \in GoodOptions
  BY LenProperties, ElementOfSeq
<1>2. /\ r \in Seq(GoodOptions) /\ Len(r) = n + 1 /\ DOMAIN r = 1 .. n + 1
      /\ \A i \in 1 .. n : r[i] = q[i]
      /\ r[n + 1] = o
  <2>1. /\ r \in Seq(GoodOptions) /\ Len(r) = n + 1
        /\ \A i \in 1 .. n : r[i] = q[i]
        /\ r[n + 1] = o
    BY AppendProperties
  <2> HIDE DEF r, n
  <2>2. DOMAIN r = 1 .. n + 1
    BY <2>1, LenProperties
  <2> QED BY <2>1, <2>2
<1> HIDE DEF r, n
<1>3. ASSUME o.option \in valued PROVE LastOf(r, valued) = o.value
  <2>1. n + 1 \in is /\ is \subseteq 1 .. n + 1 /\ is # {}
    BY <1>1, <1>2, <1>3
  <2>2. O!Max(is) = n + 1
    <3> DEFINE e == n + 1
    <3>1. e \in Nat /\ is \subseteq 1 .. e /\ is # {} /\ e \in is
      BY <1>1, <2>1
    <3> HIDE DEF e, is
    <3>2. O!Max(is) \in is /\ e <= O!Max(is)
      BY <3>1, MaxFacts
    <3>3. O!Max(is) \in 1 .. e
      BY <3>1, <3>2
    <3>4. O!Max(is) = e
      BY <3>1, <3>2, <3>3
    <3> QED BY <3>4 DEF e
  <2> HIDE DEF is
  <2>3. LastOf(r, valued) = r[O!Max(is)].value
    BY <2>1 DEF LastOf, is
  <2> QED BY <1>2, <1>3, <2>2, <2>3
<1>4. ASSUME o.option \notin valued PROVE LastOf(r, valued) = LastOf(q, valued)
  <2>1. is = was
    <3>1. ASSUME NEW i \in is PROVE i \in was
      <4>1. i \in 1 .. n
        BY <1>1, <1>2, <1>4
      <4> QED BY <1>1, <1>2, <4>1
    <3>2. ASSUME NEW i \in was PROVE i \in is
      <4>1. i \in 1 .. n /\ i \in 1 .. n + 1
        BY <1>1
      <4> QED BY <1>1, <1>2, <4>1
    <3> QED BY <3>1, <3>2
  <2>2. was \subseteq 1 .. n
    BY <1>1
  <2>3. LastOf(r, valued) = IF is = {} THEN O!None ELSE r[O!Max(is)].value
    BY DEF LastOf
  <2>4. LastOf(q, valued) = IF was = {} THEN O!None ELSE q[O!Max(was)].value
    BY DEF LastOf
  <2>5. was # {} => r[O!Max(was)] = q[O!Max(was)]
    <3> HIDE DEF was
    <3>1. was # {} => O!Max(was) \in 1 .. n
      BY <1>1, <2>2, MaxFacts
    <3> QED BY <1>2, <3>1
  <2> HIDE DEF is, was
  <2> QED BY <1>4, <2>1, <2>3, <2>4, <2>5
<1>5. OptionsOf(r) = OptionsOf(q) \cup {o.option}
  <2>1. ASSUME NEW i \in DOMAIN r PROVE r[i].option \in OptionsOf(q) \cup {o.option}
    <3>1. CASE i = n + 1
      BY <1>2, <3>1
    <3>2. CASE i # n + 1
      <4>1. i \in 1 .. n
        BY <1>1, <1>2, <3>2
      <4> QED BY <1>1, <1>2, <4>1 DEF OptionsOf
    <3> QED BY <3>1, <3>2
  <2>2. ASSUME NEW i \in DOMAIN q PROVE q[i].option \in OptionsOf(r)
    <3>1. i \in 1 .. n /\ i \in DOMAIN r
      BY <1>1, <1>2
    <3>2. r[i] = q[i]
      BY <1>2, <3>1
    <3> QED BY <3>1, <3>2 DEF OptionsOf
  <2>3. o.option \in OptionsOf(r)
    <3>1. n + 1 \in DOMAIN r
      BY <1>1, <1>2
    <3> QED BY <1>2, <3>1 DEF OptionsOf
  <2> QED BY <2>1, <2>2, <2>3 DEF OptionsOf
<1>6. Reported(r) = Append(Reported(q), [option |-> O!Reported(o.option), value |-> o.value])
  <2> DEFINE Rep(a) == [a EXCEPT !.option = O!Reported(@)]
             S == {Rep(a) : a \in GoodOptions}
             x == Reported(r)
             y == Reported(q)
             z == Append(y, Rep(o))
  <2>1. Rep(o) = [option |-> O!Reported(o.option), value |-> o.value]
    BY DEF GoodOptions
  <2>2. x = [i \in 1 .. n + 1 |-> Rep(r[i])] /\ y = [i \in 1 .. n |-> Rep(q[i])]
    BY <1>1, <1>2 DEF Reported
  <2>3. r[n + 1] = o /\ \A i \in 1 .. n + 1 : r[i] \in GoodOptions
    BY <1>2, ElementOfSeq
  <2> HIDE DEF Rep, x, y
  <2>4. x \in Seq(S) /\ Len(x) = n + 1 /\ y \in Seq(S) /\ Len(y) = n
    <3>1. \A i \in 1 .. n + 1 : Rep(r[i]) \in S
      BY <2>3
    <3>2. \A i \in 1 .. n : Rep(q[i]) \in S
      BY <1>1
    <3> HIDE DEF S
    <3> QED BY <1>1, <2>2, <3>1, <3>2
  <2>5. Rep(o) \in S
    OBVIOUS
  <2> HIDE DEF S
  <2>6. /\ z \in Seq(S) /\ Len(z) = n + 1 /\ z[n + 1] = Rep(o)
        /\ \A i \in 1 .. n : z[i] = y[i]
    BY <2>4, <2>5, AppendProperties
  <2> HIDE DEF z
  <2>7. ASSUME NEW i \in 1 .. n + 1 PROVE x[i] = z[i]
    <3>1. CASE i = n + 1
      BY <1>2, <2>2, <2>6, <3>1
    <3>2. CASE i # n + 1
      <4>1. i \in 1 .. n
        BY <1>1, <3>2
      <4> QED BY <1>2, <2>2, <2>6, <4>1
    <3> QED BY <3>1, <3>2
  <2>8. x = z
    BY <2>4, <2>6, <2>7, SeqEqual
  <2> QED BY <2>1, <2>8 DEF x, y, z
<1> QED
  BY <1>3, <1>4, <1>5, <1>6 DEF r

LEMMA NoOptions ==
  ASSUME NEW valued
  PROVE  LastOf(<<>>, valued) = O!None /\ OptionsOf(<<>>) = {} /\ Reported(<<>>) = <<>>
<1>1. DOMAIN <<>> = {}
  OBVIOUS
<1>2. LastOf(<<>>, valued) = O!None
  BY <1>1 DEF LastOf
<1>3. OptionsOf(<<>>) = {}
  BY <1>1 DEF OptionsOf
<1>4. Reported(<<>>) = <<>>
  <2>1. Reported(<<>>) = [i \in {} |-> [<<>>[i] EXCEPT !.option = O!Reported(@)]]
    BY <1>1 DEF Reported
  <2> QED BY <2>1
<1> QED
  BY <1>2, <1>3, <1>4

\* What a program has done with the options it has been given.
Handled(t, q, fl, va, sh) ==
  /\ t \in {"test1", "test3"} => fl = OptionsOf(q) /\ va = LastOf(q, O!Valued[t])
  /\ t \in {"test2", "long"} => sh = Reported(q)

\* The options given and those left, the words passed over and those to come.
Progress(f, line, t, s, fl, va, sh) ==
  /\ \E q \in Seq(GoodOptions) :
       Handled(t, q, fl, va, sh) /\ f[<<1, 1>>].options = q \o Left(f, s, line).options
  /\ AllWords(f, s, line) = f[<<1, 1>>].words
  /\ t # "long" => f[<<1, 1>>].faulty = Left(f, s, line).faulty
  /\ t = "test2" => f[<<1, 1>>].faulty = FALSE

LEMMA OptionsHandled ==
  ASSUME NEW t, NEW q \in Seq(GoodOptions), NEW o \in GoodOptions, NEW fl, NEW va, NEW sh,
         Handled(t, q, fl, va, sh), NEW fl2, NEW va2, NEW sh2,
         t \in {"test1", "test3"} =>
           /\ fl2 = fl \cup {o.option}
           /\ va2 = IF o.option \in O!Valued[t] THEN o.value ELSE va,
         t \in {"test2", "long"} =>
           sh2 = Append(sh, [option |-> O!Reported(o.option), value |-> o.value])
  PROVE  Handled(t, Append(q, o), fl2, va2, sh2)
<1> DEFINE valued == O!Valued[t]
<1>1. /\ LastOf(Append(q, o), valued)
           = IF o.option \in valued THEN o.value ELSE LastOf(q, valued)
      /\ OptionsOf(Append(q, o)) = OptionsOf(q) \cup {o.option}
      /\ Reported(Append(q, o))
           = Append(Reported(q), [option |-> O!Reported(o.option), value |-> o.value])
  BY OneMore
<1> QED
  BY <1>1 DEF Handled

\* An option is handled.
LEMMA GoodTurn ==
  ASSUME NEW f, NEW line, NEW letters, NEW valued, NEW long,
         IsReading(f, line, letters, valued, long),
         NEW t, NEW s, NEW fl, NEW va, NEW sh, Progress(f, line, t, s, fl, va, sh),
         NEW c, FoundOption(f, c, s, line, letters, long),
         c.option # "?" \/ t = "test2",
         NEW fl2, NEW va2, NEW sh2,
         t \in {"test1", "test3"} =>
           /\ fl2 = fl \cup {c.option}
           /\ va2 = IF c.option \in O!Valued[t] THEN c.value ELSE va,
         t \in {"test2", "long"} =>
           sh2 = Append(sh, [option |-> O!Reported(c.option), value |-> c.value])
  PROVE  Progress(f, line, t, c.scan, fl2, va2, sh2)
<1> DEFINE m == f[<<1, 1>>].options
           l == Left(f, s, line).options
           l2 == Left(f, c.scan, line).options
           o == [option |-> c.option, value |-> c.value]
<1>1. PICK q \in Seq(GoodOptions) : Handled(t, q, fl, va, sh) /\ m = q \o l
  BY DEF Progress
<1>2. /\ c.option \in letters \cup DOMAIN long /\ c.value \in OptionValues
      /\ l = <<o>> \o l2
      /\ Left(f, s, line).faulty = Left(f, c.scan, line).faulty
      /\ ScanOK(c.scan, line) /\ AllWords(f, c.scan, line) = AllWords(f, s, line)
  BY DEF FoundOption, Progress
<1>3. o \in GoodOptions /\ o.option = c.option /\ o.value = c.value
  <2>1. c.option \in O!Symbols
    BY <1>2 DEF IsReading, Vocabularies
  <2> QED BY <1>2, <2>1 DEF GoodOptions
<1>4. l2 \in Seq(GoodOptions)
  <2> DEFINE i == c.scan.optind
             k == LetterAt(c.scan, line)
  <2>1. line \in O!Lines
    BY DEF IsReading
  <2>2. Len(line) \in Nat /\ i \in Nat /\ 1 <= i /\ i <= Len(line) + 1
    BY <1>2, <2>1, ScanFacts
  <2>3. i \in 1 .. Len(line) + 2
    BY <2>2
  <2>4. k \in Nat
    <3>1. CASE c.scan.rest = <<>>
      BY <3>1 DEF LetterAt
    <3>2. CASE c.scan.rest # <<>>
      <4>1. k \in 2 .. Len(line[i].text)
        BY <1>2, <3>2 DEF ScanOK
      <4> HIDE DEF k
      <4> QED BY <4>1
    <3> QED BY <3>1, <3>2
  <2>5. l2 = f[<<i, k>>].options
    BY DEF Left
  <2> HIDE DEF i, k
  <2>6. f[<<i, k>>] \in ReadingType
    BY <2>3, <2>4 DEF IsReading
  <2> HIDE DEF l2
  <2> QED BY <2>5, <2>6 DEF ReadingType
<1> HIDE DEF o, l, l2, m
<1>5. m = Append(q, o) \o l2
  <2>1. <<o>> \in Seq(GoodOptions)
    BY <1>3
  <2>2. Append(q, o) = q \o <<o>>
    BY <1>3, AppendIsConcat
  <2> DEFINE x == <<o>>
  <2>3. x \in Seq(GoodOptions)
    BY <2>1
  <2> HIDE DEF x
  <2>4. (q \o x) \o l2 = q \o (x \o l2)
    BY <1>4, <2>3, Joined
  <2> QED BY <1>1, <1>2, <2>2, <2>4 DEF x
<1>6. Append(q, o) \in Seq(GoodOptions)
  BY <1>3, AppendProperties
<1>7. Handled(t, Append(q, o), fl2, va2, sh2)
  BY <1>1, <1>3, OptionsHandled
<1>8. /\ AllWords(f, c.scan, line) = f[<<1, 1>>].words
      /\ t # "long" => f[<<1, 1>>].faulty = Left(f, c.scan, line).faulty
      /\ t = "test2" => f[<<1, 1>>].faulty = FALSE
  BY <1>2 DEF Progress
<1> QED
  BY <1>5, <1>6, <1>7, <1>8 DEF Progress, l2, m

\* An unknown option, or one without its value.
LEMMA BadTurn ==
  ASSUME NEW f, NEW line, NEW letters, NEW long,
         NEW t, NEW s, NEW fl, NEW va, NEW sh, Progress(f, line, t, s, fl, va, sh),
         NEW c, FoundOption(f, c, s, line, letters, long), c.option = "?",
         "?" \notin letters \cup DOMAIN long
  PROVE  /\ t # "long" => f[<<1, 1>>].faulty
         /\ t = "long" => Progress(f, line, t, c.scan, fl, va, sh)
<1>1. /\ Left(f, s, line).faulty
      /\ Left(f, c.scan, line).options = Left(f, s, line).options
      /\ AllWords(f, c.scan, line) = AllWords(f, s, line)
  BY DEF FoundOption
<1> QED
  BY <1>1 DEF Progress

\* There is nothing left.
LEMMA EndTurn ==
  ASSUME NEW f, NEW line, NEW t, NEW s, NEW fl, NEW va, NEW sh,
         Progress(f, line, t, s, fl, va, sh), NEW c, Ended(f, c, s, line)
  PROVE  /\ Handled(t, f[<<1, 1>>].options, fl, va, sh)
         /\ O!Remaining(c.scan) = f[<<1, 1>>].words
         /\ t # "long" => f[<<1, 1>>].faulty = FALSE
<1>1. /\ Left(f, s, line).options = <<>> /\ Left(f, s, line).faulty = FALSE
      /\ O!Remaining(c.scan) = AllWords(f, s, line)
  BY DEF Ended
<1>2. PICK q \in Seq(GoodOptions) :
        Handled(t, q, fl, va, sh) /\ f[<<1, 1>>].options = q \o <<>>
  BY <1>1 DEF Progress
<1>3. q \o <<>> = q
  BY ConcatEmptySeq
<1> QED
  BY <1>1, <1>2, <1>3 DEF Progress

\* -f input.gmn -output.jpg has no fault.
LEMMA Test2Good ==
  ReadingsOf(O!Test2Args, "test2")[<<1, 1>>].faulty = FALSE
<1> DEFINE line == O!Test2Args
           l == O!Letters["test2"]
           v == O!Valued["test2"]
           g == O!Known("test2")
           f == ReadingsOf(line, "test2")
<1>1. /\ Len(line) = 3 /\ line[1].dash = 1 /\ line[1].text = <<"f">>
      /\ line[3].dash = 1 /\ line[3].text = <<"o", "utput.jpg">>
  BY DEF O!Test2Args
<1>2. "f" \in l \cap v /\ "o" \in l \cap v
  BY DEF O!Letters, O!Valued
<1>3. IsReading(f, line, l, v, g)
  <2>1. line \in O!Lines /\ Vocabularies(l, v, g)
    BY Test2Line, ProgramVocabularies DEF Tests
  <2>2. f = O!Readings(line, l, v, g)
    BY DEF ReadingsOf
  <2> HIDE DEF line, l, v, g, f
  <2> QED BY <2>1, <2>2, ReadingsAreReadings
<1>4. \A i \in 1 .. 5, k \in Nat :
        /\ f[<<i, k>>] = O!ReadFrom(f, line, l, v, g, i, k)
        /\ f[<<i, k>>] \in ReadingType
  BY <1>1, <1>3 DEF IsReading
<1> HIDE DEF l, v, g, f, line
<1>5. f[<<4, 1>>].faulty = FALSE
  <2>1. f[<<4, 1>>] = O!ReadFrom(f, line, l, v, g, 4, 1)
    BY <1>4
  <2>2. f[<<4, 1>>] = O!NothingLeft
    BY <1>1, <2>1 DEF O!ReadFrom
  <2> QED BY <2>2 DEF O!NothingLeft
<1>6. f[<<3, 1>>].faulty = FALSE
  <2>1. f[<<3, 1>>] = O!ReadLetter(f, line, l, v, 3, 1)
    BY <1>1, <1>3, LetterRead
  <2>2. line[3].text[1] = "o" /\ Len(line[3].text) = 2
    BY <1>1
  <2>3. f[<<3, 1>>] = O!With("o", O!Inside(line[3], 1), f[<<3 + 1, 1>>])
    BY <1>2, <2>1, <2>2 DEF O!ReadLetter
  <2>4. 3 + 1 = 4 /\ f[<<4, 1>>] \in ReadingType
    BY <1>4
  <2>5. O!With("o", O!Inside(line[3], 1), f[<<4, 1>>]).faulty = f[<<4, 1>>].faulty
    BY <2>4 DEF O!With, ReadingType
  <2> QED BY <1>5, <2>3, <2>4, <2>5
<1>7. f[<<1, 1>>].faulty = FALSE
  <2>1. f[<<1, 1>>] = O!ReadLetter(f, line, l, v, 1, 1)
    <3> DEFINE i == 1
    <3>1. i \in 1 .. Len(line) /\ line[i].dash = 1 /\ line[i].text # <<>> /\ 1 \in Nat
      BY <1>1
    <3> HIDE DEF i
    <3>2. f[<<i, 1>>] = O!ReadLetter(f, line, l, v, i, 1)
      BY <1>3, <3>1, LetterRead
    <3> QED BY <3>2 DEF i
  <2>2. line[1].text[1] = "f" /\ Len(line[1].text) = 1
    BY <1>1
  <2>3. f[<<1, 1>>] = O!ValueBehind(f, line, "f", 1)
    BY <1>2, <2>1, <2>2 DEF O!ReadLetter
  <2>4. f[<<1, 1>>] = O!With("f", O!Text(line[1 + 1]), f[<<1 + 2, 1>>])
    BY <1>1, <2>3 DEF O!ValueBehind
  <2>5. 1 + 2 = 3 /\ f[<<3, 1>>] \in ReadingType
    BY <1>4
  <2>6. O!With("f", O!Text(line[1 + 1]), f[<<3, 1>>]).faulty = f[<<3, 1>>].faulty
    BY <2>5 DEF O!With, ReadingType
  <2> QED BY <1>6, <2>4, <2>5, <2>6
<1> QED
  BY <1>7 DEF f, line

\* Before the first turn nothing has been done.
LEMMA BeforeTheLoop ==
  ASSUME NEW line \in O!Lines, NEW t \in Tests, t = "test2" => line = O!Test2Args
  PROVE  Progress(ReadingsOf(line, t), line, t, O!Start(line), {}, O!None, <<>>)
<1> DEFINE f == ReadingsOf(line, t)
           s == O!Start(line)
           m == f[<<1, 1>>]
<1>1. ScanOK(s, line) /\ s.rest = <<>> /\ s.optind = 1
  BY StartFacts
<1>2. s.first = 1 /\ s.last = 1
  BY DEF O!Start
<1>3. m \in ReadingType
  <2> DEFINE l == O!Letters[t]  v == O!Valued[t]  g == O!Known(t)
  <2>1. Vocabularies(l, v, g) /\ f = O!Readings(line, l, v, g)
    BY ProgramVocabularies DEF ReadingsOf
  <2> HIDE DEF l, v, g, f
  <2>2. IsReading(f, line, l, v, g)
    BY <2>1, ReadingsAreReadings
  <2>3. 1 \in 1 .. Len(line) + 2 /\ 1 \in Nat
    BY LineFacts
  <2> QED BY <2>2, <2>3 DEF IsReading
<1> HIDE DEF f, s
<1>4. Left(f, s, line) = m
  BY <1>1 DEF Left, LetterAt
<1>5. AllWords(f, s, line) = m.words
  <2>1. Skipped(s) = <<>>
    BY <1>2, SubSeqEmpty DEF Skipped
  <2> DEFINE w == m.words
  <2>2. w \in Seq(O!Arguments)
    BY <1>3 DEF ReadingType
  <2>3. AllWords(f, s, line) = <<>> \o w
    BY <1>4, <2>1 DEF AllWords
  <2> HIDE DEF w
  <2>4. <<>> \o w = w
    BY <2>2, ConcatEmptySeq
  <2> QED BY <2>3, <2>4 DEF w
<1>6. m.options = <<>> \o m.options /\ <<>> \in Seq(GoodOptions)
  <2> DEFINE w == m.options
  <2>1. w \in Seq(GoodOptions)
    BY <1>3 DEF ReadingType
  <2> HIDE DEF w
  <2>2. <<>> \o w = w
    BY <2>1, ConcatEmptySeq
  <2> QED BY <2>2 DEF w
<1>7. Handled(t, <<>>, {}, O!None, <<>>)
  BY NoOptions DEF Handled
<1>8. t = "test2" => m.faulty = FALSE
  BY Test2Good DEF f
<1>9. Progress(f, line, t, s, {}, O!None, <<>>)
  BY <1>4, <1>5, <1>6, <1>7, <1>8 DEF Progress
<1> QED
  BY <1>9 DEF f, s
-----------------------------------------------------------------------------
(* Each program does what its command line says *)

\* test1 behind its loop, about to take the name.
BeforeName(f, fl, va) ==
  /\ Handled("test1", f[<<1, 1>>].options, fl, va, <<>>)
  /\ f[<<1, 1>>].faulty = FALSE

\* DoesWhatIsMeant, of the reading m.
AsMeant(m, place, t, w, fl, va, sh) ==
  /\ place = "error" => t = "error" \/ m.faulty
  /\ place = "done" /\ t \in {"test1", "test3"} =>
       fl = OptionsOf(m.options) /\ va = LastOf(m.options, O!Valued[t]) /\ m.faulty = FALSE
  /\ place = "done" /\ t \in {"test3", "long"} => w = m.words
  /\ place = "done" /\ t \in {"test2", "long"} => sh = Reported(m.options)

MeantInv ==
  /\ Parsing
  /\ oAt = "shell" => flags = {} /\ value = O!None /\ shown = <<>>
  /\ oAt \in {"loop", "name"} => test \in Tests /\ args \in O!Lines
  /\ oAt = "loop" => Progress(Read, args, test, scan, flags, value, shown)
  /\ oAt = "name" => test = "test1" /\ BeforeName(Read, flags, value)
  /\ oAt \in {"shell", "loop", "name", "missing", "error", "done"}
  /\ AsMeant(Read[<<1, 1>>], oAt, test, words, flags, value, shown)

LEMMA AsMeantIs ==
  AsMeant(Read[<<1, 1>>], oAt, test, words, flags, value, shown) => O!DoesWhatIsMeant
<1> DEFINE m == Read[<<1, 1>>]
<1>1. O!Meant = m
  BY DEF O!Meant, O!Reading, Read, ReadingsOf
<1> HIDE DEF m
<1>2. O!Given = OptionsOf(m.options)
  BY <1>1 DEF O!Given, OptionsOf
<1>3. O!LastValue = LastOf(m.options, O!Valued[test])
  BY <1>1 DEF O!LastValue, LastOf
<1>4. [i \in DOMAIN O!Meant.options |->
         [O!Meant.options[i] EXCEPT !.option = O!Reported(@)]] = Reported(m.options)
  BY <1>1 DEF Reported
<1>5. AsMeant(m, oAt, test, words, flags, value, shown) => O!DoesWhatIsMeant
  BY <1>1, <1>2, <1>3, <1>4 DEF AsMeant, O!DoesWhatIsMeant
<1> QED
  BY <1>5 DEF m

\* A place that is neither the end nor an error.
LEMMA NothingDue ==
  ASSUME NEW m, NEW place \in {"shell", "loop", "name", "missing"}, NEW t, NEW w, NEW fl, NEW va, NEW sh
  PROVE  AsMeant(m, place, t, w, fl, va, sh)
BY DEF AsMeant

LEMMA MeantInit == O!Init => MeantInv
<1> SUFFICES ASSUME O!Init PROVE MeantInv
  OBVIOUS
<1>1. oAt = "shell" /\ flags = {} /\ value = O!None /\ shown = <<>>
  BY DEF O!Init
<1>2. AsMeant(Read[<<1, 1>>], oAt, test, words, flags, value, shown)
  BY <1>1 DEF AsMeant
<1> QED
  BY <1>1, <1>2 DEF MeantInv, Parsing

\* The program is called.
LEMMA MeantInvoke ==
  ASSUME MeantInv, Parsing', NEW a \in O!Lines, NEW t \in Tests \cup {"error"}, O!Invoke(t, a)
  PROVE  MeantInv'
<1>1. oAt = "shell" /\ test' = t /\ UNCHANGED <<flags, value, shown>>
  BY DEF O!Invoke
<1>2. flags' = {} /\ value' = O!None /\ shown' = <<>>
  BY <1>1 DEF MeantInv
<1>3. CASE t = "error"
  <2>1. oAt' = "error"
    BY <1>3 DEF O!Invoke
  <2>2. AsMeant(Read'[<<1, 1>>], oAt', test', words', flags', value', shown')
    BY <1>1, <1>3, <2>1 DEF AsMeant
  <2> QED BY <2>1, <2>2 DEF MeantInv
<1>4. CASE t # "error"
  <2>1. oAt' = "loop" /\ t \in Tests /\ scan' = O!Start(args')
    BY <1>4 DEF O!Invoke
  <2>2. /\ args' = IF t = "test2" THEN O!Test2Args ELSE a
        /\ args' \in O!Lines
    BY Test2Line DEF O!Invoke
  <2>4. t = "test2" => args' = O!Test2Args
    BY <2>2
  <2>5. Progress(ReadingsOf(args', t), args', t, O!Start(args'), {}, O!None, <<>>)
    <3> DEFINE line == args'
    <3>1. line \in O!Lines /\ (t = "test2" => line = O!Test2Args)
      BY <2>2, <2>4
    <3> HIDE DEF line
    <3>2. Progress(ReadingsOf(line, t), line, t, O!Start(line), {}, O!None, <<>>)
      BY <2>1, <3>1, BeforeTheLoop
    <3> QED BY <3>2 DEF line
  <2>6. Read' = ReadingsOf(args', t)
    BY <1>1 DEF Read
  <2>7. Progress(Read', args', test', scan', flags', value', shown')
    BY <1>1, <1>2, <2>1, <2>5, <2>6
  <2>8. AsMeant(Read'[<<1, 1>>], oAt', test', words', flags', value', shown')
    BY <2>1, NothingDue
  <2> QED BY <1>1, <2>1, <2>2, <2>7, <2>8 DEF MeantInv
<1> QED
  BY <1>3, <1>4

\* What is known in a loop.
LEMMA InTheLoop ==
  ASSUME MeantInv, oAt = "loop"
  PROVE  /\ test \in Tests /\ args \in O!Lines
         /\ Progress(Read, args, test, scan, flags, value, shown)
         /\ IsReading(Read, args, O!Letters[test], O!Valued[test], O!Known(test))
         /\ "?" \notin O!Letters[test] \cup DOMAIN O!Known(test) \/ test = "test2"
         /\ O!GetOption.option = "end" => Ended(Read, O!GetOption, scan, args)
         /\ O!GetOption.option # "end" =>
              FoundOption(Read, O!GetOption, scan, args, O!Letters[test], O!Known(test))
<1>1. /\ test \in Tests /\ args \in O!Lines /\ ScanOK(scan, args)
      /\ Progress(Read, args, test, scan, flags, value, shown)
  BY DEF MeantInv, Parsing
<1>2. "?" \notin O!Letters[test] \cup DOMAIN O!Known(test) \/ test = "test2"
  BY <1>1, ProgramVocabularies
<1>3. Ended(Read, O!GetOption, scan, args) => O!GetOption.option = "end"
  BY DEF Ended
<1> QED
  BY <1>1, <1>2, <1>3, Turn

\* test1 and test3 remember an option.
LEMMA MeantRemember ==
  ASSUME MeantInv, Parsing', oAt = "loop", test \in {"test1", "test3"}, UNCHANGED <<test, args, shown>>,
         O!GetOption.option # "end", O!Remember(O!GetOption)
  PROVE  MeantInv'
<1> DEFINE c == O!GetOption
<1>1. /\ test \in Tests /\ args \in O!Lines
      /\ Progress(Read, args, test, scan, flags, value, shown)
      /\ IsReading(Read, args, O!Letters[test], O!Valued[test], O!Known(test))
      /\ "?" \notin O!Letters[test] \cup DOMAIN O!Known(test)
      /\ FoundOption(Read, c, scan, args, O!Letters[test], O!Known(test))
  BY InTheLoop
<1>2. Read' = Read
  BY DEF Read
<1>3. CASE c.option = "?"
  <2>1. oAt' = "error" /\ UNCHANGED <<flags, value>>
    BY <1>3 DEF O!Remember
  <2>2. Read[<<1, 1>>].faulty
    <3> HIDE DEF c
    <3> QED BY <1>1, <1>3, BadTurn
  <2>3. AsMeant(Read'[<<1, 1>>], oAt', test', words', flags', value', shown')
    BY <1>2, <2>1, <2>2 DEF AsMeant
  <2> QED BY <2>1, <2>3 DEF MeantInv
<1>4. CASE c.option # "?"
  <2>1. /\ oAt' = "loop" /\ scan' = c.scan /\ flags' = flags \cup {c.option}
        /\ value' = IF c.option \in O!Valued[test] THEN c.value ELSE value
    BY <1>4 DEF O!Remember
  <2>2. Progress(Read, args, test, c.scan, flags', value', shown)
    <3> DEFINE fl == flags'  va == value'
    <3>1. fl = flags \cup {c.option} /\ va = IF c.option \in O!Valued[test] THEN c.value ELSE value
      BY <2>1
    <3> HIDE DEF c, fl, va
    <3>2. Progress(Read, args, test, c.scan, fl, va, shown)
      BY <1>1, <1>4, <3>1, GoodTurn
    <3> QED BY <3>2 DEF fl, va
  <2>3. Progress(Read', args', test', scan', flags', value', shown')
    BY <1>2, <2>1, <2>2
  <2>4. AsMeant(Read'[<<1, 1>>], oAt', test', words', flags', value', shown')
    BY <2>1, NothingDue
  <2>5. test' \in Tests /\ args' \in O!Lines
    BY <1>1
  <2> QED BY <2>1, <2>3, <2>4, <2>5 DEF MeantInv
<1> QED
  BY <1>3, <1>4

LEMMA MeantTest1 ==
  ASSUME MeantInv, Parsing', O!Test1
  PROVE  MeantInv'
<1>1. oAt = "loop" /\ test = "test1" /\ UNCHANGED <<test, args, shown>>
  BY DEF O!Test1, O!InLoop
<1>2. CASE O!GetOption.option # "end"
  <2>1. O!Remember(O!GetOption)
    BY <1>2 DEF O!Test1
  <2> QED BY <1>1, <1>2, <2>1, MeantRemember
<1>3. CASE O!GetOption.option = "end"
  <2> DEFINE c == O!GetOption
  <2>1. scan' = c.scan /\ oAt' = "name" /\ UNCHANGED <<flags, value>>
    BY <1>3 DEF O!Test1
  <2>2. /\ Progress(Read, args, test, scan, flags, value, shown)
        /\ Ended(Read, c, scan, args) /\ test \in Tests /\ args \in O!Lines
    BY <1>1, <1>3, InTheLoop
  <2> HIDE DEF c
  <2>3. /\ Handled(test, Read[<<1, 1>>].options, flags, value, shown)
        /\ Read[<<1, 1>>].faulty = FALSE
    <3>1. /\ Handled(test, Read[<<1, 1>>].options, flags, value, shown)
          /\ test # "long" => Read[<<1, 1>>].faulty = FALSE
      BY <2>2, EndTurn
    <3> QED BY <1>1, <3>1
  <2>4. Handled("test1", Read[<<1, 1>>].options, flags, value, <<>>)
    BY <1>1, <2>3 DEF Handled
  <2>5. BeforeName(Read, flags, value)
    BY <2>3, <2>4 DEF BeforeName
  <2>6. Read' = Read
    BY <1>1 DEF Read
  <2>7. BeforeName(Read', flags', value')
    BY <1>1, <2>1, <2>5, <2>6
  <2>8. AsMeant(Read'[<<1, 1>>], oAt', test', words', flags', value', shown')
    BY <2>1, NothingDue
  <2>9. test' \in Tests /\ args' \in O!Lines
    BY <1>1, <2>2
  <2>10. test' = "test1" /\ oAt' = "name"
    BY <1>1, <2>1
  <2> QED BY <2>7, <2>8, <2>9, <2>10 DEF MeantInv
<1> QED
  BY <1>2, <1>3

LEMMA MeantTest2 ==
  ASSUME MeantInv, Parsing', O!Test2
  PROVE  MeantInv'
<1> DEFINE c == O!GetOption
<1>1. oAt = "loop" /\ test = "test2" /\ UNCHANGED <<test, args, flags, value>> /\ scan' = c.scan
  BY DEF O!Test2, O!InLoop
<1>2. Read' = Read
  BY <1>1 DEF Read
<1>3. /\ Progress(Read, args, test, scan, flags, value, shown)
      /\ test \in Tests /\ args \in O!Lines
      /\ IsReading(Read, args, O!Letters[test], O!Valued[test], O!Known(test))
  BY <1>1, InTheLoop
<1>4. CASE c.option # "end"
  <2>1. oAt' = "loop" /\ shown' = Append(shown, [option |-> O!Reported(c.option), value |-> c.value])
    BY <1>4 DEF O!Test2, O!Show
  <2>2. FoundOption(Read, c, scan, args, O!Letters[test], O!Known(test))
    BY <1>1, <1>4, InTheLoop
  <2>3. Progress(Read, args, test, c.scan, flags, value, shown')
    <3> DEFINE sh == shown'
    <3>1. sh = Append(shown, [option |-> O!Reported(c.option), value |-> c.value])
          /\ test \notin {"test1", "test3"}
      BY <1>1, <2>1
    <3> HIDE DEF c, sh
    <3>2. Progress(Read, args, test, c.scan, flags, value, sh)
      BY <1>1, <1>3, <2>2, <3>1, GoodTurn
    <3> QED BY <3>2 DEF sh
  <2>4. Progress(Read', args', test', scan', flags', value', shown')
    BY <1>1, <1>2, <2>3
  <2>5. AsMeant(Read'[<<1, 1>>], oAt', test', words', flags', value', shown')
    BY <2>1, NothingDue
  <2>6. test' \in Tests /\ args' \in O!Lines
    BY <1>1, <1>3
  <2> QED BY <2>1, <2>4, <2>5, <2>6 DEF MeantInv
<1>5. CASE c.option = "end"
  <2>1. oAt' = "done" /\ UNCHANGED shown
    BY <1>5 DEF O!Test2
  <2>2. Ended(Read, c, scan, args)
    BY <1>1, <1>5, InTheLoop
  <2>3. Handled(test, Read[<<1, 1>>].options, flags, value, shown)
    <3> HIDE DEF c
    <3> QED BY <1>3, <2>2, EndTurn
  <2>4. shown' = Reported(Read'[<<1, 1>>].options) /\ test' = "test2"
    BY <1>1, <1>2, <2>1, <2>3 DEF Handled
  <2>5. AsMeant(Read'[<<1, 1>>], oAt', test', words', flags', value', shown')
    BY <2>1, <2>4 DEF AsMeant
  <2> QED BY <2>1, <2>5 DEF MeantInv
<1> QED
  BY <1>4, <1>5

LEMMA MeantTest3 ==
  ASSUME MeantInv, Parsing', O!Test3
  PROVE  MeantInv'
<1> DEFINE c == O!GetOption
<1>1. oAt = "loop" /\ test = "test3" /\ UNCHANGED <<test, args, shown>>
  BY DEF O!Test3, O!InLoop
<1>2. CASE c.option # "end"
  <2>1. O!Remember(c)
    BY <1>2 DEF O!Test3
  <2> QED BY <1>1, <1>2, <2>1, MeantRemember
<1>3. CASE c.option = "end"
  <2>1. oAt' = "done" /\ words' = O!Remaining(c.scan) /\ UNCHANGED <<flags, value>>
    BY <1>3 DEF O!Test3
  <2>2. /\ Progress(Read, args, test, scan, flags, value, shown) /\ Ended(Read, c, scan, args)
    BY <1>1, <1>3, InTheLoop
  <2> HIDE DEF c
  <2>3. /\ Handled(test, Read[<<1, 1>>].options, flags, value, shown)
        /\ O!Remaining(c.scan) = Read[<<1, 1>>].words
        /\ Read[<<1, 1>>].faulty = FALSE
    <3>1. /\ Handled(test, Read[<<1, 1>>].options, flags, value, shown)
          /\ O!Remaining(c.scan) = Read[<<1, 1>>].words
          /\ test # "long" => Read[<<1, 1>>].faulty = FALSE
      BY <2>2, EndTurn
    <3> QED BY <1>1, <3>1
  <2>4. Read' = Read /\ test' = "test3"
    BY <1>1 DEF Read
  <2>5. /\ flags' = OptionsOf(Read'[<<1, 1>>].options)
        /\ value' = LastOf(Read'[<<1, 1>>].options, O!Valued[test'])
    BY <1>1, <2>1, <2>3, <2>4 DEF Handled
  <2>6. words' = Read'[<<1, 1>>].words /\ Read'[<<1, 1>>].faulty = FALSE
    BY <2>1, <2>3, <2>4
  <2>7. AsMeant(Read'[<<1, 1>>], oAt', test', words', flags', value', shown')
    BY <2>1, <2>4, <2>5, <2>6 DEF AsMeant
  <2> QED BY <2>1, <2>7 DEF MeantInv
<1> QED
  BY <1>2, <1>3

\* The flags and the value are those of the loop, whether there is a name or
\* not; which word it is, is not said (NameAsked).
LEMMA MeantName ==
  ASSUME MeantInv, Parsing', O!Name
  PROVE  MeantInv'
<1> DEFINE m == Read[<<1, 1>>]
<1>1. /\ oAt = "name" /\ UNCHANGED <<test, args, scan, flags, value, shown>>
      /\ oAt' \in {"missing", "done"}
  BY DEF O!Name
<1>2. test = "test1" /\ BeforeName(Read, flags, value)
  BY <1>1 DEF MeantInv
<1>3. /\ m.faulty = FALSE
      /\ flags = OptionsOf(m.options) /\ value = LastOf(m.options, O!Valued["test1"])
  BY <1>2 DEF BeforeName, Handled
<1>4. Read' = Read
  BY <1>1 DEF Read
<1>5. AsMeant(Read[<<1, 1>>], oAt', test, words', flags, value, shown)
  BY <1>1, <1>2, <1>3 DEF AsMeant, m
<1>6. AsMeant(Read'[<<1, 1>>], oAt', test', words', flags', value', shown')
  BY <1>1, <1>4, <1>5
<1> QED
  BY <1>1, <1>6 DEF MeantInv

LEMMA MeantLong ==
  ASSUME MeantInv, Parsing', O!Long
  PROVE  MeantInv'
<1> DEFINE c == O!GetOption
<1>1. oAt = "loop" /\ test = "long" /\ UNCHANGED <<test, args, flags, value>>
  BY DEF O!Long, O!InLoop
<1>2. Read' = Read
  BY <1>1 DEF Read
<1>3. /\ Progress(Read, args, test, scan, flags, value, shown)
      /\ test \in Tests /\ args \in O!Lines
      /\ IsReading(Read, args, O!Letters[test], O!Valued[test], O!Known(test))
      /\ "?" \notin O!Letters[test] \cup DOMAIN O!Known(test)
  BY <1>1, InTheLoop
<1>4. ASSUME oAt' = "loop", Progress(Read, args, test, scan', flags, value, shown')
      PROVE  MeantInv'
  <2>1. Progress(Read', args', test', scan', flags', value', shown')
    BY <1>1, <1>2, <1>4
  <2>2. AsMeant(Read'[<<1, 1>>], oAt', test', words', flags', value', shown')
    BY <1>4, NothingDue
  <2>3. test' \in Tests /\ args' \in O!Lines
    BY <1>1, <1>3
  <2> QED BY <1>4, <2>1, <2>2, <2>3 DEF MeantInv
<1>5. CASE c.option = "end"
  <2>1. oAt' = "done" /\ words' = O!Remaining(c.scan) /\ UNCHANGED shown
    BY <1>5 DEF O!Long
  <2>2. Ended(Read, c, scan, args)
    BY <1>1, <1>5, InTheLoop
  <2>3. /\ Handled(test, Read[<<1, 1>>].options, flags, value, shown)
        /\ O!Remaining(c.scan) = Read[<<1, 1>>].words
    <3> HIDE DEF c
    <3> QED BY <1>3, <2>2, EndTurn
  <2>4. /\ shown' = Reported(Read'[<<1, 1>>].options) /\ test' = "long"
        /\ words' = Read'[<<1, 1>>].words
    BY <1>1, <1>2, <2>1, <2>3 DEF Handled
  <2>5. AsMeant(Read'[<<1, 1>>], oAt', test', words', flags', value', shown')
    BY <2>1, <2>4 DEF AsMeant
  <2> QED BY <2>1, <2>5 DEF MeantInv
<1>6. CASE c.option = "?"
  <2>1. scan' = c.scan /\ UNCHANGED <<oAt, shown>>
    BY <1>6 DEF O!Long
  <2>2. FoundOption(Read, c, scan, args, O!Letters[test], O!Known(test))
    BY <1>1, <1>6, InTheLoop
  <2>3. Progress(Read, args, test, c.scan, flags, value, shown)
    <3> HIDE DEF c
    <3> QED BY <1>1, <1>3, <1>6, <2>2, BadTurn
  <2> QED BY <1>1, <1>4, <2>1, <2>3
<1>7. CASE c.option # "end" /\ c.option # "?"
  <2>1. scan' = c.scan /\ UNCHANGED oAt
        /\ shown' = Append(shown, [option |-> O!Reported(c.option), value |-> c.value])
    BY <1>7 DEF O!Long, O!Show
  <2>2. FoundOption(Read, c, scan, args, O!Letters[test], O!Known(test))
    BY <1>1, <1>7, InTheLoop
  <2>3. Progress(Read, args, test, c.scan, flags, value, shown')
    <3> DEFINE sh == shown'
    <3>1. sh = Append(shown, [option |-> O!Reported(c.option), value |-> c.value])
          /\ test \notin {"test1", "test3"}
      BY <1>1, <2>1
    <3> HIDE DEF c, sh
    <3>2. Progress(Read, args, test, c.scan, flags, value, sh)
      BY <1>3, <1>7, <2>2, <3>1, GoodTurn
    <3> QED BY <3>2 DEF sh
  <2> QED BY <1>1, <1>4, <2>1, <2>3
<1> QED
  BY <1>5, <1>6, <1>7

LEMMA MeantStep ==
  ASSUME MeantInv, O!Shell \/ O!Next
  PROVE  MeantInv'
<1>1. Parsing'
  BY ParsingStep DEF MeantInv
<1>2. CASE O!Shell
  <2>1. PICK a \in O!Lines : O!Invoke(O!Selected(a), a) \/ O!Invoke("long", a)
    BY <1>2 DEF O!Shell
  <2>2. CASE O!Invoke("long", a)
    BY <1>1, <2>2, MeantInvoke DEF Tests
  <2>3. CASE O!Invoke(O!Selected(a), a)
    BY <1>1, <2>3, Selections, MeantInvoke DEF Tests
  <2> QED BY <2>1, <2>2, <2>3
<1> QED
  BY <1>1, <1>2, MeantTest1, MeantTest2, MeantTest3, MeantName, MeantLong DEF O!Next

LEMMA MeantStutter ==
  ASSUME MeantInv, UNCHANGED O!vars
  PROVE  MeantInv'
<1>1. UNCHANGED <<oAt, test, args, scan, flags, value, shown, words>>
  BY DEF O!vars
<1>2. Read' = Read
  BY <1>1 DEF Read
<1>3. Parsing'
  BY <1>1 DEF MeantInv, Parsing
<1>4. oAt = "loop" => Progress(Read', args', test', scan', flags', value', shown')
  BY <1>1, <1>2 DEF MeantInv
<1>5. oAt = "name" => BeforeName(Read', flags', value')
  BY <1>1, <1>2 DEF MeantInv
<1>6. AsMeant(Read'[<<1, 1>>], oAt', test', words', flags', value', shown')
  BY <1>1, <1>2 DEF MeantInv
<1> QED
  BY <1>1, <1>3, <1>4, <1>5, <1>6 DEF MeantInv

\* sample_getopt.cpp:12, 71, sample_getopt_long.cpp:46: each test reads its
\* command line as it is meant from left to right, whatever it is: getopt's
\* permutation loses no word, changes no order, and gives every option the value
\* that is meant.  Which word test1 takes for its name is not stated.
THEOREM DoesWhatIsMeantAlways == O!Spec => []DoesWhatIsMeant
<1>1. MeantInv => DoesWhatIsMeant
  BY AsMeantIs DEF MeantInv, DoesWhatIsMeant
<1>2. MeantInv /\ [O!Shell \/ O!Next]_(O!vars) => MeantInv'
  BY MeantStep, MeantStutter
<1> QED
  BY <1>1, <1>2, MeantInit, PTL DEF O!Spec
=============================================================================
