----------------------------- MODULE FbcString ------------------------------
(***************************************************************************)
(* Samples_STL_Implementation/src/string.hpp: strings with a length size_  *)
(* and a block of size_ + 1 bytes.  Some members copy size_ bytes, most    *)
(* copy up to the first NUL with strcpy and strcat, and two constructors   *)
(* write no NUL at all: length and terminator can part.                    *)
(*                                                                         *)
(* A byte that nobody has written is any byte.  size_t has Width bits, and *)
(* strings longer than MaxSize are not built.  Blocks that operator= loses *)
(* (it deletes nothing when size_ is 0, or 1 for a character) are not      *)
(* counted.                                                                *)
(***************************************************************************)
EXTENDS Integers, Sequences

CONSTANTS
  Strings,  \* the strings of the program
  Chars,    \* the characters, numbers other than 0
  MaxSize,  \* bound: the longest string built
  Unknown,  \* the value of a string no rule of the class determines
  Width     \* bits of size_t

\* MCContainers assumes it of the strings of its instance.
StringsAssumption ==
  /\ Chars \subseteq Nat \ {0}
  /\ MaxSize \in Nat \ {0}
  /\ Width \in Nat
  /\ 2 * MaxSize + 2 < 2 ^ Width

VARIABLES
  alive,   \* the strings that are constructed
  cells,   \* the block of each string: size_ is its length minus 1
  value,   \* what the calls so far promise of each string (history)
  status   \* "running", or the call that has left the blocks (history)

vars == <<alive, cells, value, status>>

NUL == 0
Bytes == Chars \cup {NUL}
SizeT == 0 .. 2 ^ Width - 1
Texts == UNION {[1 .. n -> Chars] : n \in 0 .. MaxSize}

Size(v) == Len(cells[v]) - 1

Terminated(b) == \E i \in DOMAIN b : b[i] = NUL

\* The bytes of a block before its first NUL: what printf and strlen see.
Text(b) ==
  LET k == CHOOSE i \in DOMAIN b :
             b[i] = NUL /\ \A j \in 1 .. i - 1 : b[j] # NUL
  IN  SubSeq(b, 1, k - 1)

Plus(x, y) == IF Unknown \in {x, y} THEN Unknown ELSE x \o y

Init ==
  /\ alive = {}
  /\ cells = [v \in Strings |-> <<>>]
  /\ value = [v \in Strings |-> <<>>]
  /\ status = "running"
-----------------------------------------------------------------------------
(* The outcome of a call that gives v a new block.                         *)

\* v has one of the blocks afterwards, and is promised to have the value x.
Stored(v, blocks, x) ==
  /\ \E b \in blocks : cells' = [cells EXCEPT ![v] = b]
  /\ alive' = alive \cup {v}
  /\ value' = [value EXCEPT ![v] = x]
  /\ UNCHANGED status

\* The call reads or writes beyond the end of a block.  If it used only strings
\* (W) whose values were known before it, the fault is its own.
Undefined(call, W) ==
  /\ status' = IF \E w \in W : value[w] = Unknown THEN "undetermined" ELSE call
  /\ UNCHANGED <<alive, cells, value>>

\* Plausible bug: the new block has no room for the terminator.
FilledTight(n, t) ==
  {SubSeq(t \o <<NUL>> \o rest, 1, n) : rest \in [1 .. n - Len(t) -> Bytes]}

\* A new block of n + 1 bytes after strcpy of t.
Filled(n, t) == {t \o <<NUL>> \o rest : rest \in [1 .. n - Len(t) -> Bytes]}

\* new char[n + 1], then strcpy and strcat of the texts of the strings in W,
\* which make t: undefined if one of them has no end or the block is short.
Built(call, v, W, n, t, x) ==
  /\ n <= MaxSize
  /\ IF (\E w \in W : ~Terminated(cells[w])) \/ Len(t) > n
       THEN Undefined(call, W)
       ELSE Stored(v, Filled(n, t), x)

Constructible(v) == status = "running" /\ v \notin alive

Usable(v) == status = "running" /\ v \in alive
-----------------------------------------------------------------------------
(* Constructors and destructor *)

ConstructDefault(v) ==
  /\ Constructible(v)
  /\ Stored(v, {<<NUL>>}, <<>>)

ConstructCopy(v, w) ==
  /\ Constructible(v) /\ Usable(w)
  /\ Built("copy", v, {w}, Size(w), Text(cells[w]), value[w])

\* size_ of the substring: pos + len is a size_t and wraps.
SubSize(w, pos, len) ==
  IF (pos + len) % 2 ^ Width > Size(w) THEN Size(w) - pos ELSE len

Wraps(pos, len) == pos + len >= 2 ^ Width

\* The characters from pos on, at most len.
SubValue(w, pos, len) ==
  IF value[w] = Unknown THEN Unknown
  ELSE SubSeq(value[w], pos + 1,
              IF pos + len < Size(w) THEN pos + len ELSE Size(w))

\* A size that has wrapped exceeds the block of w: the loop reads behind it.
ConstructSub(v, w, pos, len) ==
  /\ Constructible(v) /\ Usable(w)
  /\ LET n == SubSize(w, pos, len)
     IN  IF pos > Size(w) THEN Stored(v, {<<NUL>>}, <<>>)
         ELSE IF n > Size(w) - pos
           THEN Undefined(IF Wraps(pos, len) THEN "wrapped" ELSE "substring", {w})
         ELSE Stored(v, {SubSeq(cells[w], pos + 1, pos + n) \o <<NUL>>},
                     SubValue(w, pos, len))

ConstructCString(v, t) ==
  /\ Constructible(v)
  /\ Built("text", v, {}, Len(t), t, t)

\* The first n characters of a longer text: strncpy writes no NUL.
ConstructPrefix(v, t, n) ==
  /\ Constructible(v)
  /\ IF Len(t) <= n
       THEN Built("text", v, {}, Len(t), t, t)
       ELSE Stored(v, {SubSeq(t, 1, n) \o <<b>> : b \in Bytes}, Unknown)

\* n times c: memset writes no NUL either.
ConstructFill(v, n, c) ==
  /\ Constructible(v)
  /\ Stored(v, {[i \in 1 .. n |-> c] \o <<b>> : b \in Bytes}, Unknown)

Destroy(v) ==
  /\ Usable(v)
  /\ alive' = alive \ {v}
  /\ cells' = [cells EXCEPT ![v] = <<>>]
  /\ value' = [value EXCEPT ![v] = <<>>]
  /\ UNCHANGED status
-----------------------------------------------------------------------------
(* operator[] and at, operator= and assign, operator+= and append, clear   *)

\* v[pos] = c or v.at(pos) = c, up to the terminator.  A NUL inside, or a
\* character in the place of the terminator, is nothing the class promises.
SetByte(v, pos, c) ==
  /\ Usable(v)
  /\ pos <= Size(v)
  /\ Stored(v, {[cells[v] EXCEPT ![pos + 1] = c]},
            IF value[v] = Unknown \/ (c = NUL) # (pos = Size(v)) THEN Unknown
            ELSE IF c = NUL THEN value[v] ELSE [value[v] EXCEPT ![pos + 1] = c])

AssignString(v, w) ==
  /\ Usable(v) /\ Usable(w)
  /\ Built("copy", v, {w}, Size(w), Text(cells[w]), value[w])

\* v = v: str.c_str() is the new block, whose bytes nobody has written.
AssignSelf(v) ==
  /\ Usable(v)
  /\ \E b \in [1 .. Size(v) + 1 -> Bytes] :
       IF Terminated(b) THEN Stored(v, {b}, Unknown) ELSE Undefined("self", {v})

AssignCString(v, t) ==
  /\ Usable(v)
  /\ Built("text", v, {}, Len(t), t, t)

\* v = v.c_str(): the argument is deleted before strlen reads it, unless v is
\* empty.
AssignOwn(v) ==
  /\ Usable(v)
  /\ IF Size(v) = 0 /\ Terminated(cells[v])
       THEN Built("text", v, {}, 0, <<>>, <<>>)
       ELSE Undefined("own", {v})

AssignChar(v, c) ==
  /\ Usable(v)
  /\ Stored(v, {<<c, NUL>>}, IF c = NUL THEN Unknown ELSE <<c>>)

\* Plausible bug: size_ grows by the length of the text alone.
AppendStringText(v, w) ==
  /\ Usable(v) /\ Usable(w)
  /\ Built("append", v, {v, w}, Size(w), Text(cells[v]) \o Text(cells[w]),
           Plus(value[v], value[w]))

\* The sizes are added and the texts joined; v and w may be the same.
AppendString(v, w) ==
  /\ Usable(v) /\ Usable(w)
  /\ Built("append", v, {v, w}, Size(v) + Size(w), Text(cells[v]) \o Text(cells[w]),
           Plus(value[v], value[w]))

AppendCString(v, t) ==
  /\ Usable(v)
  /\ Built("append", v, {v}, Size(v) + Len(t), Text(cells[v]) \o t,
           Plus(value[v], t))

\* The text at the address of a character c: the bytes behind it are others
\* of the stack.  They hold a NUL at once or after one more (bound) character.
AtAddress(c) ==
  IF c = NUL THEN {<<>>} ELSE {<<c>>} \cup {<<c, d>> : d \in Chars}

\* What is promised of a character of which the text t has been taken: itself,
\* unless it is a NUL or more has come along.
Taken(c, t) == IF c # NUL /\ t = <<c>> THEN t ELSE Unknown

\* strcat(data, &c) into a block that has room for c alone.
AppendChar(v, c) ==
  /\ Usable(v)
  /\ \E t \in AtAddress(c) :
       Built("character", v, {v}, Size(v) + 1, Text(cells[v]) \o t,
             Plus(value[v], Taken(c, t)))

Clear(v) ==
  /\ Usable(v)
  /\ Stored(v, {<<NUL>>}, <<>>)
-----------------------------------------------------------------------------
(* operator+ constructs a copy of the left operand and appends the right.  *)

SumStrings(v, w, u) ==
  /\ Constructible(v) /\ Usable(w) /\ Usable(u)
  /\ Built("sum", v, {w, u}, Size(w) + Size(u), Text(cells[w]) \o Text(cells[u]),
           Plus(value[w], value[u]))

SumStringText(v, w, t) ==
  /\ Constructible(v) /\ Usable(w)
  /\ Built("sum", v, {w}, Size(w) + Len(t), Text(cells[w]) \o t, Plus(value[w], t))

SumTextString(v, t, w) ==
  /\ Constructible(v) /\ Usable(w)
  /\ Built("sum", v, {w}, Len(t) + Size(w), t \o Text(cells[w]), Plus(t, value[w]))

SumStringChar(v, w, c) ==
  /\ Constructible(v) /\ Usable(w)
  /\ \E t \in AtAddress(c) :
       Built("character", v, {w}, Size(w) + 1, Text(cells[w]) \o t,
             Plus(value[w], Taken(c, t)))

\* string str(&lhs) takes the bytes behind lhs along.
SumCharString(v, c, w) ==
  /\ Constructible(v) /\ Usable(w)
  /\ \E t \in AtAddress(c) :
       Built("sum", v, {w}, Len(t) + Size(w), t \o Text(cells[w]),
             Plus(Taken(c, t), value[w]))

\* compare, the relational operators, or c_str() and data() given to printf:
\* they change nothing, but read up to a NUL.
ReadText(v) ==
  /\ Usable(v)
  /\ ~Terminated(cells[v])
  /\ Undefined("read", {v})

Next ==
  \E v \in Strings :
    \/ ConstructDefault(v)
    \/ \E t \in Texts : ConstructCString(v, t)
    \/ \E t \in Texts, n \in 0 .. MaxSize : ConstructPrefix(v, t, n)
    \/ \E n \in 0 .. MaxSize, c \in Bytes : ConstructFill(v, n, c)
    \/ Destroy(v)
    \/ \E pos \in SizeT, c \in Bytes : SetByte(v, pos, c)
    \/ AssignSelf(v)
    \/ \E t \in Texts : AssignCString(v, t)
    \/ AssignOwn(v)
    \/ \E c \in Bytes : AssignChar(v, c)
    \/ AppendString(v, v)
    \/ \E t \in Texts : AppendCString(v, t)
    \/ \E c \in Bytes : AppendChar(v, c)
    \/ Clear(v)
    \/ ReadText(v)
    \/ \E w \in Strings \ {v} :
         \/ ConstructCopy(v, w)
         \/ \E pos, len \in SizeT : ConstructSub(v, w, pos, len)
         \/ AssignString(v, w)
         \/ AppendString(v, w)
         \/ \E u \in Strings \ {v} : SumStrings(v, w, u)
         \/ \E t \in Texts : SumStringText(v, w, t) \/ SumTextString(v, t, w)
         \/ \E c \in Bytes : SumStringChar(v, w, c) \/ SumCharString(v, c, w)

Spec == Init /\ [][Next]_vars
-----------------------------------------------------------------------------
\* The calls that copy, and so may leave a block.
Calls ==
  {"copy", "substring", "wrapped", "text", "self", "own", "append", "character",
   "sum", "read"}

\* Types; the strings that are constructed, and no others, own a block.
TypeOK ==
  /\ alive \subseteq Strings
  /\ \A v \in Strings :
       /\ \A i \in DOMAIN cells[v] : cells[v][i] \in Bytes
       /\ Len(cells[v]) <= MaxSize + 1
       /\ cells[v] = <<>> <=> v \notin alive
       /\ value[v] \in Texts \cup {Unknown}
  /\ status \in {"running", "undetermined"} \cup Calls

\* After any sequence of calls whose outcomes the class determines, a string
\* is exactly what these calls promise: size_ characters and a terminator.
\* Copies, substrings and sums of such strings are such strings again.
Faithful ==
  status = "running" =>
    \A v \in alive : value[v] # Unknown => cells[v] = value[v] \o <<NUL>>

\* Strings whose values are all known before a call are read and written inside
\* of their blocks, with four exceptions: a character that is appended or added
\* on the right (line 219), a substring whose pos + len wraps (78), v = v (163)
\* and v = v.c_str() (172).
StaysDefined ==
  status \in {"running", "undetermined", "character", "wrapped", "self", "own"}

\* test_string.cpp appends a character to a string of known value (58) and adds
\* one (123), and the length of a substring is npos when it is left out
\* (string.hpp:14): neither should leave a block.
StaysInside == status \notin {"character", "wrapped"}

\* test_string.cpp prints every string it constructs with "%s" (9-26), so each
\* of the constructors must leave a terminator.
ConstructedReadable ==
  [][\A v \in alive' \ alive : Terminated(cells'[v])]_vars
=============================================================================
