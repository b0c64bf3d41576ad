---------------------------- MODULE MCContainers ----------------------------
(***************************************************************************)
(* The containers of Samples_STL_Implementation, a program with vectors or *)
(* one with strings.  The names of Vector stand for the vectors (their     *)
(* size_t has three bits: capacities up to 4, sizes up to 7 asked for);    *)
(* FbcString is S.  Vectors can be exchanged, and strings; values and      *)
(* characters cannot, because they are ordered.                            *)
(***************************************************************************)
EXTENDS Vector, Relational, TLC

CONSTANTS Strings, Chars, MaxSize, Unknown, SWidth

VARIABLES sAlive, sCells, sValue, sStatus

sVars == <<sAlive, sCells, sValue, sStatus>>

S == INSTANCE FbcString
       WITH Width <- SWidth, alive <- sAlive, cells <- sCells,
            value <- sValue, status <- sStatus

ASSUME StringsAssumption == S!StringsAssumption

\* The elements are numbers (test_vector.cpp: vector<int>).
ASSUME ValuesAssumption == Values \subseteq Int

Symmetry == Permutations(Vectors) \cup Permutations(Strings)

BothInit == Init /\ S!Init

\* The two kinds have nothing in common: only one of them is in use at a time.
BothNext ==
  \/ S!Init /\ Next /\ UNCHANGED sVars
  \/ Init /\ S!Next /\ UNCHANGED vars

BothSpec == BothInit /\ [][BothNext]_<<vars, sVars>>
-----------------------------------------------------------------------------
\* Whatever is called in whatever order, the elements lie inside the block, and
\* a block is lost or deleted twice only after an allocation has failed
\* (vector.hpp:85-107).
MemorySafe == TypeOK /\ InBounds /\ DeletedOnce

\* Whatever has been done to the vectors before, operator< answers true only
\* if the first difference, or the length, says so (vector.hpp:308-356; with
\* two elements each, their contents taken as pairs: pair.hpp:47-51).
OrderIsSound ==
  \A v, w \in alive :
    LET l == Content(v)
        r == Content(w)
    IN  {l, r} \subseteq Seq(Values) => OrderedAs(l, r)

\* Whatever is called in whatever order, a string whose calls determine it is
\* its characters and a terminator (string.hpp:57-224).
WellFormed == S!TypeOK /\ S!Faithful

\* Strings whose values are known before a call are read and written inside of
\* their blocks, but for the four calls FbcString names (string.hpp:57-321).
StaysDefined == S!StaysDefined

\* The texts of the strings that have one.
Texts == {S!Text(sCells[v]) : v \in {v \in sAlive : S!Terminated(sCells[v])}}

\* Whatever the strings have come to hold, a string compares with another, or
\* with a C string on the right, as their texts do; a C string on the left of
\* a string does if the texts differ (string.hpp:323-411).
ComparesText == \A s, t \in Texts : ComparedAs(s, t)

\* test_string.cpp (128-137) prints "foo < bar" when the operator of that name
\* answers true.  With a C string on the left of its own text both < and > do,
\* and <= and >= do not (string.hpp:358-406).
CStringsCompare == \A c, s \in Texts : CStringComparedAs(c, s)
=============================================================================
