----------------------------- MODULE Relational -----------------------------
(***************************************************************************)
(* The relational operators of vector.hpp, pair.hpp and string.hpp, as     *)
(* functions of the element sequences, the pairs and the texts compared.   *)
(* None of them changes a state.  Elements and characters are numbers.     *)
(***************************************************************************)
EXTENDS Integers, Sequences

\* The order a reader expects of sequences: decided by the first difference,
\* or by the length if one is a prefix of the other.  (External: it is also
\* what strcmp computes of two texts.)
Precedes(s, t) ==
  \E k \in 1 .. Len(t) :
    /\ k <= Len(s) + 1
    /\ \A i \in 1 .. k - 1 : s[i] = t[i]
    /\ k = Len(s) + 1 \/ s[k] < t[k]
-----------------------------------------------------------------------------
(* vector.hpp *)

Shared(l, r) == DOMAIN l \cap DOMAIN r

\* Plausible bug: one element that is not greater is enough.
NoneGreaterOnce(l, r) == \E i \in Shared(l, r) : ~(l[i] > r[i])

\* The loops of operator<: no element of l exceeds its partner in r.
NoneGreater(l, r) == \A i \in Shared(l, r) : ~(l[i] > r[i])

\* operator<: the three branches on the sizes differ only in what they answer
\* when all the shared elements are equal.
Less(l, r) ==
  /\ NoneGreater(l, r)
  /\ Len(l) < Len(r) \/ \E i \in Shared(l, r) : l[i] # r[i]

LessEqual(l, r) == ~Less(r, l)
-----------------------------------------------------------------------------
(* pair.hpp, for a pair <<first, second>> *)

PairLess(p, q) == p[1] < q[1] \/ (~(q[1] < p[1]) /\ p[2] < q[2])

PairLessEqual(p, q) == ~PairLess(q, p)
-----------------------------------------------------------------------------
(* string.hpp: every operator compares the texts up to the terminator.     *)

Compare(s, t) == IF Precedes(s, t) THEN -1 ELSE IF Precedes(t, s) THEN 1 ELSE 0

\* The string is the left operand, and the right one a string or a C string.
StringEqual(s, t) == Compare(s, t) = 0
StringLess(s, t) == Compare(s, t) < 0
StringLessEqual(s, t) == Compare(s, t) <= 0
StringGreater(s, t) == Compare(s, t) > 0
StringGreaterEqual(s, t) == Compare(s, t) >= 0

\* Plausible bug: the operands of compare are exchanged, but not its result.
CStringLessExchanged(c, s) == Compare(s, c) < 0

\* The left operand is a C string: c op s is the negation of s op c.
CStringLess(c, s) == Compare(s, c) >= 0
CStringLessEqual(c, s) == Compare(s, c) > 0
CStringGreater(c, s) == Compare(s, c) <= 0
CStringGreaterEqual(c, s) == Compare(s, c) < 0
-----------------------------------------------------------------------------
\* operator< of vectors and of pairs never contradicts the order of the first
\* difference.  For pairs it is that order; for vectors it only
\* implies it: a vector that is less at its first difference and greater
\* at a later one is not less.
OrderedAs(l, r) ==
  /\ Less(l, r) => Precedes(l, r)
  /\ Len(l) = 2 /\ Len(r) = 2 => (PairLess(l, r) <=> Precedes(l, r))

\* With a string on the left the operators are the order of the texts, which is
\* total.  With a C string on the left they are that order for different texts.
ComparedAs(s, t) ==
  /\ StringEqual(s, t) <=> s = t
  /\ StringLess(s, t) <=> Precedes(s, t)
  /\ StringGreater(s, t) <=> Precedes(t, s)
  /\ StringLessEqual(s, t) <=> s = t \/ Precedes(s, t)
  /\ StringGreaterEqual(s, t) <=> s = t \/ Precedes(t, s)
  /\ s # t =>
       /\ CStringLess(s, t) <=> Precedes(s, t)
       /\ CStringGreater(s, t) <=> Precedes(t, s)
       /\ CStringLessEqual(s, t) <=> Precedes(s, t)
       /\ CStringGreaterEqual(s, t) <=> Precedes(t, s)

\* The same with a C string on the left, whatever the texts.
CStringComparedAs(c, s) ==
  /\ CStringLess(c, s) <=> Precedes(c, s)
  /\ CStringGreater(c, s) <=> Precedes(s, c)
  /\ CStringLessEqual(c, s) <=> c = s \/ Precedes(c, s)
  /\ CStringGreaterEqual(c, s) <=> c = s \/ Precedes(s, c)
=============================================================================
