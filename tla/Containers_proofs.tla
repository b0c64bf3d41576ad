-------------------------- MODULE Containers_proofs --------------------------
(***************************************************************************)
(* The containers of Samples_STL_Implementation.  The relational operators *)
(* for all sequences of numbers; vectors for any number of them, any       *)
(* values and any width of size_t: the elements stay in their block, and   *)
(* the vectors implement VectorSpec; strings of any characters and length: *)
(* what the calls determine is there, with its terminator, and only four   *)
(* calls lead out of a block of such a string.                             *)
(***************************************************************************)
EXTENDS MCContainers, SequenceTheorems, WellFoundedInduction, FiniteSetTheorems, TLAPS
-----------------------------------------------------------------------------
(* The relational operators *)

\* A non-empty set of natural numbers has a least member.
LEMMA LeastMember ==
  ASSUME NEW T, T \subseteq Nat, T # {}
  PROVE  \E n \in T : \A m \in T : n <= m
<1> DEFINE R == OpToRel(<, Nat)
<1>1. IsWellFoundedOn(R, Nat)
  BY NatLessThanWellFounded
<1>2. \A m, n \in Nat : m < n => <<m, n>> \in R
  BY DEF OpToRel
<1> HIDE DEF R
<1>3. PICK n \in T : \A m \in T : ~(<<m, n>> \in R)
  BY <1>1, WFMin
<1>4. ASSUME NEW m \in T PROVE n <= m
  <2>1. m \in Nat /\ n \in Nat
    OBVIOUS
  <2>2. ~(m < n)
    BY <1>2, <1>3, <2>1
  <2> QED  BY <2>1, <2>2
<1> QED  BY <1>3, <1>4

\* Two sequences without a partner that differs are equal as far as both go.
LEMMA FirstDifference ==
  ASSUME NEW l \in Seq(Int), NEW r \in Seq(Int),
         \E i \in Shared(l, r) : l[i] # r[i]
  PROVE  \E k \in Shared(l, r) :
           l[k] # r[k] /\ \A i \in 1 .. k - 1 : l[i] = r[i]
<1> DEFINE T == {i \in Shared(l, r) : l[i] # r[i]}
<1>1. T \subseteq Nat /\ T # {}
  BY DEF Shared
<1>2. PICK k \in T : \A i \in T : k <= i
  BY <1>1, LeastMember
<1>3. /\ DOMAIN l = 1 .. Len(l) /\ Len(l) \in Nat
      /\ DOMAIN r = 1 .. Len(r) /\ Len(r) \in Nat
  OBVIOUS
<1>4. ASSUME NEW i \in 1 .. k - 1 PROVE l[i] = r[i]
  <2>1. k \in 1 .. Len(l) /\ k \in 1 .. Len(r)
    BY <1>3 DEF Shared
  <2>2. i \in Shared(l, r)
    <3>1. i \in 1 .. Len(l) /\ i \in 1 .. Len(r)
      BY <1>3, <2>1
    <3> QED BY <1>3, <3>1 DEF Shared
  <2>3. i \in Nat /\ k \in Nat /\ ~(k <= i)
    BY <2>1
  <2>4. i \notin T
    BY <1>2, <2>3
  <2> QED  BY <2>2, <2>4
<1> QED  BY <1>2, <1>4

\* vector.hpp:308-356: no vector is less than itself.
THEOREM LessIrreflexive == \A l \in Seq(Int) : ~Less(l, l)
BY DEF Less

\* vector.hpp:308-356: two vectors are never less than each other, so that the
\* answers of < and > do not contradict.
THEOREM LessAsymmetric ==
  \A l, r \in Seq(Int) : Less(l, r) => ~Less(r, l)
<1> SUFFICES ASSUME NEW l \in Seq(Int), NEW r \in Seq(Int),
                    Less(l, r), Less(r, l)
             PROVE  FALSE
  OBVIOUS
<1>1. ASSUME NEW i \in Shared(l, r) PROVE l[i] = r[i]
  <2>1. i \in Shared(r, l) /\ l[i] \in Int /\ r[i] \in Int
    BY DEF Shared
  <2>2. ~(l[i] > r[i]) /\ ~(r[i] > l[i])
    BY <2>1 DEF Less, NoneGreater
  <2> QED  BY <2>1, <2>2
<1>2. Len(l) < Len(r) /\ Len(r) < Len(l)
  BY <1>1 DEF Less, Shared
<1> QED  BY <1>2

\* vector.hpp:358-362: of two vectors at least one is <= the other.
THEOREM LessEqualTotal ==
  \A l, r \in Seq(Int) : LessEqual(l, r) \/ LessEqual(r, l)
BY LessAsymmetric DEF LessEqual

\* vector.hpp:308-356: when operator< answers true, the first difference or
\* the length says so, for all vectors of numbers.
THEOREM LessIsSound ==
  \A l, r \in Seq(Int) : Less(l, r) => Precedes(l, r)
<1> SUFFICES ASSUME NEW l \in Seq(Int), NEW r \in Seq(Int), Less(l, r)
             PROVE  Precedes(l, r)
  OBVIOUS
<1>1. CASE \E i \in Shared(l, r) : l[i] # r[i]
  <2>1. PICK k \in Shared(l, r) :
          l[k] # r[k] /\ \A i \in 1 .. k - 1 : l[i] = r[i]
    BY <1>1, FirstDifference
  <2>2. k \in 1 .. Len(l) /\ k \in 1 .. Len(r) /\ l[k] \in Int /\ r[k] \in Int
    BY DEF Shared
  <2>3. l[k] < r[k]
    BY <2>1, <2>2 DEF Less, NoneGreater
  <2> QED  BY <2>1, <2>2, <2>3 DEF Precedes
<1>2. CASE \A i \in Shared(l, r) : l[i] = r[i]
  <2>1. Len(l) < Len(r)
    BY <1>2 DEF Less
  <2> DEFINE k == Len(l) + 1
  <2>2. k \in 1 .. Len(r) /\ k <= Len(l) + 1
    BY <2>1
  <2>3. \A i \in 1 .. k - 1 : l[i] = r[i]
    BY <1>2, <2>1 DEF Shared
  <2> QED  BY <2>2, <2>3 DEF Precedes
<1> QED  BY <1>1, <1>2

\* pair.hpp:47-51: operator< of pairs of numbers is exactly the order of the
\* first difference.
THEOREM PairLessIsOrder ==
  \A p, q \in Int \X Int :
    PairLess(p, q) <=> Precedes(<<p[1], p[2]>>, <<q[1], q[2]>>)
<1> SUFFICES ASSUME NEW a \in Int, NEW b \in Int, NEW c \in Int, NEW d \in Int
             PROVE  PairLess(<<a, b>>, <<c, d>>)
                      <=> Precedes(<<a, b>>, <<c, d>>)
  OBVIOUS
<1>1. PairLess(<<a, b>>, <<c, d>>) <=> a < c \/ (a = c /\ b < d)
  BY DEF PairLess
<1>2. Precedes(<<a, b>>, <<c, d>>) <=> a < c \/ (a = c /\ b < d)
  <2> DEFINE s == <<a, b>>
             t == <<c, d>>
             Decides(k) == /\ \A i \in 1 .. k - 1 : s[i] = t[i]
                           /\ k = 3 \/ s[k] < t[k]
  <2>1. Precedes(s, t) <=> \E k \in 1 .. 2 : Decides(k)
    BY DEF Precedes
  <2>2. (\E k \in 1 .. 2 : Decides(k)) <=> Decides(1) \/ Decides(2)
    OBVIOUS
  <2>3. Decides(1) <=> a < c
    OBVIOUS
  <2>4. Decides(2) <=> a = c /\ b < d
    OBVIOUS
  <2> QED  BY <2>1, <2>2, <2>3, <2>4
<1> QED  BY <1>1, <1>2

\* Two texts never precede each other.
LEMMA PrecedesAsymmetric ==
  ASSUME NEW s \in Seq(Int), NEW t \in Seq(Int), Precedes(s, t)
  PROVE  ~Precedes(t, s)
<1> SUFFICES ASSUME Precedes(t, s) PROVE FALSE
  OBVIOUS
<1>1. PICK j \in 1 .. Len(t) :
        /\ j <= Len(s) + 1
        /\ \A i \in 1 .. j - 1 : s[i] = t[i]
        /\ j = Len(s) + 1 \/ s[j] < t[j]
  BY DEF Precedes
<1>2. PICK k \in 1 .. Len(s) :
        /\ k <= Len(t) + 1
        /\ \A i \in 1 .. k - 1 : t[i] = s[i]
        /\ k = Len(t) + 1 \/ t[k] < s[k]
  BY DEF Precedes
<1>3. /\ \A i \in 1 .. Len(s) : s[i] \in Int
      /\ \A i \in 1 .. Len(t) : t[i] \in Int
  OBVIOUS
<1>4. j < k => FALSE
  BY <1>1, <1>2, <1>3
<1>5. k < j => FALSE
  BY <1>1, <1>2, <1>3
<1>6. j = k => FALSE
  BY <1>1, <1>2, <1>3
<1> QED  BY <1>4, <1>5, <1>6

\* Of two different texts one precedes the other.
LEMMA PrecedesTotal ==
  ASSUME NEW s \in Seq(Int), NEW t \in Seq(Int), s # t
  PROVE  Precedes(s, t) \/ Precedes(t, s)
<1>1. CASE \E i \in Shared(s, t) : s[i] # t[i]
  <2>1. PICK k \in Shared(s, t) :
          s[k] # t[k] /\ \A i \in 1 .. k - 1 : s[i] = t[i]
    BY <1>1, FirstDifference
  <2>2. k \in 1 .. Len(s) /\ k \in 1 .. Len(t) /\ s[k] \in Int /\ t[k] \in Int
    BY DEF Shared
  <2>3. k <= Len(s) + 1 /\ k <= Len(t) + 1
    BY <2>2
  <2>4. s[k] < t[k] => Precedes(s, t)
    BY <2>1, <2>2, <2>3 DEF Precedes
  <2>5. t[k] < s[k] => Precedes(t, s)
    BY <2>1, <2>2, <2>3 DEF Precedes
  <2> QED  BY <2>1, <2>2, <2>4, <2>5
<1>2. CASE \A i \in Shared(s, t) : s[i] = t[i]
  <2>1. ASSUME Len(s) < Len(t) PROVE Precedes(s, t)
    <3>1. Len(s) + 1 \in 1 .. Len(t)
      BY <2>1
    <3>2. \A i \in 1 .. (Len(s) + 1) - 1 : s[i] = t[i]
      BY <1>2, <2>1 DEF Shared
    <3> QED  BY <3>1, <3>2 DEF Precedes
  <2>2. ASSUME Len(t) < Len(s) PROVE Precedes(t, s)
    <3>1. Len(t) + 1 \in 1 .. Len(s)
      BY <2>2
    <3>2. \A i \in 1 .. (Len(t) + 1) - 1 : t[i] = s[i]
      BY <1>2, <2>2 DEF Shared
    <3> QED  BY <3>1, <3>2 DEF Precedes
  <2>3. Len(s) # Len(t)
    BY <1>2 DEF Shared
  <2> QED  BY <2>1, <2>2, <2>3
<1> QED  BY <1>1, <1>2

\* string.hpp:323-411: for texts of any length the operators with a string on
\* the left are the total order of the first difference; those with a C string
\* on the left are that order for two different texts, and nothing is said of
\* equal ones (there they are not that order: CStringsCompare).
THEOREM StringsCompare == \A s, t \in Seq(Int) : ComparedAs(s, t)
<1> SUFFICES ASSUME NEW s \in Seq(Int), NEW t \in Seq(Int)
             PROVE  ComparedAs(s, t)
  OBVIOUS
<1>1. Precedes(s, t) => ~Precedes(t, s)
  BY PrecedesAsymmetric
<1>2. s # t => Precedes(s, t) \/ Precedes(t, s)
  BY PrecedesTotal
<1>3. s = t => ~Precedes(s, t) /\ ~Precedes(t, s)
  BY PrecedesAsymmetric
<1>4. /\ Compare(s, t) = IF Precedes(s, t) THEN -1
                         ELSE IF Precedes(t, s) THEN 1 ELSE 0
      /\ Compare(t, s) = IF Precedes(t, s) THEN -1
                         ELSE IF Precedes(s, t) THEN 1 ELSE 0
  BY DEF Compare
<1> QED
  BY <1>1, <1>2, <1>3, <1>4
  DEF ComparedAs, StringEqual, StringLess, StringLessEqual, StringGreater,
      StringGreaterEqual, CStringLess, CStringLessEqual, CStringGreater,
      CStringGreaterEqual
-----------------------------------------------------------------------------
(* Vector: the capacities *)

\* A power of two is a positive number: it counts the subsets of 1 .. k.
LEMMA PowerPositive == \A k \in Nat : 2 ^ k \in Nat \ {0}
<1> SUFFICES ASSUME NEW k \in Nat PROVE 2 ^ k \in Nat \ {0}
  OBVIOUS
<1>1. IsFiniteSet(1 .. k) /\ Cardinality(1 .. k) = k
  BY FS_Interval
<1>2. IsFiniteSet(SUBSET (1 .. k)) /\ Cardinality(SUBSET (1 .. k)) = 2 ^ k
  BY <1>1, FS_SUBSET
<1>3. Cardinality(SUBSET (1 .. k)) \in Nat
  BY <1>2, FS_CardinalityType
<1>4. Cardinality(SUBSET (1 .. k)) # 0
  BY <1>2, FS_EmptySet
<1> QED
  BY <1>2, <1>3, <1>4

LEMMA MaxCapacityDoubled == MaxCapacity \in Nat \ {0} /\ MaxCapacity \in Doubled
<1>1. Width - 1 \in Nat /\ Width - 1 \in 0 .. Width - 1
  BY ConstantsAssumption
<1>2. MaxCapacity \in Nat \ {0}
  BY <1>1, PowerPositive DEF MaxCapacity
<1>3. MaxCapacity \in 1 .. MaxCapacity
  BY <1>2
<1> QED
  BY <1>1, <1>2, <1>3 DEF Doubled, MaxCapacity

\* The loop of reserve ends with a capacity that is enough, unless more than
\* half of the range of size_t is asked for (vector.hpp:98-104).
LEMMA CapacityEnough ==
  ASSUME NEW n \in Nat, n <= MaxCapacity
  PROVE  Capacity(n) \in 1 .. MaxCapacity /\ n <= Capacity(n)
<1> DEFINE Enough == {c \in Doubled : n <= c}
<1>1. Enough \subseteq Nat /\ Enough # {}
  BY MaxCapacityDoubled DEF Doubled
<1>2. PICK c \in Enough : \A d \in Enough : c <= d
  BY <1>1, LeastMember
<1>3. \E x \in Doubled : n <= x /\ \A d \in Doubled : n <= d => x <= d
  BY <1>2
<1>4. Capacity(n) \in Doubled /\ n <= Capacity(n)
  BY <1>3 DEF Capacity
<1> QED
  BY <1>4 DEF Doubled
-----------------------------------------------------------------------------
(* Vector: the members after a call *)

Elements == Values \cup {Junk}

\* A vector no allocation has failed for: its elements are in its block.
Good(r) == r \in Members /\ Sound(r) /\ Size(r) <= r.block /\ r.block = r.cap

LEMMA EmptyGood == Good(Empty) /\ Empty.cells = <<>> /\ Empty.cap = 0
<1>1. Empty.cells \in Seq(Elements) /\ Len(Empty.cells) = 0
  BY EmptySeq DEF Empty, Elements
<1>2. 0 \in 0 .. MaxCapacity
  BY MaxCapacityDoubled
<1>3. Empty \in Members
  BY <1>1, <1>2 DEF Empty, Members, Elements
<1> QED
  BY <1>1, <1>3 DEF Good, Sound, Size, Empty

LEMMA GoodFields ==
  ASSUME NEW r, Good(r)
  PROVE  /\ r.cells \in Seq(Elements) /\ Len(r.cells) \in Nat /\ r.block = r.cap
         /\ r.cap \in 0 .. MaxCapacity /\ r.cap \in Nat /\ Len(r.cells) <= r.cap
         /\ r.mem = "live" \/ r = Empty
         /\ r \in Members /\ DOMAIN r.cells = 1 .. Len(r.cells)
<1>1. r \in Members /\ r.cells \in Seq(Elements)
  BY DEF Good, Members, Elements
<1>2. r.cap \in 0 .. MaxCapacity
  BY <1>1 DEF Members
<1> QED
  BY <1>1, <1>2, MaxCapacityDoubled, LenProperties DEF Good, Sound, Size

\* Changing the elements keeps a vector good while they fit.
LEMMA CellsGood ==
  ASSUME NEW r, Good(r), NEW s \in Seq(Elements), Len(s) <= r.cap
  PROVE  Good([r EXCEPT !.cells = s])
<1> DEFINE q == [r EXCEPT !.cells = s]
<1>1. r \in Members /\ r.block = r.cap /\ (r.mem = "live" \/ r = Empty)
  BY GoodFields
<1>2. q \in Members
  BY <1>1 DEF Members, Elements
<1>3. q.cells = s /\ q.cap = r.cap /\ q.block = r.block /\ q.mem = r.mem
  BY <1>1 DEF Members
<1>4. Sound(q)
  <2>1. CASE r = Empty
    <3>1. s = <<>>
      BY <2>1, EmptyGood, EmptySeq
    <3> QED
      BY <2>1, <3>1 DEF Empty, Sound
  <2> QED
    BY <1>1, <1>3, <2>1 DEF Sound
<1> QED
  BY <1>1, <1>2, <1>3, <1>4 DEF Good, Size

LEMMA GrownGood ==
  ASSUME NEW r, Good(r), NEW n \in Nat, n <= MaxCapacity, r.cap < n
  PROVE  /\ Good(Grown(r, n)) /\ n <= Grown(r, n).cap
         /\ Grown(r, n).cells = r.cells
<1> DEFINE q == Grown(r, n)
<1>1. Capacity(n) \in 1 .. MaxCapacity /\ n <= Capacity(n)
  BY CapacityEnough
<1>2. r \in Members /\ r.cap \in Nat /\ Len(r.cells) <= r.cap /\ Len(r.cells) \in Nat
  BY GoodFields
<1>3. Capacity(n) \in 0 .. MaxCapacity
  BY <1>1, MaxCapacityDoubled
<1>4. q \in Members
  BY <1>2, <1>3 DEF Grown, Members
<1>5. q.cells = r.cells /\ q.cap = Capacity(n) /\ q.block = Capacity(n) /\ q.mem = "live"
  BY <1>2 DEF Grown, Members
<1>6. Len(r.cells) <= Capacity(n)
  BY <1>1, <1>2
<1> QED
  BY <1>1, <1>4, <1>5, <1>6 DEF Good, Sound, Size

LEMMA RegrownGood ==
  ASSUME NEW r, Good(r), NEW n \in Nat, n <= MaxCapacity \/ n <= r.cap
  PROVE  Good(Regrown(r, n)) /\ n <= Regrown(r, n).cap /\ Regrown(r, n).cells = r.cells
<1>1. r.cap \in 0 .. MaxCapacity /\ r.cap \in Nat /\ MaxCapacity \in Nat
  BY GoodFields, MaxCapacityDoubled
<1>2. CASE r.cap < n
  BY <1>1, <1>2, GrownGood DEF Regrown
<1>3. CASE ~(r.cap < n)
  BY <1>1, <1>3 DEF Regrown
<1> QED
  BY <1>2, <1>3

\* What reserve alone leaves of the elements: all, or their number.
Forgotten(s) == [i \in DOMAIN s |-> Junk]

LEMMA CopiesSeq ==
  ASSUME NEW T, NEW x \in T, NEW n \in Nat
  PROVE  [i \in 1 .. n |-> x] \in Seq(T) /\ Len([i \in 1 .. n |-> x]) = n
<1>1. [i \in 1 .. n |-> x] \in [1 .. n -> T]
  OBVIOUS
<1>2. [i \in 1 .. n |-> x] \in Seq(T)
  BY <1>1, SeqDef
<1> QED
  BY <1>2, LenProperties

LEMMA ReservedGood ==
  ASSUME NEW r, Good(r), NEW n \in Nat, n <= MaxCapacity \/ n <= r.cap
  PROVE  /\ Good(Reserved(r, n)) /\ n <= Reserved(r, n).cap
         /\ Reserved(r, n).cells = IF r.cap < n THEN Forgotten(r.cells) ELSE r.cells
<1>1. /\ r.cap \in 0 .. MaxCapacity /\ r.cap \in Nat /\ MaxCapacity \in Nat
      /\ DOMAIN r.cells = 1 .. Len(r.cells) /\ Len(r.cells) \in Nat /\ Len(r.cells) <= r.cap
  BY GoodFields, MaxCapacityDoubled
<1>2. CASE r.cap < n
  <2> DEFINE q == Grown(r, n)
  <2>1. Good(q) /\ n <= q.cap /\ q.cells = r.cells /\ q \in Members /\ q.cap \in Nat
    BY <1>1, <1>2, GrownGood, GoodFields
  <2>2. Forgotten(r.cells) \in Seq(Elements) /\ Len(Forgotten(r.cells)) = Len(r.cells)
    BY <1>1, CopiesSeq DEF Forgotten, Elements
  <2>3. Reserved(r, n) = [q EXCEPT !.cells = Forgotten(r.cells)]
    BY <1>2, <2>1 DEF Reserved, Forgotten, Members
  <2>4. Len(Forgotten(r.cells)) <= q.cap
    BY <1>1, <1>2, <2>1, <2>2
  <2>5. Good([q EXCEPT !.cells = Forgotten(r.cells)])
    BY <2>1, <2>2, <2>4, CellsGood
  <2> QED
    BY <1>2, <2>1, <2>3, <2>5 DEF Members
<1>3. CASE ~(r.cap < n)
  BY <1>1, <1>3 DEF Reserved
<1> QED
  BY <1>2, <1>3

LEMMA ExtendedGood ==
  ASSUME NEW r, Good(r), NEW n \in Nat, NEW x \in Elements, Len(r.cells) + n <= r.cap
  PROVE  Good(Extended(r, n, x)) /\ Extended(r, n, x).cells = r.cells \o [i \in 1 .. n |-> x]
<1> DEFINE s == r.cells \o [i \in 1 .. n |-> x]
<1>1. r \in Members /\ r.cells \in Seq(Elements)
  BY GoodFields
<1>2. s \in Seq(Elements) /\ Len(s) = Len(r.cells) + n
  BY <1>1, CopiesSeq, ConcatProperties
<1>3. Extended(r, n, x) = [r EXCEPT !.cells = s]
  BY DEF Extended
<1>4. Len(s) <= r.cap
  BY <1>2
<1>5. Good([r EXCEPT !.cells = s])
  <2> HIDE DEF s
  <2> QED
    BY <1>2, <1>4, CellsGood
<1>6. [r EXCEPT !.cells = s].cells = s
  BY <1>1 DEF Members
<1> QED
  BY <1>3, <1>5, <1>6

LEMMA ShortenedGood ==
  ASSUME NEW r, Good(r), NEW n \in 0 .. Len(r.cells)
  PROVE  Good(Shortened(r, n)) /\ Shortened(r, n).cells = SubSeq(r.cells, 1, n)
<1>1. /\ r \in Members /\ r.cells \in Seq(Elements) /\ Len(r.cells) \in Nat
      /\ Len(r.cells) <= r.cap /\ r.cap \in Nat
  BY GoodFields
<1>2. \A i \in 1 .. n : r.cells[i] \in Elements
  BY <1>1, ElementOfSeq
<1>3. SubSeq(r.cells, 1, n) \in Seq(Elements) /\ Len(SubSeq(r.cells, 1, n)) = n
  BY <1>1, <1>2, SubSeqProperties
<1>4. Len(SubSeq(r.cells, 1, n)) <= r.cap
  BY <1>1, <1>3
<1> QED
  BY <1>1, <1>3, <1>4, CellsGood DEF Shortened, Members

LEMMA CopiedGood ==
  ASSUME NEW r, Good(r), NEW s, Good(s), Len(s.cells) <= r.cap
  PROVE  Good(CopiedFrom(r, s)) /\ CopiedFrom(r, s).cells = s.cells
<1>1. r \in Members /\ s.cells \in Seq(Elements)
  BY GoodFields
<1> QED
  BY <1>1, CellsGood DEF CopiedFrom, Members

\* A throw of reserve leaves a capacity without a block (vector.hpp:96-106).
LEMMA ThrownBad ==
  ASSUME NEW r, Good(r), NEW n \in Nat, r.cap < n, n <= MaxCapacity
  PROVE  ReserveThrown(r, n) \in Members /\ ~Sound(ReserveThrown(r, n))
<1>1. Capacity(n) \in 1 .. MaxCapacity /\ Capacity(n) \in 0 .. MaxCapacity
      /\ 0 \in 0 .. MaxCapacity /\ Capacity(n) # 0
  BY CapacityEnough, MaxCapacityDoubled
<1>2. <<>> \in Seq(Values \cup {Junk})
  BY EmptySeq
<1> QED
  BY <1>1, <1>2 DEF ReserveThrown, Members, Sound, Empty
-----------------------------------------------------------------------------
(* Vector: what a call does to the memory and to the contents *)

MemInv ==
  /\ TypeOK
  /\ \A v \in alive : Sound(vec[v]) => Good(vec[v])
  /\ \A v \in Vectors \ alive : vec[v] = Empty
  /\ \A v \in Vectors : vec[v].mem = "freed" => thrown
  /\ DeletedOnce

\* The contents of the vectors, as VectorSpec sees them.
Contents == [v \in Vectors |-> Content(v)]

Puts(v, s) == Contents' = [Contents EXCEPT ![v] = s]

LEMMA SizesAreNaturals == SizeT \subseteq Nat
<1>1. 2 ^ Width \in Nat \ {0}
  BY PowerPositive, ConstantsAssumption
<1> QED
  BY <1>1 DEF SizeT

LEMMA UsableGood ==
  ASSUME MemInv, NEW v \in Vectors, Usable(v)
  PROVE  /\ v \in alive /\ status = "running" /\ Good(vec[v])
         /\ Contents[v] = vec[v].cells /\ Contents[v] # Lost
<1>1. v \in alive /\ status = "running" /\ Sound(vec[v])
  BY DEF Usable
<1>2. Good(vec[v])
  BY <1>1 DEF MemInv
<1>3. Contents[v] = vec[v].cells
  BY <1>1 DEF Contents, Content
<1>4. vec[v].cells \in Seq(Elements)
  BY <1>2, GoodFields
<1> QED
  BY <1>1, <1>2, <1>3, <1>4, ConstantsAssumption DEF Elements

LEMMA FreshLost ==
  ASSUME NEW v \in Vectors, v \notin alive
  PROVE  Contents[v] = Lost
  BY DEF Contents, Content

\* A call returns, and leaves v with members r.
LEMMA ReturnsPuts ==
  ASSUME MemInv, NEW v \in Vectors, v \in alive, NEW r, Good(r), Returns(v, r)
  PROVE  MemInv' /\ Puts(v, r.cells)
<1>1. r \in Members /\ Sound(r) /\ r.mem # "freed"
  BY GoodFields DEF Good, Empty
<1>2. /\ vec' = [vec EXCEPT ![v] = r] /\ vec \in [Vectors -> Members]
      /\ UNCHANGED <<alive, status, thrown, leaked>> /\ alive \subseteq Vectors
  BY DEF Returns, MemInv, TypeOK
<1>3. \A w \in Vectors : vec'[w] = IF w = v THEN r ELSE vec[w]
  BY <1>2
<1>4. MemInv'
  BY <1>1, <1>2, <1>3 DEF MemInv, TypeOK, DeletedOnce
<1>5. ASSUME NEW w \in Vectors PROVE Content(w)' = IF w = v THEN r.cells ELSE Content(w)
  BY <1>1, <1>2, <1>3 DEF Content
<1> QED
  BY <1>4, <1>5 DEF Puts, Contents

\* The program ends.
LEMMA EndsKeeps ==
  ASSUME MemInv, NEW how \in {"hung", "aborted", "crashed"}, how = "crashed" => thrown, Ends(how)
  PROVE  MemInv' /\ UNCHANGED Contents
<1>1. status' = how /\ UNCHANGED <<alive, vec, thrown, leaked>>
  BY DEF Ends
<1>2. MemInv'
  BY <1>1 DEF MemInv, TypeOK, DeletedOnce
<1>3. \A w \in Vectors : Content(w)' = Content(w)
  BY <1>1 DEF Content
<1> QED
  BY <1>2, <1>3 DEF Contents

\* reserve throws, with or without a temporary block held.
Throws(v, n) ==
  /\ vec[v].cap < n /\ n <= MaxCapacity
  /\ vec' = [vec EXCEPT ![v] = ReserveThrown(@, n)]
  /\ thrown' /\ thrown' \in BOOLEAN /\ leaked' \in BOOLEAN
  /\ UNCHANGED <<alive, status>>

LEMMA ThrowsLoses ==
  ASSUME MemInv, NEW v \in Vectors, Usable(v), NEW n \in Nat, Throws(v, n)
  PROVE  MemInv' /\ Puts(v, Lost)
<1>1. Good(vec[v]) /\ v \in alive
  BY UsableGood
<1> DEFINE r == ReserveThrown(vec[v], n)
<1>2. r \in Members /\ ~Sound(r)
  BY <1>1, ThrownBad DEF Throws
<1>3. /\ vec' = [vec EXCEPT ![v] = r] /\ vec \in [Vectors -> Members]
      /\ thrown' /\ thrown' \in BOOLEAN /\ leaked' \in BOOLEAN
      /\ UNCHANGED <<alive, status>> /\ alive \subseteq Vectors
  BY DEF Throws, MemInv, TypeOK
<1> HIDE DEF r
<1>4. \A w \in Vectors : vec'[w] = IF w = v THEN r ELSE vec[w]
  BY <1>3
<1>5. TypeOK'
  BY <1>2, <1>3 DEF MemInv, TypeOK
<1>6. MemInv'
  BY <1>1, <1>2, <1>3, <1>4, <1>5 DEF MemInv, DeletedOnce
<1>7. ASSUME NEW w \in Vectors PROVE Content(w)' = IF w = v THEN Lost ELSE Content(w)
  BY <1>2, <1>3, <1>4 DEF Content
<1> QED
  BY <1>6, <1>7 DEF Puts, Contents

\* What a call that reserves can come to.
Outcome(v, n, r) ==
  \/ vec[v].cap >= n /\ Returns(v, r)
  \/ Ends("hung")
  \/ n <= MaxCapacity /\ Returns(v, r)
  \/ Throws(v, n)

LEMMA ReservesOutcome ==
  ASSUME MemInv, NEW v \in Vectors, Usable(v), NEW n \in Nat, NEW r
  PROVE  /\ ReservesThenReturns(v, n, r, FALSE) => Outcome(v, n, r)
         /\ ReservesThenReturns(v, n, r, TRUE) => Outcome(v, n, r)
<1>1. vec[v].cap \in Nat /\ MaxCapacity \in Nat /\ thrown \in BOOLEAN /\ leaked \in BOOLEAN
  BY UsableGood, GoodFields, MaxCapacityDoubled DEF MemInv, TypeOK
<1>2. vec[v].cap >= n \/ vec[v].cap < n
  BY <1>1
<1>3. n > MaxCapacity \/ n <= MaxCapacity
  BY <1>1
<1> QED
  BY <1>1, <1>2, <1>3 DEF ReservesThenReturns, Outcome, Throws

LEMMA OutcomePuts ==
  ASSUME MemInv, NEW v \in Vectors, Usable(v), NEW n \in Nat, NEW r,
         n <= MaxCapacity \/ n <= vec[v].cap => Good(r),
         Outcome(v, n, r)
  PROVE  /\ MemInv'
         /\ \/ UNCHANGED Contents
            \/ Puts(v, Lost)
            \/ (n <= MaxCapacity \/ n <= vec[v].cap) /\ Puts(v, r.cells)
<1>1. v \in alive /\ Good(vec[v])
  BY UsableGood
<1>2. vec[v].cap \in Nat
  BY <1>1, GoodFields
<1>3. CASE vec[v].cap >= n /\ Returns(v, r)
  <2>1. n <= vec[v].cap /\ Good(r)
    BY <1>2, <1>3
  <2> QED
    BY <1>1, <1>3, <2>1, ReturnsPuts
<1>4. CASE n <= MaxCapacity /\ Returns(v, r)
  BY <1>1, <1>4, ReturnsPuts
<1>5. CASE Ends("hung")
  BY <1>5, EndsKeeps
<1>6. CASE Throws(v, n)
  BY <1>6, ThrowsLoses
<1> QED
  BY <1>3, <1>4, <1>5, <1>6 DEF Outcome

\* A constructor makes a vector of elements that are in its block, or never ends.
LEMMA ConstructsPuts ==
  ASSUME MemInv, NEW v \in Vectors, NEW n \in Nat, NEW r, n <= MaxCapacity => Good(r),
         Constructs(v, n, r)
  PROVE  /\ MemInv' /\ v \notin alive
         /\ UNCHANGED Contents \/ (n <= MaxCapacity /\ Puts(v, r.cells))
<1>1. v \notin alive
  BY DEF Constructs
<1>2. CASE n > MaxCapacity
  <2>1. Ends("hung")
    BY <1>2 DEF Constructs
  <2> QED
    BY <1>1, <2>1, EndsKeeps
<1>3. CASE ~(n > MaxCapacity)
  <2>1. Good(r) /\ n <= MaxCapacity
    BY <1>3, MaxCapacityDoubled
  <2>2. r \in Members /\ Sound(r) /\ r.mem # "freed"
    BY <2>1, GoodFields DEF Good, Empty
  <2>3. /\ alive' = alive \cup {v} /\ vec' = [vec EXCEPT ![v] = r]
        /\ vec \in [Vectors -> Members] /\ alive \subseteq Vectors
        /\ UNCHANGED <<status, thrown, leaked>>
    BY <1>3 DEF Constructs, MemInv, TypeOK
  <2>4. \A w \in Vectors : vec'[w] = IF w = v THEN r ELSE vec[w]
    BY <2>3
  <2>5. MemInv'
    BY <2>1, <2>2, <2>3, <2>4 DEF MemInv, TypeOK, DeletedOnce
  <2>6. ASSUME NEW w \in Vectors PROVE Content(w)' = IF w = v THEN r.cells ELSE Content(w)
    BY <2>2, <2>3, <2>4 DEF Content
  <2> QED
    BY <1>1, <2>1, <2>5, <2>6 DEF Puts, Contents
<1> QED
  BY <1>2, <1>3

LEMMA DestroyLoses ==
  ASSUME MemInv, NEW v \in Vectors, Destroy(v)
  PROVE  MemInv' /\ (UNCHANGED Contents \/ Puts(v, Lost))
<1>1. CASE vec[v].mem = "freed"
  <2>1. Ends("crashed") /\ thrown
    BY <1>1 DEF Destroy, MemInv
  <2> QED
    BY <2>1, EndsKeeps
<1>2. CASE vec[v].mem # "freed"
  <2>1. /\ alive' = alive \ {v} /\ vec' = [vec EXCEPT ![v] = Empty]
        /\ vec \in [Vectors -> Members] /\ alive \subseteq Vectors
        /\ UNCHANGED <<status, thrown, leaked>>
    BY <1>2 DEF Destroy, MemInv, TypeOK
  <2>2. Empty \in Members /\ Empty.mem # "freed"
    BY EmptyGood, GoodFields DEF Empty
  <2>3. \A w \in Vectors : vec'[w] = IF w = v THEN Empty ELSE vec[w]
    BY <2>1
  <2>4. MemInv'
    BY <2>1, <2>2, <2>3 DEF MemInv, TypeOK, DeletedOnce
  <2>5. ASSUME NEW w \in Vectors PROVE Content(w)' = IF w = v THEN Lost ELSE Content(w)
    BY <2>1, <2>3 DEF Content
  <2> QED
    BY <2>4, <2>5 DEF Puts, Contents
<1> QED
  BY <1>1, <1>2
-----------------------------------------------------------------------------
(* Vector: the steps as VectorSpec sees them *)

LEMMA PutsIsPut == \A v, s : Puts(v, s) <=> Abstract!Put(v, s)
  BY DEF Puts, Contents, Abstract!Put

LEMMA UsableIsUsable ==
  ASSUME MemInv, NEW v \in Vectors, Usable(v)
  PROVE  /\ Abstract!Usable(v)
         /\ [w \in Vectors |-> Content(w)][v] = vec[v].cells
  BY UsableGood DEF Contents, Abstract!Usable

LEMMA MayLose ==
  ASSUME NEW v \in Vectors, Puts(v, Lost)
  PROVE  Abstract!Next
  BY PutsIsPut DEF Abstract!Next, Abstract!Lose

LEMMA MayConstructCopies ==
  ASSUME NEW v \in Vectors, v \notin alive, NEW n \in 0 .. MaxCapacity, NEW x \in Values,
         Puts(v, [i \in 1 .. n |-> x])
  PROVE  Abstract!Next
<1>1. ~Abstract!Usable(v)
  BY FreshLost DEF Contents, Abstract!Usable
<1>2. Abstract!Put(v, Abstract!Copies(x, n))
  BY PutsIsPut DEF Abstract!Copies
<1>3. Abstract!Construct(v)
  BY <1>1, <1>2 DEF Abstract!Construct, Abstract!Sizes
<1> QED
  BY <1>3 DEF Abstract!Next

LEMMA MayConstructCopy ==
  ASSUME MemInv, NEW v \in Vectors, v \notin alive, NEW w \in Vectors, Usable(w),
         Puts(v, vec[w].cells)
  PROVE  Abstract!Next
<1>1. ~Abstract!Usable(v)
  BY FreshLost DEF Contents, Abstract!Usable
<1>2. Abstract!Usable(w) /\ Abstract!Put(v, [u \in Vectors |-> Content(u)][w])
  BY PutsIsPut, UsableIsUsable
<1>3. Abstract!Construct(v)
  BY <1>1, <1>2 DEF Abstract!Construct
<1> QED
  BY <1>3 DEF Abstract!Next

LEMMA MayForget ==
  ASSUME MemInv, NEW v \in Vectors, Usable(v), Puts(v, Forgotten(vec[v].cells))
  PROVE  Abstract!Next
<1>1. Abstract!Usable(v) /\ [w \in Vectors |-> Content(w)][v] = vec[v].cells
  BY UsableIsUsable
<1>2. Forgotten(vec[v].cells) = Abstract!Copies(Junk, Len(vec[v].cells))
  BY UsableGood, GoodFields DEF Forgotten, Abstract!Copies
<1>3. Abstract!Reserve(v)
  BY <1>1, <1>2, PutsIsPut DEF Abstract!Reserve
<1> QED
  BY <1>3 DEF Abstract!Next

LEMMA MayAssign ==
  ASSUME MemInv, NEW v \in Vectors, Usable(v), NEW w \in Vectors, Usable(w),
         Puts(v, vec[w].cells)
  PROVE  Abstract!Next
<1>1. Abstract!Usable(v) /\ Abstract!Usable(w)
      /\ [u \in Vectors |-> Content(u)][w] = vec[w].cells
  BY UsableIsUsable
<1>2. Abstract!Assign(v, w)
  BY <1>1, PutsIsPut DEF Abstract!Assign
<1> QED
  BY <1>2 DEF Abstract!Next

LEMMA MayTruncate ==
  ASSUME MemInv, NEW v \in Vectors, Usable(v), NEW n \in 0 .. Len(vec[v].cells),
         Puts(v, SubSeq(vec[v].cells, 1, n))
  PROVE  Abstract!Next
<1>1. Abstract!Usable(v) /\ [w \in Vectors |-> Content(w)][v] = vec[v].cells
  BY UsableIsUsable
<1>2. Abstract!Truncate(v)
  BY <1>1, PutsIsPut DEF Abstract!Truncate
<1> QED
  BY <1>2 DEF Abstract!Next

LEMMA MayExtend ==
  ASSUME MemInv, NEW v \in Vectors, Usable(v), NEW n \in 0 .. MaxCapacity, NEW x \in Values,
         Puts(v, vec[v].cells \o [i \in 1 .. n |-> x])
  PROVE  Abstract!Next
<1>1. Abstract!Usable(v) /\ [w \in Vectors |-> Content(w)][v] = vec[v].cells
  BY UsableIsUsable
<1>2. Abstract!Put(v, vec[v].cells \o Abstract!Copies(x, n))
  BY PutsIsPut DEF Abstract!Copies
<1>3. Abstract!Extend(v)
  BY <1>1, <1>2 DEF Abstract!Extend, Abstract!Sizes
<1> QED
  BY <1>3 DEF Abstract!Next

LEMMA MayPushOwn ==
  ASSUME MemInv, NEW v \in Vectors, Usable(v), NEW i \in DOMAIN vec[v].cells,
         NEW x \in {vec[v].cells[i], Junk},
         Puts(v, vec[v].cells \o [j \in 1 .. 1 |-> x])
  PROVE  Abstract!Next
<1>1. Abstract!Usable(v) /\ [w \in Vectors |-> Content(w)][v] = vec[v].cells
  BY UsableIsUsable
<1>2. vec[v].cells \in Seq(Elements)
  BY UsableGood, GoodFields
<1>3. x \in Elements
  BY <1>2, ElementOfSeq DEF Elements
<1>4. [j \in 1 .. 1 |-> x] = <<x>>
  OBVIOUS
<1>5. vec[v].cells \o [j \in 1 .. 1 |-> x] = Append(vec[v].cells, x)
  BY <1>2, <1>3, <1>4, AppendIsConcat
<1>6. Abstract!PushOwn(v)
  BY <1>1, <1>5, PutsIsPut DEF Abstract!PushOwn
<1> QED
  BY <1>6 DEF Abstract!Next

LEMMA MaySet ==
  ASSUME MemInv, NEW v \in Vectors, Usable(v), NEW i \in DOMAIN vec[v].cells, NEW x \in Values,
         Puts(v, [vec[v].cells EXCEPT ![i] = x])
  PROVE  Abstract!Next
<1>1. Abstract!Usable(v) /\ [w \in Vectors |-> Content(w)][v] = vec[v].cells
  BY UsableIsUsable
<1>2. Abstract!Set(v)
  BY <1>1, PutsIsPut DEF Abstract!Set
<1> QED
  BY <1>2 DEF Abstract!Next
-----------------------------------------------------------------------------
(* Vector: one lemma per operation *)

\* The memory stays safe, and the contents do what VectorSpec allows.
Keeps == MemInv' /\ (Abstract!Next \/ UNCHANGED Contents)

LEMMA ConstructDefaultKeeps ==
  ASSUME MemInv, NEW v \in Vectors, ConstructDefault(v)
  PROVE  Keeps
<1>1. Constructs(v, 0, Empty) /\ Good(Empty) /\ Empty.cells = <<>>
  BY EmptyGood DEF ConstructDefault
<1>2. MemInv' /\ v \notin alive /\ (UNCHANGED Contents \/ Puts(v, <<>>))
  BY <1>1, ConstructsPuts
<1>3. PICK x \in Values : TRUE
  BY ConstantsAssumption
<1>4. <<>> = [i \in 1 .. 0 |-> x] /\ 0 \in 0 .. MaxCapacity
  BY MaxCapacityDoubled
<1>5. Puts(v, <<>>) => Abstract!Next
  BY <1>2, <1>4, MayConstructCopies
<1> QED
  BY <1>2, <1>5 DEF Keeps

LEMMA ConstructCopiesKeeps ==
  ASSUME MemInv, NEW v \in Vectors, NEW n \in SizeT, NEW x \in Values,
         ConstructCopies(v, n, x)
  PROVE  Keeps
<1> DEFINE q == Reserved(Empty, n)
           r == Extended(q, n, x)
<1>1. n \in Nat /\ MaxCapacity \in Nat /\ x \in Elements
  BY SizesAreNaturals, MaxCapacityDoubled DEF Elements
<1>2. ASSUME n <= MaxCapacity
      PROVE  Good(r) /\ r.cells = [i \in 1 .. n |-> x]
  <2>1. Good(q) /\ n <= q.cap /\ q.cells = <<>>
    <3>1. Forgotten(<<>>) = <<>>
      BY DEF Forgotten
    <3> QED
      BY <1>1, <1>2, <3>1, EmptyGood, ReservedGood
  <2>2. Len(q.cells) + n <= q.cap
    BY <1>1, <2>1
  <2>3. Good(r) /\ r.cells = q.cells \o [i \in 1 .. n |-> x]
    BY <1>1, <2>1, <2>2, ExtendedGood
  <2>4. [i \in 1 .. n |-> x] \in Seq(Elements)
    BY <1>1, CopiesSeq
  <2> QED
    BY <2>1, <2>3, <2>4, ConcatEmptySeq
<1>3. Constructs(v, n, r)
  BY DEF ConstructCopies
<1> HIDE DEF r
<1>4. MemInv' /\ v \notin alive
      /\ (UNCHANGED Contents \/ (n <= MaxCapacity /\ Puts(v, r.cells)))
  BY <1>1, <1>2, <1>3, ConstructsPuts
<1>5. ASSUME n <= MaxCapacity, Puts(v, r.cells) PROVE Abstract!Next
  <2>1. n \in 0 .. MaxCapacity /\ Puts(v, [i \in 1 .. n |-> x])
    BY <1>1, <1>2, <1>5
  <2> QED
    BY <1>4, <2>1, MayConstructCopies
<1> QED
  BY <1>4, <1>5 DEF Keeps

LEMMA ConstructCopyKeeps ==
  ASSUME MemInv, NEW v \in Vectors, NEW w \in Vectors, ConstructCopy(v, w)
  PROVE  Keeps
<1> DEFINE n == Size(vec[w])
           q == Reserved(Empty, n)
           r == CopiedFrom(q, vec[w])
<1>1. Usable(w) /\ Good(vec[w]) /\ n = Len(vec[w].cells) /\ n \in Nat
  BY UsableGood, GoodFields DEF ConstructCopy, Size
<1>2. n <= MaxCapacity /\ MaxCapacity \in Nat
  BY <1>1, GoodFields, MaxCapacityDoubled
<1>3. Constructs(v, n, r)
  BY DEF ConstructCopy
<1> HIDE DEF n
<1>4. Good(q) /\ n <= q.cap
  BY <1>1, <1>2, EmptyGood, ReservedGood
<1>5. Good(r) /\ r.cells = vec[w].cells
  BY <1>1, <1>4, CopiedGood
<1> HIDE DEF r
<1>6. MemInv' /\ v \notin alive /\ (UNCHANGED Contents \/ Puts(v, vec[w].cells))
  BY <1>1, <1>3, <1>5, ConstructsPuts
<1> QED
  BY <1>1, <1>6, MayConstructCopy DEF Keeps

LEMMA DestroyKeeps ==
  ASSUME MemInv, NEW v \in Vectors, Destroy(v)
  PROVE  Keeps
  BY DestroyLoses, MayLose DEF Keeps

\* A call that ends the program keeps everything.
LEMMA EndingKeeps ==
  ASSUME MemInv, NEW how \in {"hung", "aborted"}, Ends(how)
  PROVE  Keeps
  BY EndsKeeps DEF Keeps

\* A call that reserves does what it writes, unless it never ends or throws.
LEMMA OutcomeKeeps ==
  ASSUME MemInv, NEW v \in Vectors, Usable(v), NEW n \in Nat, NEW r, Outcome(v, n, r),
         n <= MaxCapacity \/ n <= vec[v].cap => Good(r),
         n <= MaxCapacity \/ n <= vec[v].cap =>
           (Puts(v, r.cells) => Abstract!Next \/ UNCHANGED Contents)
  PROVE  Keeps
<1>1. /\ MemInv'
      /\ \/ UNCHANGED Contents
         \/ Puts(v, Lost)
         \/ (n <= MaxCapacity \/ n <= vec[v].cap) /\ Puts(v, r.cells)
  BY OutcomePuts
<1> QED
  BY <1>1, MayLose DEF Keeps

LEMMA ReserveKeeps ==
  ASSUME MemInv, NEW v \in Vectors, NEW n \in SizeT, Reserve(v, n)
  PROVE  Keeps
<1> DEFINE r == Reserved(vec[v], n)
<1>1. Usable(v) /\ Good(vec[v]) /\ n \in Nat /\ Contents[v] = vec[v].cells
  BY UsableGood, SizesAreNaturals DEF Reserve
<1>2. Outcome(v, n, r)
  BY <1>1, ReservesOutcome DEF Reserve
<1>3. n <= MaxCapacity \/ n <= vec[v].cap =>
        /\ Good(r)
        /\ r.cells = IF vec[v].cap < n THEN Forgotten(vec[v].cells) ELSE vec[v].cells
  BY <1>1, ReservedGood
<1> HIDE DEF r
<1>4. Puts(v, Forgotten(vec[v].cells)) => Abstract!Next
  BY <1>1, MayForget
<1>5. Puts(v, vec[v].cells) => UNCHANGED Contents
  BY <1>1 DEF Puts, Contents
<1>6. n <= MaxCapacity \/ n <= vec[v].cap =>
        (Puts(v, r.cells) => Abstract!Next \/ UNCHANGED Contents)
  BY <1>3, <1>4, <1>5
<1> QED
  BY <1>1, <1>2, <1>3, <1>6, OutcomeKeeps

LEMMA AssignKeeps ==
  ASSUME MemInv, NEW v \in Vectors, NEW w \in Vectors, Assign(v, w)
  PROVE  Keeps
<1> DEFINE n == Size(vec[w])
           r == CopiedFrom(Reserved(vec[v], n), vec[w])
<1>1. /\ Usable(v) /\ Usable(w) /\ Good(vec[v]) /\ Good(vec[w])
      /\ n = Len(vec[w].cells) /\ n \in Nat
  BY UsableGood, GoodFields DEF Assign, Size
<1>2. n <= MaxCapacity /\ MaxCapacity \in Nat
  BY <1>1, GoodFields, MaxCapacityDoubled
<1>3. Outcome(v, n, r)
  BY <1>1, ReservesOutcome DEF Assign
<1> HIDE DEF n
<1>4. Good(Reserved(vec[v], n)) /\ n <= Reserved(vec[v], n).cap
  BY <1>1, <1>2, ReservedGood
<1>5. Good(r) /\ r.cells = vec[w].cells
  BY <1>1, <1>4, CopiedGood
<1> HIDE DEF r
<1>6. Puts(v, r.cells) => Abstract!Next
  BY <1>1, <1>5, MayAssign
<1> QED
  BY <1>1, <1>3, <1>5, <1>6, OutcomeKeeps

\* Elements are dropped from the end.
LEMMA ShortensKeeps ==
  ASSUME MemInv, NEW v \in Vectors, Usable(v), NEW n \in 0 .. Len(vec[v].cells),
         Returns(v, Shortened(vec[v], n))
  PROVE  Keeps
<1>1. v \in alive /\ Good(vec[v])
  BY UsableGood
<1>2. Good(Shortened(vec[v], n)) /\ Shortened(vec[v], n).cells = SubSeq(vec[v].cells, 1, n)
  BY <1>1, ShortenedGood
<1>3. MemInv' /\ Puts(v, SubSeq(vec[v].cells, 1, n))
  BY <1>1, <1>2, ReturnsPuts
<1> QED
  BY <1>3, MayTruncate DEF Keeps

LEMMA ClearKeeps ==
  ASSUME MemInv, NEW v \in Vectors, Clear(v)
  PROVE  Keeps
<1>1. Usable(v) /\ Len(vec[v].cells) \in Nat
  BY UsableGood, GoodFields DEF Clear
<1> QED
  BY <1>1, ShortensKeeps DEF Clear

LEMMA PopBackKeeps ==
  ASSUME MemInv, NEW v \in Vectors, PopBack(v)
  PROVE  Keeps
<1>1. Usable(v) /\ Len(vec[v].cells) \in Nat
  BY UsableGood, GoodFields DEF PopBack
<1>2. CASE Size(vec[v]) = 0
  BY <1>2, EndingKeeps DEF PopBack
<1>3. CASE Size(vec[v]) # 0
  <2>1. Len(vec[v].cells) - 1 \in 0 .. Len(vec[v].cells)
    BY <1>1, <1>3 DEF Size
  <2>2. Returns(v, Shortened(vec[v], Len(vec[v].cells) - 1))
    BY <1>3 DEF PopBack, Size
  <2> QED
    BY <1>1, <2>1, <2>2, ShortensKeeps
<1> QED
  BY <1>2, <1>3

\* k elements written behind the others are in the block, if they fit into the
\* capacity there was or into the one reserved.
LEMMA ExtendsGood ==
  ASSUME MemInv, NEW v \in Vectors, Usable(v), NEW n \in Nat, NEW k \in Nat,
         NEW x \in Elements, n <= MaxCapacity \/ n <= vec[v].cap,
         Len(vec[v].cells) + k <= n \/ Len(vec[v].cells) + k <= vec[v].cap
  PROVE  /\ Good(Extended(Regrown(vec[v], n), k, x))
         /\ Extended(Regrown(vec[v], n), k, x).cells
              = vec[v].cells \o [i \in 1 .. k |-> x]
         /\ k \in 0 .. MaxCapacity
<1> DEFINE q == Regrown(vec[v], n)
<1>1. /\ Good(vec[v]) /\ Len(vec[v].cells) \in Nat /\ vec[v].cap \in Nat
      /\ Len(vec[v].cells) <= vec[v].cap
  BY UsableGood, GoodFields
<1>2. Good(q) /\ n <= q.cap /\ q.cells = vec[v].cells
  BY <1>1, RegrownGood
<1>3. vec[v].cap <= q.cap
  <2>1. CASE vec[v].cap < n
    BY <1>1, <1>2, <2>1, GoodFields
  <2>2. CASE ~(vec[v].cap < n)
    BY <1>1, <2>2 DEF Regrown
  <2> QED
    BY <2>1, <2>2
<1> HIDE DEF q
<1>4. q.cap \in 0 .. MaxCapacity /\ q.cap \in Nat
  BY <1>2, GoodFields
<1>5. Len(q.cells) + k <= q.cap
  BY <1>1, <1>2, <1>3, <1>4
<1>6. Good(Extended(q, k, x)) /\ Extended(q, k, x).cells = q.cells \o [i \in 1 .. k |-> x]
  BY <1>2, <1>5, ExtendedGood
<1>7. k \in 0 .. MaxCapacity
  BY <1>1, <1>2, <1>4, <1>5, MaxCapacityDoubled
<1> QED
  BY <1>2, <1>6, <1>7 DEF q

\* What push_back does for a value, which may have become junk.
LEMMA PushBackValKeeps ==
  ASSUME MemInv, NEW v \in Vectors, Usable(v), NEW x \in Elements, PushBackVal(v, x),
         Puts(v, vec[v].cells \o [i \in 1 .. 1 |-> x]) => Abstract!Next
  PROVE  Keeps
<1> DEFINE n == IF Full(vec[v]) THEN Size(vec[v]) + 1 ELSE 0
           r == Extended(Regrown(vec[v], n), 1, x)
<1>1. /\ Good(vec[v]) /\ Len(vec[v].cells) \in Nat /\ vec[v].cap \in Nat
      /\ Len(vec[v].cells) <= vec[v].cap
  BY UsableGood, GoodFields
<1>2. n \in Nat /\ (Len(vec[v].cells) + 1 <= n \/ Len(vec[v].cells) + 1 <= vec[v].cap)
  BY <1>1 DEF Full, Size
<1>3. ReservesThenReturns(v, n, r, TRUE)
  BY DEF PushBackVal
<1> HIDE DEF n
<1>4. ASSUME n <= MaxCapacity \/ n <= vec[v].cap
      PROVE  Good(r) /\ r.cells = vec[v].cells \o [i \in 1 .. 1 |-> x]
  <2>1. 1 \in Nat
    OBVIOUS
  <2> QED
    BY <1>2, <1>4, <2>1, ExtendsGood
<1> HIDE DEF r
<1>5. Outcome(v, n, r)
  BY <1>2, <1>3, ReservesOutcome
<1> QED
  BY <1>2, <1>4, <1>5, OutcomeKeeps

LEMMA PushBackKeeps ==
  ASSUME MemInv, NEW v \in Vectors, NEW x \in Values, PushBack(v, x)
  PROVE  Keeps
<1>1. Usable(v) /\ PushBackVal(v, x) /\ x \in Elements
  BY DEF PushBack, Elements
<1>2. 1 \in 0 .. MaxCapacity
  BY MaxCapacityDoubled
<1>3. Puts(v, vec[v].cells \o [i \in 1 .. 1 |-> x]) => Abstract!Next
  BY <1>1, <1>2, MayExtend
<1> QED
  BY <1>1, <1>3, PushBackValKeeps

LEMMA PushBackOwnKeeps ==
  ASSUME MemInv, NEW v \in Vectors, NEW i \in SizeT, PushBackOwn(v, i)
  PROVE  Keeps
<1> DEFINE x == IF Full(vec[v]) THEN Junk ELSE vec[v].cells[i]
<1>1. Usable(v) /\ PushBackVal(v, x)
  BY DEF PushBackOwn
<1>2. vec[v].cells \in Seq(Elements) /\ i \in DOMAIN vec[v].cells
  BY <1>1, UsableGood, GoodFields DEF PushBackOwn, Size
<1>3. vec[v].cells[i] \in Elements
  BY <1>2, ElementOfSeq
<1>4. x \in Elements /\ x \in {vec[v].cells[i], Junk}
  BY <1>3 DEF Elements
<1> HIDE DEF x
<1>5. Puts(v, vec[v].cells \o [j \in 1 .. 1 |-> x]) => Abstract!Next
  BY <1>1, <1>2, <1>4, MayPushOwn
<1> QED
  BY <1>1, <1>4, <1>5, PushBackValKeeps

LEMMA ResizeKeeps ==
  ASSUME MemInv, NEW v \in Vectors, NEW n \in SizeT, NEW x \in Values, Resize(v, n, x)
  PROVE  Keeps
<1>1. /\ Usable(v) /\ Len(vec[v].cells) \in Nat /\ n \in Nat /\ x \in Elements
  BY UsableGood, GoodFields, SizesAreNaturals DEF Resize, Elements
<1>2. CASE Len(vec[v].cells) < n
  <2> DEFINE k == n - Len(vec[v].cells)
             r == Extended(Regrown(vec[v], n), k, x)
  <2>1. ReservesThenReturns(v, n, r, TRUE)
    <3>1. Size(vec[v]) < n /\ k = n - Size(vec[v])
      BY <1>2 DEF Size
    <3> QED
      BY <3>1 DEF Resize
  <2>2. k \in Nat /\ Len(vec[v].cells) + k <= n
    BY <1>1, <1>2
  <2> HIDE DEF k
  <2>3. n <= MaxCapacity \/ n <= vec[v].cap =>
          /\ Good(r) /\ k \in 0 .. MaxCapacity
          /\ r.cells = vec[v].cells \o [i \in 1 .. k |-> x]
    <3> SUFFICES ASSUME n <= MaxCapacity \/ n <= vec[v].cap
                 PROVE  /\ Good(r) /\ k \in 0 .. MaxCapacity
                        /\ r.cells = vec[v].cells \o [i \in 1 .. k |-> x]
      OBVIOUS
    <3>1. Len(vec[v].cells) + k <= n \/ Len(vec[v].cells) + k <= vec[v].cap
      BY <2>2
    <3>2. /\ Good(Extended(Regrown(vec[v], n), k, x)) /\ k \in 0 .. MaxCapacity
          /\ Extended(Regrown(vec[v], n), k, x).cells = vec[v].cells \o [i \in 1 .. k |-> x]
      <4> HIDE DEF r
      <4>1. k \in Nat /\ Usable(v) /\ n \in Nat /\ x \in Elements
        BY <1>1, <2>2
      <4> QED
        BY <3>1, <4>1, ExtendsGood
    <3> QED
      BY <3>2
  <2> HIDE DEF r
  <2>4. Outcome(v, n, r)
    BY <1>1, <2>1, ReservesOutcome
  <2>5. ASSUME k \in 0 .. MaxCapacity, Puts(v, vec[v].cells \o [i \in 1 .. k |-> x])
        PROVE  Abstract!Next
    BY <1>1, <2>5, MayExtend
  <2>6. n <= MaxCapacity \/ n <= vec[v].cap =>
          (Puts(v, r.cells) => Abstract!Next \/ UNCHANGED Contents)
    BY <2>3, <2>5
  <2> QED
    BY <1>1, <2>3, <2>4, <2>6, OutcomeKeeps
<1>3. CASE ~(Len(vec[v].cells) < n)
  <2>1. n \in 0 .. Len(vec[v].cells) /\ Returns(v, Shortened(vec[v], n))
    BY <1>1, <1>3 DEF Resize, Size
  <2> QED
    BY <1>1, <2>1, ShortensKeeps
<1> QED
  BY <1>2, <1>3

LEMMA SetAtKeeps ==
  ASSUME MemInv, NEW v \in Vectors, NEW n \in SizeT, NEW x \in Values, SetAt(v, n, x)
  PROVE  Keeps
<1>1. /\ Usable(v) /\ Good(vec[v]) /\ v \in alive /\ n \in Nat
      /\ vec[v].cells \in Seq(Elements) /\ Len(vec[v].cells) \in Nat
      /\ Len(vec[v].cells) <= vec[v].cap /\ vec[v] \in Members
      /\ DOMAIN vec[v].cells = 1 .. Len(vec[v].cells)
  BY UsableGood, GoodFields, SizesAreNaturals DEF SetAt
<1>2. CASE Size(vec[v]) <= n
  BY <1>2, EndingKeeps DEF SetAt
<1>3. CASE ~(Size(vec[v]) <= n)
  <2> DEFINE s == [vec[v].cells EXCEPT ![n + 1] = x]
             r == [vec[v] EXCEPT !.cells = s]
  <2>1. n + 1 \in DOMAIN vec[v].cells
    BY <1>1, <1>3 DEF Size
  <2>2. s \in Seq(Elements) /\ Len(s) = Len(vec[v].cells)
    BY <1>1, <2>1, ExceptSeq DEF Elements
  <2>3. Returns(v, r)
    BY <1>3 DEF SetAt
  <2> HIDE DEF s
  <2>4. Good(r)
    BY <1>1, <2>2, CellsGood
  <2>5. r.cells = s
    BY <1>1 DEF Members
  <2> HIDE DEF r
  <2>6. MemInv' /\ Puts(v, s)
    BY <1>1, <2>3, <2>4, <2>5, ReturnsPuts
  <2>7. Abstract!Next
    BY <1>1, <2>1, <2>6, MaySet DEF s
  <2> QED
    BY <2>6, <2>7 DEF Keeps
<1> QED
  BY <1>2, <1>3
-----------------------------------------------------------------------------
(* Vector: the theorems *)

LEMMA StartsSafe == Init => MemInv /\ Abstract!Init
<1> SUFFICES ASSUME Init PROVE MemInv /\ Abstract!Init
  OBVIOUS
<1>1. Empty \in Members /\ Empty.mem # "freed"
  BY EmptyGood, GoodFields DEF Empty
<1>2. MemInv
  BY <1>1 DEF Init, MemInv, TypeOK, DeletedOnce
<1>3. \A v \in Vectors : Content(v) = Lost
  BY DEF Init, Content
<1> QED
  BY <1>2, <1>3 DEF Abstract!Init

LEMMA NextKeeps == MemInv /\ Next => Keeps
<1> SUFFICES ASSUME MemInv, Next PROVE Keeps
  OBVIOUS
<1>1. PICK v \in Vectors :
        \/ ConstructDefault(v)
        \/ \E n \in SizeT, x \in Values : ConstructCopies(v, n, x)
        \/ \E w \in Vectors \ {v} : ConstructCopy(v, w)
        \/ Destroy(v)
        \/ \E n \in SizeT : Reserve(v, n)
        \/ \E w \in Vectors : Assign(v, w)
        \/ Clear(v)
        \/ \E x \in Values : PushBack(v, x)
        \/ \E i \in SizeT : PushBackOwn(v, i)
        \/ PopBack(v)
        \/ \E n \in SizeT, x \in Values : Resize(v, n, x)
        \/ \E n \in SizeT, x \in Values : SetAt(v, n, x)
  BY DEF Next
<1>2. CASE ConstructDefault(v)
  BY <1>2, ConstructDefaultKeeps
<1>3. CASE \E n \in SizeT, x \in Values : ConstructCopies(v, n, x)
  BY <1>3, ConstructCopiesKeeps
<1>4. CASE \E w \in Vectors \ {v} : ConstructCopy(v, w)
  BY <1>4, ConstructCopyKeeps
<1>5. CASE Destroy(v)
  BY <1>5, DestroyKeeps
<1>6. CASE \E n \in SizeT : Reserve(v, n)
  BY <1>6, ReserveKeeps
<1>7. CASE \E w \in Vectors : Assign(v, w)
  BY <1>7, AssignKeeps
<1>8. CASE Clear(v)
  BY <1>8, ClearKeeps
<1>9. CASE \E x \in Values : PushBack(v, x)
  BY <1>9, PushBackKeeps
<1>10. CASE \E i \in SizeT : PushBackOwn(v, i)
  BY <1>10, PushBackOwnKeeps
<1>11. CASE PopBack(v)
  BY <1>11, PopBackKeeps
<1>12. CASE \E n \in SizeT, x \in Values : Resize(v, n, x)
  BY <1>12, ResizeKeeps
<1>13. CASE \E n \in SizeT, x \in Values : SetAt(v, n, x)
  BY <1>13, SetAtKeeps
<1> QED
  BY <1>1, <1>2, <1>3, <1>4, <1>5, <1>6, <1>7, <1>8, <1>9, <1>10, <1>11, <1>12, <1>13

LEMMA StaysStill == MemInv /\ UNCHANGED vars => MemInv' /\ UNCHANGED Contents
BY DEF MemInv, TypeOK, DeletedOnce, Contents, Content, vars

\* A step is one of the vectors or one of the strings.
LEMMA VectorsOrStrings ==
  [BothNext]_<<vars, sVars>> =>
    \/ Next /\ UNCHANGED sVars
    \/ S!Next /\ UNCHANGED vars
    \/ UNCHANGED <<vars, sVars>>
BY DEF BothNext

LEMMA MemInvSuffices == MemInv => MemorySafe
BY DEF MemInv, MemorySafe, InBounds, Good

\* vector.hpp:85-107: whatever is called in whatever order, the elements lie
\* inside the block, and a block is lost or deleted twice only after an
\* allocation has failed; for any number of vectors and any width of size_t.
\* (A deleted block that is read, as by push_back(v[i]), is not stated to be one:
\* blocks have no identity.)
THEOREM VectorsSafe == BothSpec => []MemorySafe
<1>1. BothInit => MemInv
  BY StartsSafe DEF BothInit
<1>2. MemInv /\ [BothNext]_<<vars, sVars>> => MemInv'
  BY VectorsOrStrings, NextKeeps, StaysStill DEF Keeps
<1> QED
  BY <1>1, <1>2, MemInvSuffices, PTL DEF BothSpec

\* vector.hpp: every behaviour of the vectors with their buffers is one of
\* VectorSpec: a vector is a sequence that each operation changes as the
\* abstract one may, or is out of use.
THEOREM VectorsImplement == BothSpec => ImplementsSpec
<1>1. BothInit => MemInv
  BY StartsSafe DEF BothInit
<1>2. BothInit => Abstract!Init
  BY StartsSafe DEF BothInit
<1>3. MemInv /\ [BothNext]_<<vars, sVars>> => MemInv'
  BY VectorsOrStrings, NextKeeps, StaysStill DEF Keeps
<1>4. MemInv /\ [BothNext]_<<vars, sVars>> => [Abstract!Next]_[v \in Vectors |-> Content(v)]
  BY VectorsOrStrings, NextKeeps, StaysStill DEF Keeps, Contents
<1> QED
  BY <1>1, <1>2, <1>3, <1>4, PTL DEF BothSpec, ImplementsSpec, Abstract!Spec

\* vector.hpp:308-356, pair.hpp:47-51: in every reachable state, operator< of
\* two vectors answers true only if the first difference or the length says so.
\* (Not so <=, the negation of the exchanged <: {2, 1} <= {1, 2} is true.)
THEOREM VectorsOrdered == BothSpec => []OrderIsSound
<1>1. OrderIsSound
  <2>1. ASSUME NEW s \in Seq(Values) PROVE s \in Seq(Int)
    <3>1. Len(s) \in Nat /\ s \in [1 .. Len(s) -> Int]
      BY ValuesAssumption, LenProperties
    <3> QED
      BY <3>1, SeqDef
  <2>2. ASSUME NEW l \in Seq(Values), NEW r \in Seq(Values) PROVE OrderedAs(l, r)
    <3>1. l \in Seq(Int) /\ r \in Seq(Int)
      BY <2>1
    <3>2. Less(l, r) => Precedes(l, r)
      BY <3>1, LessIsSound
    <3>3. ASSUME Len(l) = 2, Len(r) = 2 PROVE PairLess(l, r) <=> Precedes(l, r)
      <4>1. l = <<l[1], l[2]>> /\ r = <<r[1], r[2]>>
        BY <3>1, <3>3
      <4>2. <<l[1], l[2]>> \in Int \X Int /\ <<r[1], r[2]>> \in Int \X Int
        BY <3>1, <3>3
      <4> QED
        BY <4>1, <4>2, PairLessIsOrder
    <3> QED
      BY <3>2, <3>3 DEF OrderedAs
  <2> QED
    BY <2>2 DEF OrderIsSound
<1> QED
  BY <1>1, PTL
-----------------------------------------------------------------------------
(* Strings: texts and blocks *)

\* What buffer_ of a constructed string points to.
Blocks == {b \in Seq(S!Bytes) : Len(b) \in 1 .. MaxSize + 1}

Determined == S!Texts \cup {Unknown}

LEMMA StringConstants ==
  /\ MaxSize \in Nat /\ MaxSize > 0 /\ Chars \subseteq Nat \ {0} /\ S!Bytes \subseteq Int
  /\ S!NUL \in S!Bytes /\ S!NUL \notin Chars /\ Chars \subseteq S!Bytes
  /\ SWidth \in Nat /\ 2 ^ SWidth \in Nat \ {0} /\ S!SizeT \subseteq Nat
<1>1. /\ MaxSize \in Nat /\ MaxSize > 0 /\ Chars \subseteq Nat \ {0} /\ SWidth \in Nat
  BY StringsAssumption DEF S!StringsAssumption
<1>2. 2 ^ SWidth \in Nat \ {0}
  BY <1>1, PowerPositive
<1> QED
  BY <1>1, <1>2 DEF S!Bytes, S!NUL, S!SizeT

\* Sequences of a set are sequences of every larger one.
LEMMA SeqMonotone ==
  ASSUME NEW A, NEW B, A \subseteq B, NEW s \in Seq(A)
  PROVE  s \in Seq(B)
<1>1. Len(s) \in Nat /\ s \in [1 .. Len(s) -> B]
  BY LenProperties
<1> QED
  BY <1>1, SeqDef

LEMMA TextsAreSeqs ==
  \A x : x \in S!Texts <=> x \in Seq(Chars) /\ Len(x) <= MaxSize
<1> SUFFICES ASSUME NEW x PROVE x \in S!Texts <=> x \in Seq(Chars) /\ Len(x) <= MaxSize
  OBVIOUS
<1>1. MaxSize \in Nat
  BY StringConstants
<1>2. ASSUME x \in S!Texts PROVE x \in Seq(Chars) /\ Len(x) <= MaxSize
  <2>1. PICK n \in 0 .. MaxSize : x \in [1 .. n -> Chars]
    BY <1>2 DEF S!Texts
  <2>2. x \in Seq(Chars)
    BY <1>1, <2>1, SeqDef
  <2>3. Len(x) = n
    BY <1>1, <2>1, <2>2, LenProperties
  <2> QED
    BY <1>1, <2>2, <2>3
<1>3. ASSUME x \in Seq(Chars), Len(x) <= MaxSize PROVE x \in S!Texts
  <2>1. Len(x) \in 0 .. MaxSize /\ x \in [1 .. Len(x) -> Chars]
    BY <1>1, <1>3, LenProperties
  <2> QED
    BY <2>1 DEF S!Texts
<1> QED
  BY <1>2, <1>3

\* strcpy and strlen end at the first NUL, inside the block (string.hpp:68).
LEMMA TextInside ==
  ASSUME NEW b \in Seq(S!Bytes), S!Terminated(b)
  PROVE  S!Text(b) \in Seq(Chars) /\ Len(S!Text(b)) < Len(b)
<1> DEFINE T == {i \in DOMAIN b : b[i] = S!NUL}
           First(i) == b[i] = S!NUL /\ \A j \in 1 .. i - 1 : b[j] # S!NUL
<1>1. Len(b) \in Nat /\ DOMAIN b = 1 .. Len(b)
  BY LenProperties
<1>2. T \subseteq Nat /\ T # {}
  BY <1>1 DEF S!Terminated
<1>3. PICK m \in T : \A i \in T : m <= i
  BY <1>2, LeastMember
<1>4. First(m)
  <2>1. ASSUME NEW j \in 1 .. m - 1 PROVE b[j] # S!NUL
    <3>1. j \in DOMAIN b /\ j < m
      BY <1>1, <1>3
    <3> QED
      BY <1>1, <1>3, <3>1
  <2> QED
    BY <1>3, <2>1
<1> DEFINE k == CHOOSE i \in DOMAIN b : First(i)
<1>5. k \in DOMAIN b /\ First(k)
  BY <1>3, <1>4
<1>6. S!Text(b) = SubSeq(b, 1, k - 1)
  BY DEF S!Text
<1>7. k \in 1 .. Len(b) /\ \A j \in 1 .. k - 1 : b[j] # S!NUL
  BY <1>1, <1>5
<1> HIDE DEF k
<1>8. \A j \in 1 .. k - 1 : b[j] \in Chars
  <2>1. \A j \in 1 .. Len(b) : b[j] \in S!Bytes
    BY ElementOfSeq
  <2> QED
    BY <1>1, <1>7, <2>1 DEF S!Bytes
<1>9. SubSeq(b, 1, k - 1) \in Seq(Chars) /\ Len(SubSeq(b, 1, k - 1)) = k - 1
  BY <1>1, <1>7, <1>8, SubSeqProperties
<1> QED
  BY <1>1, <1>6, <1>7, <1>9

\* A text followed by NUL reads as itself.
LEMMA TextOfKnown ==
  ASSUME NEW x \in Seq(Chars), NEW b, b = x \o <<S!NUL>>
  PROVE  /\ b \in Seq(S!Bytes) /\ Len(b) = Len(x) + 1 /\ S!Terminated(b)
         /\ S!Text(b) = x /\ b[Len(x) + 1] = S!NUL
         /\ \A i \in 1 .. Len(x) : b[i] = x[i]
<1>1. x \in Seq(S!Bytes) /\ <<S!NUL>> \in Seq(S!Bytes) /\ Len(<<S!NUL>>) = 1
  <2>1. x \in Seq(S!Bytes)
    BY SeqMonotone, StringConstants
  <2>2. S!NUL \in S!Bytes
    BY StringConstants
  <2> QED
    BY <2>1, <2>2
<1>2. /\ b \in Seq(S!Bytes) /\ Len(b) = Len(x) + 1
      /\ \A i \in 1 .. Len(b) : b[i] = IF i <= Len(x) THEN x[i] ELSE <<S!NUL>>[i - Len(x)]
  BY <1>1, ConcatProperties
<1>3. Len(x) \in Nat /\ DOMAIN b = 1 .. Len(b) /\ \A i \in 1 .. Len(x) : x[i] \in Chars
  BY <1>2, LenProperties, ElementOfSeq
<1>4. b[Len(x) + 1] = S!NUL /\ \A i \in 1 .. Len(x) : b[i] = x[i]
  BY <1>2, <1>3
<1>5. Len(x) + 1 \in DOMAIN b /\ S!Terminated(b)
  BY <1>2, <1>3, <1>4 DEF S!Terminated
<1> DEFINE First(i) == b[i] = S!NUL /\ \A j \in 1 .. i - 1 : b[j] # S!NUL
<1>6. First(Len(x) + 1)
  BY <1>3, <1>4, StringConstants
<1>7. ASSUME NEW i \in DOMAIN b, First(i) PROVE i = Len(x) + 1
  <2>1. ~(i <= Len(x))
    BY <1>3, <1>4, <1>7, StringConstants
  <2> QED
    BY <1>2, <1>3, <2>1
<1>8. (CHOOSE i \in DOMAIN b : First(i)) = Len(x) + 1
  BY <1>5, <1>6, <1>7
<1>9. S!Text(b) = SubSeq(b, 1, Len(x))
  <2>1. S!Text(b) = SubSeq(b, 1, (CHOOSE i \in DOMAIN b : First(i)) - 1)
    BY DEF S!Text
  <2>2. (Len(x) + 1) - 1 = Len(x)
    BY <1>3
  <2> QED
    BY <1>8, <2>1, <2>2
<1>10. SubSeq(b, 1, Len(x)) = x
  <2>1. \A i \in 1 .. Len(x) : b[i] \in Chars
    BY <1>3, <1>4
  <2>2. /\ SubSeq(b, 1, Len(x)) \in Seq(Chars) /\ Len(SubSeq(b, 1, Len(x))) = Len(x)
        /\ \A i \in 1 .. Len(x) : SubSeq(b, 1, Len(x))[i] = b[i]
    BY <1>2, <1>3, <2>1, SubSeqProperties
  <2> QED
    BY <1>4, <2>2, SeqEqual
<1> QED
  BY <1>2, <1>4, <1>5, <1>9, <1>10

\* A new block after strcpy of t holds t and its NUL.
LEMMA FilledIsBlock ==
  ASSUME NEW n \in 0 .. MaxSize, NEW t \in Seq(Chars), Len(t) <= n, NEW b \in S!Filled(n, t)
  PROVE  b \in Blocks /\ (Len(t) = n => b = t \o <<S!NUL>>)
<1>1. PICK rest \in [1 .. n - Len(t) -> S!Bytes] : b = t \o <<S!NUL>> \o rest
  BY DEF S!Filled
<1>2. MaxSize \in Nat /\ Len(t) \in Nat /\ n - Len(t) \in Nat
  BY StringConstants, LenProperties
<1>3. rest \in Seq(S!Bytes) /\ Len(rest) = n - Len(t)
  <2>1. rest \in Seq(S!Bytes)
    BY <1>2, SeqDef
  <2> QED
    BY <1>2, <2>1, LenProperties
<1>4. t \o <<S!NUL>> \in Seq(S!Bytes) /\ Len(t \o <<S!NUL>>) = Len(t) + 1
  BY TextOfKnown
<1>5. b \in Seq(S!Bytes) /\ Len(b) = n + 1
  <2> DEFINE u == t \o <<S!NUL>>
  <2>1. u \in Seq(S!Bytes) /\ Len(u) = Len(t) + 1 /\ b = u \o rest
    BY <1>1, <1>4
  <2> HIDE DEF u
  <2>2. b \in Seq(S!Bytes) /\ Len(b) = Len(u) + Len(rest)
    BY <1>3, <2>1, ConcatProperties
  <2> QED
    BY <1>2, <1>3, <2>1, <2>2
<1>6. b \in Blocks
  BY <1>2, <1>5 DEF Blocks
<1>7. ASSUME Len(t) = n PROVE b = t \o <<S!NUL>>
  <2>1. rest = <<>>
    BY <1>2, <1>3, <1>7, EmptySeq
  <2> QED
    BY <1>1, <1>4, <2>1, ConcatEmptySeq
<1> QED
  BY <1>6, <1>7
-----------------------------------------------------------------------------
(* Strings: the invariant *)

StrInv ==
  /\ sAlive \subseteq Strings
  /\ sCells \in [Strings -> Seq(S!Bytes)]
  /\ \A v \in sAlive : sCells[v] \in Blocks
  /\ \A v \in Strings \ sAlive : sCells[v] = <<>>
  /\ sValue \in [Strings -> Determined]
  /\ sStatus \in {"running", "undetermined"} \cup S!Calls
  /\ S!Faithful
  /\ S!StaysDefined

\* What is known of a string that is used.
LEMMA UsableString ==
  ASSUME StrInv, NEW v \in Strings, S!Usable(v)
  PROVE  /\ v \in sAlive /\ sStatus = "running"
         /\ sCells[v] \in Blocks /\ sCells[v] \in Seq(S!Bytes)
         /\ S!Size(v) \in 0 .. MaxSize /\ Len(sCells[v]) = S!Size(v) + 1
         /\ S!Terminated(sCells[v]) =>
              S!Text(sCells[v]) \in Seq(Chars) /\ Len(S!Text(sCells[v])) <= S!Size(v)
         /\ sValue[v] \in Determined
         /\ sValue[v] # Unknown =>
              /\ sValue[v] \in Seq(Chars) /\ sCells[v] = sValue[v] \o <<S!NUL>>
              /\ S!Terminated(sCells[v]) /\ S!Text(sCells[v]) = sValue[v]
              /\ Len(sValue[v]) = S!Size(v)
<1>1. /\ v \in sAlive /\ sStatus = "running" /\ sCells[v] \in Blocks
      /\ sValue[v] \in Determined
  BY DEF S!Usable, StrInv
<1>2. sCells[v] \in Seq(S!Bytes) /\ Len(sCells[v]) \in 1 .. MaxSize + 1 /\ MaxSize \in Nat
  BY <1>1, StringConstants DEF Blocks
<1>3. S!Size(v) \in 0 .. MaxSize /\ Len(sCells[v]) = S!Size(v) + 1
  BY <1>2 DEF S!Size
<1>4. ASSUME S!Terminated(sCells[v])
      PROVE  S!Text(sCells[v]) \in Seq(Chars) /\ Len(S!Text(sCells[v])) <= S!Size(v)
  <2>1. S!Text(sCells[v]) \in Seq(Chars) /\ Len(S!Text(sCells[v])) < Len(sCells[v])
    BY <1>2, <1>4, TextInside
  <2>2. Len(S!Text(sCells[v])) \in Nat
    BY <2>1, LenProperties
  <2> QED
    BY <1>2, <1>3, <2>1, <2>2
<1>5. ASSUME sValue[v] # Unknown
      PROVE  /\ sValue[v] \in Seq(Chars) /\ sCells[v] = sValue[v] \o <<S!NUL>>
             /\ S!Terminated(sCells[v]) /\ S!Text(sCells[v]) = sValue[v]
             /\ Len(sValue[v]) = S!Size(v)
  <2>1. sValue[v] \in Seq(Chars)
    BY <1>1, <1>5, TextsAreSeqs DEF Determined
  <2>2. sCells[v] = sValue[v] \o <<S!NUL>>
    BY <1>1, <1>5 DEF StrInv, S!Faithful
  <2>3. /\ S!Terminated(sCells[v]) /\ S!Text(sCells[v]) = sValue[v]
        /\ Len(sCells[v]) = Len(sValue[v]) + 1
    BY <2>1, <2>2, TextOfKnown
  <2>4. Len(sValue[v]) = S!Size(v)
    BY <1>2, <1>3, <2>1, <2>3, LenProperties
  <2> QED
    BY <2>1, <2>2, <2>3, <2>4
<1> QED
  BY <1>1, <1>2, <1>3, <1>4, <1>5

\* A string gets a new block that holds what is promised.
LEMMA StoredKeeps ==
  ASSUME StrInv, sStatus = "running", NEW v \in Strings, NEW blocks, blocks \subseteq Blocks,
         NEW x \in Determined, x # Unknown => \A b \in blocks : b = x \o <<S!NUL>>,
         S!Stored(v, blocks, x)
  PROVE  StrInv'
<1>1. PICK b \in blocks : sCells' = [sCells EXCEPT ![v] = b]
  BY DEF S!Stored
<1>2. sAlive' = sAlive \cup {v} /\ sValue' = [sValue EXCEPT ![v] = x] /\ sStatus' = sStatus
  BY DEF S!Stored
<1>3. b \in Blocks /\ b \in Seq(S!Bytes) /\ (x # Unknown => b = x \o <<S!NUL>>)
  BY DEF Blocks
<1>4. /\ sAlive \subseteq Strings /\ sCells \in [Strings -> Seq(S!Bytes)]
      /\ sValue \in [Strings -> Determined]
  BY DEF StrInv
<1>5. /\ sCells' \in [Strings -> Seq(S!Bytes)] /\ sValue' \in [Strings -> Determined]
      /\ \A w \in Strings : sCells'[w] = IF w = v THEN b ELSE sCells[w]
      /\ \A w \in Strings : sValue'[w] = IF w = v THEN x ELSE sValue[w]
  BY <1>1, <1>2, <1>3, <1>4
<1>6. S!Faithful'
  <2>1. \A w \in sAlive' : sValue'[w] # Unknown => sCells'[w] = sValue'[w] \o <<S!NUL>>
    BY <1>2, <1>3, <1>4, <1>5 DEF StrInv, S!Faithful
  <2> QED
    BY <2>1 DEF S!Faithful, S!NUL
<1>7. S!StaysDefined'
  BY <1>2 DEF S!StaysDefined
<1> QED
  BY <1>2, <1>3, <1>4, <1>5, <1>6, <1>7 DEF StrInv

\* The calls whose fault is possible on strings of known value.
Excepted == {"character", "wrapped", "self", "own"}

\* A call that leaves the blocks used a string nothing is promised of, or is one
\* of the four.
LEMMA UndefinedKeeps ==
  ASSUME StrInv, NEW call \in S!Calls, NEW W, S!Undefined(call, W),
         (\A w \in W : sValue[w] # Unknown) => call \in Excepted
  PROVE  StrInv'
<1>1. /\ sAlive' = sAlive /\ sCells' = sCells /\ sValue' = sValue
      /\ sStatus' = IF \E w \in W : sValue[w] = Unknown THEN "undetermined" ELSE call
  BY DEF S!Undefined
<1>2. sStatus' \in {"undetermined"} \cup Excepted
  BY <1>1
<1>3. sStatus' \in {"running", "undetermined"} \cup S!Calls /\ sStatus' # "running"
  BY <1>2 DEF Excepted, S!Calls
<1>4. S!StaysDefined'
  BY <1>2 DEF S!StaysDefined, Excepted
<1>5. S!Faithful'
  BY <1>3 DEF S!Faithful
<1> QED
  BY <1>1, <1>3, <1>4, <1>5 DEF StrInv

\* strcpy and strcat of terminated strings that fit build what they promise.
\* Strings of known value are terminated, and fit unless a character is added.
LEMMA BuiltKeeps ==
  ASSUME StrInv, sStatus = "running", NEW call \in S!Calls, NEW v \in Strings, NEW W,
         NEW n \in Nat, NEW t, NEW x,
         (\A w \in W : S!Terminated(sCells[w])) => t \in Seq(Chars),
         n <= MaxSize => x \in Determined,
         x # Unknown => t = x /\ Len(t) = n,
         (\A w \in W : sValue[w] # Unknown) =>
           \/ call \in Excepted
           \/ (\A w \in W : S!Terminated(sCells[w])) /\ ~(Len(t) > n),
         S!Built(call, v, W, n, t, x)
  PROVE  StrInv'
<1>1. n <= MaxSize /\ n \in 0 .. MaxSize /\ x \in Determined
  BY StringConstants DEF S!Built
<1>2. CASE (\E w \in W : ~S!Terminated(sCells[w])) \/ Len(t) > n
  <2>1. S!Undefined(call, W)
    BY <1>2 DEF S!Built
  <2>2. (\A w \in W : sValue[w] # Unknown) => call \in Excepted
    BY <1>2
  <2> QED
    BY <2>1, <2>2, UndefinedKeeps
<1>3. CASE ~((\E w \in W : ~S!Terminated(sCells[w])) \/ Len(t) > n)
  <2>1. S!Stored(v, S!Filled(n, t), x)
    BY <1>3 DEF S!Built
  <2>2. t \in Seq(Chars) /\ Len(t) <= n
    <3>1. t \in Seq(Chars)
      BY <1>3
    <3>2. Len(t) \in Nat
      BY <3>1, LenProperties
    <3> QED
      BY <1>3, <3>1, <3>2
  <2>3. \A b \in S!Filled(n, t) : b \in Blocks /\ (Len(t) = n => b = t \o <<S!NUL>>)
    BY <1>1, <2>2, FilledIsBlock
  <2>4. x # Unknown => \A b \in S!Filled(n, t) : b = x \o <<S!NUL>>
    BY <2>3
  <2>5. S!Filled(n, t) \subseteq Blocks
    BY <2>3
  <2> HIDE DEF S!Filled
  <2> QED
    BY <1>1, <2>1, <2>4, <2>5, StoredKeeps
<1> QED
  BY <1>2, <1>3
-----------------------------------------------------------------------------
(* Strings: one lemma per operation *)

LEMMA NulBlock ==
  /\ <<S!NUL>> \in Blocks /\ <<S!NUL>> = <<>> \o <<S!NUL>> /\ <<>> \in Determined
<1>1. S!NUL \in S!Bytes /\ MaxSize \in Nat
  BY StringConstants
<1>2. <<S!NUL>> \in Seq(S!Bytes) /\ Len(<<S!NUL>>) = 1
  BY <1>1
<1>3. <<S!NUL>> = <<>> \o <<S!NUL>>
  BY <1>2, ConcatEmptySeq
<1>4. <<>> \in Seq(Chars) /\ Len(<<>>) = 0
  OBVIOUS
<1>5. <<>> \in S!Texts
  <2>1. Len(<<>>) <= MaxSize
    BY <1>1, <1>4
  <2> QED
    BY <1>4, <2>1, TextsAreSeqs
<1> QED
  BY <1>1, <1>2, <1>3, <1>5 DEF Blocks, Determined

LEMMA UnknownDetermined == Unknown \in Determined
BY DEF Determined

\* Two promises joined.
LEMMA PlusJoins ==
  ASSUME NEW x, NEW y, S!Plus(x, y) # Unknown
  PROVE  x # Unknown /\ y # Unknown /\ S!Plus(x, y) = x \o y
BY DEF S!Plus

LEMMA JoinedText ==
  ASSUME NEW s \in Seq(Chars), NEW t \in Seq(Chars)
  PROVE  s \o t \in Seq(Chars) /\ Len(s \o t) = Len(s) + Len(t)
BY ConcatProperties

\* The texts given to the class from outside.
LEMMA TextGiven ==
  ASSUME NEW t \in S!Texts
  PROVE  /\ t \in Seq(Chars) /\ Len(t) \in Nat /\ Len(t) <= MaxSize /\ t \in Determined
BY TextsAreSeqs, LenProperties DEF Determined

\* A string set back to the empty one.
LEMMA EmptiedKeeps ==
  ASSUME StrInv, sStatus = "running", NEW v \in Strings, S!Stored(v, {<<S!NUL>>}, <<>>)
  PROVE  StrInv'
BY NulBlock, StoredKeeps

\* The names of the calls that use BuiltKeeps.
LEMMA CallNames ==
  /\ {"copy", "text", "append", "character", "sum"} \subseteq S!Calls
  /\ {"wrapped", "self", "own", "read"} \subseteq S!Calls
  /\ "character" \in Excepted /\ "wrapped" \in Excepted
  /\ "self" \in Excepted /\ "own" \in Excepted
BY DEF S!Calls, Excepted

LEMMA CStringKeeps ==
  ASSUME StrInv, sStatus = "running", NEW v \in Strings, NEW t \in S!Texts,
         S!Built("text", v, {}, Len(t), t, t)
  PROVE  StrInv'
<1>1. t \in Seq(Chars) /\ Len(t) \in Nat /\ t \in Determined
  BY TextGiven
<1>2. ~(Len(t) > Len(t))
  BY <1>1
<1> QED
  BY <1>1, <1>2, CallNames, BuiltKeeps

\* The copy of a string.
LEMMA CopyKeeps ==
  ASSUME StrInv, NEW v \in Strings, NEW w \in Strings, S!Usable(w),
         S!Built("copy", v, {w}, S!Size(w), S!Text(sCells[w]), sValue[w])
  PROVE  StrInv'
<1>1. S!Size(w) \in Nat /\ sStatus = "running" /\ sValue[w] \in Determined
  BY UsableString, StringConstants
<1>2. S!Terminated(sCells[w]) => S!Text(sCells[w]) \in Seq(Chars)
  BY UsableString
<1>3. sValue[w] # Unknown =>
        /\ S!Terminated(sCells[w]) /\ S!Text(sCells[w]) = sValue[w]
        /\ Len(S!Text(sCells[w])) = S!Size(w) /\ ~(Len(S!Text(sCells[w])) > S!Size(w))
  BY <1>1, UsableString
<1> DEFINE t == S!Text(sCells[w])
           x == sValue[w]
           n == S!Size(w)
<1> HIDE DEF t, x, n
<1>4. S!Built("copy", v, {w}, n, t, x)
  BY DEF t, x, n
<1>5. /\ n \in Nat /\ x \in Determined /\ (S!Terminated(sCells[w]) => t \in Seq(Chars))
      /\ x # Unknown => S!Terminated(sCells[w]) /\ t = x /\ Len(t) = n /\ ~(Len(t) > n)
      /\ sValue[w] # Unknown => x # Unknown
  BY <1>1, <1>2, <1>3 DEF t, x, n
<1>6. (\A z \in {w} : sValue[z] # Unknown) =>
        (\A z \in {w} : S!Terminated(sCells[z])) /\ ~(Len(t) > n)
  BY <1>5
<1>7. (\A z \in {w} : S!Terminated(sCells[z])) => t \in Seq(Chars)
  BY <1>5
<1>8. "copy" \in S!Calls
  BY CallNames
<1> QED
  BY <1>1, <1>4, <1>5, <1>6, <1>7, <1>8, BuiltKeeps

\* The texts of two strings joined, in a block as long as both.
LEMMA JoinKeeps ==
  ASSUME StrInv, NEW v \in Strings, NEW u \in Strings, NEW w \in Strings,
         S!Usable(u), S!Usable(w), NEW call \in {"append", "sum"},
         S!Built(call, v, {u, w}, S!Size(u) + S!Size(w),
                 S!Text(sCells[u]) \o S!Text(sCells[w]), S!Plus(sValue[u], sValue[w]))
  PROVE  StrInv'
<1> DEFINE t == S!Text(sCells[u]) \o S!Text(sCells[w])
           x == S!Plus(sValue[u], sValue[w])
           n == S!Size(u) + S!Size(w)
<1>1. n \in Nat /\ sStatus = "running" /\ call \in S!Calls
  BY UsableString, StringConstants, CallNames
<1>2. (\A z \in {u, w} : S!Terminated(sCells[z])) => t \in Seq(Chars)
  BY UsableString, JoinedText
<1>3. ASSUME sValue[u] # Unknown, sValue[w] # Unknown
      PROVE  /\ \A z \in {u, w} : S!Terminated(sCells[z])
             /\ t = sValue[u] \o sValue[w] /\ Len(t) = n /\ t \in Seq(Chars)
  <2>2. /\ S!Terminated(sCells[u]) /\ S!Terminated(sCells[w])
        /\ S!Text(sCells[u]) = sValue[u] /\ S!Text(sCells[w]) = sValue[w]
        /\ sValue[u] \in Seq(Chars) /\ sValue[w] \in Seq(Chars)
        /\ Len(sValue[u]) = S!Size(u) /\ Len(sValue[w]) = S!Size(w)
    BY <1>3, UsableString
  <2> QED
    BY <2>2, JoinedText
<1>4. x # Unknown => t = x /\ Len(t) = n /\ t \in Seq(Chars)
  <2>1. x # Unknown => sValue[u] # Unknown /\ sValue[w] # Unknown /\ x = sValue[u] \o sValue[w]
    BY PlusJoins
  <2> QED
    BY <1>3, <2>1
<1>5. n <= MaxSize => x \in Determined
  BY <1>4, TextsAreSeqs, UnknownDetermined DEF Determined
<1> HIDE DEF t, x, n
<1>6. ASSUME \A z \in {u, w} : sValue[z] # Unknown
      PROVE  (\A z \in {u, w} : S!Terminated(sCells[z])) /\ ~(Len(t) > n)
  <2>1. sValue[u] # Unknown /\ sValue[w] # Unknown
    BY <1>6
  <2>2. Len(t) = n /\ \A z \in {u, w} : S!Terminated(sCells[z])
    BY <1>3, <2>1
  <2> QED
    BY <1>1, <2>2
<1>7. S!Built(call, v, {u, w}, n, t, x)
  BY DEF t, x, n
<1> QED
  BY <1>1, <1>2, <1>4, <1>5, <1>6, <1>7, BuiltKeeps

\* A text t behind that of a string, in a block with room for k more bytes;
\* y is what is promised of t.
LEMMA JoinBehindKeeps ==
  ASSUME StrInv, NEW v \in Strings, NEW w \in Strings, S!Usable(w), NEW call \in S!Calls,
         NEW t \in Seq(Chars), NEW k \in Nat, NEW y,
         y # Unknown => y = t /\ Len(t) = k,
         call \in Excepted \/ Len(t) = k,
         S!Built(call, v, {w}, S!Size(w) + k, S!Text(sCells[w]) \o t, S!Plus(sValue[w], y))
  PROVE  StrInv'
<1> DEFINE x == S!Plus(sValue[w], y)
           u == S!Text(sCells[w]) \o t
           n == S!Size(w) + k
<1>1. S!Size(w) \in Nat /\ sStatus = "running" /\ Len(t) \in Nat /\ n \in Nat
  BY UsableString, StringConstants, LenProperties
<1>2. ASSUME sValue[w] # Unknown
      PROVE  /\ S!Terminated(sCells[w]) /\ u = sValue[w] \o t /\ u \in Seq(Chars)
             /\ Len(u) = S!Size(w) + Len(t)
  <2>1. /\ S!Terminated(sCells[w]) /\ S!Text(sCells[w]) = sValue[w]
        /\ sValue[w] \in Seq(Chars) /\ Len(sValue[w]) = S!Size(w)
    BY <1>2, UsableString
  <2> QED
    BY <2>1, JoinedText
<1>3. x # Unknown => u = x /\ Len(u) = n /\ u \in Seq(Chars)
  <2>1. x # Unknown => sValue[w] # Unknown /\ y # Unknown /\ x = sValue[w] \o y
    BY PlusJoins
  <2> QED
    BY <1>2, <2>1
<1>4. n <= MaxSize => x \in Determined
  BY <1>3, TextsAreSeqs, UnknownDetermined DEF Determined
<1>5. S!Terminated(sCells[w]) => u \in Seq(Chars)
  BY UsableString, JoinedText
<1>6. sValue[w] # Unknown => call \in Excepted \/ (S!Terminated(sCells[w]) /\ ~(Len(u) > n))
  <2>1. Len(t) = k => ~(S!Size(w) + Len(t) > n)
    BY <1>1
  <2> HIDE DEF u, n
  <2> QED
    BY <1>2, <2>1
<1> HIDE DEF x, u, n
<1>7. S!Built(call, v, {w}, n, u, x)
  BY DEF x, u, n
<1> QED
  BY <1>1, <1>3, <1>4, <1>5, <1>6, <1>7, BuiltKeeps

\* A text t before that of a string; y is what is promised of t.
LEMMA JoinBeforeKeeps ==
  ASSUME StrInv, NEW v \in Strings, NEW w \in Strings, S!Usable(w), NEW call \in S!Calls,
         NEW t \in Seq(Chars), NEW y, y # Unknown => y = t,
         S!Built(call, v, {w}, Len(t) + S!Size(w), t \o S!Text(sCells[w]), S!Plus(y, sValue[w]))
  PROVE  StrInv'
<1> DEFINE x == S!Plus(y, sValue[w])
           u == t \o S!Text(sCells[w])
           n == Len(t) + S!Size(w)
<1>1. S!Size(w) \in Nat /\ sStatus = "running" /\ Len(t) \in Nat /\ n \in Nat
  BY UsableString, StringConstants, LenProperties
<1>2. ASSUME sValue[w] # Unknown
      PROVE  /\ S!Terminated(sCells[w]) /\ u = t \o sValue[w] /\ u \in Seq(Chars)
             /\ Len(u) = n
  <2>1. /\ S!Terminated(sCells[w]) /\ S!Text(sCells[w]) = sValue[w]
        /\ sValue[w] \in Seq(Chars) /\ Len(sValue[w]) = S!Size(w)
    BY <1>2, UsableString
  <2> QED
    BY <2>1, JoinedText
<1>3. x # Unknown => u = x /\ Len(u) = n /\ u \in Seq(Chars)
  <2>1. x # Unknown => sValue[w] # Unknown /\ y # Unknown /\ x = y \o sValue[w]
    BY PlusJoins
  <2> QED
    BY <1>2, <2>1
<1>4. n <= MaxSize => x \in Determined
  BY <1>3, TextsAreSeqs, UnknownDetermined DEF Determined
<1>5. S!Terminated(sCells[w]) => u \in Seq(Chars)
  BY UsableString, JoinedText
<1>6. sValue[w] # Unknown => S!Terminated(sCells[w]) /\ ~(Len(u) > n)
  BY <1>1, <1>2
<1> HIDE DEF x, u, n
<1>7. S!Built(call, v, {w}, n, u, x)
  BY DEF x, u, n
<1> QED
  BY <1>1, <1>3, <1>4, <1>5, <1>6, <1>7, BuiltKeeps

\* A text given from outside, behind a string or before it.
LEMMA JoinTextKeeps ==
  ASSUME StrInv, NEW v \in Strings, NEW w \in Strings, S!Usable(w), NEW t \in S!Texts,
         NEW call \in {"append", "sum"},
         \/ S!Built(call, v, {w}, S!Size(w) + Len(t), S!Text(sCells[w]) \o t,
                    S!Plus(sValue[w], t))
         \/ S!Built(call, v, {w}, Len(t) + S!Size(w), t \o S!Text(sCells[w]),
                    S!Plus(t, sValue[w]))
  PROVE  StrInv'
<1>1. t \in Seq(Chars) /\ Len(t) \in Nat /\ call \in S!Calls
  BY TextGiven, CallNames
<1>2. S!Built(call, v, {w}, S!Size(w) + Len(t), S!Text(sCells[w]) \o t,
              S!Plus(sValue[w], t)) => StrInv'
  BY <1>1, JoinBehindKeeps
<1>3. S!Built(call, v, {w}, Len(t) + S!Size(w), t \o S!Text(sCells[w]),
              S!Plus(t, sValue[w])) => StrInv'
  BY <1>1, JoinBeforeKeeps
<1> QED
  BY <1>2, <1>3

\* What stands at the address of a character is a text.
LEMMA AddressText ==
  ASSUME NEW c \in S!Bytes, NEW t \in S!AtAddress(c)
  PROVE  t \in Seq(Chars) /\ Len(t) \in Nat
<1>1. c = S!NUL \/ c \in Chars
  BY DEF S!Bytes
<1>2. t = <<>> \/ (c \in Chars /\ (t = <<c>> \/ \E d \in Chars : t = <<c, d>>))
  BY <1>1 DEF S!AtAddress
<1>3. t \in Seq(Chars)
  <2>1. CASE t = <<>>
    BY <2>1
  <2>2. ASSUME c \in Chars, t = <<c>> PROVE t \in Seq(Chars)
    BY <2>2
  <2>3. ASSUME c \in Chars, NEW d \in Chars, t = <<c, d>> PROVE t \in Seq(Chars)
    BY <2>3
  <2> QED
    BY <1>2, <2>1, <2>2, <2>3
<1> QED
  BY <1>3, LenProperties

\* A character taken for a C string is promised only if it comes alone
\* (string.hpp:219).
LEMMA JoinCharKeeps ==
  ASSUME StrInv, NEW v \in Strings, NEW w \in Strings, S!Usable(w), NEW c \in S!Bytes,
         NEW t \in S!AtAddress(c),
         \/ S!Built("character", v, {w}, S!Size(w) + 1, S!Text(sCells[w]) \o t,
                    S!Plus(sValue[w], S!Taken(c, t)))
         \/ S!Built("sum", v, {w}, Len(t) + S!Size(w), t \o S!Text(sCells[w]),
                    S!Plus(S!Taken(c, t), sValue[w]))
  PROVE  StrInv'
<1>1. t \in Seq(Chars) /\ Len(t) \in Nat
  BY AddressText
<1> DEFINE y == S!Taken(c, t)
<1>2. y # Unknown => y = t /\ Len(t) = 1
  BY DEF S!Taken
<1>3. "character" \in S!Calls /\ "sum" \in S!Calls /\ "character" \in Excepted
  BY CallNames
<1> HIDE DEF y
<1>4. S!Built("character", v, {w}, S!Size(w) + 1, S!Text(sCells[w]) \o t,
              S!Plus(sValue[w], y)) => StrInv'
  BY <1>1, <1>2, <1>3, JoinBehindKeeps
<1>5. S!Built("sum", v, {w}, Len(t) + S!Size(w), t \o S!Text(sCells[w]),
              S!Plus(y, sValue[w])) => StrInv'
  BY <1>1, <1>2, <1>3, JoinBeforeKeeps
<1> QED
  BY <1>4, <1>5 DEF y

\* A block whose last byte is any, after the first n characters of a text or n
\* times one character (string.hpp:104-131).
LEMMA UnendedKeeps ==
  ASSUME StrInv, sStatus = "running", NEW v \in Strings, NEW s \in Seq(S!Bytes),
         Len(s) <= MaxSize, S!Stored(v, {s \o <<b>> : b \in S!Bytes}, Unknown)
  PROVE  StrInv'
<1>1. Len(s) \in Nat /\ MaxSize \in Nat
  BY LenProperties, StringConstants
<1>2. ASSUME NEW b \in S!Bytes PROVE s \o <<b>> \in Blocks
  <2>1. <<b>> \in Seq(S!Bytes) /\ Len(<<b>>) = 1
    OBVIOUS
  <2>2. s \o <<b>> \in Seq(S!Bytes) /\ Len(s \o <<b>>) = Len(s) + 1
    BY <2>1, ConcatProperties
  <2> QED
    BY <1>1, <2>2 DEF Blocks
<1>3. {s \o <<b>> : b \in S!Bytes} \subseteq Blocks
  BY <1>2
<1> QED
  BY <1>3, UnknownDetermined, StoredKeeps

LEMMA ConstructPrefixKeeps ==
  ASSUME StrInv, NEW v \in Strings, NEW t \in S!Texts, NEW n \in 0 .. MaxSize,
         S!ConstructPrefix(v, t, n)
  PROVE  StrInv'
<1>1. t \in Seq(Chars) /\ Len(t) \in Nat /\ n \in Nat /\ sStatus = "running" /\ n <= MaxSize
  BY TextGiven, StringConstants DEF S!ConstructPrefix, S!Constructible
<1>2. CASE Len(t) <= n
  BY <1>1, <1>2, CStringKeeps DEF S!ConstructPrefix
<1>3. CASE ~(Len(t) <= n)
  <2>1. S!Stored(v, {SubSeq(t, 1, n) \o <<b>> : b \in S!Bytes}, Unknown)
    BY <1>3 DEF S!ConstructPrefix
  <2>2. ASSUME NEW i \in 1 .. n PROVE t[i] \in S!Bytes
    <3>1. i \in 1 .. Len(t)
      BY <1>1, <1>3
    <3> QED
      BY <1>1, <3>1, ElementOfSeq, StringConstants
  <2>3. SubSeq(t, 1, n) \in Seq(S!Bytes) /\ Len(SubSeq(t, 1, n)) = n
    BY <1>1, <1>3, <2>2, SubSeqProperties
  <2> QED
    BY <1>1, <2>1, <2>3, UnendedKeeps
<1> QED
  BY <1>2, <1>3

LEMMA ConstructFillKeeps ==
  ASSUME StrInv, NEW v \in Strings, NEW n \in 0 .. MaxSize, NEW c \in S!Bytes,
         S!ConstructFill(v, n, c)
  PROVE  StrInv'
<1>1. n \in Nat /\ n <= MaxSize /\ sStatus = "running"
  BY StringConstants DEF S!ConstructFill, S!Constructible
<1>2. [i \in 1 .. n |-> c] \in Seq(S!Bytes) /\ Len([i \in 1 .. n |-> c]) = n
  BY <1>1, CopiesSeq
<1>3. S!Stored(v, {[i \in 1 .. n |-> c] \o <<b>> : b \in S!Bytes}, Unknown)
  BY DEF S!ConstructFill
<1> DEFINE s == [i \in 1 .. n |-> c]
<1>4. s \in Seq(S!Bytes) /\ Len(s) <= MaxSize /\ S!Stored(v, {s \o <<b>> : b \in S!Bytes}, Unknown)
  BY <1>1, <1>2, <1>3
<1> HIDE DEF s
<1> QED
  BY <1>1, <1>4, UnendedKeeps

LEMMA DestroyStringKeeps ==
  ASSUME StrInv, NEW v \in Strings, S!Destroy(v)
  PROVE  StrInv'
<1>1. /\ sAlive' = sAlive \ {v} /\ sCells' = [sCells EXCEPT ![v] = <<>>]
      /\ sValue' = [sValue EXCEPT ![v] = <<>>] /\ sStatus' = sStatus /\ sStatus = "running"
  BY DEF S!Destroy, S!Usable
<1>2. <<>> \in Seq(S!Bytes) /\ <<>> \in Determined
  BY NulBlock
<1>3. /\ sAlive \subseteq Strings /\ sCells \in [Strings -> Seq(S!Bytes)]
      /\ sValue \in [Strings -> Determined]
  BY DEF StrInv
<1>4. /\ sCells' \in [Strings -> Seq(S!Bytes)] /\ sValue' \in [Strings -> Determined]
      /\ \A w \in Strings : w # v => sCells'[w] = sCells[w] /\ sValue'[w] = sValue[w]
      /\ sCells'[v] = <<>>
  BY <1>1, <1>2, <1>3
<1>5. S!Faithful'
  <2>1. \A w \in sAlive' : sValue'[w] # Unknown => sCells'[w] = sValue'[w] \o <<S!NUL>>
    BY <1>1, <1>3, <1>4 DEF StrInv, S!Faithful
  <2> QED
    BY <2>1 DEF S!Faithful, S!NUL
<1>6. S!StaysDefined'
  BY <1>1 DEF S!StaysDefined
<1> QED
  BY <1>1, <1>3, <1>4, <1>5, <1>6 DEF StrInv

LEMMA AssignSelfKeeps ==
  ASSUME StrInv, NEW v \in Strings, S!AssignSelf(v)
  PROVE  StrInv'
<1>1. /\ sStatus = "running" /\ S!Size(v) \in 0 .. MaxSize /\ MaxSize \in Nat
      /\ S!Size(v) + 1 \in Nat
  BY UsableString, StringConstants DEF S!AssignSelf
<1>2. PICK b \in [1 .. S!Size(v) + 1 -> S!Bytes] :
        S!Stored(v, {b}, Unknown) \/ S!Undefined("self", {v})
  BY DEF S!AssignSelf
<1>3. b \in Blocks
  <2>1. b \in Seq(S!Bytes)
    BY <1>1, SeqDef
  <2>2. Len(b) = S!Size(v) + 1
    BY <1>1, <2>1, LenProperties
  <2> QED
    BY <1>1, <2>1, <2>2 DEF Blocks
<1> QED
  BY <1>1, <1>2, <1>3, UnknownDetermined, CallNames, StoredKeeps, UndefinedKeeps

LEMMA AssignOwnKeeps ==
  ASSUME StrInv, NEW v \in Strings, S!AssignOwn(v)
  PROVE  StrInv'
<1>1. sStatus = "running" /\ <<>> \in Seq(Chars) /\ Len(<<>>) = 0 /\ <<>> \in Determined
  BY UsableString, NulBlock DEF S!AssignOwn
<1>2. S!Built("text", v, {}, 0, <<>>, <<>>) => StrInv'
  <2>1. "text" \in S!Calls /\ ~(0 > 0) /\ 0 \in Nat
    BY CallNames
  <2> DEFINE e == <<>>
  <2>2. e \in Seq(Chars) /\ Len(e) = 0 /\ e \in Determined
    BY <1>1
  <2> HIDE DEF e
  <2>3. S!Built("text", v, {}, 0, e, e) => StrInv'
    BY <1>1, <2>1, <2>2, BuiltKeeps
  <2> QED
    BY <2>3 DEF e
<1>3. S!Undefined("own", {v}) => StrInv'
  BY CallNames, UndefinedKeeps
<1> QED
  BY <1>2, <1>3 DEF S!AssignOwn

LEMMA AssignCharKeeps ==
  ASSUME StrInv, NEW v \in Strings, NEW c \in S!Bytes, S!AssignChar(v, c)
  PROVE  StrInv'
<1>1. sStatus = "running" /\ MaxSize \in Nat /\ MaxSize > 0 /\ S!NUL \in S!Bytes
  BY UsableString, StringConstants DEF S!AssignChar
<1>2. <<c, S!NUL>> \in Seq(S!Bytes) /\ Len(<<c, S!NUL>>) = 2
  BY <1>1
<1>3. <<c, S!NUL>> \in Blocks
  BY <1>1, <1>2 DEF Blocks
<1>4. CASE c = S!NUL
  <2>1. S!Stored(v, {<<c, S!NUL>>}, Unknown)
    BY <1>4 DEF S!AssignChar
  <2> QED
    BY <1>1, <1>3, <2>1, UnknownDetermined, StoredKeeps
<1>5. CASE c # S!NUL
  <2>1. S!Stored(v, {<<c, S!NUL>>}, <<c>>)
    BY <1>5 DEF S!AssignChar
  <2>2. <<c>> \in Seq(Chars) /\ Len(<<c>>) = 1
    BY <1>5 DEF S!Bytes
  <2>3. <<c>> \in Determined
    <3>1. Len(<<c>>) <= MaxSize
      BY <1>1, <2>2
    <3>2. <<c>> \in S!Texts
      BY <2>2, <3>1, TextsAreSeqs
    <3> QED
      BY <3>2 DEF Determined
  <2>4. <<c, S!NUL>> = <<c>> \o <<S!NUL>>
    OBVIOUS
  <2> QED
    BY <1>1, <1>3, <2>1, <2>3, <2>4, StoredKeeps
<1> QED
  BY <1>4, <1>5

LEMMA ReadTextKeeps ==
  ASSUME StrInv, NEW v \in Strings, S!ReadText(v)
  PROVE  StrInv'
<1>1. sValue[v] = Unknown /\ S!Undefined("read", {v})
  BY UsableString DEF S!ReadText
<1> QED
  BY <1>1, CallNames, UndefinedKeeps

\* A sum of two numbers of size_t that does not wrap.
LEMMA NoWrap ==
  ASSUME NEW p \in Nat \ {0}, NEW a \in Nat, a < p
  PROVE  a % p = a
  OBVIOUS

\* The characters from pos on: as many as promised, and only a size that has
\* wrapped leads out of the block (string.hpp:70-91).
LEMMA ConstructSubKeeps ==
  ASSUME StrInv, NEW v \in Strings, NEW w \in Strings, NEW pos \in S!SizeT, NEW len \in S!SizeT,
         S!ConstructSub(v, w, pos, len)
  PROVE  StrInv'
<1> DEFINE n == S!SubSize(w, pos, len)
           x == S!SubValue(w, pos, len)
           Fits == pos + len < 2 ^ SWidth
           z == S!Size(w)
           b == sCells[w]
           y == sValue[w]
<1>1. /\ S!Usable(w) /\ sStatus = "running" /\ pos \in Nat /\ len \in Nat
      /\ 2 ^ SWidth \in Nat \ {0} /\ MaxSize \in Nat /\ MaxSize < 2 ^ SWidth
  BY UsableString, StringConstants, StringsAssumption
  DEF S!ConstructSub, S!StringsAssumption
<1>2. /\ b \in Seq(S!Bytes) /\ z \in Nat /\ z <= MaxSize /\ Len(b) = z + 1
      /\ y # Unknown => y \in Seq(Chars) /\ b = y \o <<S!NUL>> /\ Len(y) = z
  BY <1>1, UsableString
<1>3. CASE pos > z
  BY <1>1, <1>3, EmptiedKeeps DEF S!ConstructSub
<1>4. Fits => n = IF pos + len > z THEN z - pos ELSE len
  <2>1. Fits => (pos + len) % 2 ^ SWidth = pos + len
    BY <1>1, NoWrap
  <2> QED
    BY <2>1 DEF S!SubSize
<1>5. n = z - pos \/ n = len
  BY DEF S!SubSize
<1>6. x # Unknown => /\ y # Unknown
                     /\ x = SubSeq(y, pos + 1, IF pos + len < z THEN pos + len ELSE z)
  BY DEF S!SubValue
<1>7. ~(pos > z) =>
        \/ /\ S!Undefined(IF S!Wraps(pos, len) THEN "wrapped" ELSE "substring", {w})
           /\ n > z - pos
        \/ /\ ~(n > z - pos)
           /\ S!Stored(v, {SubSeq(b, pos + 1, pos + n) \o <<S!NUL>>}, x)
  BY DEF S!ConstructSub
<1>10. S!Wraps(pos, len) <=> ~Fits
  BY <1>1 DEF S!Wraps
<1> HIDE DEF n, x, z, b, y
<1>8. CASE /\ ~(pos > z) /\ n > z - pos
           /\ S!Undefined(IF S!Wraps(pos, len) THEN "wrapped" ELSE "substring", {w})
  <2>1. ~Fits
    BY <1>1, <1>2, <1>4, <1>8
  <2>2. S!Undefined("wrapped", {w})
    BY <1>8, <1>10, <2>1
  <2> QED
    BY <2>2, CallNames, UndefinedKeeps
<1>9. CASE /\ ~(pos > z) /\ ~(n > z - pos)
           /\ S!Stored(v, {SubSeq(b, pos + 1, pos + n) \o <<S!NUL>>}, x)
  <2>1. n \in Nat /\ pos + n \in Nat /\ pos + n <= z /\ pos + 1 \in Nat
    BY <1>1, <1>2, <1>5, <1>9
  <2> DEFINE s == SubSeq(b, pos + 1, pos + n)
  <2>2. \A i \in (pos + 1) .. (pos + n) : i \in 1 .. Len(b) /\ b[i] \in S!Bytes
    BY <1>1, <1>2, <2>1, ElementOfSeq
  <2>3. /\ s \in Seq(S!Bytes) /\ Len(s) = n
        /\ \A i \in 1 .. n : s[i] = b[pos + i]
    <3>1. /\ s \in Seq(S!Bytes)
          /\ Len(s) = IF pos + 1 <= pos + n THEN (pos + n) - (pos + 1) + 1 ELSE 0
          /\ \A i \in 1 .. (pos + n) - (pos + 1) + 1 : s[i] = b[(pos + 1) + i - 1]
      BY <2>1, <2>2, SubSeqProperties
    <3> HIDE DEF s
    <3>2. \A i \in 1 .. n : (pos + 1) + i - 1 = pos + i
      BY <1>1, <2>1
    <3>3. (pos + n) - (pos + 1) + 1 = n
      BY <1>1, <2>1
    <3> QED
      BY <1>1, <2>1, <3>1, <3>2, <3>3
  <2> HIDE DEF s
  <2>4. s \o <<S!NUL>> \in Blocks
    <3>1. <<S!NUL>> \in Seq(S!Bytes) /\ Len(<<S!NUL>>) = 1
      BY NulBlock DEF Blocks
    <3>2. s \o <<S!NUL>> \in Seq(S!Bytes) /\ Len(s \o <<S!NUL>>) = n + 1
      BY <2>3, <3>1, ConcatProperties
    <3> QED
      BY <1>1, <1>2, <2>1, <3>2 DEF Blocks
  <2>5. ASSUME x # Unknown PROVE s \in Seq(Chars) /\ x = s
    <3>1. x = SubSeq(y, pos + 1, pos + n) /\ y \in Seq(Chars) /\ b = y \o <<S!NUL>> /\ Len(y) = z
      <4>1. (IF pos + len < z THEN pos + len ELSE z) = pos + n
        <5>1. CASE Fits
          BY <1>1, <1>2, <1>4, <1>9, <2>1, <5>1
        <5>2. CASE ~Fits
          BY <1>1, <1>2, <1>5, <1>9, <2>1, <5>2
        <5> QED
          BY <5>1, <5>2
      <4> QED
        BY <1>2, <1>6, <2>5, <4>1
    <3>2. \A i \in 1 .. z : b[i] = y[i] /\ y[i] \in Chars
      BY <3>1, TextOfKnown, ElementOfSeq
    <3>3. \A i \in 1 .. n : b[pos + i] = y[pos + i] /\ y[pos + i] \in Chars
      BY <1>1, <1>2, <2>1, <3>2
    <3>4. \A i \in 1 .. n : s[i] \in Chars
      BY <2>3, <3>3
    <3>5. s \in Seq(Chars)
      BY <2>1, <2>3, <3>4, SeqDef, LenProperties
    <3>6. /\ x \in Seq(Chars) /\ Len(x) = n
          /\ \A i \in 1 .. n : x[i] = y[pos + i]
      <4>1. \A i \in (pos + 1) .. (pos + n) : y[i] \in Chars
        BY <1>1, <1>2, <2>1, <3>2
      <4>2. /\ x \in Seq(Chars)
            /\ Len(x) = IF pos + 1 <= pos + n THEN (pos + n) - (pos + 1) + 1 ELSE 0
            /\ \A i \in 1 .. (pos + n) - (pos + 1) + 1 : x[i] = y[(pos + 1) + i - 1]
        BY <2>1, <3>1, <4>1, SubSeqProperties
      <4>3. \A i \in 1 .. n : (pos + 1) + i - 1 = pos + i
        BY <1>1, <2>1
      <4>4. (pos + n) - (pos + 1) + 1 = n
        BY <1>1, <2>1
      <4> QED
        BY <1>1, <2>1, <4>2, <4>3, <4>4
    <3> QED
      BY <2>3, <3>3, <3>5, <3>6, SeqEqual
  <2>6. x \in Determined
    BY <1>1, <1>2, <2>1, <2>3, <2>5, TextsAreSeqs, UnknownDetermined DEF Determined
  <2>7. S!Stored(v, {s \o <<S!NUL>>}, x)
    BY <1>9 DEF s
  <2> QED
    BY <1>1, <2>4, <2>5, <2>6, <2>7, StoredKeeps
<1> QED
  BY <1>3, <1>7, <1>8, <1>9

\* One character written at or below the terminator.
LEMMA SetByteKeeps ==
  ASSUME StrInv, NEW v \in Strings, NEW pos \in S!SizeT, NEW c \in S!Bytes, S!SetByte(v, pos, c)
  PROVE  StrInv'
<1> DEFINE b == [sCells[v] EXCEPT ![pos + 1] = c]
           y == sValue[v]
<1>1. /\ sStatus = "running" /\ sCells[v] \in Blocks /\ sCells[v] \in Seq(S!Bytes)
      /\ Len(sCells[v]) = S!Size(v) + 1 /\ S!Size(v) \in Nat /\ pos \in Nat /\ pos <= S!Size(v)
      /\ y \in Determined
      /\ y # Unknown => /\ y \in Seq(Chars) /\ sCells[v] = y \o <<S!NUL>>
                        /\ Len(y) = S!Size(v)
  <2>1. S!Usable(v) /\ pos <= S!Size(v)
    BY DEF S!SetByte
  <2>2. S!Size(v) \in Nat /\ pos \in Nat
    BY <2>1, UsableString, StringConstants
  <2> QED
    BY <2>1, <2>2, UsableString
<1>2. b \in Seq(S!Bytes) /\ Len(b) = Len(sCells[v])
      /\ \A i \in 1 .. Len(b) : b[i] = IF i = pos + 1 THEN c ELSE sCells[v][i]
  <2>1. pos + 1 \in 1 .. Len(sCells[v])
    BY <1>1
  <2> QED
    BY <1>1, <2>1, ExceptSeq
<1>3. b \in Blocks
  BY <1>1, <1>2 DEF Blocks
<1>4. CASE y = Unknown \/ (c = S!NUL /\ pos # S!Size(v)) \/ (c # S!NUL /\ pos = S!Size(v))
  <2>1. S!Stored(v, {b}, Unknown)
    BY <1>4 DEF S!SetByte
  <2> HIDE DEF b
  <2> QED
    BY <1>1, <1>3, <2>1, UnknownDetermined, StoredKeeps
<1>5. CASE y # Unknown /\ c = S!NUL /\ pos = S!Size(v)
  <2>1. S!Stored(v, {b}, y)
    BY <1>5 DEF S!SetByte
  <2>2. sCells[v][pos + 1] = S!NUL
    BY <1>1, <1>5, TextOfKnown
  <2>3. b = sCells[v]
    <3>1. \A i \in 1 .. Len(b) : b[i] = sCells[v][i]
      BY <1>2, <1>5, <2>2
    <3> QED
      BY <1>1, <1>2, <3>1, SeqEqual
  <2> HIDE DEF b
  <2> QED
    BY <1>1, <1>3, <1>5, <2>1, <2>3, StoredKeeps
<1>6. CASE y # Unknown /\ c # S!NUL /\ pos # S!Size(v)
  <2> DEFINE x == [y EXCEPT ![pos + 1] = c]
  <2>1. S!Stored(v, {b}, x)
    BY <1>6 DEF S!SetByte
  <2>2. c \in Chars /\ pos + 1 \in 1 .. Len(y)
    BY <1>1, <1>6 DEF S!Bytes
  <2>3. /\ x \in Seq(Chars) /\ Len(x) = Len(y)
        /\ \A i \in 1 .. Len(x) : x[i] = IF i = pos + 1 THEN c ELSE y[i]
    BY <1>1, <1>6, <2>2, ExceptSeq
  <2> HIDE DEF x, b
  <2>4. x \in Determined
    BY <1>1, <1>6, <2>3, TextsAreSeqs DEF Determined
  <2> DEFINE e == x \o <<S!NUL>>
  <2>5. /\ e \in Seq(S!Bytes) /\ Len(e) = Len(x) + 1 /\ e[Len(x) + 1] = S!NUL
        /\ \A i \in 1 .. Len(x) : e[i] = x[i]
    BY <2>3, TextOfKnown
  <2>6. /\ sCells[v][Len(y) + 1] = S!NUL
        /\ \A i \in 1 .. Len(y) : sCells[v][i] = y[i]
    BY <1>1, <1>6, TextOfKnown
  <2> HIDE DEF e
  <2>7. \A i \in 1 .. Len(e) : b[i] = e[i]
    <3>1. Len(b) = Len(e) /\ Len(e) = S!Size(v) + 1 /\ Len(y) = S!Size(v) /\ Len(x) = S!Size(v)
      BY <1>1, <1>2, <1>6, <2>3, <2>5
    <3>2. ASSUME NEW i \in 1 .. Len(e) PROVE b[i] = e[i]
      <4>1. CASE i = S!Size(v) + 1
        BY <1>1, <1>2, <1>6, <2>5, <2>6, <3>1, <4>1
      <4>2. CASE i # S!Size(v) + 1
        <5>1. i \in 1 .. S!Size(v)
          BY <1>1, <3>1, <4>2
        <5> QED
          BY <1>1, <1>2, <2>3, <2>5, <2>6, <3>1, <5>1
      <4> QED
        BY <4>1, <4>2
    <3> QED
      BY <3>2
  <2>8. b = e
    BY <1>1, <1>2, <1>6, <2>3, <2>5, <2>7, SeqEqual
  <2> QED
    BY <1>1, <1>3, <2>1, <2>4, <2>8, StoredKeeps DEF e
<1> QED
  BY <1>4, <1>5, <1>6
-----------------------------------------------------------------------------
(* Strings: the theorems *)

LEMMA StringsStart == S!Init => StrInv
<1> SUFFICES ASSUME S!Init PROVE StrInv
  OBVIOUS
<1>1. <<>> \in Seq(S!Bytes) /\ <<>> \in Determined
  BY NulBlock
<1> QED
  BY <1>1 DEF S!Init, StrInv, S!Faithful, S!StaysDefined

\* The operations of one string.
LEMMA AloneKeeps ==
  ASSUME StrInv, NEW v \in Strings,
         \/ S!ConstructDefault(v)
         \/ \E t \in S!Texts : S!ConstructCString(v, t)
         \/ \E t \in S!Texts, n \in 0 .. MaxSize : S!ConstructPrefix(v, t, n)
         \/ \E n \in 0 .. MaxSize, c \in S!Bytes : S!ConstructFill(v, n, c)
         \/ S!Destroy(v)
         \/ \E pos \in S!SizeT, c \in S!Bytes : S!SetByte(v, pos, c)
         \/ S!AssignSelf(v)
         \/ \E t \in S!Texts : S!AssignCString(v, t)
         \/ S!AssignOwn(v)
         \/ \E c \in S!Bytes : S!AssignChar(v, c)
         \/ S!AppendString(v, v)
         \/ \E t \in S!Texts : S!AppendCString(v, t)
         \/ \E c \in S!Bytes : S!AppendChar(v, c)
         \/ S!Clear(v)
         \/ S!ReadText(v)
  PROVE  StrInv'
<1>1. CASE S!ConstructDefault(v)
  BY <1>1, EmptiedKeeps DEF S!ConstructDefault, S!Constructible
<1>2. CASE \E t \in S!Texts : S!ConstructCString(v, t)
  BY <1>2, CStringKeeps DEF S!ConstructCString, S!Constructible
<1>3. CASE \E t \in S!Texts, n \in 0 .. MaxSize : S!ConstructPrefix(v, t, n)
  BY <1>3, ConstructPrefixKeeps
<1>4. CASE \E n \in 0 .. MaxSize, c \in S!Bytes : S!ConstructFill(v, n, c)
  BY <1>4, ConstructFillKeeps
<1>5. CASE S!Destroy(v)
  BY <1>5, DestroyStringKeeps
<1>6. CASE \E pos \in S!SizeT, c \in S!Bytes : S!SetByte(v, pos, c)
  BY <1>6, SetByteKeeps
<1>7. CASE S!AssignSelf(v)
  BY <1>7, AssignSelfKeeps
<1>8. CASE \E t \in S!Texts : S!AssignCString(v, t)
  BY <1>8, CStringKeeps DEF S!AssignCString, S!Usable
<1>9. CASE S!AssignOwn(v)
  BY <1>9, AssignOwnKeeps
<1>10. CASE \E c \in S!Bytes : S!AssignChar(v, c)
  BY <1>10, AssignCharKeeps
<1>11. CASE S!AppendString(v, v)
  BY <1>11, JoinKeeps DEF S!AppendString
<1>12. CASE \E t \in S!Texts : S!AppendCString(v, t)
  BY <1>12, JoinTextKeeps DEF S!AppendCString
<1>13. CASE \E c \in S!Bytes : S!AppendChar(v, c)
  BY <1>13, JoinCharKeeps DEF S!AppendChar
<1>14. CASE S!Clear(v)
  BY <1>14, EmptiedKeeps DEF S!Clear, S!Usable
<1>15. CASE S!ReadText(v)
  BY <1>15, ReadTextKeeps
<1> QED
  BY <1>1, <1>2, <1>3, <1>4, <1>5, <1>6, <1>7, <1>8, <1>9, <1>10, <1>11, <1>12,
     <1>13, <1>14, <1>15

\* The operations of a string with others.
LEMMA TogetherKeeps ==
  ASSUME StrInv, NEW v \in Strings, NEW w \in Strings,
         \/ S!ConstructCopy(v, w)
         \/ \E pos, len \in S!SizeT : S!ConstructSub(v, w, pos, len)
         \/ S!AssignString(v, w)
         \/ S!AppendString(v, w)
         \/ \E u \in Strings \ {v} : S!SumStrings(v, w, u)
         \/ \E t \in S!Texts : S!SumStringText(v, w, t) \/ S!SumTextString(v, t, w)
         \/ \E c \in S!Bytes : S!SumStringChar(v, w, c) \/ S!SumCharString(v, c, w)
  PROVE  StrInv'
<1>1. CASE S!ConstructCopy(v, w)
  BY <1>1, CopyKeeps DEF S!ConstructCopy
<1>2. CASE \E pos, len \in S!SizeT : S!ConstructSub(v, w, pos, len)
  BY <1>2, ConstructSubKeeps
<1>3. CASE S!AssignString(v, w)
  BY <1>3, CopyKeeps DEF S!AssignString
<1>4. CASE S!AppendString(v, w)
  BY <1>4, JoinKeeps DEF S!AppendString
<1>5. CASE \E u \in Strings \ {v} : S!SumStrings(v, w, u)
  BY <1>5, JoinKeeps DEF S!SumStrings
<1>6. CASE \E t \in S!Texts : S!SumStringText(v, w, t) \/ S!SumTextString(v, t, w)
  BY <1>6, JoinTextKeeps DEF S!SumStringText, S!SumTextString
<1>7. CASE \E c \in S!Bytes : S!SumStringChar(v, w, c) \/ S!SumCharString(v, c, w)
  BY <1>7, JoinCharKeeps DEF S!SumStringChar, S!SumCharString
<1> QED
  BY <1>1, <1>2, <1>3, <1>4, <1>5, <1>6, <1>7

LEMMA StringsKeep == StrInv /\ S!Next => StrInv'
<1> SUFFICES ASSUME StrInv, S!Next PROVE StrInv'
  OBVIOUS
<1> QED
  BY AloneKeeps, TogetherKeeps DEF S!Next

LEMMA StringsStill == StrInv /\ UNCHANGED sVars => StrInv'
BY DEF StrInv, sVars, S!Faithful, S!StaysDefined

\* The invariant of the strings.
THEOREM StringsInvariant == BothSpec => []StrInv
<1>1. BothInit => StrInv
  BY StringsStart DEF BothInit
<1>2. StrInv /\ [BothNext]_<<vars, sVars>> => StrInv'
  BY VectorsOrStrings, StringsKeep, StringsStill
<1> QED
  BY <1>1, <1>2, PTL DEF BothSpec

\* string.hpp:57-224: after any sequence of calls whose outcomes the class
\* determines a string is its characters and a terminator, for any number of
\* strings, any characters and any lengths.
THEOREM StringsWellFormed == BothSpec => []WellFormed
<1>1. StrInv => WellFormed
  <2> SUFFICES ASSUME StrInv PROVE S!TypeOK
    BY DEF StrInv, WellFormed
  <2>1. MaxSize \in Nat
    BY StringConstants
  <2>2. ASSUME NEW v \in Strings
        PROVE  /\ \A i \in DOMAIN sCells[v] : sCells[v][i] \in S!Bytes
               /\ Len(sCells[v]) <= MaxSize + 1
               /\ sCells[v] = <<>> <=> v \notin sAlive
               /\ sValue[v] \in S!Texts \cup {Unknown}
    <3>1. sCells[v] \in Seq(S!Bytes) /\ sValue[v] \in S!Texts \cup {Unknown}
      BY DEF StrInv, Determined
    <3>2. \A i \in DOMAIN sCells[v] : sCells[v][i] \in S!Bytes
      BY <3>1, ElementOfSeq, LenProperties
    <3>3. CASE v \in sAlive
      <4>1. Len(sCells[v]) \in 1 .. MaxSize + 1
        BY <3>3 DEF StrInv, Blocks
      <4>2. sCells[v] # <<>>
        BY <2>1, <3>1, <4>1, EmptySeq
      <4> QED
        BY <2>1, <3>1, <3>2, <3>3, <4>1, <4>2
    <3>4. CASE v \notin sAlive
      <4>1. sCells[v] = <<>>
        BY <3>4 DEF StrInv
      <4>2. Len(sCells[v]) = 0
        BY <4>1
      <4> QED
        BY <2>1, <3>1, <3>2, <3>4, <4>1, <4>2
    <3> QED
      BY <3>3, <3>4
  <2> QED
    BY <2>2 DEF StrInv, S!TypeOK
<1> QED
  BY <1>1, StringsInvariant, PTL

\* string.hpp:57-321: a call on strings whose values are known reads and writes
\* inside of their blocks, unless it is one of the four that FbcString names
\* (a character added at 219, a substring that wraps at 78, v = v at 163 and
\* v = v.c_str() at 172), which do leave them.
THEOREM StringsStayDefined == BothSpec => []StaysDefined
<1>1. StrInv => StaysDefined
  BY DEF StrInv, StaysDefined
<1> QED
  BY <1>1, StringsInvariant, PTL

\* string.hpp:323-411: in every reachable state the operators with a string on
\* the left order the texts of the strings; those with a C string on the left
\* do it for two different texts, and nothing is said of equal ones.
THEOREM StringsCompared == BothSpec => []ComparesText
<1>1. StrInv => ComparesText
  <2> SUFFICES ASSUME StrInv, NEW s \in Texts, NEW t \in Texts
               PROVE  ComparedAs(s, t)
    BY DEF ComparesText
  <2>1. ASSUME NEW x \in Texts PROVE x \in Seq(Int)
    <3>1. PICK v \in sAlive : S!Terminated(sCells[v]) /\ x = S!Text(sCells[v])
      BY DEF Texts
    <3>2. x \in Seq(Chars)
      BY <3>1, TextInside DEF StrInv
    <3>3. Chars \subseteq Int
      BY StringConstants
    <3> QED
      BY <3>2, <3>3, SeqMonotone
  <2> QED
    BY <2>1, StringsCompare
<1> QED
  BY <1>1, StringsInvariant, PTL
=============================================================================
