------------------------------- MODULE Vector -------------------------------
(***************************************************************************)
(* Samples_STL_Implementation/src/vector.hpp: vectors of a trivially       *)
(* copied type (int), with their memory.  reserve() frees the buffer       *)
(* BEFORE it computes the new capacity and allocates, and copies nothing:  *)
(* push_back and resize save the elements in a temporary block around it.  *)
(*                                                                         *)
(* size_t has Width bits.  The doubling loop of reserve wraps to 0 and     *)
(* never ends when it is asked for more than half of the range.  The new   *)
(* of reserve may throw bad_alloc.  (So may the new of the temporary       *)
(* block: then nothing has changed yet, a stuttering step.)                *)
(***************************************************************************)
EXTENDS Naturals, Sequences, FiniteSets

CONSTANTS
  Vectors,  \* the vectors of the program
  Values,   \* element values
  Junk,     \* what an element holds that nobody has written
  Lost,     \* what the abstract specification calls a vector out of use
  Width     \* bits of size_t

ASSUME ConstantsAssumption ==
  /\ Values # {} /\ Junk \notin Values
  /\ Lost \notin Seq(Values \cup {Junk})
  /\ Width \in Nat \ {0}

VARIABLES
  alive,   \* the vectors that are constructed
  vec,     \* the members of each vector: size_, capacity_ and buffer_
  status,  \* "running", or how the program has ended
  thrown,  \* whether the new of reserve has ever thrown
  leaked   \* whether a block has been lost without delete

vars == <<alive, vec, status, thrown, leaked>>

SizeT == 0 .. 2 ^ Width - 1

\* The largest capacity the doubling loop reaches before it wraps.
MaxCapacity == 2 ^ (Width - 1)

\* cap is capacity_, mem whether buffer_ is null, owns a live block or points
\* to a deleted one, block the length of that live block, and cells the
\* elements below size_ (size_ is their number; nothing reads the rest of the
\* block before writing it).
Empty == [cap |-> 0, mem |-> "null", block |-> 0, cells |-> <<>>]

Size(r) == Len(r.cells)

Init ==
  /\ alive = {}
  /\ vec = [v \in Vectors |-> Empty]
  /\ status = "running"
  /\ thrown = FALSE
  /\ leaked = FALSE
-----------------------------------------------------------------------------
(* The members after a call, as functions of the members before it.        *)

\* The values of the doubling loop: 1, 2, 4, ...
Doubled == {c \in 1 .. MaxCapacity : \E k \in 0 .. Width - 1 : c = 2 ^ k}

\* The first of them that is at least n.
Capacity(n) == CHOOSE c \in Doubled : n <= c /\ \A d \in Doubled : n <= d => c <= d

Grown(r, n) ==
  [r EXCEPT !.cap = Capacity(n), !.mem = "live", !.block = Capacity(n)]

\* reserve alone: the elements of a buffer that grows are not copied.
Reserved(r, n) ==
  IF r.cap < n
    THEN [Grown(r, n) EXCEPT !.cells = [i \in DOMAIN @ |-> Junk]]
    ELSE r

\* Plausible bug: push_back and resize forget to copy the saved elements back.
RegrownNoCopy(r, n) == Reserved(r, n)

\* Plausible bug: reserve leaves a buffer alone that lacks only one cell.
RegrownLate(r, n) == IF r.cap + 1 < n THEN Grown(r, n) ELSE r

\* reserve between saving the elements and copying them back.
Regrown(r, n) == IF r.cap < n THEN Grown(r, n) ELSE r

\* The new of reserve throws: capacity_ is set and the old block is deleted.
ReserveThrown(r, n) ==
  [cap |-> Capacity(n), mem |-> IF r.mem = "live" THEN "freed" ELSE "null",
   block |-> 0, cells |-> <<>>]

\* n copies of x written behind the elements.
Extended(r, n, x) == [r EXCEPT !.cells = @ \o [i \in 1 .. n |-> x]]

\* The first n elements kept.
Shortened(r, n) == [r EXCEPT !.cells = SubSeq(@, 1, n)]

\* The elements of s written into the buffer of r.
CopiedFrom(r, s) == [r EXCEPT !.cells = s.cells]
-----------------------------------------------------------------------------
(* The outcome of a call on v.                                             *)

\* No allocation has failed and left capacity_ without a buffer.
Sound(r) == r.mem = "live" \/ r = Empty

\* A program does not call members of a vector after a failed allocation.
Usable(v) == status = "running" /\ v \in alive /\ Sound(vec[v])

Returns(v, r) ==
  /\ vec' = [vec EXCEPT ![v] = r]
  /\ UNCHANGED <<alive, status, thrown, leaked>>

Ends(how) ==
  /\ status' = how
  /\ UNCHANGED <<alive, vec, thrown, leaked>>

\* A call that does reserve(n) on the way and returns with members r.  saved
\* says whether a temporary block is held around reserve, which a throw leaks.
ReservesThenReturns(v, n, r, saved) ==
  IF vec[v].cap >= n THEN Returns(v, r)
  ELSE IF n > MaxCapacity THEN Ends("hung")
  ELSE \/ Returns(v, r)
       \/ /\ vec' = [vec EXCEPT ![v] = ReserveThrown(@, n)]
          /\ thrown' = TRUE
          /\ leaked' = (leaked \/ saved)
          /\ UNCHANGED <<alive, status>>
-----------------------------------------------------------------------------
(* Constructors and destructor *)

\* A constructor that throws leaves no object, and no block, behind.
Constructs(v, n, r) ==
  /\ status = "running"
  /\ v \notin alive
  /\ IF n > MaxCapacity
       THEN Ends("hung")
       ELSE /\ alive' = alive \cup {v}
            /\ vec' = [vec EXCEPT ![v] = r]
            /\ UNCHANGED <<status, thrown, leaked>>

ConstructDefault(v) == Constructs(v, 0, Empty)

ConstructCopies(v, n, x) == Constructs(v, n, Extended(Reserved(Empty, n), n, x))

ConstructCopy(v, w) ==
  /\ Usable(w)
  /\ Constructs(v, Size(vec[w]),
                CopiedFrom(Reserved(Empty, Size(vec[w])), vec[w]))

\* delete [] of a block that is already deleted ends the program.
Destroy(v) ==
  /\ status = "running"
  /\ v \in alive
  /\ IF vec[v].mem = "freed"
       THEN Ends("crashed")
       ELSE /\ alive' = alive \ {v}
            /\ vec' = [vec EXCEPT ![v] = Empty]
            /\ UNCHANGED <<status, thrown, leaked>>
-----------------------------------------------------------------------------
(* Members *)

Reserve(v, n) ==
  /\ Usable(v)
  /\ ReservesThenReturns(v, n, Reserved(vec[v], n), FALSE)

Assign(v, w) ==
  /\ Usable(v) /\ Usable(w)
  /\ ReservesThenReturns(v, Size(vec[w]),
       CopiedFrom(Reserved(vec[v], Size(vec[w])), vec[w]), FALSE)

Clear(v) ==
  /\ Usable(v)
  /\ Returns(v, Shortened(vec[v], 0))

Full(r) == Size(r) >= r.cap

\* reserve(size_ + 1) when no cell is free; then the new element.
PushBackVal(v, x) ==
  LET n == IF Full(vec[v]) THEN Size(vec[v]) + 1 ELSE 0
  IN  ReservesThenReturns(v, n, Extended(Regrown(vec[v], n), 1, x), TRUE)

PushBack(v, x) == Usable(v) /\ PushBackVal(v, x)

\* push_back(v[i]): val is a reference into the buffer, which reserve has
\* deleted by the time val is read.
PushBackOwn(v, i) ==
  /\ Usable(v)
  /\ i \in 1 .. Size(vec[v])
  /\ PushBackVal(v, IF Full(vec[v]) THEN Junk ELSE vec[v].cells[i])

PopBack(v) ==
  /\ Usable(v)
  /\ IF Size(vec[v]) = 0
       THEN Ends("aborted")
       ELSE Returns(v, Shortened(vec[v], Size(vec[v]) - 1))

Resize(v, n, x) ==
  /\ Usable(v)
  /\ IF Size(vec[v]) < n
       THEN ReservesThenReturns(v, n,
              Extended(Regrown(vec[v], n), n - Size(vec[v]), x), TRUE)
       ELSE Returns(v, Shortened(vec[v], n))

\* at(n) = x, v[n] = x, front() = x and back() = x (indices from 0).
SetAt(v, n, x) ==
  /\ Usable(v)
  /\ IF Size(vec[v]) <= n
       THEN Ends("aborted")
       ELSE Returns(v, [vec[v] EXCEPT !.cells[n + 1] = x])

Next ==
  \E v \in Vectors :
    \/ ConstructDefault(v)
    \/ \E n \in SizeT, x \in Values : ConstructCopies(v, n, x)
    \/ \E w \in Vectors \ {v} : ConstructCopy(v, w)
    \/ Destroy(v)
    \/ \E n \in SizeT : Reserve(v, n)
    \/ \E w \in Vectors : Assign(v, w)
    \/ Clear(v)
    \/ \E x \in Values : PushBack(v, x)
    \/ \E i \in SizeT : PushBackOwn(v, i)
    \/ PopBack(v)
    \/ \E n \in SizeT, x \in Values : Resize(v, n, x)
    \/ \E n \in SizeT, x \in Values : SetAt(v, n, x)

Spec == Init /\ [][Next]_vars
-----------------------------------------------------------------------------
Members ==
  [cap : 0 .. MaxCapacity, mem : {"null", "live", "freed"},
   block : 0 .. MaxCapacity, cells : Seq(Values \cup {Junk})]

TypeOK ==
  /\ alive \subseteq Vectors
  /\ vec \in [Vectors -> Members]
  /\ status \in {"running", "hung", "aborted", "crashed"}
  /\ thrown \in BOOLEAN
  /\ leaked \in BOOLEAN

\* The elements of a vector lie inside the block it owns, whatever has been
\* reserved, copied and assigned: nothing is written behind the end.
InBounds ==
  \A v \in alive : Sound(vec[v]) =>
    Size(vec[v]) <= vec[v].block /\ vec[v].block = vec[v].cap

\* Every block is deleted once: memory is lost, or deleted twice, only after
\* an allocation in reserve has failed.
DeletedOnce == leaked \/ status = "crashed" => thrown

\* What the program sees of v.
Content(v) ==
  IF v \in alive /\ Sound(vec[v]) THEN vec[v].cells ELSE Lost

Abstract == INSTANCE VectorSpec
              WITH content <- [v \in Vectors |-> Content(v)],
                   MaxSize <- MaxCapacity

ImplementsSpec == Abstract!Spec
=============================================================================
