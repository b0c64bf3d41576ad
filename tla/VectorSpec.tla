----------------------------- MODULE VectorSpec -----------------------------
(***************************************************************************)
(* What the vectors of Samples_STL_Implementation promise to a program:    *)
(* each one is a sequence, or out of use.  Three promises are weaker than  *)
(* those of the standard library: reserve() may forget every element, an   *)
(* element pushed onto its own vector may arrive as anything, and a failed *)
(* allocation may put the vector out of use.                               *)
(***************************************************************************)
EXTENDS Naturals, Sequences

CONSTANTS
  Vectors,  \* the vectors of the program
  Values,   \* element values
  MaxSize,  \* the largest size a vector can be given
  Junk,     \* an element that holds no particular value
  Lost      \* a vector that is not constructed, or unusable after a failure

VARIABLE content  \* content[v] : the sequence v holds, or Lost

Elements == Values \cup {Junk}

Init == content = [v \in Vectors |-> Lost]

Put(v, s) == content' = [content EXCEPT ![v] = s]

Usable(v) == content[v] # Lost

Sizes == 0 .. MaxSize

Copies(x, n) == [i \in 1 .. n |-> x]

Construct(v) ==
  /\ ~Usable(v)
  /\ \/ \E n \in Sizes, x \in Values : Put(v, Copies(x, n))
     \/ \E w \in Vectors : Usable(w) /\ Put(v, content[w])

Lose(v) == Put(v, Lost)

Reserve(v) ==
  /\ Usable(v)
  /\ Put(v, Copies(Junk, Len(content[v])))

Assign(v, w) ==
  /\ Usable(v) /\ Usable(w)
  /\ Put(v, content[w])

Truncate(v) ==
  /\ Usable(v)
  /\ \E n \in 0 .. Len(content[v]) : Put(v, SubSeq(content[v], 1, n))

Extend(v) ==
  /\ Usable(v)
  /\ \E n \in Sizes, x \in Values : Put(v, content[v] \o Copies(x, n))

PushOwn(v) ==
  /\ Usable(v)
  /\ \E i \in DOMAIN content[v] :
       \E x \in {content[v][i], Junk} : Put(v, Append(content[v], x))

Set(v) ==
  /\ Usable(v)
  /\ \E i \in DOMAIN content[v], x \in Values :
       Put(v, [content[v] EXCEPT ![i] = x])

Next ==
  \E v \in Vectors :
    \/ Construct(v) \/ Lose(v) \/ Reserve(v) \/ Truncate(v)
    \/ Extend(v) \/ PushOwn(v) \/ Set(v)
    \/ \E w \in Vectors : Assign(v, w)

Spec == Init /\ [][Next]_content
=============================================================================
