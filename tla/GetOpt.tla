------------------------------- MODULE GetOpt -------------------------------
(***************************************************************************)
(* getopt and getopt_long of the GNU C library, on which Samples_Cplusplus *)
(* /sample_getopt.cpp and sample_getopt_long.cpp rest.  They are not code  *)
(* of this repository.  What matters of them: arguments that are no        *)
(* options are skipped and moved behind the options LAZILY, by the next    *)
(* call, so that between two calls optind may stand before a word that     *)
(* does not belong to the option last returned.                            *)
(*                                                                         *)
(* An argument is its dashes and the rest: the letters of a cluster (-ab), *)
(* the name and perhaps the value of a long option (--add=x), or a word.   *)
(* pos tells equal arguments apart.  argv[0] is left out, so that the      *)
(* indices of argv are those of the sequence.                              *)
(***************************************************************************)
EXTENDS Integers, Sequences, FiniteSetsExt

\* What a word, or an option's value, is compared by.
Text(a) == [dash |-> a.dash, text |-> a.text]

\* A word, or a dash alone.
Plain(a) == a.dash = 0 \/ (a.dash = 1 /\ a.text = <<>>)

Terminator(a) == a.dash = 2 /\ a.text = <<>>

\* The library's state between calls: argv as permuted so far, optind, the
\* block of words skipped (first to last - 1), and the letters of a cluster
\* that are still to be returned.
Start(args) ==
  [argv |-> args, optind |-> 1, first |-> 1, last |-> 1, rest |-> <<>>]

Argc(s) == Len(s.argv) + 1

\* The words skipped change places with the options found behind them.
Exchange(s) ==
  [s EXCEPT
    !.argv = SubSeq(@, 1, s.first - 1) \o SubSeq(@, s.last, s.optind - 1)
               \o SubSeq(@, s.first, s.last - 1) \o SubSeq(@, s.optind, Len(@)),
    !.first = @ + s.optind - s.last,
    !.last = s.optind]

Permute(s) ==
  CASE s.first # s.last /\ s.last # s.optind -> Exchange(s)
    [] s.first = s.last /\ s.last # s.optind -> [s EXCEPT !.first = s.optind]
    [] OTHER -> s

SkipWords(s) ==
  LET next == Min({i \in s.optind .. Argc(s) :
                     i = Argc(s) \/ ~Plain(s.argv[i])})
  IN  [s EXCEPT !.optind = next, !.last = next]

\* Behind "--" there are only words.
SkipTerminator(s) ==
  IF s.optind < Argc(s) /\ Terminator(s.argv[s.optind])
    THEN LET t == Permute([s EXCEPT !.optind = @ + 1])
         IN  [t EXCEPT !.last = Argc(s), !.optind = Argc(s)]
    ELSE s

Advance(s) == SkipTerminator(SkipWords(Permute(s)))

\* What a call gives back: the new state, the option, its value, and the
\* argument it was found in.
Found(s, option, value) ==
  [scan |-> s, option |-> option, value |-> value, from |-> 0]

None == "none"

\* getopt returns -1, and optind is the first word.
AllDone(s) ==
  Found([s EXCEPT !.optind = IF s.first # s.last THEN s.first ELSE @], "end", None)

\* The next argument is an option's value, if there is one.
TakeValue(s, option) ==
  IF s.optind = Argc(s)
    THEN Found(s, "?", None)
    ELSE Found([s EXCEPT !.optind = @ + 1], option, Text(s.argv[s.optind]))

\* One letter of a cluster.
Letter(s, letters, valued) ==
  LET c == Head(s.rest)
      t == [s EXCEPT !.rest = Tail(@),
                     !.optind = IF Len(s.rest) = 1 THEN @ + 1 ELSE @]
  IN  CASE c \notin letters -> Found(t, "?", None)
        [] c \in letters \ valued -> Found(t, c, None)
        [] c \in valued /\ t.rest # <<>> ->
             Found([t EXCEPT !.rest = <<>>, !.optind = @ + 1], c,
                   [dash |-> 0, text |-> t.rest])
        [] OTHER -> TakeValue(t, c)

\* --name or --name=value; long tells whether a name takes a value.
LongOption(s, long) ==
  LET a == s.argv[s.optind]
      name == a.text[1]
      t == [s EXCEPT !.optind = @ + 1]
  IN  CASE name \notin DOMAIN long -> Found(t, "?", None)
        [] name \in DOMAIN long /\ Len(a.text) = 2 ->
             IF long[name]
               THEN Found(t, name, [dash |-> 0, text |-> Tail(a.text)])
               ELSE Found(t, "?", None)
        [] OTHER -> IF long[name] THEN TakeValue(t, name) ELSE Found(t, name, None)

\* One call: the letters known, those that take a value, the long options.
Call(s, letters, valued, long) ==
  LET t == IF s.rest = <<>> THEN Advance(s) ELSE s
      a == t.argv[t.optind]
      u == IF s.rest = <<>> THEN [t EXCEPT !.rest = a.text] ELSE s
  IN  IF t.optind = Argc(t)
        THEN AllDone(t)
        ELSE [(IF a.dash = 2 THEN LongOption(t, long) ELSE Letter(u, letters, valued))
                EXCEPT !.from = a.pos]
-----------------------------------------------------------------------------
\* The reading a user has in mind, from left to right and without permuting
\* anything: the options with their values, the words, and whether an option is
\* unknown, lacks its value or has one it does not take.
NothingLeft == [options |-> <<>>, words |-> <<>>, faulty |-> FALSE]

With(option, value, r) ==
  [r EXCEPT !.options = <<[option |-> option, value |-> value]>> \o @]

Faulty(r) == [r EXCEPT !.faulty = TRUE]

\* In what follows f[<<i, k>>] is what is read from the k-th letter of the i-th
\* argument on.
Inside(a, k) == [dash |-> 0, text |-> SubSeq(a.text, k + 1, Len(a.text))]

ValueBehind(f, args, option, i) ==
  IF i = Len(args)
    THEN Faulty(f[<<i + 1, 1>>])
    ELSE With(option, Text(args[i + 1]), f[<<i + 2, 1>>])

ReadLetter(f, args, letters, valued, i, k) ==
  LET a == args[i]
      c == a.text[k]
      more == k < Len(a.text)
      behind == IF more THEN f[<<i, k + 1>>] ELSE f[<<i + 1, 1>>]
  IN  CASE c \notin letters -> Faulty(behind)
        [] c \in letters \ valued -> With(c, None, behind)
        [] c \in letters \cap valued /\ more -> With(c, Inside(a, k), f[<<i + 1, 1>>])
        [] OTHER -> ValueBehind(f, args, c, i)

ReadName(f, args, long, i) ==
  LET a == args[i]
      name == a.text[1]
      more == 1 < Len(a.text)
      next == f[<<i + 1, 1>>]
  IN  CASE name \notin DOMAIN long \/ (more /\ ~long[name]) -> Faulty(next)
        [] name \in DOMAIN long /\ more /\ long[name] -> With(name, Inside(a, 1), next)
        [] name \in DOMAIN long /\ ~more /\ ~long[name] -> With(name, None, next)
        [] OTHER -> ValueBehind(f, args, name, i)

ReadFrom(f, args, letters, valued, long, i, k) ==
  IF i > Len(args)
    THEN NothingLeft
    ELSE CASE Terminator(args[i]) ->
                [NothingLeft EXCEPT !.words = SubSeq(args, i + 1, Len(args))]
           [] Plain(args[i]) -> [f[<<i + 1, 1>>] EXCEPT !.words = <<args[i]>> \o @]
           [] OTHER -> IF args[i].dash = 2
                         THEN ReadName(f, args, long, i)
                         ELSE ReadLetter(f, args, letters, valued, i, k)

Readings(args, letters, valued, long) ==
  LET f[place \in (1 .. Len(args) + 2) \X Nat] ==
        ReadFrom(f, args, letters, valued, long, place[1], place[2])
  IN  f

Reading(args, letters, valued, long) == Readings(args, letters, valued, long)[<<1, 1>>]
=============================================================================
