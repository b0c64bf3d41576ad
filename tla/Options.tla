------------------------------ MODULE Options ------------------------------
(***************************************************************************)
(* Samples_Cplusplus/sample_getopt.cpp (its three tests, chosen by the     *)
(* first argument) and sample_getopt_long.cpp ("long"): loops around       *)
(* getopt.  One action is one turn of a loop.                              *)
(*                                                                         *)
(* main hands the whole of argv to the chosen test, so that the choice     *)
(* itself is an argument, and a word, for getopt.                          *)
(***************************************************************************)
EXTENDS GetOpt

VARIABLES
  at,           \* where the program stands
  test,         \* "test1", "test2", "test3" or "long"
  args,         \* argv as the shell made it (test2: as it is written there)
  scan,         \* getopt's state
  flags,        \* flags and tfnd, aflag and bflag: the options seen
  value,        \* nsecs, cvalue: the last value
  shown,        \* what test2 and sample_getopt_long print per option
  digitOptind,  \* digit_optind
  digits,       \* the arguments the digits were found in (history)
  told,         \* "digits occur in two different argv elements." was printed
  words         \* the words printed at the end

vars == <<at, test, args, scan, flags, value, shown, digitOptind, digits, told, words>>

Letters ==
  [test1 |-> {"n", "t"},
   test2 |-> {"f", "s", "o", "p", "w", "h", "z", "t", "d", "a", "b", "?"},
   test3 |-> {"a", "b", "c"},
   long |-> {"a", "b", "c", "d", "0", "1", "2"}]

Valued ==
  [test1 |-> {"t"}, test2 |-> Letters.test2 \ {"p", "?"}, test3 |-> {"c"},
   long |-> {"c", "d"}]

\* long_options, and whether each takes an argument.
LongOptions ==
  [add |-> TRUE, append |-> FALSE, delete |-> TRUE, verbose |-> FALSE,
   create |-> TRUE, file |-> TRUE]

\* sample_getopt.cpp calls getopt, which knows no long options.
Known(t) == IF t = "long" THEN LongOptions ELSE [none \in {} |-> FALSE]

Digits == {"0", "1", "2"}

\* create has the value 'c', the other long options are reported by name.
Reported(option) == IF option = "create" THEN "c" ELSE option

\* -f input.gmn -output.jpg
Test2Args ==
  << [dash |-> 1, text |-> <<"f">>, pos |-> 1],
     [dash |-> 0, text |-> <<"input.gmn">>, pos |-> 2],
     [dash |-> 1, text |-> <<"o", "utput.jpg">>, pos |-> 3] >>

\* main of sample_getopt.cpp: the test its first argument names; "1" stands for
\* every word that atoi reads as one.
Selected(a) ==
  CASE a # <<>> /\ Text(a[1]) = [dash |-> 0, text |-> <<"1">>] -> "test1"
    [] a # <<>> /\ Text(a[1]) = [dash |-> 0, text |-> <<"2">>] -> "test2"
    [] a # <<>> /\ Text(a[1]) = [dash |-> 0, text |-> <<"3">>] -> "test3"
    [] OTHER -> "error"

\* What arguments are made of: strings, among them those the programs know.
Symbols ==
  STRING \cup Letters.test1 \cup Letters.test2 \cup Letters.test3 \cup Letters.long
    \cup DOMAIN LongOptions \cup {"input.gmn", "utput.jpg"}

\* All command lines: a long option has one value at most.
Arguments ==
  {a \in [dash : 0 .. 2, text : Seq(Symbols), pos : Nat] :
     a.dash = 2 => Len(a.text) <= 2}

Lines == {a \in Seq(Arguments) : \A i \in DOMAIN a : a[i].pos = i}

Init ==
  /\ at = "shell" /\ test = "none" /\ args = <<>> /\ scan = Start(<<>>)
  /\ flags = {} /\ value = None /\ shown = <<>>
  /\ digitOptind = 0 /\ digits = <<>> /\ told = FALSE /\ words = <<>>

Invoke(t, a) ==
  /\ at = "shell"
  /\ test' = t
  /\ at' = IF t = "error" THEN "error" ELSE "loop"
  /\ args' = IF t = "test2" THEN Test2Args ELSE a
  /\ scan' = Start(args')
  /\ UNCHANGED <<flags, value, shown, digitOptind, digits, told, words>>

InLoop(t) == at = "loop" /\ test = t

GetOption == Call(scan, Letters[test], Valued[test], Known(test))
-----------------------------------------------------------------------------
(* Plausible bugs: each form below, in the place of the definition it is   *)
(* named after, breaks a property.                                         *)

\* The words are printed from the first argument on.
RemainingFromStart(s) == s.argv

\* digit_optind is not kept.
DigitForgotten(found) ==
  /\ UNCHANGED <<told, digitOptind>>
  /\ digits' = Append(digits, found.from)
-----------------------------------------------------------------------------
(* sample_getopt.cpp *)

\* The words behind the options, when getopt has returned -1.
Remaining(s) == SubSeq(s.argv, s.optind, Len(s.argv))

\* An option is remembered, an unknown one ends the test.
Remember(found) ==
  /\ scan' = found.scan
  /\ IF found.option = "?"
       THEN at' = "error" /\ UNCHANGED <<flags, value>>
       ELSE /\ flags' = flags \cup {found.option}
            /\ value' = IF found.option \in Valued[test] THEN found.value ELSE value
            /\ at' = "loop"

Test1 ==
  /\ InLoop("test1")
  /\ IF GetOption.option # "end"
       THEN Remember(GetOption)
       ELSE scan' = GetOption.scan /\ at' = "name" /\ UNCHANGED <<flags, value>>
  /\ UNCHANGED <<test, args, shown, digitOptind, digits, told, words>>

NameArgument(s) == s.argv[s.optind]

\* "Expected argument after options", or the name.
Name ==
  /\ at = "name"
  /\ IF scan.optind >= Argc(scan)
       THEN at' = "missing" /\ UNCHANGED words
       ELSE at' = "done" /\ words' = <<NameArgument(scan)>>
  /\ UNCHANGED <<test, args, scan, flags, value, shown, digitOptind, digits, told>>

Show(found) == Append(shown, [option |-> Reported(found.option), value |-> found.value])

Test2 ==
  /\ InLoop("test2")
  /\ scan' = GetOption.scan
  /\ IF GetOption.option # "end"
       THEN shown' = Show(GetOption) /\ at' = "loop"
       ELSE at' = "done" /\ UNCHANGED shown
  /\ UNCHANGED <<test, args, flags, value, digitOptind, digits, told, words>>

Test3 ==
  /\ InLoop("test3")
  /\ IF GetOption.option # "end"
       THEN Remember(GetOption) /\ UNCHANGED words
       ELSE /\ scan' = GetOption.scan
            /\ at' = "done"
            /\ words' = Remaining(scan')
            /\ UNCHANGED <<flags, value>>
  /\ UNCHANGED <<test, args, shown, digitOptind, digits, told>>
-----------------------------------------------------------------------------
(* sample_getopt_long.cpp *)

\* scan is still the state before the call: this_option_optind is its optind.
Digit(found) ==
  /\ told' = (told \/ (digitOptind # 0 /\ digitOptind # scan.optind))
  /\ digitOptind' = scan.optind
  /\ digits' = Append(digits, found.from)

Long ==
  /\ InLoop("long")
  /\ LET found == GetOption
     IN  CASE found.option = "end" ->
                /\ scan' = [found.scan EXCEPT !.optind = Argc(found.scan)]
                /\ words' = Remaining(found.scan)
                /\ at' = "done"
                /\ UNCHANGED <<shown, digitOptind, digits, told>>
           [] found.option = "?" ->
                scan' = found.scan /\ UNCHANGED <<at, words, shown, digitOptind, digits, told>>
           [] OTHER ->
                /\ scan' = found.scan
                /\ shown' = Show(found)
                /\ IF found.option \in Digits THEN Digit(found)
                                              ELSE UNCHANGED <<digitOptind, digits, told>>
                /\ UNCHANGED <<at, words>>
  /\ UNCHANGED <<test, args, flags, value>>

\* Either program may be called with any command line.
Shell == \E a \in Lines : Invoke(Selected(a), a) \/ Invoke("long", a)

Next == Test1 \/ Name \/ Test2 \/ Test3 \/ Long

Spec == Init /\ [][Shell \/ Next]_vars
-----------------------------------------------------------------------------
\* What the user wrote, read from left to right.
Meant == Reading(args, Letters[test], Valued[test], Known(test))

Given == {Meant.options[i].option : i \in DOMAIN Meant.options}

\* The last value given to an option that takes one.
LastValue ==
  LET given == {i \in DOMAIN Meant.options : Meant.options[i].option \in Valued[test]}
  IN  IF given = {} THEN None ELSE Meant.options[Max(given)].value

\* However options and words are mixed, each test does what the command line
\* says from left to right: test1 and test3 (while loops of sample_getopt.cpp:
\* 12 and :71) end with the flags, the value and, test3, the words in their
\* order, and give up exactly if an option is unknown or lacks its value; test2
\* and sample_getopt_long show every good option with its value.  (Of the word
\* test1 prints see NameAsked.)
DoesWhatIsMeant ==
  /\ at = "error" => test = "error" \/ Meant.faulty
  /\ at = "done" /\ test \in {"test1", "test3"} =>
       flags = Given /\ value = LastValue /\ ~Meant.faulty
  /\ at = "done" /\ test \in {"test3", "long"} => words = Meant.words
  /\ at = "done" /\ test \in {"test2", "long"} =>
       shown = [i \in DOMAIN Meant.options |->
                  [Meant.options[i] EXCEPT !.option = Reported(@)]]

\* "Usage: %s [-t nsecs] [-n] name" (sample_getopt.cpp:22) and "Expected argument
\* after options" (30): behind the number that selects test1, which main has
\* read, the user gives a name, or is told that it is missing.  test1 finds
\* the number itself at optind (34).
NameAsked ==
  at = "done" /\ test = "test1" =>
    Len(Meant.words) > 1 /\ words = <<Meant.words[2]>>

\* An argument with several digits behind a word: getopt stands before the
\* word when it is called for the first digit, and before the argument when it
\* is called for the second.
DigitsBehindWord ==
  \E i \in 2 .. Len(args) :
    Plain(args[i - 1]) /\ args[i].dash = 1 /\ Len(args[i].text) > 1

\* "digits occur in two different argv elements." (sample_getopt_long.cpp:52) is
\* never missing, and it is printed without reason only for digits together
\* behind a word.
DigitsReported ==
  LET spread == \E i, j \in DOMAIN digits : digits[i] # digits[j]
  IN  /\ spread => told
      /\ told => spread \/ DigitsBehindWord
=============================================================================
