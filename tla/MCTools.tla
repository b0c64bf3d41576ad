------------------------------ MODULE MCTools ------------------------------
(***************************************************************************)
(* The programs of Samples_Cplusplus that read their command line or a     *)
(* directory, one program per execution.  The names of Traversal are used  *)
(* as they are; Options is O.                                              *)
(***************************************************************************)
EXTENDS Traversal, TLC

VARIABLES
  oAt, test, args, scan, flags, value, shown, digitOptind, digits, told, words

oVars ==
  <<oAt, test, args, scan, flags, value, shown, digitOptind, digits, told, words>>

O == INSTANCE Options WITH at <- oAt

\* Two levels of folders: ./d is a folder of the working directory, and of
\* itself.
MCKinds ==
  <<"a">> :> {"none", "file"} @@ <<"b">> :> {"none", "file", "other"} @@
  <<"d">> :> {"none", "file", "dir"} @@ <<"d", "a">> :> {"none", "file"} @@
  <<"d", "d">> :> {"none", "dir"} @@ <<"d", "d", "b">> :> {"none", "file"}

MCStarts == {<<>>, <<"d">>}

MCFilters == {{"a", "b", "d"}, {"a"}, {"b", "d"}}

\* Arguments of the four tests: words, options alone and in clusters, with
\* values inside and behind, unknown ones, and "--".
Word(w) == [dash |-> 0, text |-> <<w>>]
Cluster(letters) == [dash |-> 1, text |-> letters]
Long(name) == [dash |-> 2, text |-> name]

Vocabulary ==
  [test1 |-> {Word("x"), Cluster(<<"n">>), Cluster(<<"t">>), Cluster(<<"n", "t", "n">>),
              Cluster(<<"y", "n">>), Long(<<>>)},
   test2 |-> {},
   test3 |-> {Word("x"), Cluster(<<>>), Cluster(<<"a">>), Cluster(<<"b", "c">>),
              Cluster(<<"c", "a">>), Cluster(<<"y">>), Long(<<>>)},
   error |-> {Word("x")},
   long |-> {Word("x"), Cluster(<<"0">>), Cluster(<<"1", "2">>), Cluster(<<"c">>),
             Long(<<"append">>), Long(<<"create">>), Long(<<"add", "x">>),
             Long(<<"verbose", "x">>), Long(<<"more">>)}]

\* What stands first: the number of the test.
Selector ==
  [test1 |-> <<Word("1")>>, test2 |-> <<Word("2")>>, test3 |-> <<Word("3")>>,
   error |-> <<Word("9")>>, long |-> <<>>]

WithPositions(line) ==
  [i \in DOMAIN line |-> [dash |-> line[i].dash, text |-> line[i].text, pos |-> i]]

CommandLines(t) ==
  {WithPositions(Selector[t] \o line) : line \in SeqOf(Vocabulary[t], 3)}

\* The lines tried are among those of the theorems.
ASSUME LinesAssumption ==
  O!Test2Args \in O!Lines /\ \A t \in DOMAIN Vocabulary : CommandLines(t) \subseteq O!Lines

RunOptions ==
  \/ /\ oAt = "shell"
     /\ \E t \in DOMAIN Vocabulary : \E line \in CommandLines(t) :
          /\ t # "long" => t = O!Selected(line)
          /\ O!Invoke(t, line)
  \/ O!Invoke("error", <<>>)
  \/ O!Next

BothInit == Init /\ O!Init

BothNext ==
  \/ oAt = "shell" /\ Next /\ UNCHANGED oVars
  \/ at = "shell" /\ RunOptions /\ UNCHANGED vars

BothSpec == BothInit /\ [][BothNext]_<<vars, oVars>>

DoesWhatIsMeant == O!DoesWhatIsMeant

DigitsReported == O!DigitsReported

NameAsked == O!NameAsked
=============================================================================
