----------------------------- MODULE Traversal -----------------------------
(***************************************************************************)
(* Samples_Cplusplus/sample_traverse_directory.cpp: GetListFiles (files),  *)
(* GetListFolders (folders), GetListFilesR (files, and the files of the    *)
(* folders found), and main, which prints the list.                        *)
(*                                                                         *)
(* A path is the sequence of its names, <<>> being the working directory.  *)
(* Other processes create and remove entries meanwhile: what was there at  *)
(* opendir and still is must be returned by readdir, what has come or gone *)
(* may be.  The order of readdir is arbitrary.                             *)
(***************************************************************************)
EXTENDS Integers, Sequences, SequencesExt, FiniteSetsExt

CONSTANTS
  Kinds,      \* what may be found at each path: "none", "file", "dir", "other"
  Starts,     \* paths the program may be called with
  Filters,    \* filters: the set of names that contain the filter ("*": all)
  MaxChanges  \* how often other processes interfere

Paths == DOMAIN Kinds

\* The names an entry may have.
Names == UNION {ToSet(p) : p \in Paths}

ASSUME KindsAssumption ==
  /\ Paths \subseteq Seq(Names) /\ Names \cap {".", ".."} = {}
  /\ \A p \in Paths :
       /\ p # <<>> /\ (Front(p) = <<>> \/ Front(p) \in Paths)
       /\ "none" \in Kinds[p] /\ Kinds[p] \subseteq {"none", "file", "dir", "other"}

VARIABLES
  tree,     \* what there is at each path
  at,       \* "shell", "open", "read", "usage", "done"
  call,     \* type, path and filter of the command line
  stage,    \* the list being made: "files", "folders" or "inside" a folder
  unread,   \* entries of the open directory readdir may still return
  owed,     \* names of those it must return
  list,     \* the list that is printed
  dirs,     \* GetListFilesR: folders found and not yet read
  changes,  \* interferences so far
  ever,     \* every path with every kind it has had (history)
  refused   \* opendir has failed for a directory that exists (history)

vars == <<tree, at, call, stage, unread, owed, list, dirs, changes, ever, refused>>

IsDir(t, p) == p = <<>> \/ (p \in Paths /\ t[p] = "dir")

\* Entries have directories above them.
Trees ==
  {t \in [Paths -> UNION {Kinds[p] : p \in Paths}] :
     \A p \in Paths : t[p] \in Kinds[p] /\ (t[p] # "none" => IsDir(t, Front(p)))}

\* The names in a directory, with their kinds; "." and ".." are directories.
Dots == {[name |-> ".", kind |-> "dir"], [name |-> "..", kind |-> "dir"]}

Entries(t, p) ==
  Dots \cup {[name |-> Last(q), kind |-> t[q]] :
               q \in {q \in Paths : Front(q) = p /\ t[q] # "none"}}

Facts(t) == {<<p, t[p]>> : p \in Paths}

Nothing == [p \in Paths |-> "none"]

Init ==
  /\ tree = Nothing
  /\ at = "shell" /\ call = [type |-> 0, path |-> <<>>, filter |-> {}]
  /\ stage = "files" /\ unread = {} /\ owed = {}
  /\ list = <<>> /\ dirs = <<>>
  /\ changes = 0 /\ ever = {} /\ refused = FALSE
-----------------------------------------------------------------------------
(* Plausible bugs: each form below, in the place of the definition it is   *)
(* named after, breaks a property.                                         *)

\* "." and ".." pass for folders.
WantedWithDots(e) ==
  /\ e.kind = IF stage = "folders" THEN "dir" ELSE "file"
  /\ e.name \in call.filter \cup {".", ".."}

\* The last folder is left out.
NextStageNotLast ==
  LET left == IF stage = "inside" THEN Tail(dirs) ELSE dirs
  IN  /\ dirs' = left
      /\ CASE stage = "files" /\ call.type = 0 -> stage' = "folders" /\ at' = "open"
           [] stage \in {"folders", "inside"} /\ call.type = 0 /\ Len(left) > 1 ->
                stage' = "inside" /\ at' = "open"
           [] OTHER -> at' = "done" /\ UNCHANGED stage
-----------------------------------------------------------------------------
(* main *)

\* Type 0 lists files and the files of folders, 1 files, 2 folders; anything
\* else is answered with the usage.  found is what the program finds.
Invoke(type, path, filter, found) ==
  /\ tree' = found
  /\ ever' = Facts(found)
  /\ call' = [type |-> type, path |-> path, filter |-> filter]
  /\ at' = IF type \in 0 .. 2 THEN "open" ELSE "usage"
  /\ stage' = IF type = 2 THEN "folders" ELSE "files"
  /\ UNCHANGED <<unread, owed, list, dirs, changes, refused>>

\* The directory that is read: the folders found are taken as they are named,
\* relative to the working directory and not to call.path.
Target == IF stage = "inside" THEN <<Head(dirs)>> ELSE call.path

OpenDir ==
  /\ at = "open"
  /\ IsDir(tree, Target)
  /\ at' = "read"
  /\ unread' = Entries(tree, Target)
  /\ owed' = unread'
  /\ UNCHANGED <<tree, call, stage, list, dirs, changes, ever, refused>>

\* What follows when a directory has been read, or could not be opened.
NextStage ==
  LET left == IF stage = "inside" THEN Tail(dirs) ELSE dirs
  IN  /\ dirs' = left
      /\ CASE stage = "files" /\ call.type = 0 -> stage' = "folders" /\ at' = "open"
           [] stage \in {"folders", "inside"} /\ call.type = 0 /\ left # <<>> ->
                stage' = "inside" /\ at' = "open"
           [] OTHER -> at' = "done" /\ UNCHANGED stage

\* Any failure gives an empty list: there is no such directory, or it may not be
\* read, or there are no descriptors or memory left.
OpenFails ==
  /\ at = "open"
  /\ refused' = (refused \/ IsDir(tree, Target))
  /\ NextStage
  /\ UNCHANGED <<tree, call, unread, owed, list, changes, ever>>

\* The entries that go into the list.
Wanted(e) ==
  /\ e.kind = IF stage = "folders" THEN "dir" ELSE "file"
  /\ e.name \notin {".", ".."}
  /\ e.name \in call.filter

ReadDir ==
  /\ at = "read"
  /\ \E e \in unread :
       /\ unread' = unread \ {e}
       /\ owed' = owed \ {e}
       /\ CASE Wanted(e) /\ stage = "folders" /\ call.type = 0 ->
                 dirs' = Append(dirs, e.name) /\ UNCHANGED list
            [] Wanted(e) /\ (stage # "folders" \/ call.type # 0) ->
                 /\ list' = Append(list, IF stage = "inside" THEN <<Head(dirs), e.name>>
                                                              ELSE <<e.name>>)
                 /\ UNCHANGED dirs
            [] OTHER -> UNCHANGED <<list, dirs>>
  /\ UNCHANGED <<tree, at, call, stage, changes, ever, refused>>

CloseDir ==
  /\ at = "read"
  /\ owed = {}
  /\ unread' = {}
  /\ NextStage
  /\ UNCHANGED <<tree, call, owed, list, changes, ever, refused>>
-----------------------------------------------------------------------------
(* Other processes: an entry comes, or goes (a directory when it is empty). *)

Running == at \in {"open", "read"}

Change(p, kind) ==
  LET entry(k) == [name |-> Last(p), kind |-> k]
      here == at = "read" /\ Front(p) = Target
  IN  /\ Running
      /\ changes < MaxChanges
      /\ kind \in Kinds[p] \ {tree[p]}
      /\ "none" \in {kind, tree[p]}
      /\ IsDir(tree, Front(p))
      /\ \A q \in Paths : Front(q) = p => tree[q] = "none"
      /\ tree' = [tree EXCEPT ![p] = kind]
      /\ unread' = IF here /\ kind # "none" THEN unread \cup {entry(kind)} ELSE unread
      /\ owed' = IF here THEN owed \ {entry(tree[p])} ELSE owed
      /\ changes' = changes + 1
      /\ ever' = ever \cup Facts(tree')
      /\ UNCHANGED <<at, call, stage, list, dirs, refused>>

Step == OpenDir \/ OpenFails \/ ReadDir \/ CloseDir

Next ==
  \/ /\ at = "shell"
     /\ \E type \in 0 .. 3, path \in Starts, filter \in Filters, found \in Trees :
          Invoke(type, path, filter, found)
  \/ Step
  \/ \E p \in Paths, kind \in {"none", "file", "dir", "other"} : Change(p, kind)

Spec == Init /\ [][Next]_vars
-----------------------------------------------------------------------------
\* What is listed was there at some moment of the run and its name matches: files
\* (GetListFiles, line 37) or folders (GetListFolders, line 64) of the directory
\* that is named; of a file inside a folder the folder was there, and the file
\* was in the folder of that name below the working directory, which is another
\* one unless the directory named is the working directory (ListsInside).
ListedExisted ==
  \A i \in DOMAIN list :
    LET l == list[i] IN
      /\ ToSet(l) \subseteq call.filter
      /\ CASE Len(l) = 2 ->
                <<call.path \o <<l[1]>>, "dir">> \in ever /\ <<l, "file">> \in ever
           [] Len(l) = 1 ->
                <<call.path \o l, IF call.type = 2 THEN "dir" ELSE "file">> \in ever

\* The names of a kind in a directory that match.
Matching(p, kind) ==
  {Last(q) : q \in {q \in Paths : Front(q) = p /\ tree[q] = kind}} \cap call.filter

\* The files and the folders of the directory, and the files of its folders.
FilesHere == {<<n>> : n \in Matching(call.path, "file")}
FoldersHere == {<<n>> : n \in Matching(call.path, "dir")}
FilesInside ==
  UNION {{<<d, n>> : n \in Matching(call.path \o <<d>>, "file")} :
           d \in Matching(call.path, "dir")}

\* In a tree nobody touches, of which every directory can be opened:
Undisturbed == at = "done" /\ changes = 0 /\ ~refused

\* GetListFiles lists all files (line 24), GetListFolders all folders (51), each
\* once and nothing else; GetListFilesR leaves out no file of the directory, and
\* none of its folders if it is the working directory.
ListsAll ==
  Undisturbed =>
    /\ call.type = 1 => ToSet(list) = FilesHere
    /\ call.type = 2 => ToSet(list) = FoldersHere
    /\ call.type = 0 => FilesHere \subseteq ToSet(list)
    /\ call.type = 0 /\ call.path = <<>> => FilesInside \subseteq ToSet(list)
    /\ Cardinality(ToSet(list)) = Len(list)

\* GetListFilesR lists the files of the folders of any directory: "0: tarverse
\* all files and all directories in directory" (line 15), "support relative
\* path ... %s ./images 0 .jpg" (19-20).
ListsInside == Undisturbed /\ call.type = 0 => FilesInside \subseteq ToSet(list)
=============================================================================
