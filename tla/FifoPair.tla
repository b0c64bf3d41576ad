------------------------------ MODULE FifoPair ------------------------------
(***************************************************************************)
(* Samples_Multi_process/test_pipe4.cpp (the writer) and test_pipe5.cpp    *)
(* (the reader): two programs, started by hand in any order, that meet at  *)
(* the name /tmp/fifo.  The writer removes what an earlier execution has   *)
(* left there and makes the FIFO anew.                                     *)
(*                                                                         *)
(* FIFOs are external: open waits until somebody opens the other end of    *)
(* the same FIFO; it is of no use that another one gets the name meanwhile.*)
(***************************************************************************)
EXTENDS Integers

VARIABLES
  name,      \* what /tmp/fifo is: 0 nothing, 1 left behind, 2 made by the writer
  w, r,      \* where the writer and the reader stand
  wOn, rOn,  \* the FIFO each has opened, or waits to open; 0 for none
  text,      \* what is in the writer's FIFO
  printed,   \* what the reader has printed
  late,      \* the reader came after mkfifo (history)
  killable   \* who may be killed in this execution: "w", "r" or "nobody"

vars == <<name, w, r, wOn, rOn, text, printed, late, killable>>

\* "failed" is the end with -1.
Ended == {"done", "failed", "killed"}

Init ==
  /\ name \in {0, 1}
  /\ w = "start" /\ r = "start"
  /\ wOn = 0 /\ rOn = 0
  /\ text = "none" /\ printed = "none" /\ late = FALSE
  /\ killable \in {"w", "r", "nobody"}
-----------------------------------------------------------------------------
(* A plausible bug: in the place of Unlink it breaks a property. *)

\* What was left behind is not removed, and mkfifo fails on it.
UnlinkMissing ==
  /\ w = "start"
  /\ w' = "unlinked"
  /\ UNCHANGED <<name, r, wOn, rOn, text, printed, late, killable>>
-----------------------------------------------------------------------------
(* writer *)

Unlink ==
  /\ w = "start"
  /\ name' = 0
  /\ w' = "unlinked"
  /\ UNCHANGED <<r, wOn, rOn, text, printed, late, killable>>

MkFifo ==
  /\ w = "unlinked"
  /\ IF name = 0 THEN name' = 2 /\ w' = "made"
                 ELSE w' = "failed" /\ UNCHANGED name
  /\ UNCHANGED <<r, wOn, rOn, text, printed, late, killable>>

\* open for writing; if the reader is waiting both go on.
OpenToWrite ==
  /\ w = "made"
  /\ wOn' = name
  /\ IF r = "opening" /\ rOn = name THEN w' = "write" /\ r' = "read"
                                    ELSE w' = "opening" /\ UNCHANGED r
  /\ UNCHANGED <<name, rOn, text, printed, late, killable>>

\* Without a reader SIGPIPE ends the writer.
Write ==
  /\ w = "write"
  /\ IF r \in Ended THEN w' = "killed" /\ UNCHANGED text
                    ELSE w' = "close" /\ text' = "message"
  /\ UNCHANGED <<name, r, wOn, rOn, printed, late, killable>>

Close ==
  /\ w = "close"
  /\ w' = "done"
  /\ UNCHANGED <<name, r, wOn, rOn, text, printed, late, killable>>

Writer == Unlink \/ MkFifo \/ OpenToWrite \/ Write \/ Close
-----------------------------------------------------------------------------
(* reader *)

\* Without the name open fails, and then read, and the program ends with -1.
OpenToRead ==
  /\ r = "start"
  /\ rOn' = name
  /\ late' = (w \notin {"start", "unlinked"})
  /\ CASE name = 0 -> r' = "failed" /\ UNCHANGED w
       [] name # 0 /\ w = "opening" /\ wOn = name -> r' = "read" /\ w' = "write"
       [] OTHER -> r' = "opening" /\ UNCHANGED w
  /\ UNCHANGED <<name, wOn, text, printed, killable>>

\* read waits for the text or for the end of the writer, which passes for a
\* text of whatever is in the buffer.
Read ==
  /\ r = "read"
  /\ text = "message" \/ w \in Ended
  /\ printed' = IF text = "message" THEN text ELSE "junk"
  /\ r' = "done"
  /\ UNCHANGED <<name, w, wOn, rOn, text, late, killable>>

Reader == OpenToRead \/ Read
-----------------------------------------------------------------------------
(* A signal from outside. *)

WriterKilled ==
  /\ killable = "w" /\ w \notin Ended
  /\ w' = "killed"
  /\ UNCHANGED <<name, r, wOn, rOn, text, printed, late, killable>>

ReaderKilled ==
  /\ killable = "r" /\ r \notin Ended
  /\ r' = "killed"
  /\ UNCHANGED <<name, w, wOn, rOn, text, printed, late, killable>>

Next == Writer \/ Reader \/ WriterKilled \/ ReaderKilled

\* Both programs are started; the kernel schedules them.
Fairness == WF_vars(Writer) /\ WF_vars(Reader)

Spec == Init /\ [][Next]_vars /\ Fairness
-----------------------------------------------------------------------------
\* A reader that comes after mkfifo (test_pipe4.cpp:19) gets the message, and
\* both programs end, unless one is killed; who has opened the FIFO ends in any
\* case.  (A reader that comes before may fail, or wait for ever on the FIFO that
\* unlink has taken the name from, and the writer waits too.)
LateReaderServed ==
  /\ <>[](late /\ killable = "nobody" => printed = "message" /\ w = "done")
  /\ <>[](w \notin {"write", "close"} /\ r # "read")
=============================================================================
