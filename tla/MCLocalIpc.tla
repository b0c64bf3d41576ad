----------------------------- MODULE MCLocalIpc -----------------------------
(***************************************************************************)
(* The pairs of processes on one machine: they talk through FIFOs, through *)
(* a UNIX domain socket or through shared memory, one of them per          *)
(* execution.  The names of NamedPipe are used as they are; UnixSocket is  *)
(* U, SharedMemory is M.                                                   *)
(***************************************************************************)
EXTENDS NamedPipe

VARIABLES
  paths, listen, queue, chan, open, uAt, got, uKillable,
  name, objects, mAt, map, value, unset, round, stores, paced,
  program  \* which pair runs

uVars == <<paths, listen, queue, chan, open, uAt, got, uKillable>>

mVars == <<name, objects, mAt, map, value, unset, round, stores, paced>>

U == INSTANCE UnixSocket WITH at <- uAt, killable <- uKillable

M == INSTANCE SharedMemory WITH at <- mAt

\* The pairs that do not run stay in one of their initial states.
MCInit ==
  /\ Init /\ U!Init /\ M!Init
  /\ program \in {"pipe", "socket", "memory"}
  /\ program # "pipe" => exists = {} /\ killable = "nobody"
  /\ program # "socket" => paths = {} /\ uKillable = "nobody"
  /\ program # "memory" => paced

ByPipe(A) == program = "pipe" /\ A /\ UNCHANGED <<uVars, mVars, program>>
BySocket(A) == program = "socket" /\ A /\ UNCHANGED <<vars, mVars, program>>
ByMemory(A) == program = "memory" /\ A /\ UNCHANGED <<vars, uVars, program>>

MCNext == ByPipe(Next) \/ BySocket(U!Next) \/ ByMemory(M!Next)

allVars == <<vars, uVars, mVars, program>>

\* The fairness of each pair while it is the one that runs.
MCFairness ==
  /\ WF_allVars(ByPipe(Parent)) /\ WF_allVars(ByPipe(Child))
  /\ WF_allVars(BySocket(U!Server)) /\ WF_allVars(BySocket(U!Client))
  /\ WF_allVars(ByMemory(M!Parent)) /\ WF_allVars(ByMemory(M!Child))

MCSpec == MCInit /\ [][MCNext]_allVars /\ MCFairness
-----------------------------------------------------------------------------
\* An answer belongs to the letter asked, over the socket each greeting answers
\* the other side's, and an end of file passes for either only after a death.
AnswersFit == TypeOK /\ AnswerFits /\ U!TypeOK /\ U!InAnswer

\* However the stores and loads of a message interleave, no counter runs ahead
\* of the increments stored (test_shared_memory_1.cpp:36-45, 74-100).
NeverAhead == M!TypeOK /\ M!NeverAhead

\* With sleeps that keep the rounds apart nothing is lost and both processes
\* finish their rounds (test_shared_memory_1.cpp:104-129).
PacedIsExact == M!PacedIsExact

\* Once the two sides have met, nobody hangs, whoever is killed.
NobodyHangs ==
  /\ program = "pipe" => NoHangOnceConnected
  /\ program = "socket" => U!NoHangOnceConnected

\* With nobody killed the programs end well and leave no file behind.
SparedFinish ==
  /\ program = "pipe" => FinishesIfSpared
  /\ program = "socket" => U!FinishesIfSpared

\* Both processes of the shared memory end, a missing name included.
Terminates == program = "memory" => M!Terminates
=============================================================================
