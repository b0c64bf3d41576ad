# A verification project for Linux_Code_Test

`src/` is a collection of small Linux programs. Each of them is a complete
little system: threads around a semaphore or a condition variable, processes
around a FIFO, a socket or a shared memory object, servers and their clients,
tools that read a command line or a directory, containers that manage their own
memory. This project models the programs in which the order of steps,
a failure or a boundary decides whether they work, checks them with TLC and
proves the safety of the central ones with TLAPS.

## 1. Inventory

| Part of the repository | State it keeps | Operations | What is hard about it | Here |
|---|---|---|---|---|
| `Samples_Multi_thread/test_thread_sem2.cpp` | semaphore `s1`, `cnt`, two indices | `pc`, `pi`, create, join, destroy | both threads get past `sem_wait`; spinning posts saturate the semaphore | `SemPingPong` |
| `test_thread_cond.cpp` | mutex, condition variable, `flag` | `decrement_count`, `increment_count`, `main` | signal without the mutex, spurious wake-ups | `CondFlag` |
| `test_thread_cond1.cpp` | mutex, condition variable, `counter` | `decrement_counter`, `increment_counter`, `main` | signal BEFORE the counter is incremented | `CondCounter` |
| `test_thread_mutex.cpp`, `test_thread_sem3.cpp` | lock, counter | `run` / `handler`, `main` | read-modify-write, return from main in the middle | `LockedCounter` |
| `test_thread_sem.cpp` | two semaphores, `g_Flag` | `thread1`, `thread2`, `main` | who posts for main | `SemRendezvous` |
| `test_thread_sem1.cpp` | semaphore, alarm, deadline | `handler`, `main` | signal against time-out, EINTR | `SemTimedWait` |
| `test_create_thread.cpp`, `test_thread_bind_to_cpu_core.cpp` | - | create, join, set affinity | nothing shared | not modelled |
| `Samples_Multi_process/test_shared_memory_1.cpp` | a name, shared objects | `read_message`, `write_message`, `main` | no lock; unlink of somebody else's object; torn messages | `SharedMemory` |
| `test_named_pipe_1.cpp` | two FIFOs | the two sides of `main` | blocking open, end of file taken for a message, SIGPIPE | `NamedPipe` |
| `test_unix_domain_socket_1.cpp` | two paths, one connection | server and client side of `main` | connect before listen, death of a side | `UnixSocket` |
| `test_pipe4.cpp`, `test_pipe5.cpp` | the name `/tmp/fifo` | unlink, mkfifo, open, write; open, read | started by hand in any order; unlink against open; SIGPIPE | `FifoPair` |
| `test_pipe1` ... `test_pipe3` | a pipe | write and read once | straight lines | not modelled |
| `test_fork1` ... `test_fork4` | file offset, children | fork, wait, waitpid | order of two printed lines | not modelled |
| `test_signal1` ... `test_signal5` | one handler each | signals of the user | handlers only print | not modelled |
| `Samples_STL_Implementation/src/vector.hpp` | `size_`, `capacity_`, `buffer_` | all members | `reserve` frees before it allocates, doubling loop, aliasing; `operator<` does not stop at the first difference | `Vector`, `Relational` |
| `src/string.hpp` | `size_`, `buffer_` | all members | lengths and terminators that part, unwritten bytes, self-assignment, wrap of `pos + len`, C string on the left of a comparison | `FbcString`, `Relational` |
| `src/pair.hpp` | two members | comparison | - | `Relational` (comparison) |
| `Samples_Socket/test_server2.cpp`, `test_client2.cpp` | connections, a file being sent and saved | accept, recv of the name, fread/send; prompt, recv/fwrite | a request in pieces, errors that pass for an end, SIGPIPE, one client blocking all | `FileTransfer` |
| `test_server8.cpp`, `test_client8.cpp` | descriptors, children, `connect_fd` | accept, recv, fork, close; prompt, recv | `connect_fd` is never assigned, zombies | `ForkServer` |
| the other servers and clients of `Samples_Socket` | one connection | one message each way | - (server7/client7 are server8/client8 again and do not compile as they are) | not modelled |
| `Samples_Cplusplus/sample_getopt.cpp`, `sample_getopt_long.cpp` | `optind`, permuted `argv`, flags | the getopt loops, the words behind them | when argv is permuted; an `optind` read too early | `Options` on `GetOpt` |
| `sample_traverse_directory.cpp` | the list, the folders found | `GetListFiles`, `GetListFolders`, `GetListFilesR`, `main` | the tree changes meanwhile; folders opened in another place than they were found in | `Traversal` |
| the other files of `Samples_Cplusplus` | - | language demonstrations | sequential | not modelled |
| `Samples_Hook` | the malloc hooks | hook in, hook out | needs hooks that glibc has removed | not modelled |
| `Samples_C`, `Samples_CMake`, `Samples_Make`, `Samples_Conan`, `Samples_Dynamic_Library`, `Samples_AWK`, `Samples_Shell` | - | build and script demonstrations | no protocol, no shared state | not modelled |

Most programs stand alone; a server and its clients, and pipe4 and pipe5, are
programs that meet at a port or a name. The parts of a system interact
through shared variables, semaphores, condition variables, signals, pipes,
sockets and exit statuses, and those are the variables of the modules.

What makes each part correct:

* **Ping-pong**: the bodies of the two threads exclude each other and alternate,
  nobody sleeps for ever although nobody holds the semaphore, it is destroyed last.
* **Condition variables**: the work is done with the mutex held and the
  condition true, whatever ended the wait; the wait ends.
* **Counters**: no increment lost, a job keeps its number, the lock is destroyed
  free and with nobody left.
* **Rendezvous / timed wait**: main is released once and not too early; the
  outcome is what the two times say, EINTR is never the outcome.
* **Shared memory**: no counter runs ahead of the increments stored; paced
  rounds lose nothing; both processes end.
* **Pipe and socket pairs**: an answer is the answer to its question; after the
  sides have met the death of one does not hang the other; nothing is left behind.
* **Vector**: elements stay inside the block, a block is deleted once, and a
  program sees a sequence.
* **String**: as long as the calls have a defined outcome, a string is the
  characters they promise and a terminator; only four named calls leave the
  block of such a string.
* **File transfer**: what a client saves is a beginning of one file, all of it if
  everybody lives; the server dies only of a client that left; everybody is served.
* **Forking server**: which clients are served although `connect_fd` is garbage,
  and how many are not.
* **FIFO pair**: a reader that comes after `mkfifo` gets the message and nobody hangs.
* **Option samples**: the command line means what it says from left to right.
* **Traversal**: what is listed was there; the directory named is listed without
  gaps if nobody disturbs it.
* **Relational operators**: `operator<` of vectors never contradicts the order of the
  first difference (`<=`, its negation with the operands exchanged, does:
  `{2, 1} <= {1, 2}` is true); those of strings order the texts, with a string on the left.

## 2. Modules

| Module | Models | State and actions against the code |
|---|---|---|
| `Alternation` | abstract: two parties take strict turns | used by `SemPingPong` and `NamedPipe` |
| `SemPingPong` | `test_thread_sem2.cpp` | `s1`, `cnt`, `i` as in the code; one action per library call or access to `cnt` |
| `Pthread` | a mutex and a condition variable (external) | `Lock`, `Unlock`, `CondSleep`, `CondResume`, `CondSignal`, `SpuriousWake` |
| `CondFlag`, `CondCounter` | `test_thread_cond.cpp`, `test_thread_cond1.cpp` | `Dec...` are the waiting thread, `Inc...` the signalling one |
| `LockedCounter` | `test_thread_mutex.cpp`, `test_thread_sem3.cpp` | the variable `sample`, chosen once, tells the two programs apart (`MainRuns`, `Checked`); `counter++` is a read and a write |
| `SemRendezvous`, `SemTimedWait` | `test_thread_sem.cpp`, `test_thread_sem1.cpp` | the thread numbers 1 and 2 are the values of `g_Flag`; time is counted in seconds |
| `SharedMemory` | `test_shared_memory_1.cpp` | the name and the objects are apart; the stores to `pid` and `counter` are two steps in either order |
| `NamedPipe`, `UnixSocket` | the two IPC programs | each process has its position; `Killed` is a signal from outside |
| `Vector` | `vector.hpp` | the members with the state of the block `buffer_` points to; a throw of the `new` in `reserve`; `size_t` of `Width` bits |
| `FbcString` | `string.hpp` | `cells[v]` is the block, `size_` its length minus 1, unwritten bytes arbitrary; `value[v]` is a history variable, what the calls promise (`Unknown` once they promise nothing); `status` names the first call that has left a block, and ends the execution |
| `Relational` | relational operators of `vector.hpp`, `pair.hpp`, `string.hpp` | functions of what is compared; no state |
| `VectorSpec` | abstract: vectors are sequences, or out of use | `Vector` implements it |
| `FileTransfer` | `test_server2.cpp`, `test_client2.cpp` | `srv`, `cur`, `opened`, `pos` are the server's loop; `request`, `data` and `conn` are what TCP holds of each connection; `saved` is the client's file |
| `ForkServer` | `test_server8.cpp`, `test_client8.cpp` | `connectFd` is chosen once and never changes; `files` is the descriptor table; `slots` is a history of what accept returned |
| `FifoPair` | `test_pipe4.cpp`, `test_pipe5.cpp` | the name and the FIFOs are apart: 1 was left behind, 2 is the writer's |
| `GetOpt` | getopt and getopt_long of glibc (external) | the permutation of argv, one call at a time; `Reading` is the reference: one pass from left to right |
| `Options` | `sample_getopt.cpp`, `sample_getopt_long.cpp` | one action per turn of a loop; `Shell` calls a program with any of the `Lines` |
| `Traversal` | `sample_traverse_directory.cpp` | `stage` is the function at work; `unread` and `owed` are the directory stream; `OpenFails` is any failure of `opendir`, `refused` records one on a directory that exists; `Change` is another process |
| `MCThreads`, `MCLocalIpc`, `MCServers`, `MCContainers`, `MCTools` | instances for TLC | one of several independent programs per execution, the others standing still: chosen by `program` in the initial state, in `MCContainers` with the first call, in `MCTools` with the first command line |
| `SemPingPong_proofs`, `Mutexes_proofs`, `Semaphores_proofs`, `SharedMemory_proofs`, `LocalIpc_proofs`, `Containers_proofs`, `Servers_proofs`, `Tools_proofs` | theorems | each extends the module it is about, so that the formula proved is the one checked |

`Pthread` is composed into the two condition-variable modules with EXTENDS, the
programs of an MC module with EXTENDS and INSTANCE. `Relational` is used by
`MCContainers` on the contents of vectors and on the texts of strings.
`Alternation` and `VectorSpec` are abstract specifications implemented through
INSTANCE ... WITH.

The definitions under "Plausible bugs" in each module are not part of the
model: each one is the form a definition would take after a believable mistake,
and breaks one of the properties.

### Abstractions

* Printed text, messages and return values nobody looks at are left out.
* `sleep()` orders nothing: a thread may be slow. Where a program relies on a
  sleep, a variable chosen once (`punctual`, `paced`, `prompt`) separates the
  executions in which the sleep does its work from the others, and a property
  that needs it says so.
* Calls whose failure the code ignores (`pthread_create` in `sem2`, `sem3` and
  `cond`) are taken to succeed; failures the code handles are actions.
  In `SharedMemory` the only call that fails is opening a missing name; in
  `NamedPipe` and `UnixSocket` data calls fail only through the death of a peer.
* Plain variables shared by threads (`cnt` in `sem2`, `flag` in `cond`) are
  read and written between calls the compiler cannot look into, so that an access is
  one load or store. In `SharedMemory` the compiler may reorder the two stores.
* `Vector` holds a trivially copied type. A throw of the `new` of a temporary
  block happens before anything has changed: a stuttering step. Only cells
  below `size_` are kept, because nothing reads the others before writing them.
  `front()`, `back()`, `at()` and `[]` used as targets are `SetAt`.
* `FbcString`: an access out of a block ends the execution (`status` names the call, or
  is "undetermined" if the value of one of its operands was not known before). The bytes behind a `char` whose address is taken are a NUL or
  one more character. Blocks that `operator=` loses without delete (it tests
  `size_`, not `buffer_`) are not counted. `SetByte` stays at or below the
  terminator. `Relational` compares numbers.
* `FileTransfer`: TCP delivers a stream in order, in any pieces; a connection
  closed with part of the request unread is reset and may lose what is on its way;
  two closes are not told apart by their time. The client runs in
  another directory than the server (in the same one its `fopen(.., "w")` would
  truncate the file being served). Names are shorter than `BUFFER_SIZE`.
  Writing to a peer that has gone may succeed, fail, or raise SIGPIPE.
* `ForkServer`: an uninitialised variable keeps the value its place on the stack
  has; any value is possible. `buff[-1]`, written when `recv` fails, is a byte of
  a local variable and does not change which descriptor `connect_fd` names.
* `Traversal`: POSIX leaves open whether `readdir` returns an entry that comes or
  goes while the directory is read; entries do not change their kind otherwise.
* `GetOpt` is the permuting mode (no `+`, no `-`, `POSIXLY_CORRECT` unset); long
  options are not abbreviated. An argument is its number of dashes, up to two, and what follows
  them: option letters or a word, each a symbol, or a name and at most one value (`Arguments`).

## 3. Runs

| Run | Properties | Bounds |
|---|---|---|
| `sem_ping_pong` | `BodiesExclude`, `UnitNeverLost`, `DestroyedUnused`, `AlternatesStrictly` (refinement), `EveryoneFinishes` | N = 9 items as in the code; the semaphore saturates at 4, above the two units both threads can hold, so that saturated posts happen |
| `threads` | counters: `SameJobNumber`, `EveryJobCounted`, `DestroyedFree`, `CountersFinish`; condition variables: `SignalThenTake`, `WorkUnderLock`, `CondsFinish`; semaphores: `ReleasedOnce`, `TimedOutcome`, `SemsFinish` | two threads, as in the code; arguments 0 to `MaxSecs` = 5, delays before `sem_timedwait` up to `MaxDelay` = 3: alarm before, at and after the deadline |
| `local_ipc` | `AnswersFit`, `AlternatesSafely` (refinement), `NobodyHangs`, `SparedFinish` (pipe and socket); `NeverAhead`, `PacedIsExact`, `Terminates` (shared memory) | 5 rounds as in the code; at most one process of the pipe or the socket killed |
| `containers` | `MemorySafe`, `OrderIsSound`, `ImplementsSpec` (refinement); `WellFormed`, `StaysDefined`, `ComparesText` | two vectors, two values, `size_t` of 3 bits: capacities 1, 2, 4, sizes up to 7, so that growing, not growing, and the loop that never ends all happen; or two strings, two characters, up to 3 of them, `size_t` of 4 bits: room for a copy with unwritten bytes behind an inner NUL, for appending to itself, and for `pos + len` to wrap |
| `tools` | `DoesWhatIsMeant`, `DigitsReported`, `ListedExisted`, `ListsAll` | up to three arguments behind the first (a word, an option and a value in any order, clusters, `--`, unknown options); a tree of two levels in which a folder's name exists both below the path and in the working directory; one interference |
| `servers` | `SavedIsPrefix`, `CompleteIfSpared`, `DiesOnlyOfLeavers`, `FewLost`, `TransferServes`, `RightServed`, `LateReaderServed` | transfer: two clients, files of 1 and 3 units with blocks of 2 (a short last block, one name a beginning of the other, one missing), one of a client, the server or nobody killed; fork: three clients, descriptors up to 6, every value of `connect_fd` in and out of that range, 2 children; FIFO: none |

Six runs are expected to find a violation, each of what a comment, a test or a usage
text of the repository says:

| Run | Violated | What the code does |
|---|---|---|
| `shared_memory_increases` | `CounterIncreases` | both processes read one message, and both announce "Increase the counter" with the same value |
| `strings_readable` | `ConstructedReadable` | `string(s, n)` and `string(n, c)` write no terminator; `test_string.cpp` prints such strings |
| `strings_inside` | `StaysInside` | `+=` and `+` with a character take `&c` for a C string and write out of the new block (`test_string.cpp:58` and `:123` do that); a substring without `len` reads behind the string |
| `c_strings_compare` | `CStringsCompare` | a C string on the left of its own text is both less and greater, and neither `<=` nor `>=` |
| `name_asked` | `NameAsked` | `test1` of `sample_getopt.cpp` takes the number that selected it for the name its usage asks for, and never misses one |
| `lists_inside` | `ListsInside` | below any directory but the working directory the files inside folders are not listed |

What they show:

* `sem_ping_pong`: `s1` is no lock (both threads may be past `sem_wait`), and the
  program is right all the same: `cnt` carries the turn. No unit is lost when
  posts fail at the maximum.
* `threads`, condition variables: `cond1` is right to signal before it increments, because the
  mutex is held over both. In `cond` the signal can be lost. A long
  sleep makes that unlikely but does not exclude it: a spurious wake-up between
  the end of the sleep and the signal is enough, which is why `punctual` excludes
  that one too.
* `threads`, counters: the mutex and a semaphore of value 1 do the same for the counter;
  when a creation fails main simply returns, and nobody is waited for.
* `threads`, semaphores: a timed wait that is interrupted is called again with the same
  deadline, and the alarm wins exactly if it comes no later than the deadline
  (either may win when they are equal, and if the process is kept from running).
* `local_ipc`, shared memory: without pacing a process may find no object and exit
  with 1, a message may be torn or lost, but both processes end and no counter
  runs ahead of what has been stored. A message torn so that an increment is
  repeated or lost, and an unlink that takes the name of the other's object,
  are real and violate nothing that is stated here: `NeverAhead` forbids only what
  is invented, and `PacedIsExact` speaks of the executions without such races.
* `local_ipc`, pipe and socket: end of file is taken for a message by both programs; even so an
  answer never belongs to another question, and after the two sides have met
  nobody hangs. Before that they may: the server of a client whose `connect` was
  refused stays in `accept` for ever, and a process killed before the FIFOs are
  open leaves the other one in `open`.
* `containers`, vectors: `reserve` called alone forgets the elements, `push_back(v[i])` may push anything
  when the vector grows, and a failed allocation makes the vector unusable:
  `VectorSpec` says so explicitly. Blocks have no identity in the model, so that
  `MemorySafe` is about bounds and about blocks lost or deleted twice: the deleted block
  `push_back(v[i])` reads is the arbitrary value, not an error. The loop that never
  ends for a size above half of `size_t` is a stutter of `VectorSpec`.
  `operator<` answers true only where the first difference or the length says so,
  but it misses pairs: `{1, 2}` and `{2, 1}` are not less than each other, so that
  `{2, 1} <= {1, 2}` is true. `OrderIsSound` is about `operator<` alone.
* `containers`, strings: only these calls make the content of a string unknown: the two
  constructors that write no terminator, a NUL written inside, a character
  written over the terminator, `s = s`, `s = s.c_str()`, `+=` and `+` with a
  character (`&c` is taken for a C string), and a substring whose `pos + len` wraps (the
  default `len` is `npos`, so any `pos > 0` without `len`). Everything built from other strings is faithful.
  `StaysDefined` looks at what is known BEFORE a call: of the calls on known strings only
  the last four kinds (`s = s`, `s = s.c_str()`, a character on the right, a length that
  wraps) leave a block, and they are named. `strings_inside` shows the two of them the tests
  or the declared defaults use.
  `ComparesText` covers a string on the left, and a C string on the left of a
  different text; of equal texts with a C string on the left it says nothing, because there
  the operators contradict their names (`c_strings_compare`).

* `tools`: because getopt permutes argv lazily, `this_option_optind` of
  `sample_getopt_long.cpp:14` may stand before a word, and "digits occur in two
  different argv elements." (:52) is then printed for `x -12`, one element; the
  warning is never missing. `DoesWhatIsMeant` is about options, values and words;
  it does not say which word is the name: `sample_getopt.cpp:34` prints the number of the
  test as the name, so that "Expected argument after options" (:30) cannot appear
  (`name_asked`). The branch for `create` in `sample_getopt_long.cpp:41` cannot be
  reached either, since that option's value is 'c'.
* `tools`, traversal: what is listed was there. `opendir` may fail at any time, for a
  directory that exists as well (no permission, no descriptors left): the program
  then goes on silently with an empty list, which no property forbids. `ListsAll`
  is about executions without interference and without such a refusal
  (`Undisturbed`): types 1 and 2 list exactly the files, or the folders, of the directory;
  type 0 misses none of its files and, in the working directory, none of the files of its
  folders. For any other directory it does: `GetListFilesR` opens the folders
  relative to the working directory (:86), and the files inside are missing, or are
  those of a folder of the same name somewhere else (`lists_inside`). `ListedExisted`
  says "was there" of the place where the program has looked. Also, the filter is applied to
  the names of folders (:83), and type 0 lists no directories although `Usage` (:15) says so.
* `servers`, transfer: whatever is lost, a client holds a beginning of one file.
  But it prints "Finished" (`test_client2.cpp:97`) over a truncated file when the
  server has died, and over an empty or cut one when the connection was reset or
  the name was not found. The server that "always has to run"
  (`test_server2.cpp:46`) dies of SIGPIPE when a client leaves before the end of
  its file: `DiesOnlyOfLeavers` says of nothing else. A request that arrives in
  pieces can be answered with another file, whose name is the first piece.
* `servers`, fork: with `connect_fd` garbage the server works nevertheless, if the
  value is a descriptor: every accept takes the lowest free one, so that a
  few clients are lost (connected, never answered) until one gets that very
  descriptor, and all later ones get it too, because the loop closes it. If the value
  is the listening socket the server closes it in its first turn and then spins; if it is no
  descriptor nobody is served. Once the limit of children is reached a client
  gets nothing, but is not kept waiting.
* `servers`, FIFO: a reader that opens the name before the writer's `unlink`
  waits for ever on a FIFO without a name, and the writer with it.

Deadlock is checked in `sem_ping_pong` only, where the end of the program is a
step of its own; elsewhere programs end, or really hang, and the
liveness properties say when they may.

### Fairness

Weak fairness of each thread or process: the kernel schedules what is
runnable. In `SemPingPong` a waiting thread meets a semaphore that, by
`UnitNeverLost`, does not stay at 0, and that the other thread keeps posting. Locks are taken by each runner once,
so that weak fairness is enough in `LockedCounter`. In the condition-variable modules spurious
wake-ups may come again and again and take the mutex for a moment each time;
strong fairness of `Inc` (and of `Main` in `CondFlag`, for the executions called
punctual) says that they do not starve the other thread. Spurious wake-ups, kills and
failures are never required to happen. Time goes on in `SemTimedWait` up to
the last alarm and deadline. In `FileTransfer` and `ForkServer` nothing obliges a user to type:
`TransferServes` and `RightServed` assume it (`UsersType`), because a single client
left at its prompt blocks the server for all. In `FifoPair` both programs are
started, at any time. Where an execution runs one program of several (`program`), the
fairness is that of the program that runs: each action is guarded by it. `Traversal` and `Options` are checked for safety only.

## 4. Theorems

TLAPS checks every proof for all values of the constants. A proof module extends
the module whose run checks the same formula; theorems about the module whose
names are used as they are start from its own specification (`SafeSpec`, `Spec`),
the others from that of the MC module.

* `SemPingPong_proofs`: types, `BodiesExclude`, `UnitNeverLost`, `DestroyedUnused`,
  and the refinement of `Alternation` (safety part), for any number of items and any
  maximum of the semaphore. `BodiesExclude` is not inductive: the invariant says that a
  thread is in its body only while `cnt` grants it the turn (`TurnHeld`), how the two
  indices differ (`Lag`), that a printing thread has items left (`ItemsLeft`) and what
  main knows of the threads (`MainKnows`).
* `Mutexes_proofs`, counters: types, `SameJobNumber`, `EveryJobCounted` and
  `DestroyedFree` for any finite set of threads, in both programs. The invariant counts:
  the counter is the cardinality of the set of runners past their write
  (`CounterExact`), the value read is still the counter when it is written
  (`ReadIsFresh`), announced numbers differ and are below any number still to be
  announced (`NumbersDiffer`).
* `Mutexes_proofs`, condition variables: `SignalThenTake` and `WorkUnderLock`. Both
  invariants relate positions to the owner of the mutex (`CLockHeld`, `FLockHeld`);
  without that the waiting thread could test in the middle of the signalling one. The
  counter follows from what has been added and taken (`CounterFollows`); the flag that
  `dec` has seen stays set because only `dec` clears it (`FlagStays`), although main
  writes it without the mutex.
* `Semaphores_proofs`: `ReleasedOnce` and `TimedOutcome`. Rendezvous:
  `sem_mutex` is a lock (`MutexHeld`), `g_Flag` names a thread that has written
  (`FlagWritten`), and the post has happened exactly when both are beyond their test
  (`PostedOnce`). Timed wait, for all arguments and delays: the alarm goes off once and
  only then is there a unit (`AlarmOnce`), nobody is blocked while there is one
  (`BlockedEmpty`), and for a process that runs as soon as it can the clock passes
  neither the alarm nor the deadline (`OnTime`).
* `SharedMemory_proofs`: `NeverAhead` for any number of rounds and any
  interleaving: counter and stores grow together, with one increment pending between
  `++value` and its store. `PacedIsExact` for paced executions: the parent is level with the
  child or one round ahead (`Orderly`), until it is unlinked the named object holds the
  number of messages so far, signed by the process whose turn it is not
  (`Ready`), and what a process carries through the middle of its round is that number
  (`Halfway`).
* `LocalIpc_proofs`: `AnswersFit` for both pairs and `AlternatesSafely` (the safety
  specification of `Alternation`, implemented by `NamedPipe`), for any number of rounds,
  whoever is killed. The two processes enter their loops in one step
  (`EnterTogether`); then the parent is level with the child or one letter ahead, and goes on
  without an answer only if the child is dead (`InStep`); a message under way
  is the last letter or its answer (`UnderWay`). After an end of file the child may hold
  a stale letter, but then there is nobody left to write it to (`ChildHolds`).
* `Containers_proofs`, operators: for all sequences of numbers `operator<` of vectors is
  irreflexive, asymmetric and implies the order of the first difference, so
  that of two vectors one is `<=` the other; for all pairs of numbers `operator<` is that
  order; the operators of strings are that order for all texts with a string on the left, and
  for all pairs of different texts with a C string on the left. The first difference exists because
  every non-empty set of natural numbers has a least member. `OrderIsSound` and
  `ComparesText` follow for all contents a program can build.
* `Containers_proofs`, vectors: `MemorySafe` and the refinement of `VectorSpec`
  (`ImplementsSpec`, which has no fairness and is proved whole) for any set of vectors,
  any values and any width of `size_t`. Each member of the class has a lemma (`...Keeps`): it
  keeps `MemInv` (a vector no allocation has failed for has its elements in a block of
  its capacity; only a throw leaves a freed block) and is a step of `VectorSpec`, or a stutter, on the
  contents. `CapacityEnough` is the fact about the doubling loop: what it yields is
  a power of two, holds the elements, and fits into `size_t`.
* `Containers_proofs`, strings: `WellFormed` and `StaysDefined` for any strings, bytes
  and lengths, by `StrInv`: the block of a string is a sequence of bytes,
  and as long as its value is known, the characters of that value and one
  NUL. `StaysDefined` follows because only a call on a block without a NUL, or one of
  the four excepted calls, can leave a block. `TextInside` and `TextOfKnown` say where a C string function stops in
  such a block; one lemma per constructor, operator and member follows from them.
* `Servers_proofs`, transfer: types, `DiesOnlyOfLeavers`, `SavedIsPrefix` and
  `CompleteIfSpared` for any clients, files, block and window sizes, any way TCP
  cuts the streams. `QInv` says who is connected: the client served and those
  in the queue differ and have open connections (`Queue`), and what has been read
  of a request belongs to the name typed (`NamesFit`). `SInv` follows the stream:
  what is saved is a beginning of the file (`Kept`), what is on its way continues
  it (`Coming`), and both together are as long as what `fread` has returned, or, once the
  server has closed, as the file (`InStep`). None of the three is inductive without
  the others: a client's next block is right only because nothing before it was lost.
* `Servers_proofs`, fork: `OnceRightAlwaysRight` and `FewLost` for any number of clients,
  descriptors and children, whatever `connect_fd` holds. The descriptors below
  `connect_fd` fill up one by one and are never freed (`LowestWhenLucky`, `LostBelow`);
  `FewLost` counts the lost clients with an injection into them. What clients have been told
  needs the queue (`Line`) and the children (`Greeters`, `Told`) as well.
* `Tools_proofs`, traversal: `ListedExisted` for any tree, filter and number of
  interferences, `ListsAll` for any tree and filter, undisturbed. `EInv` carries what was there: whatever is still to be read, and every
  folder found, has been in the tree (`SeenExisted`), and so has every item of the list
  (`ItemsExisted`). `Exact` says of an undisturbed tree that the list is
  what it should be less what readdir still owes (`SoFar`, `Pending`), without repetition.
* `Tools_proofs`, options: `DoesWhatIsMeant` and `DigitsReported` for every command line
  of any length (`Lines`). The reading from left to right is a function defined by
  recursion over the places of the line; that it exists, and obeys its defining
  equation everywhere, is proved first, by the least place where it could fail
  (`ReadingFacts`). Then one call of getopt is compared with it. `ScanOK` says what the
  permutation leaves: the words skipped stand together (`Ordered`), and what is not yet
  scanned stands as it was typed (`Untouched`). `CallFacts` says that a call
  finds exactly the option read next, or that only words are left, and in both cases
  the words skipped and the words to come are together those to come before. The programs'
  invariant (`Progress`) follows: the options handled, then those left, are the
  options meant; the words passed over, then those left, are the words meant. Neither is
  inductive without where getopt stands in the group of letters it is in (`LetterAt`). For the digits,
  `LastDigit` says what the last digit's argument and `digit_optind` have to do with the
  next place scanned.

Assumptions, all evaluated by the runs: `N`, `SemMax`, `Rounds` and the widths of `size_t`
are positive; `Tids` is finite and has no member called "main"; time bounds are numbers
(`BoundsAssumption`); in `FileTransfer` a block fits into the window, a name is a
piece of itself and no piece is empty; `ForkServer` has finitely many
clients, none called "free", "std" or "listener", and `connect_fd` is a number
(`ForkAssumption`); vectors hold numbers, at least
one, and what stands for arbitrary or lost contents is none of them
(`ConstantsAssumption`, `ValuesAssumption`); the characters are positive numbers, as NUL is 0, and the
lengths of two of the longest strings together fit into `size_t`, as they do in any
memory (`StringsAssumption`); in `Traversal` an entry has a directory above it and no name is
"." or ".." (`KindsAssumption`). `LinesAssumption` is no hypothesis: it says that the
command lines TLC tries are among those of the theorems.

Only model-checked: liveness (TLAPS does not prove it here), and with it
`AlternatesStrictly` as a whole, `FifoPair`, whose one
property is liveness, and `NobodyHangs` and the other properties of termination. Every invariant and
every safety property the runs check is stated by a theorem.
Type invariants that are proved are not checked again as properties of their own.

## 5. Not modelled

* `test_create_thread.cpp`, `test_thread_bind_to_cpu_core.cpp`: threads that share
  nothing, and one call that sets an affinity mask.
* `test_pipe1` to `test_pipe3`, `test_fork1` to `test_fork4`: a parent and a child
  that exchange one text, or print and are waited for. fork1's two lines come in
  either order, and nothing in the code depends on it.
* `test_signal1` to `test_signal5`: handlers that print. (`test_signal3` waits for two
  signals with two `pause()` calls; one that arrives between them is not counted.)
  Where a handler races with the program for a result, `SemTimedWait` models it.
* `test_server1`, `3` to `7` and their clients: one message each way, without the
  loops and the shared descriptors of `server2` and `server8`.
* `Samples_Hook`: `malloc_hook` needs hooks that glibc 2.34 has removed; `ld_preload`
  and `wrap` replace a symbol when the program is linked or loaded.
* Language and build demonstrations (`Samples_C`, `Samples_CMake` with its MFC
  dialog, `Samples_Make`, `Samples_Conan`, `Samples_Dynamic_Library`, `Samples_AWK`,
  `Samples_Shell`, the rest of `Samples_Cplusplus`): no state that outlives a call, no
  protocol.
* In the modelled parts: in `FbcString` writes behind the terminator and the
  number of lost blocks, in `Vector` and `Relational` element types other than numbers.
