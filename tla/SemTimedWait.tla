---------------------------- MODULE SemTimedWait ----------------------------
(***************************************************************************)
(* Samples_Multi_thread/test_thread_sem1.cpp <alarm-secs> <wait-secs>: a   *)
(* SIGALRM handler posts a semaphore that main waits for until a deadline, *)
(* calling sem_timedwait again when the handler has interrupted it.        *)
(*                                                                         *)
(* Time is counted in seconds.  prompt says whether in this execution the  *)
(* process runs as soon as it can; otherwise it may be kept from running   *)
(* for any time, and the deadline can pass before a signal that was due    *)
(* earlier is handled.                                                     *)
(***************************************************************************)
EXTENDS Integers

CONSTANTS
  MaxSecs,   \* bound of the two arguments
  MaxDelay   \* bound of the time main is kept from calling sem_timedwait

\* Both are seconds; the module that instantiates this one assumes it.
BoundsAssumption == MaxSecs \in Nat /\ MaxDelay \in Nat

VARIABLES
  alarm_secs, wait_secs,  \* the two arguments
  now,                    \* the clock
  alarm_at,               \* when SIGALRM is due, or Never
  deadline,               \* the absolute time given to sem_timedwait
  sem,                    \* the value of the semaphore
  at,                     \* where main stands
  prompt                  \* whether main runs as soon as it can

vars == <<alarm_secs, wait_secs, now, alarm_at, deadline, sem, at, prompt>>

Args == 0 .. MaxSecs

\* Bound of the clock: no alarm and no deadline is later.
MaxTime == MaxDelay + MaxSecs
Never == -1

Steps == {"setup", "alarm", "gettime", "call", "blocked",
          "succeeded", "timed_out", "interrupted", "failed"}

Exited == at \in {"succeeded", "timed_out", "interrupted", "failed"}

Init ==
  /\ alarm_secs \in Args
  /\ wait_secs \in Args
  /\ now = 0
  /\ alarm_at = Never
  /\ deadline = 0
  /\ sem = 0
  /\ at = "setup"
  /\ prompt \in BOOLEAN

Due == alarm_at # Never /\ alarm_at <= now
Expired == deadline <= now
-----------------------------------------------------------------------------
(* Plausible bug: no loop around sem_timedwait, EINTR is taken for an error. *)
AfterHandlerNoRestart == IF at = "blocked" THEN "interrupted" ELSE at
-----------------------------------------------------------------------------
\* sem_init and sigaction, or a wrong number of arguments and exit.
Setup ==
  /\ at = "setup"
  /\ at' \in {"alarm", "failed"}
  /\ UNCHANGED <<alarm_secs, wait_secs, now, alarm_at, deadline, sem, prompt>>

\* alarm(0) sets no alarm.
SetAlarm ==
  /\ at = "alarm"
  /\ at' = "gettime"
  /\ alarm_at' = IF alarm_secs = 0 THEN Never ELSE now + alarm_secs
  /\ UNCHANGED <<alarm_secs, wait_secs, now, deadline, sem, prompt>>

GetTime ==
  /\ at = "gettime"
  /\ at' = "call"
  /\ deadline' = now + wait_secs
  /\ UNCHANGED <<alarm_secs, wait_secs, now, alarm_at, sem, prompt>>

\* sem_timedwait takes a unit if there is one, even after the deadline.
Call ==
  /\ at = "call"
  /\ at' = IF sem > 0 THEN "succeeded" ELSE IF Expired THEN "timed_out" ELSE "blocked"
  /\ sem' = IF sem > 0 THEN sem - 1 ELSE sem
  /\ UNCHANGED <<alarm_secs, wait_secs, now, alarm_at, deadline, prompt>>

\* The deadline passes inside sem_timedwait.  The kernel looks at it before it
\* looks at a signal that has become due in the meantime.
TimeOut ==
  /\ at = "blocked"
  /\ Expired
  /\ at' = "timed_out"
  /\ UNCHANGED <<alarm_secs, wait_secs, now, alarm_at, deadline, sem, prompt>>

\* The handler posts; a wait it interrupts is called again (EINTR).
AfterHandler == IF at = "blocked" THEN "call" ELSE at

Handler ==
  /\ ~Exited
  /\ Due
  /\ alarm_at' = Never
  /\ sem' = sem + 1
  /\ at' = AfterHandler
  /\ UNCHANGED <<alarm_secs, wait_secs, now, deadline, prompt>>

\* Whether main could run now.
Runnable == ~Exited /\ (at # "blocked" \/ Expired \/ Due)

Tick ==
  /\ now < IF at \in {"setup", "alarm", "gettime"} THEN MaxDelay ELSE MaxTime
  /\ prompt => ~Runnable
  /\ now' = now + 1
  /\ UNCHANGED <<alarm_secs, wait_secs, alarm_at, deadline, sem, at, prompt>>

MainStep == Setup \/ SetAlarm \/ GetTime \/ Call \/ TimeOut \/ Handler

Next == MainStep \/ Tick

\* The process runs eventually and time goes on.
Fairness == WF_vars(MainStep) /\ WF_vars(Tick)

Spec == Init /\ [][Next]_vars /\ Fairness
-----------------------------------------------------------------------------
TypeOK ==
  /\ alarm_secs \in Args /\ wait_secs \in Args
  /\ now \in 0 .. MaxTime
  /\ alarm_at \in {Never} \cup Nat
  /\ deadline \in Nat
  /\ sem \in {0, 1}
  /\ at \in Steps
  /\ prompt \in BOOLEAN

\* The two usages at the end of the file: the alarm comes before the deadline
\* ("2 3") and main succeeds, or after it ("2 1") and main times out, whatever
\* step of main the handler interrupts; EINTR is never the result.  This needs
\* a process that is not kept from running.  Success without a post, and a
\* time-out before the deadline, are impossible in any case.
TimedOutcome ==
  /\ at # "interrupted"
  /\ at = "timed_out" => Expired
  /\ at = "succeeded" => alarm_secs # 0 /\ sem = 0 /\ alarm_secs <= now
  /\ prompt =>
       /\ at = "timed_out" => alarm_secs = 0 \/ alarm_secs >= wait_secs
       /\ at = "succeeded" => 0 < alarm_secs /\ alarm_secs <= wait_secs

\* main ends in every case.
Finishes == <>Exited
=============================================================================
