------------------------------ MODULE Pthread ------------------------------
(***************************************************************************)
(* One pthread mutex and one pthread condition variable, as the samples    *)
(* use them (an external library).  A program that EXTENDS this module     *)
(* builds its steps from these operators and says itself where each of     *)
(* its threads stands.                                                     *)
(***************************************************************************)

Nobody == "nobody"  \* the owner of a free mutex

VARIABLES
  owner,   \* the thread that holds the mutex, or Nobody
  waiting  \* the threads blocked inside pthread_cond_wait

\* pthread_mutex_lock returns.
Lock(t) == owner = Nobody /\ owner' = t

\* pthread_mutex_unlock.  The library does not ask who calls it.
Unlock(t) == owner' = Nobody

\* pthread_cond_wait goes to sleep: the mutex is released in the same step.
CondSleep(t) ==
  /\ owner' = Nobody
  /\ waiting' = waiting \cup {t}

\* pthread_cond_wait returns: t has been woken and holds the mutex again.
CondResume(t) ==
  /\ t \notin waiting
  /\ Lock(t)

\* pthread_cond_signal: one of the waiters is woken; without waiters, nothing.
CondSignal ==
  IF waiting = {}
    THEN UNCHANGED waiting
    ELSE \E t \in waiting : waiting' = waiting \ {t}

\* POSIX lets pthread_cond_wait return although nobody has signalled.
SpuriousWake(t) ==
  /\ t \in waiting
  /\ waiting' = waiting \ {t}
=============================================================================
