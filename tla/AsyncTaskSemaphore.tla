------------------------- MODULE AsyncTaskSemaphore -------------------------
(***************************************************************************)
(* The semaphore of quik/quik_client.rs that limits the tasks spawned by   *)
(* send_data_async and send_data_batch_async: a counter behind a           *)
(* std::sync::Mutex and a condition variable.                              *)
(*                                                                         *)
(* A caller is a thread in one of those two methods.  It holds the mutex   *)
(* from acquire until it has spawned its task, so a stay in the critical   *)
(* section is one action.  The number of tasks is not tied to the number   *)
(* of callers: a caller returns as soon as its task is spawned.            *)
(***************************************************************************)
EXTENDS Integers, FiniteSets

CONSTANTS
  Callers,   \* threads that may call at the same time
  Permits    \* MAX_OUTSTANDING_TASK = 2000

ASSUME CallersAssumption == IsFiniteSet(Callers)
ASSUME PermitsAssumption == Permits \in Nat \ {0}

VARIABLES
  counter,   \* the u64 behind the mutex
  waiting,   \* callers asleep in cond_var.wait
  woken,     \* callers that wait returned to, about to take the mutex again
  running    \* tasks spawned that have not called release

vars == <<counter, waiting, woken, running>>

Init ==
  /\ counter = 0
  /\ waiting = {}
  /\ woken = {}
  /\ running = 0

\* Mutant: one task too many passes the test.
WaitOrSpawn_OffByOne(c, count) ==
  \/ /\ count > Permits + 1
     /\ waiting' = waiting \cup {c}
     /\ UNCHANGED running
  \/ /\ count <= Permits + 1
     /\ running' = running + 1
     /\ waiting' = waiting \ {c}

\* The loop test of acquire on a count: sleep, or return and spawn the task.
WaitOrSpawn(c, count) ==
  \/ /\ count > Permits
     /\ waiting' = waiting \cup {c}
     /\ UNCHANGED running
  \/ /\ count <= Permits
     /\ running' = running + 1
     /\ waiting' = waiting \ {c}

acquire(c) ==
  /\ c \notin waiting \cup woken
  /\ counter' = counter + 1
  /\ WaitOrSpawn(c, counter + 1)
  /\ UNCHANGED woken

\* Back from cond_var.wait, with the mutex: test again.
Retest(c) ==
  /\ c \in woken
  /\ woken' = woken \ {c}
  /\ WaitOrSpawn(c, counter)
  /\ UNCHANGED counter

\* Mutant: release notifies nobody.
NotifyOne_Nobody == UNCHANGED <<waiting, woken>>

\* notify_one: some sleeping caller, if there is one.
NotifyOne ==
  \/ waiting = {} /\ UNCHANGED <<waiting, woken>>
  \/ \E c \in waiting : waiting' = waiting \ {c} /\ woken' = woken \cup {c}

\* The send of a task is over, in time or not: send_data_async calls release.
release ==
  /\ running > 0
  /\ running' = running - 1
  /\ counter' = counter - 1
  /\ NotifyOne

\* Condvar::wait may return with no notification.
SpuriousWakeup(c) ==
  /\ c \in waiting
  /\ waiting' = waiting \ {c}
  /\ woken' = woken \cup {c}
  /\ UNCHANGED <<counter, running>>

Next ==
  \/ \E c \in Callers : acquire(c) \/ Retest(c) \/ SpuriousWakeup(c)
  \/ release

Spec == Init /\ [][Next]_vars

\* Every send ends (SEND_DATA_TIMEOUT), and a woken thread gets the mutex.
\* Nothing obliges wait to return without a notification.
Fairness == WF_vars(release) /\ \A c \in Callers : WF_vars(Retest(c))

FairSpec == Spec /\ Fairness

-----------------------------------------------------------------------------
(* Properties.                                                             *)

TypeOK ==
  /\ counter \in Nat /\ running \in Nat
  /\ waiting \subseteq Callers /\ woken \subseteq Callers

\* The counter counts the outstanding tasks and the callers that wait for a
\* permit alike.  So the decrement in release never wraps the u64.
CounterCountsWaiters ==
  /\ waiting \cap woken = {}
  /\ counter = running + Cardinality(waiting \cup woken)

\* The number of outstanding tasks never exceeds the permits, whatever the
\* order in which callers arrive, wake up and are overtaken.
TasksBounded == running <= Permits

\* The semaphore implements the abstract bound: a step starts one task below
\* the limit, ends one, or is invisible to the runtime.
Bounded == INSTANCE BoundedTasks WITH outstanding <- running

ImplementsBoundedTasks == Bounded!Spec

Arrival == \E c \in Callers : acquire(c)

\* Once no thread calls any more, every caller that waits gets its permit
\* ("Before spawnning a task, use acquire.  After the task is done, be it
\* success or failure, call release").
WaitersDrain == <>[][~Arrival]_vars => <>[](waiting \cup woken = {})

=============================================================================
