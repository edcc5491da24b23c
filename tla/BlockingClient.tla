--------------------------- MODULE BlockingClient ---------------------------
(***************************************************************************)
(* The blocking client of quik/quik_client.rs: threads call send_data and  *)
(* send_data_batch, which wait for the send, or send_data_async and        *)
(* send_data_batch_async, which take a permit, spawn a task and return.    *)
(*                                                                         *)
(* The permits are AsyncTaskSemaphore; the send a task or a thread awaits  *)
(* is BatchSend, which QuicClient implements.  This module adds the tasks  *)
(* themselves: their timeout, the permit they give back, and the panic     *)
(* with which they do not.                                                 *)
(***************************************************************************)
EXTENDS AsyncTaskSemaphore

CONSTANTS
  Tasks,        \* room for the tasks of the runtime
  Connection,   \* of BatchSend
  Batches       \* of BatchSend: what may be sent

ASSUME TasksAssumption == IsFiniteSet(Tasks) /\ Tasks \cap Callers = {}

VARIABLES
  task,                   \* where each task is
  outcome, batch, wire    \* the send of each task and of each blocked thread

sends == <<outcome, batch, wire>>
clientVars == <<vars, task, sends>>

Send == INSTANCE BatchSend WITH Sender <- Tasks \cup Callers

\* "free": not spawned.  "sending": in timeout(..).await.  "over": the send is
\* over and the permit not given back yet.  "dead": the task panicked.
ClientInit ==
  /\ Init
  /\ Send!Init
  /\ task = [t \in Tasks |-> "free"]

TaskGoes(t, from, to) ==
  /\ task[t] = from
  /\ task' = [task EXCEPT ![t] = to]

-----------------------------------------------------------------------------

\* send_data_async and send_data_batch_async: wait for a permit; with it, spawn
\* the task before the guard is dropped.
SendAsync(c) ==
  /\ outcome[c] # "running"
  /\ acquire(c) \/ Retest(c)
  /\ \/ /\ running' = running
        /\ UNCHANGED <<task, sends>>
     \/ /\ running' = running + 1
        /\ \E t \in Tasks, b \in Batches : TaskGoes(t, "free", "sending") /\ Send!Start(t, b)

Wakes(c) == SpuriousWakeup(c) /\ UNCHANGED <<task, sends>>

\* The send of a task goes on, or ends.
Sends(t) ==
  /\ task[t] = "sending"
  /\ Send!Ends(t)
  /\ UNCHANGED <<vars, task>>

\* timeout(..).await has the result.
Answered(t) ==
  /\ outcome[t] # "running"
  /\ TaskGoes(t, "sending", "over")
  /\ UNCHANGED <<vars, sends>>

\* Mutant: the send that timed out goes on in the background.
TimesOut_KeepsSending(t) ==
  /\ outcome[t] = "running"
  /\ TaskGoes(t, "sending", "over")
  /\ UNCHANGED <<vars, sends>>

\* SEND_DATA_TIMEOUT, for a batch once per buffer: the send is dropped.
TimesOut(t) ==
  /\ TaskGoes(t, "sending", "over")
  /\ Send!Fail(t)
  /\ UNCHANGED vars

\* Mutant: the permit is given back when the send is dropped and again at the end.
Release_Twice(t) ==
  /\ TaskGoes(t, "over", "over")
  /\ release
  /\ UNCHANGED sends

\* ASYNC_TASK_SEMAPHORE.release(), and the end of the task.
Release(t) ==
  /\ TaskGoes(t, "over", "free")
  /\ release
  /\ Send!Forget({t})

\* Mutant: a panic lowers the count, and wakes nobody.
Panics_Decrements(t) ==
  /\ TaskGoes(t, "sending", "dead")
  /\ wire[t] = <<>>
  /\ Send!Fail(t)
  /\ counter' = counter - 1
  /\ running' = running - 1
  /\ UNCHANGED <<waiting, woken>>

\* No port is left for the endpoint, and an expect in create_endpoint panics
\* while the task connects: the runtime drops the task, release is not called.
Panics(t) ==
  /\ TaskGoes(t, "sending", "dead")
  /\ wire[t] = <<>>
  /\ Send!Fail(t)
  /\ UNCHANGED vars

TaskStep(t) == Sends(t) \/ Answered(t) \/ TimesOut(t) \/ Release(t)

\* send_data and send_data_batch: the thread itself waits, without a permit and
\* without a timeout.
SendBlocking(c) ==
  /\ c \notin waiting \cup woken
  /\ \E b \in Batches : Send!Start(c, b)
  /\ UNCHANGED <<vars, task>>

Blocked(c) == Send!Ends(c) /\ UNCHANGED <<vars, task>>

ClientNext ==
  \/ \E c \in Callers : SendAsync(c) \/ Wakes(c) \/ SendBlocking(c) \/ Blocked(c)
  \/ \E t \in Tasks : TaskStep(t) \/ Panics(t)

ClientSpec == ClientInit /\ [][ClientNext]_clientVars

\* A task is polled to its end, which its timeout brings about, and a woken
\* thread gets the mutex.
FairClientSpec ==
  /\ ClientSpec
  /\ \A t \in Tasks : WF_clientVars(TaskStep(t))
  /\ \A c \in Callers : WF_clientVars(SendAsync(c) /\ c \in woken)

-----------------------------------------------------------------------------
(* Properties.                                                             *)

Spawned == {t \in Tasks : task[t] # "free"}

\* The types, and the number of tasks the semaphore is told of.
ClientTypeOK ==
  /\ TypeOK
  /\ task \in [Tasks -> {"free", "sending", "over", "dead"}]
  /\ outcome \in [Tasks \cup Callers -> {"none", "running", "ok", "failed"}]
  /\ running = Cardinality(Spawned)

\* At most MAX_OUTSTANDING_TASK spawned sends are in progress, timeouts and
\* panics included: no send outlives the permit it was started with.
SpawnedSendsBounded == Cardinality({t \in Tasks : outcome[t] = "running"}) <= Permits

\* The permits that are out are those of the tasks that have not ended, the
\* panicked ones included, and of the callers in the wait loop: no task gives
\* its permit back twice, or gives back one it has not got, and none but a
\* panicked task keeps one for good.
PermitsConserved == counter = Cardinality(Spawned) + Cardinality(waiting \cup woken)

Dead   == {t \in Tasks : task[t] = "dead"}
Living == Spawned \ Dead

\* While callers sleep and none has been woken, there are tasks that will wake
\* one of them, at least as many as the permits exceed the callers and the
\* panicked tasks by, and one more.  So nobody is stranded until the callers and
\* the panicked tasks together outnumber the permits.
NobodyStranded ==
  waiting # {} /\ woken = {} =>
    Cardinality(Living) >= Permits - Cardinality(Callers) - Cardinality(Dead) + 1

NobodyDies == [](\A t \in Tasks : task[t] # "dead")

\* As long as no task panics, the permits come back, those of sends that timed
\* out too, and whoever waits is served ("After the task is done, be it success
\* or failure, call release").  This is so with no more callers than permits
\* only: see WaitersDrain for more.  A panic takes a permit for good.
PermitsReturn == NobodyDies /\ <>[][~Arrival]_clientVars => <>[](counter = 0)

=============================================================================
