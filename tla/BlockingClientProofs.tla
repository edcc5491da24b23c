------------------------ MODULE BlockingClientProofs ------------------------
(***************************************************************************)
(* Proofs about AsyncTaskSemaphore and the BlockingClient on top of it,    *)
(* for any finite sets of callers and tasks, any positive number of        *)
(* permits and any batches.                                                *)
(*                                                                         *)
(* The semaphore: the inductive invariant is that the counter is the       *)
(* number of tasks plus the number of callers in the wait loop.  The bound *)
(* on the tasks follows from it at the only place where a task is spawned: *)
(* the count tested there already includes the caller that spawns.         *)
(*                                                                         *)
(* Every step of the client is a step of its semaphore or leaves it alone, *)
(* so what is shown of the semaphore holds of the client.  With it: no     *)
(* send outlives its permit, and who sleeps is woken by a living task as   *)
(* long as callers and panicked tasks do not outnumber the permits.        *)
(***************************************************************************)
EXTENDS BlockingClient, FiniteSetTheorems, TLAPS

-----------------------------------------------------------------------------
(* The semaphore.                                                          *)

InLoop == waiting \cup woken

Inv == TypeOK /\ CounterCountsWaiters /\ TasksBounded

\* The callers in the wait loop can be counted.
LEMMA LoopIsFinite ==
  ASSUME TypeOK
  PROVE  /\ IsFiniteSet(InLoop)
         /\ Cardinality(InLoop) \in Nat
         /\ \A c : c \notin InLoop => Cardinality(InLoop \cup {c}) = Cardinality(InLoop) + 1
         /\ \A c \in InLoop : /\ Cardinality(InLoop \ {c}) = Cardinality(InLoop) - 1
                              /\ Cardinality(InLoop) > 0
<1>1. InLoop \subseteq Callers
  BY DEF TypeOK, InLoop
<1>2. IsFiniteSet(InLoop)
  BY <1>1, FS_Subset, CallersAssumption
<1>3. Cardinality(InLoop) \in Nat
  BY <1>2, FS_CardinalityType
<1>4. \A c : c \notin InLoop => Cardinality(InLoop \cup {c}) = Cardinality(InLoop) + 1
  BY <1>2, FS_AddElement
<1>5. ASSUME NEW c \in InLoop
      PROVE  /\ Cardinality(InLoop \ {c}) = Cardinality(InLoop) - 1
             /\ Cardinality(InLoop) > 0
  <2>1. Cardinality(InLoop \ {c}) = Cardinality(InLoop) - 1
    BY <1>2, FS_RemoveElement
  <2>2. Cardinality(InLoop) # 0
    BY <1>2, FS_EmptySet
  <2> QED
    BY <2>1, <2>2, <1>3
<1> QED
  BY <1>2, <1>3, <1>4, <1>5

\* No caller and no task at first.
LEMMA InitInv == Init => Inv
<1> SUFFICES ASSUME Init PROVE Inv
  OBVIOUS
<1>1. TypeOK
  BY DEF Init, TypeOK
<1>2. Cardinality(waiting \cup woken) = 0
  BY FS_EmptySet DEF Init
<1>3. CounterCountsWaiters
  BY <1>2 DEF Init, CounterCountsWaiters
<1>4. TasksBounded
  BY PermitsAssumption DEF Init, TasksBounded
<1> QED
  BY <1>1, <1>3, <1>4 DEF Inv

\* Every step keeps the count exact and the tasks within the permits.
LEMMA NextInv == Inv /\ [Next]_vars => Inv'
<1> SUFFICES ASSUME Inv, [Next]_vars PROVE Inv'
  OBVIOUS
<1> USE PermitsAssumption
<1>0. /\ counter \in Nat /\ running \in Nat /\ running <= Permits
      /\ waiting \subseteq Callers /\ woken \subseteq Callers
      /\ waiting \cap woken = {}
      /\ counter = running + Cardinality(InLoop)
  BY DEF Inv, TypeOK, CounterCountsWaiters, TasksBounded, InLoop
<1>1. /\ Cardinality(InLoop) \in Nat
      /\ \A c : c \notin InLoop => Cardinality(InLoop \cup {c}) = Cardinality(InLoop) + 1
      /\ \A c \in InLoop : Cardinality(InLoop \ {c}) = Cardinality(InLoop) - 1
      /\ \A c \in InLoop : Cardinality(InLoop) > 0
  BY LoopIsFinite DEF Inv
<1>2. ASSUME NEW c \in Callers, acquire(c) PROVE Inv'
  <2>1. c \notin InLoop /\ counter' = counter + 1 /\ woken' = woken
    BY <1>2 DEF acquire, InLoop
  <2>2. CASE counter + 1 > Permits /\ waiting' = waiting \cup {c} /\ running' = running
    <3>1. InLoop' = InLoop \cup {c}
      BY <2>1, <2>2 DEF InLoop
    <3>2. Cardinality(InLoop') = Cardinality(InLoop) + 1
      BY <3>1, <2>1, <1>1
    <3>3. waiting' \cap woken' = {} /\ waiting' \subseteq Callers /\ woken' \subseteq Callers
      BY <2>1, <2>2, <1>0 DEF InLoop
    <3> QED
      BY <3>2, <3>3, <2>1, <2>2, <1>0, <1>1
      DEF Inv, TypeOK, CounterCountsWaiters, TasksBounded, InLoop
  <2>3. CASE counter + 1 <= Permits /\ running' = running + 1 /\ waiting' = waiting \ {c}
    <3>1. waiting' = waiting /\ InLoop' = InLoop
      BY <2>1, <2>3 DEF InLoop
    <3> QED
      BY <3>1, <2>1, <2>3, <1>0, <1>1
      DEF Inv, TypeOK, CounterCountsWaiters, TasksBounded, InLoop
  <2> QED
    BY <1>2, <2>2, <2>3 DEF acquire, WaitOrSpawn
<1>3. ASSUME NEW c \in Callers, Retest(c) PROVE Inv'
  <2>1. c \in InLoop /\ c \in woken /\ c \notin waiting /\ counter' = counter /\ woken' = woken \ {c}
    BY <1>3, <1>0 DEF Retest, InLoop
  <2>2. CASE counter > Permits /\ waiting' = waiting \cup {c} /\ running' = running
    <3>1. InLoop' = InLoop
      BY <2>1, <2>2 DEF InLoop
    <3>2. waiting' \cap woken' = {} /\ waiting' \subseteq Callers /\ woken' \subseteq Callers
      BY <2>1, <2>2, <1>0
    <3> QED
      BY <3>1, <3>2, <2>1, <2>2, <1>0, <1>1
      DEF Inv, TypeOK, CounterCountsWaiters, TasksBounded, InLoop
  <2>3. CASE counter <= Permits /\ running' = running + 1 /\ waiting' = waiting \ {c}
    <3>1. waiting' = waiting /\ InLoop' = InLoop \ {c}
      BY <2>1, <2>3 DEF InLoop
    <3>2. Cardinality(InLoop') = Cardinality(InLoop) - 1 /\ Cardinality(InLoop) > 0
      BY <3>1, <2>1, <1>1
    <3>3. waiting' \cap woken' = {} /\ waiting' \subseteq Callers /\ woken' \subseteq Callers
      BY <3>1, <2>1, <1>0
    <3> QED
      BY <3>2, <3>3, <2>1, <2>3, <1>0, <1>1
      DEF Inv, TypeOK, CounterCountsWaiters, TasksBounded, InLoop
  <2> QED
    BY <1>3, <2>2, <2>3 DEF Retest, WaitOrSpawn
<1>4. ASSUME release PROVE Inv'
  <2>1. running > 0 /\ running' = running - 1 /\ counter' = counter - 1
    BY <1>4 DEF release
  <2>2. /\ InLoop' = InLoop /\ waiting' \cap woken' = {}
        /\ waiting' \subseteq Callers /\ woken' \subseteq Callers
    BY <1>4, <1>0 DEF release, NotifyOne, InLoop
  <2>3. Cardinality(InLoop') = Cardinality(InLoop)
    BY <2>2
  <2>4. counter' = running' + Cardinality(InLoop') /\ counter' \in Nat /\ running' \in Nat
    BY <2>1, <2>3, <1>0, <1>1
  <2>5. running' <= Permits
    BY <2>1, <1>0
  <2> QED
    BY <2>2, <2>4, <2>5 DEF Inv, TypeOK, CounterCountsWaiters, TasksBounded, InLoop
<1>5. ASSUME NEW c \in Callers, SpuriousWakeup(c) PROVE Inv'
  <2>1. /\ InLoop' = InLoop /\ waiting' \cap woken' = {}
        /\ waiting' \subseteq Callers /\ woken' \subseteq Callers
        /\ counter' = counter /\ running' = running
    BY <1>5, <1>0 DEF SpuriousWakeup, InLoop
  <2> QED
    BY <2>1, <1>0, <1>1
    DEF Inv, TypeOK, CounterCountsWaiters, TasksBounded, InLoop
<1>6. CASE UNCHANGED vars
  BY <1>6, <1>0, <1>1
  DEF vars, Inv, TypeOK, CounterCountsWaiters, TasksBounded, InLoop
<1> QED
  BY <1>2, <1>3, <1>4, <1>5, <1>6 DEF Next

\* The invariant holds in every behaviour of the semaphore.
THEOREM Invariance == Spec => []Inv
<1> QED
  BY InitInv, NextInv, PTL DEF Spec

\* The outstanding tasks never exceed MAX_OUTSTANDING_TASK, for every number of
\* threads that compete in acquire.
THEOREM TasksAlwaysBounded == Spec => []TasksBounded
<1>1. Inv => TasksBounded
  BY DEF Inv
<1> QED
  BY <1>1, Invariance, PTL

\* The counter is exact, so the `*count -= 1` of release never wraps.
THEOREM CounterAlwaysExact == Spec => []CounterCountsWaiters
<1>1. Inv => CounterCountsWaiters
  BY DEF Inv
<1> QED
  BY <1>1, Invariance, PTL

-----------------------------------------------------------------------------

\* A step of the semaphore starts one task below the limit, ends one, or leaves
\* the number of outstanding tasks alone.
LEMMA StepIsBoundedTasksStep ==
  ASSUME Inv, [Next]_vars
  PROVE  [Bounded!Next]_running
<1> USE PermitsAssumption
<1>0. running \in Nat /\ counter = running + Cardinality(InLoop)
  BY DEF Inv, TypeOK, CounterCountsWaiters, InLoop
<1>1. Cardinality(InLoop) \in Nat /\ \A c \in InLoop : Cardinality(InLoop) > 0
  BY LoopIsFinite DEF Inv
<1>2. ASSUME NEW c \in Callers, acquire(c) PROVE [Bounded!Next]_running
  BY <1>2, <1>0, <1>1 DEF acquire, WaitOrSpawn, Bounded!Next, Bounded!Start
<1>3. ASSUME NEW c \in Callers, Retest(c) PROVE [Bounded!Next]_running
  <2>1. c \in InLoop
    BY <1>3 DEF Retest, InLoop
  <2> QED
    BY <2>1, <1>3, <1>0, <1>1 DEF Retest, WaitOrSpawn, Bounded!Next, Bounded!Start
<1>4. ASSUME release PROVE [Bounded!Next]_running
  BY <1>4 DEF release, Bounded!Next, Bounded!Finish
<1>5. ASSUME NEW c \in Callers, SpuriousWakeup(c) PROVE [Bounded!Next]_running
  BY <1>5 DEF SpuriousWakeup
<1> QED
  BY <1>2, <1>3, <1>4, <1>5 DEF Next, vars

\* The semaphore implements BoundedTasks.
THEOREM Refinement == Spec => ImplementsBoundedTasks
<1>1. Init => Bounded!Init
  BY DEF Init, Bounded!Init
<1>2. Inv /\ [Next]_vars => [Bounded!Next]_running
  BY StepIsBoundedTasksStep
<1> QED
  BY <1>1, <1>2, Invariance, PTL DEF Spec, ImplementsBoundedTasks, Bounded!Spec

-----------------------------------------------------------------------------
(* Who sleeps while permits are free.                                      *)

\* Free permits with callers asleep are those of releases that woke others: each
\* of them took one caller from the wait set, and none has gone to sleep since.
AsleepBounded ==
  waiting # {} /\ counter <= Permits =>
    Cardinality(waiting) + (Permits - counter) + 1 <= Cardinality(Callers)

LEMMA SleepersFinite ==
  ASSUME TypeOK
  PROVE  /\ Cardinality(Callers) \in Nat
         /\ IsFiniteSet(waiting) /\ Cardinality(waiting) \in Nat
         /\ Cardinality(waiting) <= Cardinality(Callers)
         /\ \A c \in waiting : /\ IsFiniteSet(waiting \ {c})
                              /\ Cardinality(waiting \ {c}) = Cardinality(waiting) - 1
<1>1. waiting \in SUBSET Callers
  BY DEF TypeOK
<1>2. IsFiniteSet(waiting) /\ Cardinality(waiting) <= Cardinality(Callers)
  BY <1>1, FS_Subset, CallersAssumption
<1>3. \A c \in waiting : IsFiniteSet(waiting \ {c}) /\ Cardinality(waiting \ {c}) = Cardinality(waiting) - 1
  BY <1>2, FS_RemoveElement
<1> QED
  BY <1>2, <1>3, FS_CardinalityType, CallersAssumption

LEMMA NextAsleepBounded == Inv /\ AsleepBounded /\ [Next]_vars => AsleepBounded'
<1> SUFFICES ASSUME Inv, AsleepBounded, [Next]_vars PROVE AsleepBounded'
  OBVIOUS
<1> USE PermitsAssumption
<1>0. counter \in Nat /\ waiting \cap woken = {}
  BY DEF Inv, TypeOK, CounterCountsWaiters
<1>1. /\ Cardinality(Callers) \in Nat
      /\ IsFiniteSet(waiting) /\ Cardinality(waiting) \in Nat
      /\ Cardinality(waiting) <= Cardinality(Callers)
      /\ \A c \in waiting : /\ IsFiniteSet(waiting \ {c})
                           /\ Cardinality(waiting \ {c}) = Cardinality(waiting) - 1
  BY SleepersFinite DEF Inv
<1>2. ASSUME NEW c \in Callers, acquire(c) PROVE AsleepBounded'
  <2>1. c \notin waiting /\ counter' = counter + 1
    BY <1>2 DEF acquire
  <2>2. CASE counter + 1 > Permits
    BY <1>0, <2>1, <2>2 DEF AsleepBounded
  <2>3. CASE counter + 1 <= Permits
    <3>1. waiting' = waiting
      BY <1>0, <1>2, <2>1, <2>3 DEF acquire, WaitOrSpawn
    <3> QED
      BY <1>0, <1>1, <2>1, <2>3, <3>1 DEF AsleepBounded
  <2> QED
    BY <1>0, <2>2, <2>3
<1>3. ASSUME NEW c \in Callers, Retest(c) PROVE AsleepBounded'
  <2>1. c \notin waiting /\ counter' = counter
    BY <1>0, <1>3 DEF Retest
  <2>2. CASE counter > Permits
    BY <1>0, <2>1, <2>2 DEF AsleepBounded
  <2>3. CASE counter <= Permits
    <3>1. waiting' = waiting
      BY <1>0, <1>3, <2>1, <2>3 DEF Retest, WaitOrSpawn
    <3> QED
      BY <2>1, <3>1 DEF AsleepBounded
  <2> QED
    BY <1>0, <2>2, <2>3
<1>4. ASSUME release PROVE AsleepBounded'
  <2>1. counter' = counter - 1
    BY <1>4 DEF release
  <2>2. CASE waiting = {}
    BY <1>4, <2>2 DEF release, NotifyOne, AsleepBounded
  <2>3. ASSUME NEW c \in waiting, waiting' = waiting \ {c} PROVE AsleepBounded'
    <3>1. Cardinality(waiting') = Cardinality(waiting) - 1
      BY <1>1, <2>3
    <3>2. CASE counter > Permits
      BY <1>0, <1>1, <2>1, <3>1, <3>2 DEF AsleepBounded
    <3>3. CASE counter <= Permits
      BY <1>0, <1>1, <2>1, <2>3, <3>1, <3>3 DEF AsleepBounded
    <3> QED
      BY <1>0, <3>2, <3>3
  <2> QED
    BY <1>4, <2>2, <2>3 DEF release, NotifyOne
<1>5. ASSUME NEW c \in Callers, SpuriousWakeup(c) PROVE AsleepBounded'
  <2>1. c \in waiting /\ waiting' = waiting \ {c} /\ counter' = counter
    BY <1>5 DEF SpuriousWakeup
  <2>2. Cardinality(waiting') = Cardinality(waiting) - 1
    BY <1>1, <2>1
  <2> QED
    BY <1>0, <1>1, <2>1, <2>2 DEF AsleepBounded
<1>6. CASE UNCHANGED vars
  BY <1>6 DEF vars, AsleepBounded
<1> QED
  BY <1>2, <1>3, <1>4, <1>5, <1>6 DEF Next

-----------------------------------------------------------------------------
(* The client.                                                             *)

\* Each operation of the client is one of the semaphore, or leaves it alone.
LEMMA StepIsSemaphoreStep == [ClientNext]_clientVars => [Next]_vars
<1> SUFFICES ASSUME [ClientNext]_clientVars PROVE [Next]_vars
  OBVIOUS
<1>1. ASSUME NEW c \in Callers, SendAsync(c) \/ Wakes(c)
      PROVE  Next
  BY <1>1 DEF SendAsync, Wakes, Next
<1>2. ASSUME NEW c \in Callers, SendBlocking(c) \/ Blocked(c)
      PROVE  UNCHANGED vars
  BY <1>2 DEF SendBlocking, Blocked
<1>3. ASSUME NEW t \in Tasks, Release(t)
      PROVE  Next
  BY <1>3 DEF Release, Next
<1>4. ASSUME NEW t \in Tasks, Sends(t) \/ Answered(t) \/ TimesOut(t) \/ Panics(t)
      PROVE  UNCHANGED vars
  BY <1>4 DEF Sends, Answered, TimesOut, Panics
<1>5. CASE UNCHANGED clientVars
  BY <1>5 DEF clientVars
<1> QED
  BY <1>1, <1>2, <1>3, <1>4, <1>5 DEF ClientNext, TaskStep

\* So what holds of the semaphore holds of the client.
LEMMA ClientUsesSemaphore == ClientSpec => Spec
<1>1. ClientInit => Init
  BY DEF ClientInit
<1> QED
  BY <1>1, StepIsSemaphoreStep, PTL DEF ClientSpec, Spec

\* ImplementsBoundedTasks: the runtime under the client sees tasks start below
\* the limit, and end.
THEOREM ClientBoundsTasks == ClientSpec => ImplementsBoundedTasks
BY Refinement, ClientUsesSemaphore

-----------------------------------------------------------------------------
(* No send outlives its permit.                                            *)

Outcomes == {"none", "running", "ok", "failed"}

\* Only a task in its timeout has a send in progress.
SendsAreInTasks == \A t \in Tasks : outcome[t] = "running" => task[t] = "sending"

ClientInv ==
  /\ task \in [Tasks -> {"free", "sending", "over", "dead"}]
  /\ outcome \in [Tasks \cup Callers -> Outcomes]
  /\ SendsAreInTasks
  /\ running = Cardinality(Spawned)

LEMMA SpawnedFinite == IsFiniteSet(Spawned) /\ Cardinality(Spawned) \in Nat
<1>1. Spawned \in SUBSET Tasks
  BY DEF Spawned
<1> QED
  BY <1>1, TasksAssumption, FS_Subset, FS_CardinalityType

\* What a step of a send does to its outcome.
LEMMA SendGoesOn ==
  ASSUME NEW s, Send!Ends(s)
  PROVE  /\ outcome[s] = "running"
         /\ \E o \in Outcomes : outcome' = [outcome EXCEPT ![s] = o]
BY DEF Send!Ends, Send!Warm, Send!Fail, Send!Deliver, Send!FailMidway, Send!MayLeave,
       Send!Becomes, Outcomes

\* A task that goes from one place to another, none of them "free".
LEMMA StillSpawned ==
  ASSUME ClientInv, NEW t \in Tasks, NEW from \in {"sending", "over"},
         NEW to \in {"over", "dead"}, TaskGoes(t, from, to)
  PROVE  /\ task' \in [Tasks -> {"free", "sending", "over", "dead"}]
         /\ \A u \in Tasks \ {t} : task'[u] = task[u]
         /\ Spawned' = Spawned
BY DEF ClientInv, TaskGoes, Spawned

LEMMA ClientInitInv == ClientInit => ClientInv
<1> SUFFICES ASSUME ClientInit PROVE ClientInv
  OBVIOUS
<1>1. Spawned = {}
  BY DEF ClientInit, Spawned
<1>2. running = Cardinality(Spawned)
  BY <1>1, FS_EmptySet DEF ClientInit, Init
<1> QED
  BY <1>2 DEF ClientInit, ClientInv, SendsAreInTasks, Outcomes, Send!Init

LEMMA SendAsyncInv ==
  ASSUME Inv, ClientInv, NEW c \in Callers, SendAsync(c)
  PROVE  ClientInv'
<1>1. CASE running' = running /\ UNCHANGED <<task, sends>>
  BY <1>1 DEF ClientInv, SendsAreInTasks, Spawned, sends
<1>2. ASSUME running' = running + 1, NEW t \in Tasks, NEW b \in Batches,
             TaskGoes(t, "free", "sending"), Send!Start(t, b)
      PROVE  ClientInv'
  <2>1. /\ task[t] = "free" /\ task' = [task EXCEPT ![t] = "sending"]
        /\ \E o \in Outcomes : outcome' = [outcome EXCEPT ![t] = o]
    BY <1>2 DEF TaskGoes, Send!Start, Outcomes
  <2>2. Spawned' = Spawned \cup {t} /\ t \notin Spawned
    BY <2>1 DEF ClientInv, Spawned
  <2>3. running' = Cardinality(Spawned')
    BY <1>2, <2>2, SpawnedFinite, FS_AddElement DEF ClientInv
  <2> QED
    BY <2>1, <2>3 DEF ClientInv, SendsAreInTasks
<1> QED
  BY <1>1, <1>2 DEF SendAsync

LEMMA ReleaseInv ==
  ASSUME Inv, ClientInv, NEW t \in Tasks, Release(t)
  PROVE  ClientInv'
<1>1. /\ task[t] = "over" /\ task' = [task EXCEPT ![t] = "free"]
      /\ running' = running - 1
      /\ \E o \in Outcomes : outcome' = [outcome EXCEPT ![t] = o]
  <2>1. outcome' = [outcome EXCEPT ![t] = IF @ = "running" THEN @ ELSE "none"]
    BY DEF Release, Send!Forget, ClientInv
  <2> QED
    BY <2>1 DEF Release, TaskGoes, release, ClientInv, Outcomes
<1>2. Spawned' = Spawned \ {t} /\ t \in Spawned
  BY <1>1 DEF ClientInv, Spawned
<1>3. running' = Cardinality(Spawned')
  BY <1>1, <1>2, SpawnedFinite, FS_RemoveElement DEF ClientInv
<1>4. outcome'[t] # "running"
  BY <1>1 DEF ClientInv, SendsAreInTasks, Release, Send!Forget
<1> QED
  BY <1>1, <1>3, <1>4 DEF ClientInv, SendsAreInTasks, Outcomes

LEMMA ClientNextInv == Inv /\ ClientInv /\ [ClientNext]_clientVars => ClientInv'
<1> SUFFICES ASSUME Inv, ClientInv, [ClientNext]_clientVars PROVE ClientInv'
  OBVIOUS
<1>1. ASSUME NEW c \in Callers, SendAsync(c)
      PROVE  ClientInv'
  BY <1>1, SendAsyncInv
<1>2. ASSUME NEW c \in Callers, Wakes(c)
      PROVE  ClientInv'
  BY <1>2 DEF Wakes, SpuriousWakeup, sends, ClientInv, SendsAreInTasks, Spawned
<1>3. ASSUME NEW c \in Callers, SendBlocking(c) \/ Blocked(c)
      PROVE  ClientInv'
  <2>1. /\ UNCHANGED <<running, task>>
        /\ \E o \in Outcomes : outcome' = [outcome EXCEPT ![c] = o]
    BY <1>3, SendGoesOn DEF SendBlocking, Blocked, Send!Start, Outcomes, vars
  <2>2. c \notin Tasks
    BY TasksAssumption
  <2> QED
    BY <2>1, <2>2 DEF ClientInv, SendsAreInTasks, Spawned
<1>4. ASSUME NEW t \in Tasks, Release(t)
      PROVE  ClientInv'
  BY <1>4, ReleaseInv
<1>5. ASSUME NEW t \in Tasks, Sends(t)
      PROVE  ClientInv'
  <2>1. /\ UNCHANGED <<running, task>> /\ task[t] = "sending"
        /\ \E o \in Outcomes : outcome' = [outcome EXCEPT ![t] = o]
    BY <1>5, SendGoesOn DEF Sends, vars
  <2> QED
    BY <2>1 DEF ClientInv, SendsAreInTasks, Spawned
<1>6. ASSUME NEW t \in Tasks, Answered(t) \/ TimesOut(t) \/ Panics(t)
      PROVE  ClientInv'
  <2>1. /\ running' = running
        /\ \E to \in {"over", "dead"} : TaskGoes(t, "sending", to)
        /\ outcome' = outcome \/ outcome' = [outcome EXCEPT ![t] = "failed"]
        /\ outcome'[t] # "running"
    BY <1>6 DEF Answered, TimesOut, Panics, Send!Fail, Send!Becomes, vars, sends, ClientInv
  <2>2. /\ task' \in [Tasks -> {"free", "sending", "over", "dead"}]
        /\ \A u \in Tasks \ {t} : task'[u] = task[u]
        /\ Spawned' = Spawned
    BY <2>1, StillSpawned
  <2>3. outcome' \in [Tasks \cup Callers -> Outcomes] /\ \A u \in Tasks \ {t} : outcome'[u] = outcome[u]
    BY <2>1 DEF ClientInv, Outcomes
  <2> QED
    BY <2>1, <2>2, <2>3 DEF ClientInv, SendsAreInTasks
<1>7. CASE UNCHANGED clientVars
  BY <1>7 DEF clientVars, vars, sends, ClientInv, SendsAreInTasks, Spawned
<1> QED
  BY <1>1, <1>2, <1>3, <1>4, <1>5, <1>6, <1>7 DEF ClientNext, TaskStep

LEMMA ClientInvariance == ClientSpec => [](Inv /\ ClientInv)
<1>1. ClientInit => Inv /\ ClientInv
  BY InitInv, ClientInitInv DEF ClientInit
<1>2. Inv /\ ClientInv /\ [ClientNext]_clientVars => (Inv /\ ClientInv)'
  BY NextInv, StepIsSemaphoreStep, ClientNextInv
<1> QED
  BY <1>1, <1>2, PTL DEF ClientSpec

\* ClientTypeOK: the semaphore's count of tasks is that of the tasks spawned.
THEOREM ClientTypesHold == ClientSpec => []ClientTypeOK
<1>1. Inv /\ ClientInv => ClientTypeOK
  BY DEF Inv, ClientInv, ClientTypeOK, Outcomes
<1> QED
  BY <1>1, ClientInvariance, PTL

\* SpawnedSendsBounded: at most MAX_OUTSTANDING_TASK sends of spawned tasks are
\* in progress, also after timeouts and panics.
THEOREM SendsStayBounded == ClientSpec => []SpawnedSendsBounded
<1>1. ASSUME Inv, ClientInv PROVE SpawnedSendsBounded
  <2> DEFINE InProgress == {t \in Tasks : outcome[t] = "running"}
  <2>1. InProgress \in SUBSET Spawned
    BY <1>1 DEF ClientInv, SendsAreInTasks, Spawned
  <2>2. IsFiniteSet(InProgress) /\ Cardinality(InProgress) <= Cardinality(Spawned)
    <3> HIDE DEF InProgress
    <3> QED
      BY <2>1, SpawnedFinite, FS_Subset
  <2>3. Cardinality(InProgress) \in Nat
    BY <2>2, FS_CardinalityType
  <2>4. Cardinality(Spawned) <= Permits /\ Cardinality(Spawned) \in Nat
    BY <1>1, SpawnedFinite DEF Inv, ClientInv, TasksBounded
  <2>5. Cardinality(InProgress) <= Permits
    BY <2>2, <2>3, <2>4, PermitsAssumption
  <2> QED
    BY <2>5 DEF SpawnedSendsBounded
<1> QED
  BY <1>1, ClientInvariance, PTL

\* PermitsConserved: the permits that are out belong to tasks that have not
\* ended and to callers in the wait loop, each of them to one.
THEOREM PermitsAreConserved == ClientSpec => []PermitsConserved
<1>1. Inv /\ ClientInv => PermitsConserved
  BY DEF Inv, ClientInv, CounterCountsWaiters, PermitsConserved
<1> QED
  BY <1>1, ClientInvariance, PTL

\* The permits of the living and of the dead are those of the spawned.
LEMMA SpawnedAreDeadOrLiving ==
  /\ Cardinality(Living) \in Nat /\ Cardinality(Dead) \in Nat
  /\ Cardinality(Spawned) = Cardinality(Living) + Cardinality(Dead)
<1>1. Dead \in SUBSET Spawned /\ Living \in SUBSET Spawned
  BY DEF Dead, Spawned, Living
<1>2. IsFiniteSet(Dead) /\ IsFiniteSet(Living)
  BY <1>1, SpawnedFinite, FS_Subset
<1>3. Living \cap Dead = {} /\ Living \cup Dead = Spawned
  BY <1>1 DEF Living
<1>4. Cardinality(Living) \in Nat /\ Cardinality(Dead) \in Nat
  BY <1>2, FS_CardinalityType
<1>5. Cardinality(Living \cup Dead) = Cardinality(Living) + Cardinality(Dead) - Cardinality(Living \cap Dead)
  BY <1>2, FS_Union
<1>6. Cardinality(Living \cap Dead) = 0
  <2>1. Cardinality({}) = 0
    BY FS_EmptySet
  <2> QED
    BY <1>3, <2>1, Zenon
<1>7. Cardinality(Living \cup Dead) = Cardinality(Spawned)
  BY <1>3, Zenon
<1> QED
  BY <1>4, <1>5, <1>6, <1>7

\* NobodyStranded: while callers sleep and none is awake, enough living tasks
\* are left to wake one, for any numbers of callers, permits and dead tasks.
THEOREM NobodyIsStranded == ClientSpec => []NobodyStranded
<1>1. ClientInit => AsleepBounded
  BY DEF ClientInit, Init, AsleepBounded
<1>2. Inv /\ AsleepBounded /\ [ClientNext]_clientVars => AsleepBounded'
  BY NextAsleepBounded, StepIsSemaphoreStep
<1>3. ASSUME Inv, ClientInv, AsleepBounded, waiting # {}, woken = {}
      PROVE  Cardinality(Living) >= Permits - Cardinality(Callers) - Cardinality(Dead) + 1
  <2>1. counter = Cardinality(Living) + Cardinality(Dead) + Cardinality(waiting)
    <3>1. waiting \cup woken = waiting
      BY <1>3
    <3> QED
      BY <1>3, <3>1, SpawnedAreDeadOrLiving DEF Inv, ClientInv, CounterCountsWaiters
  <2>2. /\ Cardinality(Callers) \in Nat /\ Cardinality(waiting) \in Nat
        /\ Cardinality(waiting) <= Cardinality(Callers)
    BY <1>3, SleepersFinite DEF Inv
  <2>3. Permits \in Nat /\ counter \in Nat
    BY <1>3, PermitsAssumption DEF Inv, TypeOK
  <2>4. CASE counter > Permits
    BY <2>1, <2>2, <2>3, <2>4, SpawnedAreDeadOrLiving
  <2>5. CASE counter <= Permits
    BY <1>3, <2>1, <2>2, <2>3, <2>5, SpawnedAreDeadOrLiving DEF AsleepBounded
  <2> QED
    BY <2>3, <2>4, <2>5
<1>4. Inv /\ ClientInv /\ AsleepBounded => NobodyStranded
  BY <1>3 DEF NobodyStranded
<1> QED
  BY <1>1, <1>2, <1>4, ClientInvariance, PTL DEF ClientSpec

=============================================================================
