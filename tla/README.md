# A TLA+ model of tpu-txn-sender-server

The program takes Solana transactions over HTTP and forwards them over QUIC to
the current and upcoming leaders of the cluster. This directory models the parts
of it where order, failure and timing matter, checks them with TLC on small
instances and proves facts about them with TLAPS for every size.

Paths below are relative to `src/src/` of the repository.

## 1. Inventory

| Part | State | Operations | Talks to |
|---|---|---|---|
| Slot estimate, `engine/recent_leaders_slot.rs` | deque of at most 12 notified slots behind an `RwLock` | `record_slot`, `estimated_current_slot` | written by the slot watcher, read by refresher and senders |
| Leader cache, `engine/leader_tpu_cache.rs` | first slot, leaders, key-to-socket map, epoch length, behind an `RwLock` | `update_all`, `get_unique_leader_sockets`, `slot_info` | written by the refresher, read by senders |
| Leader service, `engine/backend_tpu_client.rs` 346-533 | one task with two loops, the `exit` flag, the join handle | `run_slot_watcher`, `run_cache_refresher`, `maybe_fetch_cache_info`, `shutdown`, `join`, `Drop` | RPC node, pubsub stream |
| Start of the client, `engine/tpu_client.rs` 94-131, `engine/backend_tpu_client.rs` 276-344 | locals of one function | `TpuClient::new`, `LeaderTpuService::new` with its retry and timeout, the spawn of the service | RPC node, pubsub client, leader service |
| Fan-out, `engine/backend_tpu_client.rs` 72-230 | none | `try_send_wire_transaction` and its batch form, `send_transaction_to_upcoming_leaders` | leader service, QUIC clients |
| HTTP handlers, `main.rs` 81-277 | the retry loops of one request | `handle_transaction`, `handle_transactions_batched` | fan-out |
| QUIC client, `quik/nonblocking/quik_client.rs` 195-606 | the shared connection to one leader behind an async mutex | `send_buffer`, `send_batch`, `make_connection`, `make_connection_0rtt` | quinn |
| Blocking client, `quik/quik_client.rs` | a counting semaphore for at most 2000 tasks | `acquire`, `release`, `send_data`, `send_data_batch` and their `_async` forms, which spawn a task with a timeout | QUIC client, a tokio runtime |
| Endpoint, pool, configuration, `quik/mod.rs`, `quik/nonblocking/quik_client.rs` 99-180 | a lazily created endpoint and its certificate, a vector of clients, the certificate of the configuration | `get_endpoint`, `create_endpoint`, `add_connection`, `create_pool_entry`, `get`, `update_key` | solana-connection-cache (external), which owns the pools |
| Wrappers, `engine/connection_cache.rs`, `engine/tpu_client.rs` | none | forwarding | the parts above |
| Start-up, `main.rs` 35-76 | none | environment, routes | - |

What is hard:

* **Values read before an await and used after it.** The refresher asks for the
  leaders of one slot and files them under a slot it reads after the answer; a
  sender reads the estimate, then takes the cache's lock.
* **Input nobody vouches for.** Slot notifications come late, twice, or for
  slots far in the future.
* **Calls that share one connection**, find it broken at the same time,
  reconnect it one after the other, and may be dropped at any await.
* **Partial failure**: one leader of a fan-out, one buffer of a batch, one batch
  of a request, one of three RPC answers.
* **Waiting**: a condition variable with a counter that includes those who
  wait; two loops that must both notice `exit`; a start that waits for a leader
  schedule which may never come.
* **Resources handed from one owner to another**: a permit taken by a thread and
  given back by its task; an endpoint shared by the clients of a pool that may be
  evicted, or whose key may be replaced, while they connect.

What would make each part correct is in section 4, property by property. The
hazards with their lines are in `PROJECT.json`.

## 2. Modules

| Module | Models | Composes |
|---|---|---|
| `RecentLeaderSlots` | the slot estimate; its operators on the window are also used as values | |
| `SortedSets` | the numbers of a set in ascending order: what a filter collects front to back | |
| `LeaderTpuCache` | the cache as operators on a record; no variables, since every method runs under one lock | uses `SortedSets` |
| `LeaderTpuService` | both loops of the service, the RPC node and stream they talk to, `shutdown` and `Drop` | `LeaderTpuCache`, `RecentLeaderSlots` |
| `TpuClientStart` | the start of the client, and the service it hands over to | extends `LeaderTpuService` |
| `BatchSend` | abstract: what one send of a batch promises to whoever awaits it | implemented by `QuicClient`, used by `BlockingClient` |
| `QuicClient` | concurrent calls of `send_buffer` and `send_batch` to one leader | |
| `QuicConnectionPool` | the pools of clients under the connection cache, their endpoints and certificates, the callers that hold a client, `update_key` | |
| `TxnServer` | one HTTP request, or one call of the client's own methods, down to the outcome of each send | uses `SortedSets` |
| `BoundedTasks` | abstract: what the semaphore promises | implemented by `AsyncTaskSemaphore` |
| `AsyncTaskSemaphore` | the semaphore, its callers and the number of tasks they spawn | |
| `BlockingClient` | the threads that send, the tasks they spawn with their timeouts and panics | extends `AsyncTaskSemaphore`, instantiates `BatchSend` |
| `SortedSetsProofs`, `RecentLeaderSlotsProofs`, `LeaderTpuServiceProofs` (also of `TpuClientStart`), `QuicClientProofs`, `QuicClientRefinement`, `QuicConnectionPoolProofs`, `TxnServerProofs`, `BlockingClientProofs` (also of `AsyncTaskSemaphore`) | theorems and proofs | |
| `MC*` | values of the constants for TLC | |

An operator whose name ends in `_` and a word, with the comment "Mutant:", is a
deliberately broken variant of the definition that follows it. No
specification uses it. Putting it in the place of the definition must break the
property it is listed with in `PROJECT.json`, which shows that the property
depends on that line of the code.

### How state and actions correspond to the code

**RecentLeaderSlots.** `recent_slots` is the deque. `record_slot` is `push_back`
and the `pop_front` loop. `EstimatedSlot` follows the code but selects from the
sorted vector by counting, so that no sorted copy has to be built; that this is
indexing in the ascending order is a lemma (`SortedAtIndexes`).

**SortedSets.** The code filters ranges and vectors (every fourth slot whose leader
has not been seen, the transactions that decode) into vectors. Here the places that
pass the filter are a set and `Ascending` is the vector. It is defined by counting
and not by recursion over the vector, which is what makes the modules that use it
provable.

**LeaderTpuCache.** One operator per method. A socket is its port, because the
port is what the code computes on. An RPC answer is `NotAsked`, `Failed` or
`Ok(value)`, the three cases of `Option<ClientResult<T>>`. `update_all` sets
each field from the answer that concerns it.

**LeaderTpuService.** `try_join!` polls both loops in one task, so an action is
what a loop does between two awaits: `watcher` and `refresher.pc` say at which
await each one is, and `refresher` also holds the locals that live across it.
`Notification`, `QuietOrEnded` and `CheckExit` are the two nested loops of the
watcher. `Wake`, `ClusterReply`, `EpochReply` and `LeadersReply` are the pieces
of one pass of the refresher; the last one that has nothing left to await also
performs the update under the write lock. A sender is not a process: it reads the
estimate and later the cache, so the properties quantify over every estimate it
may have read. `fetched_at` is a history variable, the slot the cached leaders
were asked for.

**QuicClient.** `pc[s]` is the await at which call `s` is, `calls[s]` its locals.
`mutex` is the call that holds the mutex over an await, or nobody. The mutex is
`async_lock`'s: any call that finds it free may take it, also before one that has
waited longer. `Reuse` takes and leaves it between two awaits, `StartConnecting`
keeps it over the handshake. `status[c]` says
whether connection `c` is known here to be closed, which is what quinn answers
from. `Cancelled` drops the future: the timeouts of `quik/quik_client.rs` and a
client that goes away both do that, at any await.

**TpuClientStart.** `start.pc` is the RPC call `LeaderTpuService::new` awaits, or
the sleep between two tries of `get_slot_leaders`, and the rest of `start` its
locals. A second that passes inside `timeout(..)` is `SecondPasses`; slots pass
and the cluster changes meanwhile, so what is handed over may be old. `Spawn` is
`tokio::spawn(run(..))`: from there on the actions are those of
`LeaderTpuService`. With an empty websocket URL there is no pubsub client and the
watcher is over at once. Every error of `new` is unwrapped by its caller, hence
"panicked".

**BatchSend.** One record per sender: the outcome, the batch and what has left
of it. `QuicClient` implements it with the mapping `Promised`: places in the code
become "running", "ok" or "failed", whatever connection work happens in between.

**QuicConnectionPool.** The map of pools belongs to the crate
solana-connection-cache, which is not in the repository; its calls are modelled
from how this code is called by them, each as one action, because the crate
takes its lock for the whole of each: `GetConnection`, `CreatePool` (which may
evict another address), `AddConnection` and `update_key`. A pool is the
certificate its endpoint was created with, whether the `OnceCell` of the endpoint
is set, the sockets bound for it and, for each client, the certificate its
connection was made with. A caller holds a client (`calls[c]`) over its awaits,
and with it the endpoint: `Keep` drops what neither the cache nor a caller refers
to, except for a bound socket. That belongs to quinn's endpoint driver, which
lives until the endpoint's connections have drained (`Released`, `Drained`). What
happens on a connection is `QuicClient`.

**TxnServer.** `Attempt` starts the sends of one fan-out, `SendSucceeds` and
`SendFails` end one of them, `AttemptSucceeds` and `AttemptFails` are what the
handler makes of the result. A send may also panic in `create_endpoint`, which
unwinds the handler, drops its other sends and leaves the request without an
answer (`SendPanics`, "panicked"). `received` is a history variable: what was
written to the connection of each leader. That is what `Ok` of `write_all` means;
whether the leader gets it, the program does not know. The answer is its status; the times and counts it reports are left out.
A request is of one of four kinds: the two handlers, a single fan-out without
retry ("direct", the client's own methods), and
`send_transaction_to_upcoming_leaders` ("upcoming"), which awaits one leader
before it starts the next.

**AsyncTaskSemaphore.** A caller holds the mutex from `acquire` until it has
spawned its task, so each stay in the critical section is one action. Waiting
callers are in `waiting`, those that `wait` has returned to in `woken`. `running`
counts the tasks.

**BlockingClient.** `task[t]` is where task `t` is: in the `timeout(..)` of its
send, between the send and `release`, or dead after a panic, in which case its
permit is not given back. `SendAsync` is a step of the semaphore that, if it
takes a permit, also spawns a task. `SendBlocking` is `send_data` and
`send_data_batch`: the thread awaits the send itself, without permit or timeout.

## 3. Runs, bounds and fairness

| Run | Bounds and why they suffice |
|---|---|
| `estimate` | windows of up to 5 of 8 slots, skip distance 1: odd and even lengths, a full window, minorities on both sides of the bounds |
| `service` | one slot per leader, fanout 2, an epoch of 3 slots that cuts the window of 4, notifications one slot late and a stray slot 6 beyond the last real slot 3: the estimate jumps ahead and comes back |
| `client_start` | two slots per leader, fanout 4, window 8, six slots pass: they pass between the RPC calls of the start and while the service runs, so that the window is refilled from aligned and unaligned slots; a timeout of 3 seconds and a retry every second, so that several tries fail before the schedule comes or the time is up; with and without websocket URL |
| `service_live` | fanout 2, window 4, three slots pass, so that the window runs out; two contact lists; the subscription may fail and the stream end at any point |
| `service_stream_ends` | the sizes of `service_live`, but a window of two notified slots |
| `blocking_sends` | 2 threads, 3 permits and room for 4 tasks: one more than the permits, so that the bound could be exceeded, and a permit more than threads, so that one may be lost to a panic before threads and dead tasks outnumber the permits; batches of one buffer over one connection, since it is the outcome of a send that matters here |
| `semaphore_starved` | 3 callers, 2 permits |
| `quic_client` | 2 calls repeated without end, 3 connection ids (a call that connects always finds a free one), batches of two buffers of which the first may be empty; `send_buffer` is the same code with a batch of one |
| `quic_client_id_reuse` | single buffers, and ids may come back |
| `connection_pool` | 2 addresses and a cache for 1 of them, so that every use of the other evicts; pools of up to 2 clients, 2 callers, 3 keys; 3 names for pools: one for the cache and one for each caller. A socket that drains keeps the name of its pool, so that at most three pools hold sockets, draining ones included, and a new pool waits for a name |
| `txn_server` | 3 retries instead of 10, batches of 2 instead of 10, up to three batches, up to two leaders that change between attempts |
| `txn_server_undecodable` | one request whose transaction is not base64 |

`CHECK_DEADLOCK FALSE` is set where the system ends: the service after a shutdown
and the request once answered.

Bounds in the guards are `MaxClock` (slots that pass), the length of
`ContactLists` (changes of the cluster), `LastKey` (keypairs the server is given)
and the sizes of `Tasks` (a task that panicked keeps its name) and of `Pools` (a
socket that drains keeps the one of its pool). Everything else is bounded by the
code itself. Each run has one epoch length; that it may change between two
answers is covered by the proofs, which are about any set of lengths
(`CacheStaysScheduleWindow`). The run `service` passes with the lengths 3 and 5
too, but takes four times as long over its 1.45 million states. `service_live` keeps a window of one notified slot to stay within
minutes; what a longer window does to the estimate is the subject of `estimate`
and `service`.

Fairness:

* **LeaderTpuService.** Each loop is polled by the runtime and each RPC call ends
  (the client has a timeout), hence weak fairness of the watcher's own steps and
  of the refresher. The inner loop of the watcher is left because updates come
  further apart than its 10 ms timeout, as the comment at
  `engine/backend_tpu_client.rs` 452-461 argues. Strong fairness of the answers
  and of the notification of the current slot is the assumption that the RPC
  node and the stream work again and again: every promise of the service rests
  on that. Nothing obliges the stream to stay open.
* **QuicClient.** Each call goes on: handshakes run under a timeout, a stream
  without credit ends with its connection. Fairness is strong because the mutex is
  only "eventually fair": others may overtake a waiter, until it has starved for a
  while and `async_lock` lets nobody pass it any more. Everywhere else a step of a
  call, once enabled, stays enabled. `Settle` says that connections stop failing at some point, which
  a call needs to end since a reused connection does not count as a try.
* **TpuClientStart.** The calls of the start end and time passes (`SecondPasses`).
  Nothing obliges the schedule to appear.
* **QuicConnectionPool.** A call that holds a client is polled and its handshake
  and its idle connection time out. A connection that was closed drains within a
  few probe timeouts, and the socket goes with the last one.
* **TxnServer.** Weak fairness of the handler; that sends end is `CallsEnd`.
* **AsyncTaskSemaphore, BlockingClient.** Tasks end (their send has a timeout) and
  woken threads get the mutex. Nothing obliges a task to panic or a thread to call.
  Spurious wakeups may happen and are never relied on.

## 4. What the checks show

**Estimate.** Whatever slots arrive in whatever order, if at most half of the
window lies beyond `T` the estimate exceeds `T` by at most the spread and the
skip distance (`FutureSlotsBounded`), and if fewer than half lie below `T` it
is not below `T` (`PastSlotsBounded`). Ordered notifications never move it back,
also when its slot leaves the window (`InOrderNeverRegresses`).

**Start.** A schedule that is not there yet never stops the program before the
timeout, since tries share one timeout (`LateScheduleTolerated`), and the start
ends in a running service or a panic (`StartDecided`). The run then lets the
service go on from what the start handed over, so that the properties of the
cache also cover a start during which slots passed.

**Service.** The cached leaders are always one answer of the RPC node, of the
length `fanout` asks for (`CacheIsScheduleWindow`). A transaction goes to the
leaders of the slots from the current one up to the fanout less one rotation and
less the skew of the cache (`UpcomingLeadersContacted`), and to nobody outside
the fanout widened by the skew (`OnlyScheduledLeadersContacted`). With ordered
notifications the skew is never negative and never puts the window ahead of the
cluster (`FiledBetweenRequestAndClock`). While the subscription holds, the cache
keeps covering the fanout (`UpToDateWhileStreamed`); sockets converge to the
contact list even after the stream has ended (`MapConverges`); `shutdown` ends,
with a panic if the watcher failed (`ShutdownEnds`).

**QUIC client.** The panic in `_send_buffer` is unreachable (`NeverPanics`). A
call puts each buffer on the wire at most once, in order, all on one connection
(`WireIsRunOnOneConnection`), and answers Ok only when all were handed over
(`OkMeansWritten`). One reconnect is enough once the network is calm
(`CalmCallsSucceed`). Only closed connections are replaced
(`HealthyConnectionKept`) and calls end (`CallsEnd`). To its
caller each call is one uninterrupted send (`ImplementsBatchSend`).

**Pools.** A call sends over a connection made with the key that was in force when
it took its client, although `update_key` and evictions happen at any point
(`CallsUseKeyInForce`), and its endpoint stays open under it (`OpenWhileInUse`).
A pool binds one socket however many of its clients connect at once
(`PoolTypeOK`). Once keys are no longer replaced, the sockets of the old ones are
closed, when the calls on them have ended and the connections drained
(`OldKeysRetire`). No bound on the sockets open at one time is claimed: those of
replaced pools drain beside those of their successors.

**Server.** Batches go out strictly in order (`BatchesInOrder`). A success means
each batch was written in full to the connection of one leader
(`SuccessMeansAccepted`), not that it arrived; an error means all
attempts failed, the last at every leader, and nothing later was sent
(`ErrorMeansExhausted`). Without the handlers, leaders are served in turn: nothing is
written to one before the connections of those before it have taken the whole
transaction (`UpcomingReachedInTurn`). A batch that was written in full is never
sent again (`NoRetryAfterSuccess`), and every request is answered unless its client
goes away or a send panics (`Answered`).

**Blocking client.** The permits that are out are those of the tasks that have not
ended and of the callers in the wait loop: none is given back twice, or made up,
and only a panicked task keeps one for good (`PermitsConserved`). Tasks stay within
the permits (`ImplementsBoundedTasks`). The sends of spawned tasks do too, after
timeouts and panics as well: a send never outlives its permit
(`SpawnedSendsBounded`). While callers sleep and none has been woken, at least
`Permits - callers - dead + 1` living tasks have a release to make, where "dead" are
the panicked ones (`NobodyStranded`): there is somebody to wake the sleepers as long as
callers and dead tasks together do not outnumber the permits. Beyond that everyone
may sleep for ever. As long as no
task panics and there are no more callers than permits, every permit comes back and
whoever waits is served (`PermitsReturn`); with more callers that is false, see
`semaphore_starved`.

### Disagreements found

Each of these has a run whose counterexample shows it; `PROJECT.json` quotes the
text that disagrees.

* `service_stream_ends`: when the pubsub stream ends nobody resubscribes. The
  estimate freezes and the "up-to-date mapping" goes stale for good.
* `semaphore_starved`: waiting callers count against the permits. Once more
  callers wait than there are permits, all tasks may end and no one is woken.
* `quic_client_id_reuse`: "the problematic connection" is recognised by
  `stable_id()`, which quinn derives from an address. After the connection is
  freed the id can belong to a healthy one, which is then replaced.
  `HealthyConnectionKept` holds under `IdsReused = FALSE`, fails without.
* `txn_server_undecodable`: a transaction that does not decode becomes an empty
  buffer, which is not sent, and the answer is a success. (An empty transaction
  takes the same way.)

Met while modelling, visible in the definitions, and without a run of their own:
`get_leader_sockets` steps by four from the current slot, so from the middle of
a rotation the leader of the last slots of the fanout is not contacted (hence
"less one rotation" above); `try_send_wire_transaction` says it returns the last
error and keeps the first; `handle_transaction` logs "Waiting before next retry"
and does not wait (`Retry`); a `WriteError` of a connection that times out after
`open_uni` is not retried, although the comment in `send_batch` promises a retry
for a timed-out connection (`WriteFails`); an empty first buffer of a batch skips
the test of the connection that the same comment describes (`UseConnection`).
`tpu_client.rs` 54-55 says of the upcoming leaders "Returns the last error if all
sends fail"; the code stops at the first failure, and answers Ok when no leader is
known (`InTurn`; `SuccessMeansAccepted` has that case as an exception). Leaders asked
for at one slot are filed under the slot the estimate has reached when the answer
comes, so that a leader whose slots are over may be contacted as the current one:
`Skew` in `LeaderTpuService` measures it. A task that panics keeps its permit for
good (`Panics`). The program accepts an empty `WS_URL`, with which the estimate
stays at the slot of the start (`GotClusterNodes`); `client_start` goes this way too,
but its properties are relative to the estimate and do not notice. The copy of `QuicConfig` that
the cache is built with keeps the first certificate, which is harmless only
because `create_pool_entry` looks at the pool's endpoint and not at it
(`add_connection`). When none of the 2000 ports is free, `create_endpoint` panics in
the call that connects (`QuicConnectionPool!Panics`), and in a handler the request
stays without an answer (`TxnServer!SendPanics`).

## 5. What is proved

Every theorem holds for all values of the constants that satisfy the named
`ASSUME`s of the module; TLC evaluates those assumptions in the runs. tlapm
checks every leaf.

**SortedSetsProofs** (any finite set of integers). Lemmas about the operators of
`SortedSets`, no statement about the program. `AscendingIsSorted`: every number
of the set once, in order. The rank of a number grows with it, so that different
numbers have different ranks, and there are as many ranks as numbers, so that each is
taken. The proofs about the window, the server and the service rest on it.

**RecentLeaderSlotsProofs** (any set of numbers as slots, any window length, any
skip distance). The state invariant is `WindowTyped`; the two bounds on the
estimate are facts about every window. `SortedAtExists` shows that the definition
of the k-th slot by counting has a witness: the least slot with more than k
entries up to it, which has at most k entries below it. `MedianFacts` counts the
entries on both sides of the median. `EstimateBetween` shows that the search in
`estimated_current_slot` always finds something, between the median and the
reasonable maximum. `PastSlotsAlwaysBounded` and `FutureSlotsAlwaysBounded` then
compare cardinalities: were the median on the wrong side of T, the entries
counted by `MedianFacts` would be more than the hypothesis allows.
`InOrderNeverBack` is about windows in order, where counting is indexing
(`InOrderIsSorted`), so that recording a slot moves the median up or leaves it
(`MedianGrows`): the reasonable maximum grows, and the old estimate is below it or
was the oldest slot, dropped now. Its hypothesis `RecentLen > 1` is needed, since a
window of one slot is in order whatever comes next.
The lemma `SortedAtIndexes` justifies the definition of `SortedAt`: every window has
an ascending order (`SortExists`, which sorts keys made of the slot and the place, so
that no two are equal), reordering a window changes neither its slots nor how many lie
on either side of a value (`ReorderingKeepsCounts`), and in an ordered window counting
can only select the entry at the index (`SelectedInOrder`).

**QuicClientProofs** (any senders, connection ids and batches). The invariant has
a part that concerns one call, `CallOK(p, c)`, and a part that relates calls.
`CallOK` says of a call at place p with locals c that nothing has left while it
is still choosing a connection, that the loop comes around only with an error
kept, and that the buffers on the wire are the first ones, consecutive, all on
the connection in use. Every action moves one call, so that it preserves the
predicate as soon as it establishes it for where the call goes (`GoesKeeps`).
From it follow `AlwaysTyped`, `PanicUnreachable`, `WireAlwaysOneRun` and
`OkAlwaysMeansWritten`. The other part is the lock discipline `LockInv` (who
connects holds the mutex, and the shared connection is still the one it decided to
replace; the order in which the mutex is given away plays no part) and `BlameInv` (a connection that failed a call
is closed). `BlameInv` needs the hypothesis `~IdsReused` of `HealthyAlwaysKept`:
the run `quic_client_id_reuse` shows that it fails without.
`CalmCallsAlwaysSucceed` adds what a call may rely on in calm (`Settled`): the
connection it uses is up, unless it is the shared one and the call has yet to find
out, in which case its one reconnect is still to come.

**QuicClientRefinement** (the same generality). Each action of `QuicClient` is a step
of `BatchSend` for the call that moves and a stutter for the others. The invariant
of `QuicClientProofs` says what is needed: what is on the wire is the run of
buffers `BatchSend` would have sent so far. Theorem: `ClientImplementsBatchSend`.

**BlockingClientProofs, the semaphore** (any finite set of callers, any positive
number of permits). `TasksAlwaysBounded` is not inductive by itself: a caller spawns after
comparing the counter with the permits, so one has to know that the counter says
something about the tasks. The strengthening is `CounterCountsWaiters` (theorem
`CounterAlwaysExact`): the counter is the number of tasks plus the number of
callers in the wait loop. A caller that spawns is counted already, so the number
of tasks it leaves behind is at most what it compared. The same invariant shows
that the decrement of `release` never wraps. `Refinement` maps the semaphore to
`BoundedTasks`: a spawn is a start, a release is an end, everything else
stutters.

**BlockingClientProofs, the client** (any threads, tasks and permits). `StepIsSemaphoreStep`
takes the actions one by one: those that touch the semaphore's variables are steps
of it, the others leave them alone; so what holds of the semaphore holds of the
client, and with the theorem `Refinement` above `ClientBoundsTasks`. For the rest,
the invariant adds
that the semaphore's count is the number of tasks spawned and that a send of a
task runs only while its task is "sending" (`SendsAreInTasks`), so that the sends
are a subset of what `TasksBounded` bounds. `PermitsAreConserved` follows from
`CounterCountsWaiters` and that number. `NobodyIsStranded` needs one more fact of the
semaphore (`AsleepBounded`): permits that are free while callers sleep were freed by
releases that each woke a caller, and none has gone to sleep since, so that free
permits and sleepers together are fewer than the callers.

**QuicConnectionPoolProofs** (any addresses, callers, pools and sizes).
`CallsUseKeyInForce` needs a fact about each pool something refers to
(`PoolOK`: a client is unconnected or connected with the pool's own certificate),
about the cache (`CacheInv`: every pool of it has the certificate in force) and about
each call (`CallOK`: the pool it holds has the certificate of its key, and its index
stays valid because pools only grow). The point of the proof is that `Keep` leaves
alone what a call refers to and that a name is not given to a new pool as long as
something refers to the old one or its socket drains (`DrainedInv`).

**TxnServerProofs** (any requests, leaders, lists, errors and retries, for lists of
different leaders, `LeadersAssumption`, which `get_unique_leader_sockets` ensures).
The invariant follows one batch through its attempts: a send that succeeded has
its leader hold the batch (`OkMeansReached`), all earlier batches were accepted
(`EarlierAccepted`), and between two attempts no send had succeeded
(`NoneSucceeded`); for the upcoming leaders, whoever waits is behind one that has
not succeeded (`InTurnInv`). From it follow `SuccessIsAccepted`,
`NeverRetriedAfterSuccess` and `UpcomingServedInTurn`. `TypesHold` adds that no
batch is attempted more than `MaxRetries` times. `BatchesLeaveInOrder` and
`ErrorIsExhausted` relate batches to each other, for which one has to know that no
transaction is in two of them: `DecodedIsInjective` (the decodable transactions are
numbered without repetition, from `AscendingIsSorted`) and the arithmetic of `chunks`
give `ChunksAreDisjoint`. The inductive part is that nothing of a batch after the one
at hand has been sent (`LaterInvariance`), and for the error answer that it keeps the
sends of the last attempt as they failed (`ErrorInv`).

**LeaderTpuServiceProofs** (any schedule, epoch lengths, notifications, clock and
fanout). `CacheStaysScheduleWindow`: the refresher asks for one limit and keeps
it, with the slot it asked for, over an await during which the watcher moves the
estimate; the invariant says that this limit is a window of some epoch length.
`LateScheduleAlwaysTolerated` is about the start. `AlwaysFiledBetween` goes from the
start through the service: the window of recent slots stays in order and behind the
clock (`ReachedInv`), so by the lemmas of `RecentLeaderSlotsProofs` the estimate only
grows, and the slot a request was made for, the cache's first slot and the estimate
stay in this order (`FiledInv`) through every await. Its hypothesis `OnTime` (no late
and no stray notification, a window of more than one slot) is what the run
`client_start` checks it under; with late or stray notifications it does not hold,
which is why `service` states the properties of senders relative to the skew.

`NobodyElseContacted` and `UpcomingAlwaysContacted` are about what a sender makes of
the cache, for every estimate it may have read. `CacheIsScheduleWindow` says that the
leaders are a window of the schedule, and the rest is arithmetic and counting: the
slots `get_unique_leader_sockets` looks at are every fourth one from the current slot
on (`Served`, and `SocketsAreOfServed` through `AscendingIsSorted`); each of them is a
slot of the schedule within the fanout, up to the skew (`ReadsSchedule`,
`OnlyScheduled`); and each slot up to the fanout less a rotation has the leader of a
sampled one, because leaders change only at multiples of the step, so that a sampled
slot falls in every turn wherever the sampling starts (`TurnOf`, `TurnIsSampled`). Both
need the types of the cache, `ServiceTypesHold`, whose invariant goes through the
awaits of both loops. `StartTypesHold`, `StartedContactsUpcoming` and
`StartedContactsNobodyElse` carry this over to
a service that was started by `TpuClientStart`, instead of being in the initial state
of `LeaderTpuService`: `SpawnStarts` shows that what the start hands over satisfies the
invariant, whatever slots passed meanwhile, and `StartInvariance` keeps it from there.

## 6. What is only model-checked, and what is not modelled

Liveness under fairness (`StartDecided`, `UpToDateWhileStreamed`, `MapConverges`,
`ShutdownEnds`, `CallsEnd`, `Answered`, `PermitsReturn`, `OldKeysRetire`, and the
violated `KeepsUpToDate` and `WaitersDrain`) is out of the prover's reach and stays
with TLC.

Every invariant and every action property that a passing run checks is also the
statement of a theorem of section 5. Three of those theorems have a hypothesis:
`HealthyAlwaysKept` (`~IdsReused`), where a further run shows a violation without it,
`AlwaysFiledBetween` (`OnTime`) and `InOrderNeverBack` (`RecentLen > 1`).

Conversely `TypeOK` of `RecentLeaderSlots`, `TasksBounded` and
`CounterCountsWaiters` of the semaphore, and `TypeOK` of `TxnServer` and of
`LeaderTpuService` are proved, and no run has them as properties of their own.

Not modelled:

* `Protocol::UDP` in the leader cache: the program's connection manager fixes
  `QUIC`.
* RPC answers are consistent with one schedule, and the epoch length is any of a
  set; a node that lags behind is covered only through the slot the start asks for
  and the slots it notifies.
* Staked nodes: `QuicConfig` stores them and reads them nowhere. The setters of
  `QuicConfig` run before the cache exists and are part of the initial state.
* The parameters of sockets, TLS and transport; how ports are searched.
* The inside of solana-connection-cache (its locks, random choices and background
  thread beyond what section 2 says) and of quinn and tokio.
* The wrappers that only forward; environment and routes in `main.rs`.
* Statistics and logging. `script/main.ts`, a demo client.

## 7. Plan

1. Done: the modules above, and the proofs of section 5.
2. Proofs that are left: that `TpuClientStart` makes only steps of
   `LeaderTpuService` once it has spawned it, as a refinement; an abstract
   specification of one request, implemented by `TxnServer`.
3. A wider model: several requests over one pool of clients, which would need
   `TxnServer` on top of `QuicClient` instead of on the outcomes of its calls.
