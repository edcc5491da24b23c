-------------------------- MODULE LeaderTpuService --------------------------
(***************************************************************************)
(* The background task of engine/backend_tpu_client.rs that follows the    *)
(* cluster: run_slot_watcher feeds RecentLeaderSlots from the pubsub       *)
(* stream, run_cache_refresher refills LeaderTpuCache over RPC, and        *)
(* try_join! runs both in one tokio task.  Senders read both structures    *)
(* through unique_leader_tpu_sockets.                                      *)
(*                                                                         *)
(* Both loops share a task, so they interleave only where they await: an   *)
(* action is what one of them does between two awaits.  The RPC node, the  *)
(* pubsub stream and the passing of slots are the environment.             *)
(***************************************************************************)
EXTENDS LeaderTpuCache

CONSTANTS
  RecentLen, MaxSlotSkipDistance,   \* of RecentLeaderSlots
  FanoutSlots,        \* config.fanout_slots, which the constructor clamps
  Rotation,           \* the leaders in turn, each for consecutive slots
  StartSlot,          \* the slot the RPC node reported when the service was built
  EpochLengths,       \* slots_in_epoch values the RPC node may report
  ContactLists,       \* the get_cluster_nodes answers the cluster goes through
  Lag,                \* by how many slots a notification may be late
  StraySlots,         \* slots notified that the cluster has not reached
  PubsubMayFail,      \* the subscription may be refused or the stream may end
  MaxClock            \* bound on the slots that pass

ASSUME ServiceAssumption ==
  /\ FanoutSlots \in Nat /\ StartSlot \in Nat /\ Lag \in Nat /\ MaxClock \in Nat
  /\ Rotation \in Seq(ToSet(Rotation)) /\ Len(Rotation) > 0
  /\ ContactLists \in Seq(ToSet(ContactLists)) /\ Len(ContactLists) > 0
  /\ EpochLengths \subseteq Nat \ {0} /\ EpochLengths # {}
  /\ StraySlots \subseteq Nat
  /\ PubsubMayFail \in BOOLEAN
  /\ RecentLen \in Nat \ {0} /\ MaxSlotSkipDistance \in Nat

VARIABLES
  clock,         \* environment: the slot the cluster is in
  contacts,      \* environment: index of the contact list the cluster has now
  stream,        \* environment: "open" or "ended"
  recent_slots,  \* RecentLeaderSlots
  cache,         \* LeaderTpuCache
  fetched_at,    \* history: the slot the cached leaders were asked for
  cluster_due,   \* last_cluster_refresh.elapsed() > 5 min
  watcher,       \* where run_slot_watcher is
  refresher,     \* where run_cache_refresher is, with its locals
  exit,          \* the shared AtomicBool
  joiner         \* the caller of shutdown()

environment == <<clock, contacts, stream>>
service     == <<recent_slots, cache, fetched_at, cluster_due, watcher, refresher>>
vars        == <<environment, service, exit, joiner>>

Recent == INSTANCE RecentLeaderSlots WITH Slot <- Nat

\* new_with_connection_cache: config.fanout_slots.clamp(1, MAX_FANOUT_SLOTS)
fanout_slots == Max({1, Min({FanoutSlots, MaxFanoutSlots})})

-----------------------------------------------------------------------------
(* The cluster's leader schedule, and the RPC answers drawn from it.       *)

Leader(slot) == Rotation[((slot \div NumConsecutiveLeaderSlots) % Len(Rotation)) + 1]

get_slot_leaders(start, limit) == [k \in 1 .. limit |-> Leader(start + k - 1)]

cluster_nodes == ContactLists[contacts]

estimated_current_slot == Recent!EstimatedSlot(recent_slots)

\* try_join!: an error of the watcher ends the task, and drops the refresher.
Service ==
  CASE watcher = "err" -> "err"
    [] watcher = "ok" /\ refresher.pc = "done" -> "ok"
    [] OTHER -> "running"

-----------------------------------------------------------------------------
(* LeaderTpuService::new, once every call it makes has succeeded.          *)

At(pc) == [pc |-> pc, est |-> 0, limit |-> 0, want_leaders |-> FALSE,
           nodes |-> NotAsked, epoch |-> NotAsked]

Init ==
  /\ clock = StartSlot
  /\ contacts = 1
  /\ stream = "open"
  /\ recent_slots = <<StartSlot>>
  /\ \E n \in EpochLengths :
       cache = NewCache(StartSlot, n, get_slot_leaders(StartSlot, fanout(n)), cluster_nodes)
  /\ fetched_at = StartSlot
  /\ cluster_due = FALSE
  /\ watcher = "subscribe"
  /\ refresher = At("check")
  /\ exit = FALSE
  /\ joiner = "idle"

-----------------------------------------------------------------------------
(* The environment.                                                        *)

SlotPasses ==
  /\ clock < MaxClock
  /\ clock' = clock + 1
  /\ UNCHANGED <<contacts, stream, service, exit, joiner>>

ClusterChanges ==
  /\ contacts < Len(ContactLists)
  /\ contacts' = contacts + 1
  /\ UNCHANGED <<clock, stream, service, exit, joiner>>

StreamEnds ==
  /\ PubsubMayFail
  /\ stream = "open"
  /\ stream' = "ended"
  /\ UNCHANGED <<clock, contacts, service, exit, joiner>>

FiveMinutesPass ==
  /\ ~cluster_due
  /\ cluster_due' = TRUE
  /\ UNCHANGED <<environment, recent_slots, cache, fetched_at, watcher,
                 refresher, exit, joiner>>

-----------------------------------------------------------------------------
(* run_slot_watcher.                                                       *)

WatcherStep(from, to) ==
  /\ watcher = from
  /\ watcher' = to
  /\ UNCHANGED <<environment, cache, fetched_at, cluster_due, refresher, exit, joiner>>

\* slot_updates_subscribe().await?
Subscribe ==
  /\ \/ WatcherStep("subscribe", "outer")
     \/ PubsubMayFail /\ WatcherStep("subscribe", "err")
  /\ UNCHANGED recent_slots

\* while !exit.load()
CheckExit ==
  /\ \/ ~exit /\ WatcherStep("outer", "inner")
     \/ exit /\ WatcherStep("outer", "unsubscribe")
  /\ UNCHANGED recent_slots

\* The updates that may arrive: up to Lag slots late, or for a slot the
\* cluster has not reached.  A slot completes once the next one has begun.
Updates ==
  [type : {"FirstShredReceived"}, slot : (saturating_sub(clock, Lag) .. clock) \cup StraySlots]
  \cup [type : {"Completed"}, slot : saturating_sub(clock, Lag + 1) .. (clock - 1)]
  \cup [type : {"CreatedBank"}, slot : {clock}]

\* One update out of notifications.next(); the inner loop goes on.
Notification(update) ==
  /\ stream = "open"
  /\ WatcherStep("inner", "inner")
  /\ recent_slots' =
       CASE update.type = "Completed" -> Recent!Recorded(recent_slots, update.slot + 1)
         [] update.type = "FirstShredReceived" -> Recent!Recorded(recent_slots, update.slot)
         [] OTHER -> recent_slots

\* Mutant: next() is awaited without a timeout.
QuietOrEnded_NoTimeout ==
  /\ stream = "ended"
  /\ WatcherStep("inner", "outer")
  /\ UNCHANGED recent_slots

\* Ten quiet milliseconds, or the stream yields None: leave the inner loop.
QuietOrEnded ==
  /\ WatcherStep("inner", "outer")
  /\ UNCHANGED recent_slots

\* unsubscribe().await; pubsub_client.shutdown().await?
Unsubscribe ==
  /\ \/ WatcherStep("unsubscribe", "ok")
     \/ PubsubMayFail /\ WatcherStep("unsubscribe", "err")
  /\ UNCHANGED recent_slots

Notifications == \E update \in Updates : Notification(update)

Watcher == Subscribe \/ CheckExit \/ Notifications \/ QuietOrEnded \/ Unsubscribe

-----------------------------------------------------------------------------
(* run_cache_refresher and maybe_fetch_cache_info.                         *)

RefresherRuns(from) ==
  /\ watcher # "err"
  /\ refresher.pc = from
  /\ UNCHANGED <<environment, recent_slots, watcher, exit, joiner>>

Await(r) == refresher' = r /\ UNCHANGED <<cache, fetched_at, cluster_due>>

\* while !exit.load() { sleep(..).await
RefresherLoop ==
  /\ RefresherRuns("check")
  /\ Await(At(IF exit THEN "done" ELSE "sleep"))

\* The estimate update_all receives, read again once the answers are in.
UpdateSlot == estimated_current_slot

\* What follows maybe_fetch_cache_info: the update under the write lock.
Update(r, slot_leaders) ==
  LET info == [cluster_nodes |-> r.nodes, epoch_info |-> r.epoch, slot_leaders |-> slot_leaders]
  IN  /\ cache' = IF HasSome(info) THEN update_all(cache, UpdateSlot, info) ELSE cache
      /\ cluster_due' = (cluster_due /\ ~ClusterRefreshed(info))
      /\ fetched_at' = IF slot_leaders.tag = "ok" THEN r.est ELSE fetched_at
      /\ refresher' = At("check")

\* After the epoch info: ask for leaders, or nothing is left to await.
AskLeaders(r) ==
  \/ r.want_leaders /\ Await([r EXCEPT !.pc = "leaders_rpc"])
  \/ ~r.want_leaders /\ Update(r, NotAsked)

\* Mutant: new leaders are asked for once the old ones have run out.
LeadersDue_PastEnd(est) == est > last_slot(cache)

\* The cached leaders end within MaxFanoutSlots of the estimate.
LeadersDue(est) == est >= saturating_sub(last_slot(cache), MaxFanoutSlots)

\* After the cluster nodes: read the estimate and slot_info, then ask for the
\* epoch info.
AskEpoch(nodes) ==
  LET est == estimated_current_slot
      r   == [pc |-> "epoch_rpc", est |-> est, limit |-> fanout(cache.slots_in_epoch),
              want_leaders |-> LeadersDue(est),
              nodes |-> nodes, epoch |-> NotAsked]
      due == est >= saturating_sub(cache.last_epoch_info_slot, cache.slots_in_epoch)
  IN  \/ due /\ Await(r)
      \/ ~due /\ AskLeaders(r)

\* The sleep ends.
Wake ==
  /\ RefresherRuns("sleep")
  /\ \/ cluster_due /\ Await(At("cluster_rpc"))
     \/ ~cluster_due /\ AskEpoch(NotAsked)

\* get_cluster_nodes().await, get_epoch_info().await and
\* get_slot_leaders().await return.
ClusterReply(answer) == RefresherRuns("cluster_rpc") /\ AskEpoch(answer)
EpochReply(answer)   == RefresherRuns("epoch_rpc") /\ AskLeaders([refresher EXCEPT !.epoch = answer])
LeadersReply(answer) == RefresherRuns("leaders_rpc") /\ Update(refresher, answer)

ClusterAnswered == ClusterReply(Ok(cluster_nodes))
EpochAnswered   == \E n \in EpochLengths : EpochReply(Ok(n))
LeadersAnswered == LeadersReply(Ok(get_slot_leaders(refresher.est, refresher.limit)))

RpcFails == ClusterReply(Failed) \/ EpochReply(Failed) \/ LeadersReply(Failed)

Refresher ==
  RefresherLoop \/ Wake \/ ClusterAnswered \/ EpochAnswered \/ LeadersAnswered \/ RpcFails

-----------------------------------------------------------------------------
(* Stopping the service.                                                   *)

\* Drop for BackendTpuClient.
DropClient ==
  /\ joiner = "idle"
  /\ exit' = TRUE
  /\ joiner' = "gone"
  /\ UNCHANGED <<environment, service>>

\* shutdown(): set exit, then await the task.
Shutdown ==
  /\ joiner = "idle"
  /\ exit' = TRUE
  /\ joiner' = "joining"
  /\ UNCHANGED <<environment, service>>

\* t_handle.await.unwrap().unwrap()
Join ==
  /\ joiner = "joining"
  /\ Service # "running"
  /\ joiner' = IF Service = "ok" THEN "joined" ELSE "panicked"
  /\ UNCHANGED <<environment, service, exit>>

Next ==
  \/ SlotPasses \/ ClusterChanges \/ StreamEnds \/ FiveMinutesPass
  \/ Watcher \/ Refresher
  \/ DropClient \/ Shutdown \/ Join

Spec == Init /\ [][Next]_vars

-----------------------------------------------------------------------------
(* Fairness.  The task is polled and the RPC client times out, so every    *)
(* await ends; the RPC node and the stream are assumed to answer correctly *)
(* now and again.  The inner loop of the watcher ends because updates come *)
(* slower than one every ten milliseconds, which is the argument the code  *)
(* makes for SLOT_UPDATE_TIMEOUT.                                          *)

CurrentSlotNotified == Notification([type |-> "FirstShredReceived", slot |-> clock])

Fairness ==
  /\ WF_vars(Subscribe) /\ WF_vars(CheckExit)
  /\ WF_vars(QuietOrEnded) /\ WF_vars(Unsubscribe)
  /\ WF_vars(Refresher) /\ WF_vars(Join) /\ WF_vars(FiveMinutesPass)
  /\ SF_vars(ClusterAnswered) /\ SF_vars(LeadersAnswered)
  /\ SF_vars(CurrentSlotNotified)

FairSpec == Spec /\ Fairness

-----------------------------------------------------------------------------
(* Properties.                                                             *)

Answers(V) == {NotAsked, Failed} \cup {Ok(v) : v \in V}

\* The types of the service's state, and where each loop can be.
TypeOK ==
  /\ clock \in Nat /\ contacts \in DOMAIN ContactLists /\ stream \in {"open", "ended"}
  /\ recent_slots \in Seq(Nat) /\ Len(recent_slots) \in 1 .. RecentLen
  /\ cache.first_slot \in Nat /\ cache.last_epoch_info_slot \in Nat
  /\ cache.slots_in_epoch \in EpochLengths
  /\ fetched_at \in Nat /\ cluster_due \in BOOLEAN /\ exit \in BOOLEAN
  /\ watcher \in {"subscribe", "outer", "inner", "unsubscribe", "ok", "err"}
  /\ refresher \in
       [pc : {"check", "sleep", "cluster_rpc", "epoch_rpc", "leaders_rpc", "done"},
        est : Nat, limit : Nat, want_leaders : BOOLEAN,
        nodes : Answers(Range(ContactLists)), epoch : Answers(EpochLengths)]
  /\ joiner \in {"idle", "joining", "joined", "panicked", "gone"}

\* The cached leaders are the cluster's schedule from the slot they were asked
\* for, and fill the window `fanout` asks for: no interleaving of the refresher
\* with the watcher mixes two answers.
CacheIsScheduleWindow ==
  /\ cache.leaders = get_slot_leaders(fetched_at, Len(cache.leaders))
  /\ \E n \in EpochLengths : Len(cache.leaders) = fanout(n)

\* update_all files the leaders asked for at fetched_at under the estimate it
\* reads after the answer: the slots by which they are misfiled.
Skew == cache.first_slot - fetched_at

\* Slots the estimate can take, which a sender may have read at any time before
\* it took the cache's lock.
Estimates == 0 .. Max({MaxClock} \cup StraySlots)

Contacted(est) == ToSet(get_unique_leader_sockets(cache, est, fanout_slots))

SocketOf(slots) ==
  {cache.leader_tpu_map[p] : p \in {Leader(s) : s \in slots} \cap DOMAIN cache.leader_tpu_map}

\* A transaction goes to the current leader and to the upcoming ones up to the
\* fanout less one rotation, for every estimate the sender may have read
\* before taking the lock, as long as the cache reaches that far: a refresh
\* applied late costs the far end of the fanout, never the current leader.
UpcomingLeadersContacted ==
  \A est \in Estimates :
    LET cur == CurrentSlot(cache, est)
        end == fanout_slots - NumConsecutiveLeaderSlots - Skew
    IN  Skew >= 0 /\ cur + fanout_slots <= last_slot(cache) + 1
          => SocketOf(cur .. (cur + end)) \subseteq Contacted(est)

\* Nobody else is sent to: each socket is that of a leader whose slot is in
\* the fanout, up to the skew of the cache.
OnlyScheduledLeadersContacted ==
  \A est \in Estimates :
    LET cur == CurrentSlot(cache, est)
    IN  Contacted(est) \subseteq SocketOf((cur - Skew) .. (cur - Skew + fanout_slots - 1))

\* With notifications in order, the cache is never filed under a slot before
\* the one its leaders were asked for, nor ahead of the cluster, so that a
\* sender never skips the current leader.
FiledBetweenRequestAndClock ==
  fetched_at <= cache.first_slot /\ cache.first_slot <= clock

\* As long as the service runs, the cache comes to cover the whole fanout of
\* the slot the cluster has reached ("maintains an up-to-date mapping").
KeepsUpToDate ==
  []<>(exit \/ \A s \in clock .. (clock + fanout_slots - 1) : KnowsSlot(cache, s))

\* It does so as long as the subscription holds, whichever RPC calls fail and
\* however the refresher interleaves with the watcher.
UpToDateWhileStreamed == [](stream = "open" /\ watcher # "err") => KeepsUpToDate

\* After the contact list stops changing, the periodic refresh brings the map
\* to it, whatever the failures in between, also when the pubsub stream has
\* ended; only a failure of the watcher takes the refresher with it.
MapConverges ==
  <>[](exit \/ watcher = "err" \/ cache.leader_tpu_map = extract_cluster_tpu_sockets(cluster_nodes))

\* shutdown() returns or panics, it does not hang, even when the pubsub stream
\* is refused, breaks or keeps delivering.
ShutdownEnds == joiner = "joining" ~> joiner \in {"joined", "panicked"}

=============================================================================
