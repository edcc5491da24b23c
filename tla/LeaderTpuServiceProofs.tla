----------------------- MODULE LeaderTpuServiceProofs -----------------------
(***************************************************************************)
(* Proofs about LeaderTpuService and about its start, TpuClientStart, for  *)
(* any schedule, epochs, bounds and notifications.                         *)
(*                                                                         *)
(* What the refresher has asked for is kept in its locals across every     *)
(* await, and the cache is replaced from them as a whole.  So the cached   *)
(* leaders are those of one answer, whatever estimate the watcher has      *)
(* written meanwhile.  Where the cache is filed does depend on the         *)
(* estimate: the second part follows it with the lemmas about the window   *)
(* of recent slots.                                                        *)
(***************************************************************************)
EXTENDS TpuClientStart, SortedSetsProofs

\* A limit that some epoch length accounts for.
IsFanout(limit) == \E n \in EpochLengths : limit = fanout(n)

RefresherShape ==
  refresher = [pc |-> refresher.pc, est |-> refresher.est, limit |-> refresher.limit,
               want_leaders |-> refresher.want_leaders,
               nodes |-> refresher.nodes, epoch |-> refresher.epoch]

\* An answer about the epoch: none, a failure or one of the lengths.
EpochAnswer(answer) == answer.tag = "ok" => answer.val \in EpochLengths

RefresherInv ==
  /\ RefresherShape
  /\ refresher.pc \in {"epoch_rpc", "leaders_rpc"} => IsFanout(refresher.limit)
  /\ EpochAnswer(refresher.epoch)

CacheInv == cache.slots_in_epoch \in EpochLengths /\ CacheIsScheduleWindow

Inv == RefresherInv /\ CacheInv

\* The length of the window is a number.
LEMMA FanoutIsNat == ASSUME NEW n \in EpochLengths PROVE fanout(n) \in Nat
<1>1. n \in Nat /\ 2 * MaxFanoutSlots \in Nat
  BY ServiceAssumption, FanoutAssumption
<1> DEFINE two == 2 * MaxFanoutSlots
<1>2. \E x \in {two, n} : \A y \in {two, n} : x =< y
  <2>1. CASE two <= n
    BY <1>1, <2>1
  <2>2. CASE n <= two
    BY <1>1, <2>2
  <2> QED
    BY <1>1, <2>1, <2>2
<1>3. Min({two, n}) \in {two, n}
  BY <1>2 DEF Min
<1> QED
  BY <1>1, <1>3 DEF fanout

\* A cache filled with an answer of the right length is a window.
LEMMA AnswerIsWindow ==
  ASSUME NEW n \in EpochLengths, NEW start_slot
  PROVE  LET leaders == get_slot_leaders(start_slot, fanout(n))
         IN  Len(leaders) = fanout(n) /\ leaders = get_slot_leaders(start_slot, Len(leaders))
<1>1. fanout(n) \in Nat
  BY FanoutIsNat
<1>2. Len(get_slot_leaders(start_slot, fanout(n))) = fanout(n)
  BY <1>1 DEF get_slot_leaders
<1> QED
  BY <1>2

\* What At makes of the refresher.
LEMMA BackAtStart ==
  ASSUME NEW pc, pc \notin {"epoch_rpc", "leaders_rpc"}, refresher' = At(pc)
  PROVE  RefresherInv'
BY DEF RefresherInv, RefresherShape, EpochAnswer, At, NotAsked, Failed

LEMMA InitInv == Init => Inv
<1> SUFFICES ASSUME Init PROVE Inv
  OBVIOUS
<1>1. RefresherInv
  BY DEF Init, RefresherInv, RefresherShape, EpochAnswer, At, NotAsked
<1>2. PICK n \in EpochLengths :
        cache = NewCache(StartSlot, n, get_slot_leaders(StartSlot, fanout(n)), cluster_nodes)
  BY DEF Init
<1>3. /\ cache.slots_in_epoch = n
      /\ cache.leaders = get_slot_leaders(StartSlot, fanout(n))
  BY <1>2 DEF NewCache
<1>4. fetched_at = StartSlot
  BY DEF Init
<1>5. CacheIsScheduleWindow
  BY <1>3, <1>4, AnswerIsWindow DEF CacheIsScheduleWindow
<1> QED
  BY <1>1, <1>3, <1>5 DEF Inv, CacheInv

\* The update at the end of an iteration replaces the leaders as a whole, or
\* keeps them.
LEMMA UpdateInv ==
  ASSUME Inv, NEW r, NEW answer, Update(r, answer), EpochAnswer(r.epoch),
         \/ answer.tag # "ok"
         \/ IsFanout(r.limit) /\ answer.val = get_slot_leaders(r.est, r.limit)
  PROVE  Inv'
<1> DEFINE info == [cluster_nodes |-> r.nodes, epoch_info |-> r.epoch, slot_leaders |-> answer]
<1>1. /\ cache' = (IF HasSome(info) THEN update_all(cache, UpdateSlot, info) ELSE cache)
      /\ fetched_at' = (IF answer.tag = "ok" THEN r.est ELSE fetched_at)
      /\ refresher' = At("check")
  BY DEF Update
<1>2. RefresherInv'
  BY <1>1, BackAtStart
<1>3. /\ info.slot_leaders = answer /\ info.epoch_info = r.epoch
  OBVIOUS
<1>4. answer.tag = "ok" => HasSome(info)
  BY <1>3 DEF HasSome, NotAsked
<1> HIDE DEF info
<1>5. cache'.slots_in_epoch \in EpochLengths
  BY <1>1, <1>3 DEF update_all, NewSlotsInEpoch, Overwritten, EpochAnswer, Inv, CacheInv
<1>6. cache'.leaders = IF answer.tag = "ok" THEN answer.val ELSE cache.leaders
  BY <1>1, <1>3, <1>4 DEF update_all, NewLeaders, Overwritten
<1>7. CacheIsScheduleWindow'
  <2>1. CASE answer.tag # "ok"
    BY <1>1, <1>6, <2>1 DEF Inv, CacheInv, CacheIsScheduleWindow
  <2>2. CASE answer.tag = "ok"
    <3>1. PICK n \in EpochLengths : r.limit = fanout(n)
      BY <2>2 DEF IsFanout
    <3>2. cache'.leaders = get_slot_leaders(r.est, fanout(n)) /\ fetched_at' = r.est
      BY <1>1, <1>6, <2>2, <3>1
    <3>3. /\ Len(cache'.leaders) = fanout(n)
          /\ cache'.leaders = get_slot_leaders(r.est, Len(cache'.leaders))
      BY <3>2, AnswerIsWindow
    <3> QED
      BY <3>2, <3>3 DEF CacheIsScheduleWindow
  <2> QED
    BY <2>1, <2>2
<1> QED
  BY <1>2, <1>5, <1>7 DEF Inv, CacheInv

\* While an answer is awaited the cache stays.
LEMMA AwaitInv ==
  ASSUME Inv, NEW r, Await(r),
         r = [pc |-> r.pc, est |-> r.est, limit |-> r.limit, want_leaders |-> r.want_leaders,
              nodes |-> r.nodes, epoch |-> r.epoch],
         r.pc \in {"epoch_rpc", "leaders_rpc"} => IsFanout(r.limit), EpochAnswer(r.epoch)
  PROVE  Inv'
<1>1. refresher' = r /\ UNCHANGED <<cache, fetched_at>>
  BY DEF Await
<1>2. RefresherInv'
  BY <1>1 DEF RefresherInv, RefresherShape, IsFanout
<1>3. CacheInv'
  BY <1>1 DEF Inv, CacheInv, CacheIsScheduleWindow
<1> QED
  BY <1>2, <1>3 DEF Inv

LEMMA AskLeadersInv ==
  ASSUME Inv, NEW r, AskLeaders(r),
         r = [pc |-> r.pc, est |-> r.est, limit |-> r.limit, want_leaders |-> r.want_leaders,
              nodes |-> r.nodes, epoch |-> r.epoch],
         IsFanout(r.limit), EpochAnswer(r.epoch)
  PROVE  Inv'
<1>1. CASE r.want_leaders /\ Await([r EXCEPT !.pc = "leaders_rpc"])
  <2> DEFINE q == [r EXCEPT !.pc = "leaders_rpc"]
  <2>1. /\ q = [pc |-> q.pc, est |-> q.est, limit |-> q.limit, want_leaders |-> q.want_leaders,
                nodes |-> q.nodes, epoch |-> q.epoch]
        /\ q.limit = r.limit /\ q.epoch = r.epoch
    OBVIOUS
  <2> HIDE DEF q
  <2>2. Await(q)
    BY <1>1 DEF q
  <2> QED
    BY <2>1, <2>2, AwaitInv
<1>2. CASE ~r.want_leaders /\ Update(r, NotAsked)
  BY <1>2, UpdateInv DEF NotAsked
<1> QED
  BY <1>1, <1>2 DEF AskLeaders

LEMMA AskEpochInv ==
  ASSUME Inv, NEW nodes, AskEpoch(nodes)
  PROVE  Inv'
<1> DEFINE est == estimated_current_slot
           r == [pc |-> "epoch_rpc", est |-> est, limit |-> fanout(cache.slots_in_epoch),
                 want_leaders |-> LeadersDue(est), nodes |-> nodes, epoch |-> NotAsked]
<1>1. Await(r) \/ AskLeaders(r)
  BY DEF AskEpoch
<1>2. /\ r = [pc |-> r.pc, est |-> r.est, limit |-> r.limit, want_leaders |-> r.want_leaders,
              nodes |-> r.nodes, epoch |-> r.epoch]
      /\ r.limit = fanout(cache.slots_in_epoch) /\ r.epoch = NotAsked
  OBVIOUS
<1> HIDE DEF r
<1>3. IsFanout(r.limit) /\ EpochAnswer(r.epoch)
  BY <1>2 DEF IsFanout, EpochAnswer, NotAsked, Inv, CacheInv
<1> QED
  BY <1>1, <1>2, <1>3, AwaitInv, AskLeadersInv

LEMMA EpochReplyInv ==
  ASSUME Inv, NEW answer, EpochAnswer(answer), EpochReply(answer)
  PROVE  Inv'
<1> DEFINE r == [refresher EXCEPT !.epoch = answer]
<1>1. refresher.pc = "epoch_rpc" /\ AskLeaders(r)
  BY DEF EpochReply, RefresherRuns
<1>2. /\ r = [pc |-> r.pc, est |-> r.est, limit |-> r.limit, want_leaders |-> r.want_leaders,
              nodes |-> r.nodes, epoch |-> r.epoch]
      /\ r.limit = refresher.limit /\ r.epoch = answer
  BY DEF Inv, RefresherInv, RefresherShape
<1> HIDE DEF r
<1>3. IsFanout(r.limit)
  BY <1>1, <1>2 DEF Inv, RefresherInv
<1> QED
  BY <1>1, <1>2, <1>3, AskLeadersInv

LEMMA LeadersReplyInv ==
  ASSUME Inv, NEW answer, LeadersReply(answer),
         answer = Failed \/ answer = Ok(get_slot_leaders(refresher.est, refresher.limit))
  PROVE  Inv'
<1>1. refresher.pc = "leaders_rpc" /\ Update(refresher, answer)
  BY DEF LeadersReply, RefresherRuns
<1>2. \/ answer.tag # "ok"
      \/ IsFanout(refresher.limit) /\ answer.val = get_slot_leaders(refresher.est, refresher.limit)
  BY <1>1 DEF Inv, RefresherInv, Failed, Ok
<1> QED
  BY <1>1, <1>2, UpdateInv DEF Inv, RefresherInv

LEMMA RefresherKeepsInv == Inv /\ Refresher => Inv'
<1> SUFFICES ASSUME Inv, Refresher PROVE Inv'
  OBVIOUS
<1>1. ASSUME NEW pc \in {"done", "sleep", "cluster_rpc"}, Await(At(pc))
      PROVE  Inv'
  <2>1. refresher' = At(pc) /\ UNCHANGED <<cache, fetched_at>>
    BY <1>1 DEF Await
  <2>2. RefresherInv'
    BY <2>1, BackAtStart
  <2> QED
    BY <2>1, <2>2 DEF Inv, CacheInv, CacheIsScheduleWindow
<1>2. CASE RefresherLoop
  BY <1>1, <1>2 DEF RefresherLoop
<1>3. CASE Wake
  BY <1>1, <1>3, AskEpochInv DEF Wake
<1>4. CASE ClusterAnswered \/ ClusterReply(Failed)
  BY <1>4, AskEpochInv DEF ClusterAnswered, ClusterReply
<1>5. CASE EpochAnswered
  <2>1. PICK n \in EpochLengths : EpochReply(Ok(n))
    BY <1>5 DEF EpochAnswered
  <2>2. EpochAnswer(Ok(n))
    BY DEF EpochAnswer, Ok
  <2> QED
    BY <2>1, <2>2, EpochReplyInv
<1>6. CASE EpochReply(Failed)
  BY <1>6, EpochReplyInv DEF EpochAnswer, Failed
<1>7. CASE LeadersAnswered
  BY <1>7, LeadersReplyInv DEF LeadersAnswered
<1>8. CASE LeadersReply(Failed)
  BY <1>8, LeadersReplyInv
<1> QED
  BY <1>2, <1>3, <1>4, <1>5, <1>6, <1>7, <1>8 DEF Refresher, RpcFails

\* Nobody but the refresher touches its locals and the cache.
LEMMA OthersKeepInv ==
  ASSUME Inv, UNCHANGED <<cache, fetched_at, refresher>>
  PROVE  Inv'
<1>1. RefresherInv'
  BY DEF Inv, RefresherInv, RefresherShape
<1>2. CacheInv'
  BY DEF Inv, CacheInv, CacheIsScheduleWindow
<1> QED
  BY <1>1, <1>2 DEF Inv

LEMMA NextInv == Inv /\ [Next]_vars => Inv'
<1> SUFFICES ASSUME Inv, [Next]_vars PROVE Inv'
  OBVIOUS
<1>1. CASE Watcher
  <2>1. UNCHANGED <<cache, fetched_at, refresher>>
    BY <1>1 DEF Watcher, Subscribe, CheckExit, Notifications, Notification, QuietOrEnded,
       Unsubscribe, WatcherStep
  <2> QED
    BY <2>1, OthersKeepInv
<1>2. CASE SlotPasses \/ ClusterChanges \/ StreamEnds \/ FiveMinutesPass
           \/ DropClient \/ Shutdown \/ Join \/ UNCHANGED vars
  <2>1. UNCHANGED <<cache, fetched_at, refresher>>
    BY <1>2 DEF SlotPasses, ClusterChanges, StreamEnds, FiveMinutesPass, DropClient, Shutdown,
       Join, vars, service
  <2> QED
    BY <2>1, OthersKeepInv
<1> QED
  BY <1>1, <1>2, RefresherKeepsInv DEF Next

\* CacheIsScheduleWindow: the cached leaders are one answer of the RPC node, in
\* full, whatever the watcher does while the refresher waits for it.
THEOREM CacheStaysScheduleWindow == Spec => []CacheIsScheduleWindow
<1>1. Inv => CacheIsScheduleWindow
  BY DEF Inv, CacheInv
<1> QED
  BY <1>1, InitInv, NextInv, PTL DEF Spec

-----------------------------------------------------------------------------
(* The slot the cache is filed under.                                      *)

Slots == INSTANCE RecentLeaderSlotsProofs WITH Slot <- Nat

\* The operators proved about there are those the service uses.
LEMMA SameEstimate ==
  ASSUME NEW w
  PROVE  Slots!EstimatedSlot(w) = Recent!EstimatedSlot(w)
<1>1. ASSUME NEW S PROVE Slots!Max(S) = Recent!Max(S)
  BY DEF Slots!Max, Recent!Max
<1>2. Slots!ToSet(w) = Recent!ToSet(w)
  BY DEF Slots!ToSet, Recent!ToSet
<1>3. ASSUME NEW k PROVE Slots!SortedAt(w, k) = Recent!SortedAt(w, k)
  <2>1. ASSUME NEW v
        PROVE  Slots!Below(w, v) = Recent!Below(w, v) /\ Slots!UpTo(w, v) = Recent!UpTo(w, v)
    BY DEF Slots!Below, Recent!Below, Slots!UpTo, Recent!UpTo
  <2>2. ASSUME NEW S PROVE Slots!Cardinality(S) = Recent!Cardinality(S)
    BY DEF Slots!Cardinality, Recent!Cardinality
  <2> QED
    BY <1>2, <2>1, <2>2 DEF Slots!SortedAt, Recent!SortedAt
<1>4. Slots!MedianIndex(w) = Recent!MedianIndex(w) /\ Slots!Spread(w) = Recent!Spread(w)
  BY DEF Slots!MedianIndex, Recent!MedianIndex, Slots!Spread, Recent!Spread,
     Slots!MaxIndex, Recent!MaxIndex
<1>5. Slots!MaxReasonableSlot(w) = Recent!MaxReasonableSlot(w)
  BY <1>3, <1>4 DEF Slots!MaxReasonableSlot, Recent!MaxReasonableSlot
<1> QED
  BY <1>1, <1>2, <1>5 DEF Slots!EstimatedSlot, Recent!EstimatedSlot

LEMMA SameRecorded ==
  ASSUME NEW w, NEW s
  PROVE  Slots!Recorded(w, s) = Recent!Recorded(w, s)
<1>1. ASSUME NEW S PROVE Slots!Max(S) = Recent!Max(S)
  BY DEF Slots!Max, Recent!Max
<1> QED
  BY <1>1 DEF Slots!Recorded, Recent!Recorded

\* Notifications are neither late nor early.
OnTime == RecentLen > 1 /\ Lag = 0 /\ StraySlots = {}

\* The slots of the window have been notified in order and have been reached.
Reached(w) ==
  /\ w \in Seq(Nat) /\ Len(w) \in 1 .. RecentLen
  /\ Slots!IsInOrder(w)
  /\ \A i \in DOMAIN w : w[i] <= clock

ReachedInv == clock \in Nat /\ Reached(recent_slots)

\* The cache, and the leaders that are asked for, are of slots the estimate has
\* already passed.
FiledInv ==
  /\ fetched_at \in Nat /\ cache.first_slot \in Nat
  /\ fetched_at <= cache.first_slot /\ cache.first_slot <= estimated_current_slot
  /\ refresher.pc \in {"epoch_rpc", "leaders_rpc"}
       => refresher.est \in Nat /\ refresher.est <= estimated_current_slot

\* The estimate is a slot of the window.
LEMMA EstimateIsRecorded ==
  ASSUME NEW w \in Seq(Nat), Len(w) \in 1 .. RecentLen
  PROVE  \E i \in 1 .. Len(w) : Recent!EstimatedSlot(w) = w[i]
<1>1. Slots!Window(w)
  BY ServiceAssumption DEF Slots!Window
<1>2. Slots!EstimatedSlot(w) \in Slots!ToSet(w)
  BY <1>1, Slots!EstimateBetween, ServiceAssumption
<1> QED
  BY <1>2, SameEstimate DEF Slots!ToSet

\* A notification that is on time is of the slot the cluster is in.
LEMMA OnTimeIsClock ==
  ASSUME OnTime, clock \in Nat, NEW update \in Updates
  PROVE  /\ update.type = "Completed" => update.slot + 1 = clock
         /\ update.type = "FirstShredReceived" => update.slot = clock
<1>1. CASE update \in [type : {"FirstShredReceived"},
                       slot : (saturating_sub(clock, Lag) .. clock) \cup StraySlots]
  BY <1>1 DEF OnTime, saturating_sub
<1>2. CASE update \in [type : {"Completed"}, slot : saturating_sub(clock, Lag + 1) .. (clock - 1)]
  BY <1>2 DEF OnTime, saturating_sub
<1>3. CASE update \in [type : {"CreatedBank"}, slot : {clock}]
  BY <1>3
<1> QED
  BY <1>1, <1>2, <1>3 DEF Updates

\* Recording the slot the cluster is in keeps the window in order and moves the
\* estimate forward.
LEMMA RecordClock ==
  ASSUME OnTime, ReachedInv, recent_slots' = Recent!Recorded(recent_slots, clock), clock' = clock
  PROVE  ReachedInv' /\ estimated_current_slot <= estimated_current_slot'
<1> DEFINE w == recent_slots
           r == Slots!Recorded(w, clock)
<1>1. w \in Seq(Nat) /\ Len(w) \in 1 .. RecentLen /\ clock \in Nat /\ recent_slots' = r
  BY SameRecorded DEF ReachedInv, Reached
<1>2. /\ r \in Seq(Nat) /\ r[Len(r)] = clock
      /\ Len(w) < RecentLen => Len(r) = Len(w) + 1 /\ \A i \in 1 .. Len(w) : r[i] = w[i]
      /\ Len(w) = RecentLen => Len(r) = Len(w) /\ \A i \in 1 .. Len(w) - 1 : r[i] = w[i + 1]
  BY <1>1, Slots!RecordedIs, ServiceAssumption
<1>3. /\ \A i \in 1 .. Len(w) : w[i] \in Nat /\ w[i] <= clock
      /\ \A i, j \in 1 .. Len(w) : i < j => w[i] <= w[j]
  BY <1>1 DEF ReachedInv, Reached, Slots!IsInOrder
<1> HIDE DEF r
<1>4. Len(r) \in 1 .. RecentLen
  BY <1>1, <1>2, ServiceAssumption
<1>5. \A i, j \in 1 .. Len(r) : i < j => r[i] <= r[j] /\ r[i] <= clock
  <2> SUFFICES ASSUME NEW i \in 1 .. Len(r), NEW j \in 1 .. Len(r), i < j
               PROVE  r[i] <= r[j] /\ r[i] <= clock
    OBVIOUS
  <2>1. CASE Len(w) < RecentLen
    <3>1. i \in 1 .. Len(w) /\ (j \in 1 .. Len(w) \/ j = Len(r))
      BY <1>1, <1>2, <2>1
    <3> QED
      BY <1>2, <1>3, <2>1, <3>1
  <2>2. CASE Len(w) = RecentLen
    <3>1. /\ i \in 1 .. Len(w) - 1 /\ i + 1 \in 1 .. Len(w)
          /\ \/ j \in 1 .. Len(w) - 1 /\ j + 1 \in 1 .. Len(w) /\ i + 1 < j + 1
             \/ j = Len(r)
      BY <1>1, <1>2, <2>2
    <3> QED
      BY <1>2, <1>3, <2>2, <3>1
  <2> QED
    BY <1>1, <2>1, <2>2, ServiceAssumption
<1>6. \A i \in 1 .. Len(r) : r[i] <= clock
  <2> SUFFICES ASSUME NEW i \in 1 .. Len(r) PROVE r[i] <= clock
    OBVIOUS
  <2>1. i = Len(r) \/ (i < Len(r) /\ Len(r) \in 1 .. Len(r))
    BY <1>4
  <2> QED
    BY <1>1, <1>2, <1>5, <2>1
<1>7. Slots!IsInOrder(r) /\ DOMAIN r = 1 .. Len(r)
  BY <1>2, <1>5 DEF Slots!IsInOrder
<1>8. ReachedInv'
  BY <1>1, <1>2, <1>4, <1>6, <1>7 DEF ReachedInv, Reached, Slots!IsInOrder
<1>9. Slots!EstimatedSlot(r) >= Slots!EstimatedSlot(w)
  BY <1>1, <1>7, Slots!InOrderSlots, ServiceAssumption DEF OnTime, ReachedInv, Reached, r
<1>10. /\ estimated_current_slot = Slots!EstimatedSlot(w)
       /\ estimated_current_slot' = Slots!EstimatedSlot(r)
  BY <1>1, SameEstimate DEF estimated_current_slot
<1>11. estimated_current_slot \in Nat /\ estimated_current_slot' \in Nat
  <2>1. /\ \E i \in 1 .. Len(w) : Recent!EstimatedSlot(w) = w[i]
        /\ \E i \in 1 .. Len(r) : Recent!EstimatedSlot(r) = r[i]
    BY <1>1, <1>2, <1>4, EstimateIsRecorded
  <2>2. /\ estimated_current_slot = Recent!EstimatedSlot(w)
        /\ estimated_current_slot' = Recent!EstimatedSlot(r)
    BY <1>1 DEF estimated_current_slot
  <2> QED
    BY <1>2, <1>3, <2>1, <2>2
<1> QED
  BY <1>8, <1>9, <1>10, <1>11

\* A request is for a slot the estimate has passed.
Passed(est) == est \in Nat /\ est <= estimated_current_slot

LEMMA EstimateReached ==
  ASSUME ReachedInv
  PROVE  estimated_current_slot \in Nat /\ estimated_current_slot <= clock
BY EstimateIsRecorded DEF ReachedInv, Reached, estimated_current_slot

LEMMA UpdateFiled ==
  ASSUME ReachedInv, FiledInv, UNCHANGED recent_slots, NEW r, NEW answer, Update(r, answer),
         answer.tag = "ok" => Passed(r.est)
  PROVE  FiledInv'
<1> DEFINE info == [cluster_nodes |-> r.nodes, epoch_info |-> r.epoch, slot_leaders |-> answer]
<1>1. /\ cache' = (IF HasSome(info) THEN update_all(cache, UpdateSlot, info) ELSE cache)
      /\ fetched_at' = (IF answer.tag = "ok" THEN r.est ELSE fetched_at)
      /\ refresher' = At("check")
  BY DEF Update
<1>2. info.slot_leaders = answer
  OBVIOUS
<1>3. answer.tag = "ok" => HasSome(info)
  BY <1>2 DEF HasSome, NotAsked
<1> HIDE DEF info
<1>4. cache'.first_slot = IF answer.tag = "ok" THEN estimated_current_slot ELSE cache.first_slot
  BY <1>1, <1>2, <1>3 DEF update_all, NewFirstSlot, Overwritten, UpdateSlot
<1>5. estimated_current_slot' = estimated_current_slot
  BY DEF estimated_current_slot
<1>6. refresher'.pc = "check"
  BY <1>1 DEF At
<1> QED
  BY <1>1, <1>4, <1>5, <1>6, EstimateReached DEF FiledInv, Passed

LEMMA AwaitFiled ==
  ASSUME FiledInv, UNCHANGED recent_slots, NEW r, Await(r),
         r.pc \in {"epoch_rpc", "leaders_rpc"} => Passed(r.est)
  PROVE  FiledInv'
<1>1. estimated_current_slot' = estimated_current_slot
  BY DEF estimated_current_slot
<1> QED
  BY <1>1 DEF FiledInv, Passed, Await

LEMMA AskLeadersFiled ==
  ASSUME ReachedInv, FiledInv, UNCHANGED recent_slots, NEW r, AskLeaders(r), Passed(r.est),
         r = [pc |-> r.pc, est |-> r.est, limit |-> r.limit, want_leaders |-> r.want_leaders,
              nodes |-> r.nodes, epoch |-> r.epoch]
  PROVE  FiledInv'
<1>1. CASE r.want_leaders /\ Await([r EXCEPT !.pc = "leaders_rpc"])
  <2>1. [r EXCEPT !.pc = "leaders_rpc"].est = r.est
    OBVIOUS
  <2> QED
    BY <1>1, <2>1, AwaitFiled
<1>2. CASE ~r.want_leaders /\ Update(r, NotAsked)
  BY <1>2, UpdateFiled DEF NotAsked
<1> QED
  BY <1>1, <1>2 DEF AskLeaders

LEMMA AskEpochFiled ==
  ASSUME ReachedInv, FiledInv, UNCHANGED recent_slots, NEW nodes, AskEpoch(nodes)
  PROVE  FiledInv'
<1> DEFINE est == estimated_current_slot
           r == [pc |-> "epoch_rpc", est |-> est, limit |-> fanout(cache.slots_in_epoch),
                 want_leaders |-> LeadersDue(est), nodes |-> nodes, epoch |-> NotAsked]
<1>1. Await(r) \/ AskLeaders(r)
  BY DEF AskEpoch
<1>2. /\ r = [pc |-> r.pc, est |-> r.est, limit |-> r.limit, want_leaders |-> r.want_leaders,
              nodes |-> r.nodes, epoch |-> r.epoch]
      /\ r.est = estimated_current_slot
  OBVIOUS
<1> HIDE DEF r
<1>3. Passed(r.est)
  BY <1>2, EstimateReached DEF Passed
<1> QED
  BY <1>1, <1>2, <1>3, AwaitFiled, AskLeadersFiled

LEMMA RefresherFiled == Inv /\ ReachedInv /\ FiledInv /\ Refresher => ReachedInv' /\ FiledInv'
<1> SUFFICES ASSUME Inv, ReachedInv, FiledInv, Refresher PROVE ReachedInv' /\ FiledInv'
  OBVIOUS
<1>0. UNCHANGED <<clock, recent_slots>>
  BY DEF Refresher, RefresherLoop, Wake, ClusterAnswered, EpochAnswered, LeadersAnswered, RpcFails,
     ClusterReply, EpochReply, LeadersReply, RefresherRuns, environment
<1>1. ReachedInv'
  BY <1>0 DEF ReachedInv, Reached
<1>2. ASSUME NEW pc \in {"done", "sleep", "cluster_rpc"}, Await(At(pc))
      PROVE  FiledInv'
  <2>1. At(pc).pc = pc
    BY DEF At
  <2> QED
    BY <1>0, <1>2, <2>1, AwaitFiled
<1>3. CASE RefresherLoop
  BY <1>1, <1>2, <1>3 DEF RefresherLoop
<1>4. CASE Wake
  BY <1>0, <1>1, <1>2, <1>4, AskEpochFiled DEF Wake
<1>5. CASE ClusterAnswered \/ ClusterReply(Failed)
  BY <1>0, <1>1, <1>5, AskEpochFiled DEF ClusterAnswered, ClusterReply
<1>6. ASSUME NEW answer, EpochReply(answer)
      PROVE  FiledInv'
  <2> DEFINE r == [refresher EXCEPT !.epoch = answer]
  <2>1. refresher.pc = "epoch_rpc" /\ AskLeaders(r)
    BY <1>6 DEF EpochReply, RefresherRuns
  <2>2. /\ r = [pc |-> r.pc, est |-> r.est, limit |-> r.limit, want_leaders |-> r.want_leaders,
                nodes |-> r.nodes, epoch |-> r.epoch]
        /\ r.est = refresher.est
    BY DEF Inv, RefresherInv, RefresherShape
  <2> HIDE DEF r
  <2>3. Passed(r.est)
    BY <2>1, <2>2 DEF FiledInv, Passed
  <2> QED
    BY <1>0, <2>1, <2>2, <2>3, AskLeadersFiled
<1>7. ASSUME NEW answer, LeadersReply(answer)
      PROVE  FiledInv'
  <2>1. refresher.pc = "leaders_rpc" /\ Update(refresher, answer)
    BY <1>7 DEF LeadersReply, RefresherRuns
  <2> QED
    BY <1>0, <2>1, UpdateFiled DEF FiledInv, Passed
<1> QED
  BY <1>1, <1>3, <1>4, <1>5, <1>6, <1>7 DEF Refresher, EpochAnswered, LeadersAnswered, RpcFails

LEMMA EnvironmentFiled ==
  ASSUME ReachedInv, FiledInv, SlotPasses \/ ClusterChanges \/ StreamEnds
  PROVE  ReachedInv' /\ FiledInv'
<1>1. CASE SlotPasses
  <2>1. clock' = clock + 1 /\ UNCHANGED <<recent_slots, cache, fetched_at, refresher>>
    BY <1>1 DEF SlotPasses, service
  <2>2. ReachedInv'
    <3>1. \A i \in DOMAIN recent_slots : recent_slots[i] <= clock + 1
      BY DEF ReachedInv, Reached
    <3> QED
      BY <2>1, <3>1 DEF ReachedInv, Reached
  <2> QED
    BY <2>1, <2>2 DEF FiledInv, estimated_current_slot
<1>2. CASE ClusterChanges \/ StreamEnds
  <2>1. UNCHANGED <<clock, recent_slots, cache, fetched_at, refresher>>
    BY <1>2 DEF ClusterChanges, StreamEnds, service
  <2> QED
    BY <2>1 DEF ReachedInv, Reached, FiledInv, estimated_current_slot
<1> QED
  BY <1>1, <1>2

LEMMA NextFiled ==
  ASSUME OnTime
  PROVE  Inv /\ ReachedInv /\ FiledInv /\ [Next]_vars => ReachedInv' /\ FiledInv'
<1> SUFFICES ASSUME Inv, ReachedInv, FiledInv, [Next]_vars PROVE ReachedInv' /\ FiledInv'
  OBVIOUS
<1>1. CASE Notifications
  <2>1. PICK update \in Updates : Notification(update)
    BY <1>1 DEF Notifications
  <2>2. UNCHANGED <<clock, cache, fetched_at, refresher>>
    BY <2>1 DEF Notification, WatcherStep, environment
  <2>3. recent_slots' = Recent!Recorded(recent_slots, clock) \/ UNCHANGED recent_slots
    BY <2>1, OnTimeIsClock DEF Notification, ReachedInv
  <2>4. ReachedInv' /\ estimated_current_slot <= estimated_current_slot'
    <3>1. CASE recent_slots' = Recent!Recorded(recent_slots, clock)
      BY <2>2, <3>1, RecordClock
    <3>2. CASE UNCHANGED recent_slots
      BY <2>2, <3>2, EstimateReached DEF ReachedInv, Reached, estimated_current_slot
    <3> QED
      BY <2>3, <3>1, <3>2
  <2>5. estimated_current_slot \in Nat /\ estimated_current_slot' \in Nat
    <3>1. estimated_current_slot' = Recent!EstimatedSlot(recent_slots')
      BY DEF estimated_current_slot
    <3>2. recent_slots' \in Seq(Nat) /\ Len(recent_slots') \in 1 .. RecentLen
      BY <2>4 DEF ReachedInv, Reached
    <3> QED
      BY <3>1, <3>2, EstimateReached, EstimateIsRecorded
  <2> QED
    BY <2>2, <2>4, <2>5 DEF FiledInv
<1>2. CASE SlotPasses \/ ClusterChanges \/ StreamEnds
  BY <1>2, EnvironmentFiled
<1>3. CASE Subscribe \/ CheckExit \/ QuietOrEnded \/ Unsubscribe \/ FiveMinutesPass
           \/ DropClient \/ Shutdown \/ Join \/ UNCHANGED vars
  <2>1. UNCHANGED <<clock, recent_slots, cache, fetched_at, refresher>>
    BY <1>3 DEF Subscribe, CheckExit, QuietOrEnded, Unsubscribe, WatcherStep,
       FiveMinutesPass, DropClient, Shutdown, Join, vars, service, environment
  <2> QED
    BY <2>1 DEF ReachedInv, Reached, FiledInv, estimated_current_slot
<1> QED
  BY <1>1, <1>2, <1>3, RefresherFiled DEF Next, Watcher

-----------------------------------------------------------------------------
(* The start.                                                              *)

StartShape ==
  start = [pc |-> start.pc, start_slot |-> start.start_slot,
           slots_in_epoch |-> start.slots_in_epoch, leaders |-> start.leaders,
           nodes |-> start.nodes, waited |-> start.waited, wake |-> start.wake,
           failed |-> start.failed]

StartInv ==
  /\ StartShape
  /\ start.waited \in 0 .. StartTimeout
  /\ LateScheduleTolerated

LEMMA StartNextInv == StartInv /\ [StartNext]_startVars => StartInv'
<1> SUFFICES ASSUME StartInv, [StartNext]_startVars PROVE StartInv'
  OBVIOUS
<1>1. CASE GotSlot
  BY <1>1 DEF GotSlot, StartGoes, StartInv, StartShape, LateScheduleTolerated
<1>2. CASE GotEpochInfo \/ GotLeaders \/ AskAgain
  BY <1>2 DEF GotEpochInfo, GotLeaders, AskAgain, StartGoes, StartInv, StartShape,
     LateScheduleTolerated
<1>3. CASE InvalidSlotRange
  BY <1>3 DEF InvalidSlotRange, StartGoes, StartInv, StartShape, LateScheduleTolerated
<1>4. CASE SecondPasses
  BY <1>4, StartAssumption DEF SecondPasses, StartGoes, StartInv, StartShape, LateScheduleTolerated
<1>5. CASE StartTimesOut
  BY <1>5, StartAssumption DEF StartTimesOut, StartGoes, StartInv, StartShape, LateScheduleTolerated
<1>6. CASE StartCallFails
  BY <1>6 DEF StartCallFails, StartGoes, StartInv, StartShape, LateScheduleTolerated
<1>7. CASE GotClusterNodes \/ PubsubConnected
  <2>1. CASE start' = StartAt("running")
    BY <2>1, StartAssumption DEF StartAt, StartInv, StartShape, LateScheduleTolerated
  <2>2. CASE StartGoes("get_cluster_nodes", [start EXCEPT !.pc = "pubsub", !.nodes = cluster_nodes])
    BY <2>2 DEF StartGoes, StartInv, StartShape, LateScheduleTolerated
  <2> QED
    BY <1>7, <2>1, <2>2 DEF GotClusterNodes, PubsubConnected, Spawn
<1>8. CASE ScheduleAppears \/ EnvironmentStep \/ ServiceStep \/ UNCHANGED startVars
  BY <1>8 DEF ScheduleAppears, EnvironmentStep, ServiceStep, startVars, startup, StartInv,
     StartShape, LateScheduleTolerated
<1> QED
  BY <1>1, <1>2, <1>3, <1>4, <1>5, <1>6, <1>7, <1>8 DEF StartNext, StartStep

\* LateScheduleTolerated: the start gives up only on an error other than an
\* invalid slot range, or once the whole timeout has passed.
THEOREM LateScheduleAlwaysTolerated == StartSpec => []LateScheduleTolerated
<1>1. StartInit => StartInv
  BY StartAssumption DEF StartInit, StartAt, StartInv, StartShape, LateScheduleTolerated
<1>2. StartInv => LateScheduleTolerated
  BY DEF StartInv
<1> QED
  BY <1>1, <1>2, StartNextInv, PTL DEF StartSpec

-----------------------------------------------------------------------------
(* The start hands over a window that is filed as a refresh would file it. *)

Asked  == {"get_slot_leaders", "sleep", "get_cluster_nodes", "pubsub"}
Loaded == {"get_cluster_nodes", "pubsub"}

\* What the start has learnt: a slot that has passed, an epoch length and the
\* leaders from that slot on.
LearntInv ==
  /\ StartShape
  /\ clock \in Nat /\ start.start_slot \in Nat /\ start.start_slot <= clock
  /\ start.pc \in Asked => start.slots_in_epoch \in EpochLengths
  /\ start.pc \in Loaded
       => start.leaders = get_slot_leaders(start.start_slot, fanout(start.slots_in_epoch))

HandedInv == ReachedInv /\ FiledInv /\ (Running => Inv)

\* A window of one slot.
LEMMA FirstSlot ==
  ASSUME NEW s \in Nat
  PROVE  /\ <<s>> \in Seq(Nat) /\ Len(<<s>>) \in 1 .. RecentLen /\ DOMAIN <<s>> = {1}
         /\ <<s>>[1] = s /\ Slots!IsInOrder(<<s>>) /\ Recent!EstimatedSlot(<<s>>) = s
<1>1. /\ <<s>> \in Seq(Nat) /\ Len(<<s>>) = 1 /\ Len(<<s>>) \in 1 .. RecentLen
      /\ DOMAIN <<s>> = {1} /\ <<s>>[1] = s
  BY ServiceAssumption
<1>2. Slots!IsInOrder(<<s>>)
  BY <1>1 DEF Slots!IsInOrder
<1>3. PICK i \in 1 .. Len(<<s>>) : Recent!EstimatedSlot(<<s>>) = <<s>>[i]
  BY <1>1, EstimateIsRecorded
<1>4. i = 1
  BY <1>1, <1>3
<1> QED
  BY <1>1, <1>2, <1>3, <1>4

LEMMA SpawnHands ==
  ASSUME LearntInv, start.pc \in Loaded, NEW nodes, NEW loop, Spawn(nodes, loop)
  PROVE  LearntInv' /\ HandedInv'
<1> DEFINE s == start.start_slot
           n == start.slots_in_epoch
<1>1. /\ s \in Nat /\ s <= clock /\ n \in EpochLengths
      /\ start.leaders = get_slot_leaders(s, fanout(n))
  BY DEF LearntInv, Asked, Loaded
<1>2. /\ clock' = clock /\ recent_slots' = <<s>> /\ fetched_at' = s
      /\ cache'.first_slot = s /\ cache'.leaders = start.leaders /\ cache'.slots_in_epoch = n
      /\ refresher' = At("check") /\ start' = StartAt("running")
  BY DEF Spawn, NewCache, environment
<1> HIDE DEF s, n
<1>3. LearntInv'
  BY <1>2 DEF LearntInv, StartShape, StartAt, Asked, Loaded
<1>4. ReachedInv'
  BY <1>1, <1>2, FirstSlot DEF LearntInv, ReachedInv, Reached, Slots!IsInOrder
<1>5. estimated_current_slot' = s
  BY <1>1, <1>2, FirstSlot DEF estimated_current_slot
<1>6. refresher'.pc = "check"
  BY <1>2 DEF At
<1>7. FiledInv'
  BY <1>1, <1>2, <1>5, <1>6 DEF FiledInv
<1>8. RefresherInv'
  BY <1>2, BackAtStart
<1>9. CacheInv'
  <2>1. /\ Len(cache'.leaders) = fanout(n)
        /\ cache'.leaders = get_slot_leaders(s, Len(cache'.leaders))
    BY <1>1, <1>2, AnswerIsWindow
  <2> QED
    BY <1>1, <1>2, <2>1 DEF CacheInv, CacheIsScheduleWindow
<1> QED
  BY <1>3, <1>4, <1>7, <1>8, <1>9 DEF HandedInv, Inv

\* As long as the service does not exist its variables stay.
LEMMA GoesHanded ==
  ASSUME HandedInv, UNCHANGED vars, start'.pc # "running"
  PROVE  HandedInv' /\ clock' = clock
<1>1. UNCHANGED <<clock, recent_slots, cache, fetched_at, refresher>>
  BY DEF vars, environment, service
<1> QED
  BY <1>1 DEF HandedInv, ReachedInv, Reached, FiledInv, estimated_current_slot, Running

\* A step of the start before the service exists: what it learns.
LEMMA GoesLearnt ==
  ASSUME LearntInv, UNCHANGED vars,
         GotSlot \/ GotEpochInfo \/ GotLeaders \/ InvalidSlotRange \/ AskAgain \/ SecondPasses
           \/ StartTimesOut \/ StartCallFails
           \/ StartGoes("get_cluster_nodes", [start EXCEPT !.pc = "pubsub", !.nodes = cluster_nodes])
  PROVE  LearntInv' /\ start'.pc # "running" /\ start.pc # "running"
<1>0. StartShape /\ clock \in Nat /\ clock' = clock
  BY DEF LearntInv, vars, environment
<1>1. CASE GotSlot
  <2>1. PICK slot \in saturating_sub(clock, Lag) .. clock :
          StartGoes("get_slot", [start EXCEPT !.pc = "get_epoch_info", !.start_slot = slot])
    BY <1>1 DEF GotSlot
  <2>2. saturating_sub(clock, Lag) \in Nat
    BY <1>0, ServiceAssumption DEF saturating_sub
  <2>3. slot \in Nat /\ slot <= clock
    BY <1>0, <2>1, <2>2
  <2> QED
    BY <1>0, <2>1, <2>3 DEF LearntInv, StartShape, StartGoes, Asked, Loaded
<1>2. CASE GotEpochInfo
  BY <1>0, <1>2 DEF GotEpochInfo, LearntInv, StartShape, StartGoes, Asked, Loaded
<1>3. CASE GotLeaders
  <2> DEFINE answer == get_slot_leaders(start.start_slot, fanout(start.slots_in_epoch))
  <2>1. /\ start.pc = "get_slot_leaders"
        /\ start' = [start EXCEPT !.pc = "get_cluster_nodes", !.leaders = answer]
    BY <1>3 DEF GotLeaders, StartGoes
  <2> HIDE DEF answer
  <2>2. /\ start'.pc = "get_cluster_nodes" /\ start'.leaders = answer
        /\ start'.start_slot = start.start_slot /\ start'.slots_in_epoch = start.slots_in_epoch
        /\ StartShape'
    BY <1>0, <2>1 DEF StartShape
  <2> QED
    BY <1>0, <2>1, <2>2 DEF LearntInv, Asked, answer
<1>4. CASE InvalidSlotRange \/ AskAgain \/ SecondPasses \/ StartTimesOut
  <2>1. /\ start.pc \in {"get_slot_leaders", "sleep"}
        /\ start'.pc \in {"get_slot_leaders", "sleep", "panicked"} /\ StartShape'
        /\ start'.start_slot = start.start_slot /\ start'.slots_in_epoch = start.slots_in_epoch
    BY <1>0, <1>4 DEF InvalidSlotRange, AskAgain, SecondPasses, StartTimesOut, StartGoes, StartShape
  <2> QED
    BY <1>0, <2>1 DEF LearntInv, Asked, Loaded
<1>5. CASE StartCallFails
  BY <1>0, <1>5 DEF StartCallFails, Starting, LearntInv, StartShape, StartGoes, Asked, Loaded
<1>6. CASE StartGoes("get_cluster_nodes", [start EXCEPT !.pc = "pubsub", !.nodes = cluster_nodes])
  BY <1>0, <1>6 DEF LearntInv, StartShape, StartGoes, Asked, Loaded
<1> QED
  BY <1>1, <1>2, <1>3, <1>4, <1>5, <1>6

\* What a step of the program is: one of the start before the service exists,
\* the one that spawns it, one of the service, or one of the environment.
LEMMA StartNextCases ==
  ASSUME LearntInv, [StartNext]_startVars
  PROVE  \/ UNCHANGED vars /\ LearntInv' /\ start'.pc # "running" /\ start.pc # "running"
         \/ \E nodes, loop : start.pc \in Loaded /\ loop \in {"ok", "subscribe"} /\ Spawn(nodes, loop)
         \/ (SlotPasses \/ ClusterChanges \/ StreamEnds) /\ UNCHANGED startup
         \/ Running /\ (FiveMinutesPass \/ Watcher \/ Refresher \/ DropClient \/ Shutdown \/ Join)
               /\ UNCHANGED startup
         \/ UNCHANGED <<vars, start>>
<1>1. CASE GotSlot \/ GotEpochInfo \/ GotLeaders \/ InvalidSlotRange \/ AskAgain \/ SecondPasses
           \/ StartTimesOut \/ StartCallFails
           \/ StartGoes("get_cluster_nodes", [start EXCEPT !.pc = "pubsub", !.nodes = cluster_nodes])
  <2>1. UNCHANGED vars
    BY <1>1 DEF GotSlot, GotEpochInfo, GotLeaders, InvalidSlotRange, AskAgain, SecondPasses,
       StartTimesOut, StartCallFails, StartGoes
  <2> QED
    BY <1>1, <2>1, GoesLearnt
<1>2. CASE GotClusterNodes \/ PubsubConnected
  BY <1>1, <1>2 DEF GotClusterNodes, PubsubConnected, Loaded
<1>3. CASE EnvironmentStep \/ ServiceStep \/ ScheduleAppears \/ UNCHANGED startVars
  BY <1>3 DEF EnvironmentStep, ServiceStep, ScheduleAppears, startVars, startup
<1> QED
  BY <1>1, <1>2, <1>3 DEF StartNext, StartStep

\* The service does not change the clock.
LEMMA ClockStays ==
  ASSUME FiveMinutesPass \/ Watcher \/ Refresher \/ DropClient \/ Shutdown \/ Join
  PROVE  clock' = clock /\ Next
BY DEF FiveMinutesPass, Watcher, Subscribe, CheckExit, Notifications, Notification, QuietOrEnded,
   Unsubscribe, WatcherStep, Refresher, RefresherLoop, Wake, ClusterAnswered, EpochAnswered,
   LeadersAnswered, RpcFails, ClusterReply, EpochReply, LeadersReply, RefresherRuns, DropClient,
   Shutdown, Join, environment, Next

LEMMA StartNextLearnt == LearntInv /\ [StartNext]_startVars => LearntInv'
<1> SUFFICES ASSUME LearntInv, [StartNext]_startVars PROVE LearntInv'
  OBVIOUS
<1>1. ASSUME NEW nodes, NEW loop, Spawn(nodes, loop), start.pc \in Loaded
      PROVE  LearntInv'
  BY <1>1, SpawnHands
<1>2. CASE (SlotPasses \/ ClusterChanges \/ StreamEnds) /\ UNCHANGED startup
  <2>1. UNCHANGED start /\ (clock' = clock \/ clock' = clock + 1)
    BY <1>2 DEF startup, SlotPasses, ClusterChanges, StreamEnds
  <2> QED
    BY <2>1 DEF LearntInv, StartShape
<1>3. CASE UNCHANGED start /\ UNCHANGED clock
  BY <1>3 DEF LearntInv, StartShape
<1> QED
  BY <1>1, <1>2, <1>3, StartNextCases, ClockStays DEF startup, vars, environment

LEMMA StartNextHanded ==
  ASSUME OnTime
  PROVE  LearntInv /\ HandedInv /\ [StartNext]_startVars => HandedInv'
<1> SUFFICES ASSUME LearntInv, HandedInv, [StartNext]_startVars PROVE HandedInv'
  OBVIOUS
<1>1. CASE UNCHANGED vars /\ start'.pc # "running"
  BY <1>1, GoesHanded
<1>2. ASSUME NEW nodes, NEW loop, Spawn(nodes, loop), start.pc \in Loaded
      PROVE  HandedInv'
  BY <1>2, SpawnHands
<1>3. CASE (SlotPasses \/ ClusterChanges \/ StreamEnds) /\ UNCHANGED startup
  <2>1. ReachedInv' /\ FiledInv'
    BY <1>3, EnvironmentFiled DEF HandedInv
  <2>2. Next /\ UNCHANGED start
    BY <1>3 DEF Next, startup
  <2> QED
    BY <2>1, <2>2, NextInv DEF HandedInv, Running
<1>4. CASE Running /\ (FiveMinutesPass \/ Watcher \/ Refresher \/ DropClient \/ Shutdown \/ Join)
             /\ UNCHANGED startup
  <2>1. Next /\ Inv /\ ReachedInv /\ FiledInv
    BY <1>4, ClockStays DEF HandedInv
  <2> QED
    BY <2>1, NextInv, NextFiled DEF HandedInv
<1>5. CASE UNCHANGED <<vars, start>>
  <2>1. Inv => Inv'
    BY <1>5, NextInv
  <2> QED
    BY <1>5, <2>1 DEF HandedInv, ReachedInv, Reached, FiledInv, estimated_current_slot, Running,
       vars, environment, service
<1> QED
  BY <1>1, <1>2, <1>3, <1>4, <1>5, StartNextCases

LEMMA StartInitLearnt == StartInit => LearntInv
BY ServiceAssumption DEF StartInit, LearntInv, StartShape, StartAt, Asked, Loaded

\* FiledBetweenRequestAndClock: with notifications that are on time the cache is
\* filed between the slot its leaders were asked for and the slot of the
\* cluster, although slots pass during the start and the estimate is read again
\* once an answer is in.
THEOREM AlwaysFiledBetween == ASSUME OnTime PROVE StartSpec => []FiledBetweenRequestAndClock
<1>1. StartInit => HandedInv
  <2> SUFFICES ASSUME StartInit PROVE HandedInv
    OBVIOUS
  <2>1. /\ recent_slots = <<0>> /\ clock = StartSlot /\ fetched_at = 0
        /\ cache.first_slot = 0 /\ refresher.pc = "unborn" /\ StartSlot \in Nat
        /\ start = StartAt("get_slot")
    BY ServiceAssumption DEF StartInit, NewCache, At
  <2>2. ReachedInv
    BY <2>1, FirstSlot DEF ReachedInv, Reached
  <2>3. estimated_current_slot = 0
    BY <2>1, FirstSlot DEF estimated_current_slot
  <2>4. ~Running
    BY <2>1 DEF Running, StartAt
  <2> QED
    BY <2>1, <2>2, <2>3, <2>4 DEF FiledInv, HandedInv
<1>2. HandedInv => FiledBetweenRequestAndClock
  BY EstimateReached DEF HandedInv, ReachedInv, FiledInv, FiledBetweenRequestAndClock
<1> QED
  BY <1>1, <1>2, StartInitLearnt, StartNextLearnt, StartNextHanded, PTL DEF StartSpec

-----------------------------------------------------------------------------
(* Which leaders a sender contacts.                                        *)

\* The Max and the Min of two numbers.
LEMMA MaxOfPair ==
  ASSUME NEW a \in Int, NEW b \in Int
  PROVE  Max({a, b}) \in {a, b} /\ Max({a, b}) >= a /\ Max({a, b}) >= b
<1>1. \E x \in {a, b} : \A y \in {a, b} : x >= y
  <2>1. CASE a >= b
    BY <2>1
  <2>2. CASE b >= a
    BY <2>2
  <2> QED
    BY <2>1, <2>2
<1> QED
  BY <1>1 DEF Max

LEMMA MinOfPair ==
  ASSUME NEW a \in Int, NEW b \in Int
  PROVE  Min({a, b}) \in {a, b} /\ Min({a, b}) <= a /\ Min({a, b}) <= b
<1>1. \E x \in {a, b} : \A y \in {a, b} : x <= y
  <2>1. CASE a <= b
    BY <2>1
  <2>2. CASE b <= a
    BY <2>2
  <2> QED
    BY <2>1, <2>2
<1> QED
  BY <1>1 DEF Min

\* At least one slot is asked for and sampled.
LEMMA SizesPositive ==
  /\ fanout_slots \in Nat \ {0}
  /\ \A n \in EpochLengths : fanout(n) \in Nat \ {0}
<1>1. fanout_slots \in Nat \ {0}
  <2> DEFINE least == Min({FanoutSlots, MaxFanoutSlots})
  <2>1. FanoutSlots \in Nat /\ MaxFanoutSlots \in Nat
    BY ServiceAssumption, FanoutAssumption
  <2>2. least \in {FanoutSlots, MaxFanoutSlots}
    BY <2>1, MinOfPair
  <2>3. least \in Nat
    BY <2>1, <2>2
  <2> HIDE DEF least
  <2>4. Max({1, least}) \in {1, least} /\ Max({1, least}) >= 1
    BY <2>3, MaxOfPair
  <2> QED
    BY <2>3, <2>4 DEF fanout_slots, least
<1>2. ASSUME NEW n \in EpochLengths PROVE fanout(n) \in Nat \ {0}
  <2> DEFINE two == 2 * MaxFanoutSlots
  <2>1. n \in Nat \ {0} /\ two \in Nat \ {0}
    BY ServiceAssumption, FanoutAssumption
  <2> HIDE DEF two
  <2>2. Min({two, n}) \in {two, n}
    BY <2>1, MinOfPair
  <2> QED
    BY <2>1, <2>2 DEF fanout, two
<1> QED
  BY <1>1, <1>2

\* The slots of the fanout whose leader can be sent to.
Served(c, current_slot, slots) ==
  {s \in SampledSlots(current_slot, slots) :
     KnowsSlot(c, s) /\ get_slot_leader(c, s) \in DOMAIN c.leader_tpu_map}

\* The sockets are those of the leaders of the sampled slots: taking the first
\* occurrences loses none.
LEMMA SocketsAreOfServed ==
  ASSUME NEW c, NEW est, NEW slots \in Nat, CurrentSlot(c, est) \in Int
  PROVE  ToSet(get_unique_leader_sockets(c, est, slots))
           = {c.leader_tpu_map[get_slot_leader(c, s)] : s \in Served(c, CurrentSlot(c, est), slots)}
<1> DEFINE S == Served(c, CurrentSlot(c, est), slots)
           all == get_leader_sockets(c, est, slots)
           F == {k \in DOMAIN all : \A j \in 1 .. k - 1 : all[j] # all[k]}
           Sockets == {c.leader_tpu_map[get_slot_leader(c, s)] : s \in S}
<1>1. S \in SUBSET Int /\ IsFiniteSet(S)
  <2> DEFINE I == CurrentSlot(c, est) .. (CurrentSlot(c, est) + slots - 1)
  <2>1. IsFiniteSet(I) /\ I \subseteq Int
    BY FS_Interval
  <2>2. S \in SUBSET I
    BY DEF Served, SampledSlots
  <2> QED
    BY <2>1, <2>2, FS_Subset
<1>2. all = [k \in DOMAIN Ascending(S) |-> c.leader_tpu_map[get_slot_leader(c, Ascending(S)[k])]]
  BY DEF get_leader_sockets, Served
<1> HIDE DEF S, all
<1>3. /\ Cardinality(S) \in Nat /\ DOMAIN Ascending(S) = 1 .. Cardinality(S)
      /\ \A k \in DOMAIN Ascending(S) : Ascending(S)[k] \in S
      /\ \A n \in S : \E k \in DOMAIN Ascending(S) : Ascending(S)[k] = n
  BY <1>1, AscendingIsSorted
<1>4. DOMAIN all = 1 .. Cardinality(S)
  BY <1>2, <1>3
<1>5. \A k \in DOMAIN all : all[k] \in Sockets
  BY <1>2, <1>3
<1>6. ASSUME NEW s \in S
      PROVE  \E k \in DOMAIN all : all[k] = c.leader_tpu_map[get_slot_leader(c, s)]
  BY <1>2, <1>3
<1>7. F \in SUBSET Int /\ IsFiniteSet(F)
  <2>1. F \in SUBSET (1 .. Cardinality(S)) /\ IsFiniteSet(1 .. Cardinality(S))
    BY <1>3, <1>4, FS_Interval
  <2>2. F \in SUBSET Int
    BY <1>3, <1>4
  <2> HIDE DEF F
  <2> QED
    BY <2>1, <2>2, FS_Subset
<1>8. ASSUME NEW k \in DOMAIN all
      PROVE  \E j \in F : all[j] = all[k]
  <2> DEFINE K == {j \in DOMAIN all : all[j] = all[k]}
  <2>1. K \in SUBSET Nat /\ K # {}
    BY <1>3, <1>4
  <2>2. PICK j \in K : \A i \in K : j <= i
    BY <2>1, Slots!LeastExists, ServiceAssumption
  <2>3. j \in DOMAIN all /\ all[j] = all[k]
    BY <2>2
  <2>4. ASSUME NEW i \in 1 .. j - 1 PROVE all[i] # all[j]
    <3>1. i \in DOMAIN all /\ i < j
      BY <1>3, <1>4, <2>3
    <3> QED
      BY <1>4, <2>2, <2>3, <3>1
  <2> QED
    BY <2>3, <2>4
<1>9. get_unique_leader_sockets(c, est, slots) = [k \in DOMAIN Ascending(F) |-> all[Ascending(F)[k]]]
  BY DEF get_unique_leader_sockets, all
<1>10. /\ \A k \in DOMAIN Ascending(F) : Ascending(F)[k] \in F
       /\ \A j \in F : \E k \in DOMAIN Ascending(F) : Ascending(F)[k] = j
  <2> HIDE DEF F
  <2> QED
    BY <1>7, AscendingIsSorted
<1>11. F \subseteq DOMAIN all
  OBVIOUS
<1> HIDE DEF F
<1>12. ToSet(get_unique_leader_sockets(c, est, slots)) = {all[j] : j \in F}
  BY <1>9, <1>10 DEF ToSet
<1>13. {all[j] : j \in F} = Sockets
  <2>1. {all[j] : j \in F} \subseteq Sockets
    BY <1>5, <1>11
  <2>2. ASSUME NEW x \in Sockets PROVE x \in {all[j] : j \in F}
    <3>1. PICK s \in S : x = c.leader_tpu_map[get_slot_leader(c, s)]
      OBVIOUS
    <3>2. PICK k \in DOMAIN all : all[k] = x
      BY <1>6, <3>1
    <3> QED
      BY <1>8, <3>2
  <2> QED
    BY <2>1, <2>2
<1> QED
  BY <1>12, <1>13 DEF S

\* What the senders rely on in the cache.
WindowInv == fetched_at \in Nat /\ cache.first_slot \in Nat /\ CacheIsScheduleWindow

\* The leader a sender reads for a slot is the one of the cluster's schedule,
\* as many slots earlier as the cache is misfiled by.
LEMMA ReadsSchedule ==
  ASSUME WindowInv, NEW s \in Int, KnowsSlot(cache, s)
  PROVE  get_slot_leader(cache, s) = Leader(s - Skew) /\ Skew \in Int
<1> DEFINE n == Len(cache.leaders)
           i == s - cache.first_slot + 1
<1>1. n \in Nat /\ cache.leaders = get_slot_leaders(fetched_at, n)
  BY SizesPositive DEF WindowInv, CacheIsScheduleWindow
<1>2. fetched_at \in Nat /\ cache.first_slot \in Nat
  BY DEF WindowInv
<1>3. i \in 1 .. n
  BY <1>1, <1>2 DEF KnowsSlot
<1> HIDE DEF n
<1>4. cache.leaders[i] = Leader(fetched_at + i - 1)
  BY <1>1, <1>3 DEF get_slot_leaders
<1>5. fetched_at + i - 1 = s - Skew /\ Skew \in Int
  BY <1>2 DEF Skew
<1> QED
  BY <1>4, <1>5 DEF get_slot_leader

LEMMA CurrentIsSlot ==
  ASSUME WindowInv, NEW est \in Int
  PROVE  CurrentSlot(cache, est) \in Nat /\ CurrentSlot(cache, est) >= cache.first_slot
BY MaxOfPair DEF WindowInv, CurrentSlot

LEMMA OnlyScheduled == WindowInv => OnlyScheduledLeadersContacted
<1> SUFFICES ASSUME WindowInv, NEW est \in Estimates, NEW x \in Contacted(est)
             PROVE  LET cur == CurrentSlot(cache, est)
                    IN  x \in SocketOf((cur - Skew) .. (cur - Skew + fanout_slots - 1))
  BY DEF OnlyScheduledLeadersContacted
<1> DEFINE cur == CurrentSlot(cache, est)
<1>1. cur \in Nat /\ fanout_slots \in Nat \ {0}
  BY CurrentIsSlot, SizesPositive DEF Estimates
<1>2. PICK s \in Served(cache, cur, fanout_slots) :
        x = cache.leader_tpu_map[get_slot_leader(cache, s)]
  BY <1>1, SocketsAreOfServed DEF Contacted
<1> HIDE DEF cur
<1>3. /\ s \in cur .. (cur + fanout_slots - 1) /\ KnowsSlot(cache, s)
      /\ get_slot_leader(cache, s) \in DOMAIN cache.leader_tpu_map
  BY <1>2 DEF Served, SampledSlots
<1>4. s \in Int /\ get_slot_leader(cache, s) = Leader(s - Skew) /\ Skew \in Int
  BY <1>1, <1>3, ReadsSchedule
<1>5. s - Skew \in (cur - Skew) .. (cur - Skew + fanout_slots - 1)
  BY <1>1, <1>3, <1>4
<1>6. x \in SocketOf((cur - Skew) .. (cur - Skew + fanout_slots - 1))
  BY <1>2, <1>3, <1>4, <1>5 DEF SocketOf
<1> QED
  BY <1>6 DEF cur

\* Division by the length of a turn.
LEMMA TurnsDivide ==
  ASSUME NEW d \in Nat
  PROVE  LET N == NumConsecutiveLeaderSlots
         IN  /\ d % N \in 0 .. N - 1 /\ d % N <= d
             /\ (d - (d % N)) % N = 0 /\ (d - (d % N) + N) % N = 0
             /\ d \div N \in Nat /\ N * (d \div N) <= d /\ d < N * (d \div N) + N
<1> DEFINE N == NumConsecutiveLeaderSlots
<1>1. N \in Nat \ {0}
  BY RotationAssumption
<1> HIDE DEF N
<1>2. /\ d \div N \in Nat /\ d % N \in 0 .. N - 1
      /\ d = N * (d \div N) + (d % N) /\ N * (d \div N) \in Nat
  <2>1. d \div N \in Nat /\ d % N \in 0 .. N - 1
    BY <1>1
  <2>2. d = N * (d \div N) + (d % N)
    BY <1>1
  <2>3. N * (d \div N) \in Nat
    BY <1>1, <2>1
  <2> QED
    BY <2>1, <2>2, <2>3
<1>3. \A q \in Nat : (N * q) % N = 0
  BY <1>1
<1>4. (d - (d % N)) % N = 0
  <2>1. d - (d % N) = N * (d \div N)
    BY <1>1, <1>2
  <2> QED
    BY <1>2, <1>3, <2>1
<1>5. (d - (d % N) + N) % N = 0
  <2>1. N * (d \div N + 1) = N * (d \div N) + N
    BY <1>1, <1>2
  <2>2. d - (d % N) + N = N * (d \div N + 1)
    BY <1>1, <1>2, <2>1
  <2> QED
    BY <1>2, <1>3, <2>2
<1>6. d % N <= d /\ N * (d \div N) <= d /\ d < N * (d \div N) + N
  BY <1>1, <1>2
<1> QED
  BY <1>2, <1>4, <1>5, <1>6 DEF N

\* Two slots of the same turn have the same quotient.
LEMMA TurnOf ==
  ASSUME NEW q \in Nat, NEW u \in Int,
         NumConsecutiveLeaderSlots * q <= u,
         u < NumConsecutiveLeaderSlots * q + NumConsecutiveLeaderSlots
  PROVE  u \div NumConsecutiveLeaderSlots = q
<1> DEFINE N == NumConsecutiveLeaderSlots
           r == u - N * q
<1>1. N \in Nat \ {0}
  BY RotationAssumption
<1> HIDE DEF N
<1>2. N * q \in Nat
  BY <1>1
<1>3. N * q <= u /\ u < N * q + N
  BY DEF N
<1>4. u \in Nat /\ r \in 0 .. N - 1 /\ u = N * q + r
  BY <1>1, <1>2, <1>3
<1>5. u \div N = q
  BY <1>1, <1>4
<1> QED
  BY <1>5 DEF N

\* Each turn that begins before the end of the fanout, less the skew, is hit by
\* a sampled slot: the samples are one turn apart.
LEMMA TurnIsSampled ==
  ASSUME NEW cur \in Nat, NEW slots \in Nat, NEW skew \in Nat, NEW t \in Int, cur <= t,
         t <= cur + (slots - NumConsecutiveLeaderSlots - skew)
  PROVE  \E s \in SampledSlots(cur, slots) : Leader(s - skew) = Leader(t)
<1> DEFINE N == NumConsecutiveLeaderSlots
           d == t + skew - cur
           u == t - (d % N)
           q == t \div N
<1>1. N \in Nat \ {0} /\ d \in Nat /\ t \in Nat
  BY RotationAssumption
<1>2. /\ d % N \in 0 .. N - 1 /\ d % N <= d /\ (d - (d % N)) % N = 0 /\ (d - (d % N) + N) % N = 0
      /\ q \in Nat /\ N * q <= t /\ t < N * q + N
  BY <1>1, TurnsDivide
<1>3. t + skew <= cur + slots - N
  BY RotationAssumption
<1>4. \A v \in Int : N * q <= v /\ v < N * q + N => Leader(v) = Leader(t)
  <2> SUFFICES ASSUME NEW v \in Int, N * q <= v, v < N * q + N
               PROVE  Leader(v) = Leader(t)
    OBVIOUS
  <2>1. v \div N = q
    BY <1>2, TurnOf
  <2> QED
    BY <2>1 DEF Leader
<1> DEFINE rest == d % N
           base == N * q
<1>5. base \in Nat /\ rest \in 0 .. N - 1 /\ rest <= d /\ base <= t /\ t < base + N
  BY <1>1, <1>2
<1>6. \A v \in Int : base <= v /\ v < base + N => Leader(v) = Leader(t)
  BY <1>4
<1>7. (d - rest) % N = 0 /\ (d - rest + N) % N = 0
  BY <1>2
<1> HIDE DEF rest, base, q, u
<1>8. CASE base <= t - rest
  <2> DEFINE s == cur + (d - rest)
  <2>1. s \in cur .. (cur + slots - 1) /\ s - cur = d - rest /\ s - skew = t - rest
    BY <1>1, <1>3, <1>5
  <2>2. s \in SampledSlots(cur, slots)
    BY <1>7, <2>1 DEF SampledSlots
  <2>3. t - rest \in Int /\ t - rest < base + N
    BY <1>1, <1>5
  <2>4. Leader(s - skew) = Leader(t)
    BY <1>6, <1>8, <2>1, <2>3
  <2> QED
    BY <2>2, <2>4
<1>9. CASE t - rest < base
  <2> DEFINE s == cur + (d - rest + N)
  <2>1. s \in cur .. (cur + slots - 1) /\ s - cur = d - rest + N /\ s - skew = t - rest + N
    BY <1>1, <1>3, <1>5, <1>9
  <2>2. s \in SampledSlots(cur, slots)
    BY <1>7, <2>1 DEF SampledSlots
  <2>3. t - rest + N \in Int /\ base <= t - rest + N /\ t - rest + N < base + N
    BY <1>1, <1>5, <1>9
  <2>4. Leader(s - skew) = Leader(t)
    BY <1>6, <2>1, <2>3
  <2> QED
    BY <2>2, <2>4
<1> QED
  BY <1>1, <1>5, <1>8, <1>9

LEMMA UpcomingReached == WindowInv => UpcomingLeadersContacted
<1> SUFFICES ASSUME WindowInv, NEW est \in Estimates, Skew >= 0,
                    CurrentSlot(cache, est) + fanout_slots <= last_slot(cache) + 1,
                    NEW x \in SocketOf(CurrentSlot(cache, est)
                                       .. (CurrentSlot(cache, est)
                                           + (fanout_slots - NumConsecutiveLeaderSlots - Skew)))
             PROVE  x \in Contacted(est)
  BY DEF UpcomingLeadersContacted
<1> DEFINE cur == CurrentSlot(cache, est)
           end == fanout_slots - NumConsecutiveLeaderSlots - Skew
<1>0. est \in Int
  BY DEF Estimates
<1>1. /\ cur \in Nat /\ cache.first_slot <= cur /\ cache.first_slot \in Nat
      /\ fanout_slots \in Nat \ {0} /\ NumConsecutiveLeaderSlots \in Nat \ {0}
  BY <1>0, CurrentIsSlot, SizesPositive, RotationAssumption DEF WindowInv
<1>2. Skew \in Nat
  BY DEF WindowInv, Skew
<1>3. Len(cache.leaders) \in Nat \ {0}
  BY SizesPositive DEF WindowInv, CacheIsScheduleWindow
<1>4. PICK t \in cur .. (cur + end) :
        x = cache.leader_tpu_map[Leader(t)] /\ Leader(t) \in DOMAIN cache.leader_tpu_map
  BY DEF SocketOf
<1>5. cur + fanout_slots <= last_slot(cache) + 1
  OBVIOUS
<1>6. t \in Int /\ cur <= t /\ t <= cur + end
  BY <1>1, <1>2, <1>4
<1>7. PICK s \in SampledSlots(cur, fanout_slots) : Leader(s - Skew) = Leader(t)
  <2> HIDE DEF cur
  <2> QED
    BY <1>1, <1>2, <1>6, TurnIsSampled
<1> HIDE DEF cur, end
<1>8. s \in Int /\ cur <= s /\ s <= cur + fanout_slots - 1
  BY <1>1, <1>7 DEF SampledSlots
<1>9. KnowsSlot(cache, s)
  <2>1. last_slot(cache) = cache.first_slot + Len(cache.leaders) - 1
    BY <1>1, <1>3 DEF last_slot, saturating_sub
  <2> QED
    BY <1>1, <1>3, <1>5, <1>8, <2>1 DEF KnowsSlot
<1>10. get_slot_leader(cache, s) = Leader(t)
  BY <1>7, <1>8, <1>9, ReadsSchedule
<1>11. s \in Served(cache, cur, fanout_slots)
  BY <1>4, <1>7, <1>9, <1>10 DEF Served
<1>12. Contacted(est)
         = {cache.leader_tpu_map[get_slot_leader(cache, v)] : v \in Served(cache, cur, fanout_slots)}
  BY <1>1, SocketsAreOfServed DEF Contacted, cur
<1> QED
  BY <1>4, <1>10, <1>11, <1>12

-----------------------------------------------------------------------------
(* The types.                                                              *)

RefresherType ==
  [pc : {"check", "sleep", "cluster_rpc", "epoch_rpc", "leaders_rpc", "done"},
   est : Nat, limit : Nat, want_leaders : BOOLEAN,
   nodes : Answers(Range(ContactLists)), epoch : Answers(EpochLengths)]

EnvironmentTyped ==
  clock \in Nat /\ contacts \in DOMAIN ContactLists /\ stream \in {"open", "ended"}

RecentTyped == recent_slots \in Seq(Nat) /\ Len(recent_slots) \in 1 .. RecentLen

CacheTyped ==
  /\ cache.first_slot \in Nat /\ cache.last_epoch_info_slot \in Nat
  /\ cache.slots_in_epoch \in EpochLengths
  /\ fetched_at \in Nat /\ cluster_due \in BOOLEAN

WatcherTyped == watcher \in {"subscribe", "outer", "inner", "unsubscribe", "ok", "err"}

StopTyped == exit \in BOOLEAN /\ joiner \in {"idle", "joining", "joined", "panicked", "gone"}

LEMMA TypeOKParts ==
  TypeOK <=> /\ EnvironmentTyped /\ RecentTyped /\ CacheTyped /\ WatcherTyped /\ StopTyped
             /\ refresher \in RefresherType
BY DEF TypeOK, EnvironmentTyped, RecentTyped, CacheTyped, WatcherTyped, StopTyped, RefresherType

\* Only the refresher and the cache are left to show in its steps.
LEMMA TypesOfRefresherStep ==
  ASSUME TypeOK, UNCHANGED <<environment, recent_slots, watcher, exit, joiner>>,
         CacheTyped', (refresher \in RefresherType)'
  PROVE  TypeOK'
<1>1. EnvironmentTyped' /\ RecentTyped' /\ WatcherTyped' /\ StopTyped'
  BY TypeOKParts DEF environment, EnvironmentTyped, RecentTyped, WatcherTyped, StopTyped
<1> QED
  BY <1>1, TypeOKParts, PTL

LEMMA AtTyped ==
  ASSUME NEW pc \in {"check", "sleep", "cluster_rpc", "done"}
  PROVE  At(pc) \in RefresherType
BY DEF At, RefresherType, Answers

LEMMA EstimateTyped == RecentTyped => estimated_current_slot \in Nat
BY EstimateIsRecorded DEF RecentTyped, estimated_current_slot

LEMMA UpdateTyped ==
  ASSUME RecentTyped, CacheTyped, NEW r \in RefresherType, NEW answer, Update(r, answer)
  PROVE  CacheTyped' /\ (refresher \in RefresherType)'
<1> DEFINE info == [cluster_nodes |-> r.nodes, epoch_info |-> r.epoch, slot_leaders |-> answer]
<1>1. /\ cache' = (IF HasSome(info) THEN update_all(cache, UpdateSlot, info) ELSE cache)
      /\ cluster_due' = (cluster_due /\ ~ClusterRefreshed(info))
      /\ fetched_at' = (IF answer.tag = "ok" THEN r.est ELSE fetched_at)
      /\ refresher' = At("check")
  BY DEF Update
<1>2. UpdateSlot \in Nat
  BY EstimateTyped DEF UpdateSlot
<1>3. r.est \in Nat /\ info.epoch_info \in Answers(EpochLengths)
  BY DEF RefresherType
<1>4. info.epoch_info.tag = "ok" => info.epoch_info.val \in EpochLengths
  BY <1>3 DEF Answers, NotAsked, Failed, Ok
<1> HIDE DEF info
<1>5. CASE cache' = update_all(cache, UpdateSlot, info)
  <2>1. /\ cache'.first_slot = NewFirstSlot(cache, UpdateSlot, info)
        /\ cache'.slots_in_epoch = NewSlotsInEpoch(cache, UpdateSlot, info)
        /\ cache'.last_epoch_info_slot
             = Overwritten(info.epoch_info, UpdateSlot, cache.last_epoch_info_slot)
    BY <1>5 DEF update_all
  <2>2. CacheTyped'
    BY <1>1, <1>2, <1>3, <1>4, <2>1 DEF CacheTyped, NewFirstSlot, NewSlotsInEpoch, Overwritten
  <2> QED
    BY <1>1, <2>2, AtTyped
<1>6. CASE cache' = cache
  BY <1>1, <1>3, <1>6, AtTyped DEF CacheTyped
<1> QED
  BY <1>1, <1>5, <1>6

LEMMA AskLeadersTyped ==
  ASSUME RecentTyped, CacheTyped, NEW r \in RefresherType, AskLeaders(r)
  PROVE  CacheTyped' /\ (refresher \in RefresherType)'
<1>1. CASE r.want_leaders /\ Await([r EXCEPT !.pc = "leaders_rpc"])
  <2>1. [r EXCEPT !.pc = "leaders_rpc"] \in RefresherType
    BY DEF RefresherType
  <2> QED
    BY <1>1, <2>1 DEF Await, CacheTyped
<1>2. CASE ~r.want_leaders /\ Update(r, NotAsked)
  BY <1>2, UpdateTyped
<1> QED
  BY <1>1, <1>2 DEF AskLeaders

LEMMA AskEpochTyped ==
  ASSUME RecentTyped, CacheTyped, NEW nodes \in Answers(Range(ContactLists)), AskEpoch(nodes)
  PROVE  CacheTyped' /\ (refresher \in RefresherType)'
<1> DEFINE est == estimated_current_slot
           r == [pc |-> "epoch_rpc", est |-> est, limit |-> fanout(cache.slots_in_epoch),
                 want_leaders |-> LeadersDue(est), nodes |-> nodes, epoch |-> NotAsked]
<1>1. Await(r) \/ AskLeaders(r)
  BY DEF AskEpoch
<1>2. est \in Nat /\ fanout(cache.slots_in_epoch) \in Nat
  BY EstimateTyped, FanoutIsNat DEF CacheTyped
<1>3. LeadersDue(est) \in BOOLEAN
  BY DEF LeadersDue
<1>4. NotAsked \in Answers(EpochLengths)
  BY DEF Answers
<1>5. r \in RefresherType
  BY <1>2, <1>3, <1>4 DEF RefresherType
<1> HIDE DEF r
<1> QED
  BY <1>1, <1>5, AskLeadersTyped DEF Await, CacheTyped

LEMMA RefresherTyped == TypeOK /\ Refresher => TypeOK'
<1> SUFFICES ASSUME TypeOK, Refresher PROVE TypeOK'
  OBVIOUS
<1>1. RecentTyped /\ CacheTyped /\ EnvironmentTyped /\ refresher \in RefresherType
  BY TypeOKParts
<1>2. UNCHANGED <<environment, recent_slots, watcher, exit, joiner>>
  BY DEF Refresher, RefresherLoop, Wake, ClusterAnswered, EpochAnswered, LeadersAnswered, RpcFails,
     ClusterReply, EpochReply, LeadersReply, RefresherRuns
<1> SUFFICES CacheTyped' /\ (refresher \in RefresherType)'
  BY <1>2, TypesOfRefresherStep
<1>3. ASSUME NEW pc \in {"sleep", "cluster_rpc", "done"}, Await(At(pc))
      PROVE  CacheTyped' /\ (refresher \in RefresherType)'
  BY <1>1, <1>3, AtTyped DEF Await, CacheTyped
<1>4. Failed \in Answers(Range(ContactLists)) /\ NotAsked \in Answers(Range(ContactLists))
  BY DEF Answers
<1>5. CASE RefresherLoop
  BY <1>3, <1>5 DEF RefresherLoop
<1>6. CASE Wake
  BY <1>1, <1>3, <1>4, <1>6, AskEpochTyped DEF Wake
<1>7. CASE ClusterReply(Failed)
  BY <1>1, <1>4, <1>7, AskEpochTyped DEF ClusterReply
<1>8. CASE ClusterAnswered
  <2>1. Ok(cluster_nodes) \in Answers(Range(ContactLists))
    BY <1>1 DEF EnvironmentTyped, cluster_nodes, Range, Answers
  <2> QED
    BY <1>1, <1>8, <2>1, AskEpochTyped DEF ClusterAnswered, ClusterReply
<1>9. ASSUME NEW answer \in Answers(EpochLengths), EpochReply(answer)
      PROVE  CacheTyped' /\ (refresher \in RefresherType)'
  <2>1. AskLeaders([refresher EXCEPT !.epoch = answer])
    BY <1>9 DEF EpochReply
  <2>2. [refresher EXCEPT !.epoch = answer] \in RefresherType
    BY <1>1 DEF RefresherType
  <2> QED
    BY <1>1, <2>1, <2>2, AskLeadersTyped
<1>10. CASE EpochAnswered \/ EpochReply(Failed)
  BY <1>9, <1>10 DEF EpochAnswered, Answers
<1>11. CASE LeadersAnswered \/ LeadersReply(Failed)
  BY <1>1, <1>11, UpdateTyped DEF LeadersAnswered, LeadersReply
<1> QED
  BY <1>5, <1>6, <1>7, <1>8, <1>10, <1>11 DEF Refresher, RpcFails

\* A notification is of a slot.
LEMMA NotificationTyped ==
  ASSUME EnvironmentTyped, RecentTyped, NEW update \in Updates, Notification(update)
  PROVE  RecentTyped'
<1>1. /\ update.type = "Completed" => update.slot + 1 \in Nat
      /\ update.type = "FirstShredReceived" => update.slot \in Nat
  <2>1. ASSUME NEW n \in Nat PROVE saturating_sub(clock, n) \in Nat
    BY DEF EnvironmentTyped, saturating_sub
  <2>2. saturating_sub(clock, Lag) \in Nat /\ saturating_sub(clock, Lag + 1) \in Nat
    <3>1. Lag \in Nat /\ Lag + 1 \in Nat
      BY ServiceAssumption
    <3> QED
      BY <2>1, <3>1
  <2>3. CASE update \in [type : {"FirstShredReceived"},
                         slot : (saturating_sub(clock, Lag) .. clock) \cup StraySlots]
    <3>1. StraySlots \subseteq Nat /\ saturating_sub(clock, Lag) .. clock \subseteq Nat
      BY <2>2, ServiceAssumption DEF EnvironmentTyped
    <3>2. update.type = "FirstShredReceived" /\ update.slot \in Nat
      BY <2>3, <3>1
    <3> QED
      BY <3>2
  <2>4. CASE update \in [type : {"Completed"}, slot : saturating_sub(clock, Lag + 1) .. (clock - 1)]
    BY <2>2, <2>4 DEF EnvironmentTyped
  <2>5. CASE update \in [type : {"CreatedBank"}, slot : {clock}]
    BY <2>5
  <2> QED
    BY <2>3, <2>4, <2>5 DEF Updates
<1>2. ASSUME NEW s \in Nat, recent_slots' = Recent!Recorded(recent_slots, s)
      PROVE  RecentTyped'
  <2> DEFINE w == recent_slots
             r == Slots!Recorded(w, s)
  <2>1. w \in Seq(Nat) /\ Len(w) \in 1 .. RecentLen /\ recent_slots' = r
    BY <1>2, SameRecorded DEF RecentTyped
  <2>2. /\ r \in Seq(Nat)
        /\ Len(w) < RecentLen => Len(r) = Len(w) + 1
        /\ Len(w) = RecentLen => Len(r) = Len(w)
    BY <2>1, Slots!RecordedIs, ServiceAssumption
  <2> HIDE DEF r
  <2>3. Len(r) \in 1 .. RecentLen
    BY <2>1, <2>2, ServiceAssumption
  <2> QED
    BY <2>1, <2>2, <2>3 DEF RecentTyped
<1> QED
  BY <1>1, <1>2 DEF Notification, RecentTyped

LEMMA NextTyped == TypeOK /\ [Next]_vars => TypeOK'
<1> SUFFICES ASSUME TypeOK, [Next]_vars PROVE TypeOK'
  OBVIOUS
<1>1. /\ EnvironmentTyped /\ RecentTyped /\ CacheTyped /\ WatcherTyped /\ StopTyped
      /\ refresher \in RefresherType
  BY TypeOKParts
<1> SUFFICES ASSUME ~Refresher
             PROVE  /\ EnvironmentTyped' /\ RecentTyped' /\ CacheTyped' /\ WatcherTyped' /\ StopTyped'
                    /\ (refresher \in RefresherType)'
  BY TypeOKParts, RefresherTyped, PTL
<1>2. ASSUME UNCHANGED <<cache, fetched_at, cluster_due, refresher>>
      PROVE  CacheTyped' /\ (refresher \in RefresherType)'
  BY <1>1, <1>2 DEF CacheTyped
<1>3. CASE Watcher
  <2>1. UNCHANGED <<environment, cache, fetched_at, cluster_due, refresher, exit, joiner>> /\ WatcherTyped'
    BY <1>1, <1>3 DEF Watcher, Subscribe, CheckExit, Notifications, Notification, QuietOrEnded,
       Unsubscribe, WatcherStep, WatcherTyped
  <2>2. RecentTyped'
    <3>1. CASE Notifications
      BY <1>1, <3>1, NotificationTyped DEF Notifications
    <3>2. CASE Subscribe \/ CheckExit \/ QuietOrEnded \/ Unsubscribe
      BY <1>1, <3>2 DEF Subscribe, CheckExit, QuietOrEnded, Unsubscribe, RecentTyped
    <3> QED
      BY <1>3, <3>1, <3>2 DEF Watcher
  <2>3. EnvironmentTyped' /\ StopTyped'
    BY <1>1, <2>1 DEF environment, EnvironmentTyped, StopTyped
  <2> QED
    BY <1>2, <2>1, <2>2, <2>3
<1>4. CASE SlotPasses \/ ClusterChanges \/ StreamEnds
  <2>1. UNCHANGED <<service, exit, joiner>>
    BY <1>4 DEF SlotPasses, ClusterChanges, StreamEnds
  <2>2. EnvironmentTyped'
    <3>1. ASSUME contacts < Len(ContactLists) PROVE contacts + 1 \in DOMAIN ContactLists
      BY <1>1, <3>1, ServiceAssumption DEF EnvironmentTyped
    <3> QED
      BY <1>1, <1>4, <3>1 DEF SlotPasses, ClusterChanges, StreamEnds, EnvironmentTyped
  <2> QED
    BY <1>1, <1>2, <2>1, <2>2 DEF service, RecentTyped, WatcherTyped, StopTyped
<1>5. CASE FiveMinutesPass
  BY <1>1, <1>5 DEF FiveMinutesPass, environment, EnvironmentTyped, RecentTyped, CacheTyped,
     WatcherTyped, StopTyped
<1>6. CASE DropClient \/ Shutdown \/ Join \/ UNCHANGED vars
  <2>1. UNCHANGED <<environment, service>> /\ StopTyped'
    BY <1>1, <1>6 DEF DropClient, Shutdown, Join, StopTyped, vars
  <2> QED
    BY <1>1, <1>2, <2>1 DEF environment, service, EnvironmentTyped, RecentTyped, WatcherTyped
<1> QED
  BY <1>3, <1>4, <1>5, <1>6 DEF Next

LEMMA InitTyped == Init => TypeOK
<1> SUFFICES ASSUME Init PROVE TypeOK
  OBVIOUS
<1>1. EnvironmentTyped /\ WatcherTyped /\ StopTyped
  <2>1. StartSlot \in Nat /\ 1 \in DOMAIN ContactLists
    BY ServiceAssumption
  <2> QED
    BY <2>1 DEF Init, EnvironmentTyped, WatcherTyped, StopTyped
<1>2. RecentTyped
  BY FirstSlot, ServiceAssumption DEF Init, RecentTyped
<1>3. CacheTyped
  <2>1. PICK n \in EpochLengths :
          cache = NewCache(StartSlot, n, get_slot_leaders(StartSlot, fanout(n)), cluster_nodes)
    BY DEF Init
  <2>2. /\ cache.first_slot = StartSlot /\ cache.last_epoch_info_slot = StartSlot
        /\ cache.slots_in_epoch = n
    BY <2>1 DEF NewCache
  <2> QED
    BY <2>2, ServiceAssumption DEF Init, CacheTyped
<1> QED
  BY <1>1, <1>2, <1>3, AtTyped, TypeOKParts DEF Init

\* TypeOK of the service: its cache and its window hold slots, and each loop is
\* at one of its awaits with the locals it needs there.
THEOREM ServiceTypesHold == Spec => []TypeOK
BY InitTyped, NextTyped, PTL DEF Spec

\* OnlyScheduledLeadersContacted: no socket is sent to but those of the leaders
\* of the fanout, up to the skew of the cache.
THEOREM NobodyElseContacted == Spec => []OnlyScheduledLeadersContacted
<1>1. TypeOK /\ CacheIsScheduleWindow => OnlyScheduledLeadersContacted
  BY OnlyScheduled DEF TypeOK, WindowInv
<1> QED
  BY <1>1, ServiceTypesHold, CacheStaysScheduleWindow, PTL

\* UpcomingLeadersContacted: whatever estimate a sender has read, it contacts
\* the leader of every slot up to the fanout less one rotation and the skew.
THEOREM UpcomingAlwaysContacted == Spec => []UpcomingLeadersContacted
<1>1. TypeOK /\ CacheIsScheduleWindow => UpcomingLeadersContacted
  BY UpcomingReached DEF TypeOK, WindowInv
<1> QED
  BY <1>1, ServiceTypesHold, CacheStaysScheduleWindow, PTL

-----------------------------------------------------------------------------
(* The same from the start on.                                             *)

\* Until the service is spawned there is nobody to send to; once it is, it has
\* the types and the window it would have been initialised with.
StartedInv ==
  /\ EnvironmentTyped /\ cluster_due \in BOOLEAN /\ StopTyped
  /\ Running => TypeOK /\ Inv
  /\ ~Running => DOMAIN cache.leader_tpu_map = {}

LEMMA SpawnStarts ==
  ASSUME LearntInv, StartedInv, start.pc \in Loaded, NEW nodes, NEW loop \in {"ok", "subscribe"},
         Spawn(nodes, loop)
  PROVE  StartedInv'
<1>1. /\ UNCHANGED <<environment, cluster_due, exit, joiner>>
      /\ recent_slots' = <<start.start_slot>> /\ fetched_at' = start.start_slot
      /\ cache'.first_slot = start.start_slot /\ cache'.last_epoch_info_slot = start.start_slot
      /\ cache'.slots_in_epoch = start.slots_in_epoch
      /\ watcher' = loop /\ refresher' = At("check") /\ start' = StartAt("running")
  BY DEF Spawn, NewCache
<1>2. start.start_slot \in Nat /\ start.slots_in_epoch \in EpochLengths
  BY DEF LearntInv, Asked, Loaded
<1>3. EnvironmentTyped' /\ StopTyped' /\ WatcherTyped'
  BY <1>1 DEF StartedInv, environment, EnvironmentTyped, StopTyped, WatcherTyped
<1>4. RecentTyped'
  BY <1>1, <1>2, FirstSlot DEF RecentTyped
<1>5. CacheTyped'
  BY <1>1, <1>2 DEF StartedInv, CacheTyped
<1>6. (refresher \in RefresherType)'
  BY <1>1, AtTyped
<1>7. TypeOK'
  BY <1>3, <1>4, <1>5, <1>6, TypeOKParts, PTL
<1>8. Running'
  BY <1>1 DEF Running, StartAt
<1>9. Inv'
  BY <1>8, SpawnHands DEF HandedInv
<1> QED
  BY <1>1, <1>3, <1>7, <1>8, <1>9 DEF StartedInv

LEMMA StartNextStarted == LearntInv /\ StartedInv /\ [StartNext]_startVars => StartedInv'
<1> SUFFICES ASSUME LearntInv, StartedInv, [StartNext]_startVars PROVE StartedInv'
  OBVIOUS
<1>1. CASE UNCHANGED vars /\ start'.pc # "running" /\ start.pc # "running"
  BY <1>1 DEF StartedInv, Running, vars, environment, service, EnvironmentTyped, StopTyped
<1>2. ASSUME NEW nodes, NEW loop \in {"ok", "subscribe"}, Spawn(nodes, loop), start.pc \in Loaded
      PROVE  StartedInv'
  BY <1>2, SpawnStarts
<1>3. ASSUME Next, UNCHANGED start, Running
      PROVE  StartedInv'
  <2>1. TypeOK' /\ Inv'
    BY <1>3, NextTyped, NextInv DEF StartedInv
  <2>2. EnvironmentTyped' /\ StopTyped' /\ CacheTyped'
    BY <2>1, TypeOKParts, PTL
  <2> QED
    BY <1>3, <2>1, <2>2 DEF StartedInv, Running, CacheTyped
<1>4. ASSUME SlotPasses \/ ClusterChanges \/ StreamEnds, UNCHANGED start, ~Running
      PROVE  StartedInv'
  <2>1. UNCHANGED <<service, exit, joiner>>
    BY <1>4 DEF SlotPasses, ClusterChanges, StreamEnds
  <2>2. EnvironmentTyped'
    <3>1. ASSUME contacts < Len(ContactLists) PROVE contacts + 1 \in DOMAIN ContactLists
      BY <3>1, ServiceAssumption DEF StartedInv, EnvironmentTyped
    <3> QED
      BY <1>4, <3>1 DEF SlotPasses, ClusterChanges, StreamEnds, StartedInv, EnvironmentTyped
  <2> QED
    BY <1>4, <2>1, <2>2 DEF StartedInv, Running, service, StopTyped
<1>5. CASE UNCHANGED <<vars, start>>
  <2>1. Running => TypeOK' /\ Inv'
    BY <1>5, NextTyped, NextInv DEF StartedInv
  <2> QED
    BY <1>5, <2>1 DEF StartedInv, Running, vars, environment, service, EnvironmentTyped, StopTyped
<1> QED
  BY <1>1, <1>2, <1>3, <1>4, <1>5, StartNextCases, ClockStays DEF startup, Next

LEMMA StartInvariance == StartSpec => [](LearntInv /\ StartedInv)
<1>1. StartInit => StartedInv
  <2> SUFFICES ASSUME StartInit PROVE StartedInv
    OBVIOUS
  <2>1. StartSlot \in Nat /\ 1 \in DOMAIN ContactLists
    BY ServiceAssumption
  <2>2. DOMAIN cache.leader_tpu_map = {}
    BY DEF StartInit, NewCache, extract_cluster_tpu_sockets
  <2> QED
    BY <2>1, <2>2 DEF StartInit, StartAt, StartedInv, Running, EnvironmentTyped, StopTyped
<1> QED
  BY <1>1, StartInitLearnt, StartNextLearnt, StartNextStarted, PTL DEF StartSpec

\* Where the start can be, and what it was started with.
PlaceInv ==
  /\ websocket_url \in WebsocketUrls /\ scheduled \in BOOLEAN
  /\ start.pc \in Starting \cup {"running", "panicked"}

LEMMA PlaceKept == StartInv /\ PlaceInv /\ [StartNext]_startVars => PlaceInv'
<1> SUFFICES ASSUME StartInv, PlaceInv, [StartNext]_startVars PROVE PlaceInv'
  OBVIOUS
<1>0. StartShape
  BY DEF StartInv
<1>1. CASE GotSlot \/ GotEpochInfo \/ GotLeaders \/ InvalidSlotRange \/ AskAgain
  BY <1>0, <1>1 DEF GotSlot, GotEpochInfo, GotLeaders, InvalidSlotRange, AskAgain, StartGoes,
     PlaceInv, Starting, StartShape
<1>2. CASE SecondPasses \/ StartTimesOut \/ StartCallFails
  BY <1>0, <1>2 DEF SecondPasses, StartTimesOut, StartCallFails, StartGoes, PlaceInv, Starting,
     StartShape
<1>3. CASE GotClusterNodes \/ PubsubConnected
  <2>1. UNCHANGED <<websocket_url, scheduled>>
    BY <1>3 DEF GotClusterNodes, PubsubConnected, Spawn, StartGoes
  <2>2. start'.pc \in {"pubsub", "running"}
    <3>1. CASE start' = StartAt("running")
      BY <3>1 DEF StartAt
    <3>2. CASE start' = [start EXCEPT !.pc = "pubsub", !.nodes = cluster_nodes]
      BY <1>0, <3>2 DEF StartShape
    <3> QED
      BY <1>3, <3>1, <3>2 DEF GotClusterNodes, PubsubConnected, Spawn, StartGoes
  <2> QED
    BY <2>1, <2>2 DEF PlaceInv, Starting
<1>4. CASE EnvironmentStep \/ ServiceStep \/ ScheduleAppears \/ UNCHANGED startVars
  BY <1>4 DEF EnvironmentStep, ServiceStep, ScheduleAppears, startVars, startup, PlaceInv
<1> QED
  BY <1>1, <1>2, <1>3, <1>4 DEF StartNext, StartStep

\* StartTypeOK: the types of the start, and those of the service as soon as it
\* runs: what the start hands over is complete.
THEOREM StartTypesHold == StartSpec => []StartTypeOK
<1>1. StartInit => StartInv /\ PlaceInv
  BY StartAssumption DEF StartInit, StartAt, StartInv, StartShape, LateScheduleTolerated, PlaceInv,
     Starting
<1>2. StartInv /\ PlaceInv /\ LearntInv /\ StartedInv => StartTypeOK
  BY DEF StartInv, PlaceInv, LearntInv, StartedInv, StartTypeOK
<1> QED
  BY <1>1, <1>2, StartInvariance, StartNextInv, PlaceKept, PTL DEF StartSpec

\* The senders of a program that was started contact the right leaders too,
\* before the first refresh of the cache as well as after it.
THEOREM StartedContactsUpcoming == StartSpec => []UpcomingLeadersContacted
<1>1. ASSUME StartedInv PROVE UpcomingLeadersContacted
  <2>1. CASE Running
    BY <1>1, <2>1, UpcomingReached DEF StartedInv, TypeOK, WindowInv, Inv, CacheInv
  <2>2. CASE ~Running
    <3>1. \A slots : SocketOf(slots) = {}
      BY <1>1, <2>2 DEF StartedInv, SocketOf
    <3> QED
      BY <3>1 DEF UpcomingLeadersContacted
  <2> QED
    BY <2>1, <2>2
<1> QED
  BY <1>1, StartInvariance, PTL
\* Nor does such a program contact anybody else: from the spawn on, its cache is
\* one answer of the RPC node, and the senders read the fanout from it.
THEOREM StartedContactsNobodyElse ==
  StartSpec => [](Running => CacheIsScheduleWindow /\ OnlyScheduledLeadersContacted)
<1>1. StartedInv => (Running => CacheIsScheduleWindow /\ OnlyScheduledLeadersContacted)
  BY OnlyScheduled DEF StartedInv, TypeOK, WindowInv, Inv, CacheInv
<1> QED
  BY <1>1, StartInvariance, PTL

=============================================================================
