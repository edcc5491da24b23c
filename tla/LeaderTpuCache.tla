--------------------------- MODULE LeaderTpuCache ---------------------------
(***************************************************************************)
(* The cached stretch of the leader schedule and the sockets of its        *)
(* leaders: `struct LeaderTpuCache` of engine/leader_tpu_cache.rs, as      *)
(* operators on a record.  The struct sits behind an RwLock, and every     *)
(* method runs under it, so each method is one operator.                   *)
(*                                                                         *)
(* A socket address is its port: a node keeps its host, and what the code  *)
(* computes on is the port.  Protocol::UDP is left out, because the only   *)
(* ConnectionManager of the program fixes PROTOCOL to QUIC.                *)
(***************************************************************************)
EXTENDS SortedSets, SequencesExt

CONSTANTS
  MaxFanoutSlots,             \* MAX_FANOUT_SLOTS = 100
  NumConsecutiveLeaderSlots,  \* 4: slots a leader holds in a row
  QuicPortOffset,             \* 6: QUIC port of a node that only names its TPU port
  MaxPort,                    \* u16::MAX
  NoPort,                     \* an absent Option<SocketAddr>
  BadPubkey                   \* a key that Pubkey::from_str rejects

ASSUME FanoutAssumption == MaxFanoutSlots \in Nat \ {0}
ASSUME RotationAssumption == NumConsecutiveLeaderSlots \in Nat \ {0}

\* Option<ClientResult<T>>: no call made, the call failed, the call's value.
NotAsked == [tag |-> "none"]
Failed   == [tag |-> "err"]
Ok(v)    == [tag |-> "ok", val |-> v]

saturating_sub(a, b) == IF a >= b THEN a - b ELSE 0

-----------------------------------------------------------------------------

\* The QUIC socket of a contact: the advertised one, or the TPU port moved up
\* by the offset unless that leaves the u16 range.
QuicPort(ci) ==
  CASE ci.tpu_quic # NoPort -> ci.tpu_quic
    [] ci.tpu_quic = NoPort /\ ci.tpu # NoPort /\ ci.tpu + QuicPortOffset <= MaxPort
         -> ci.tpu + QuicPortOffset
    [] OTHER -> NoPort

\* filter_map(...).collect(): contacts with a key and a socket; the last
\* contact of a key wins, as it does when collecting into a HashMap.
extract_cluster_tpu_sockets(cluster_nodes) ==
  LET usable == {i \in DOMAIN cluster_nodes :
                   /\ cluster_nodes[i].pubkey # BadPubkey
                   /\ QuicPort(cluster_nodes[i]) # NoPort}
      of(p)  == {i \in usable : cluster_nodes[i].pubkey = p}
  IN  [p \in {cluster_nodes[i].pubkey : i \in usable} |-> QuicPort(cluster_nodes[Max(of(p))])]

NewCache(first_slot, slots_in_epoch, leaders, cluster_nodes) ==
  [first_slot           |-> first_slot,
   leaders              |-> leaders,
   leader_tpu_map       |-> extract_cluster_tpu_sockets(cluster_nodes),
   slots_in_epoch       |-> slots_in_epoch,
   last_epoch_info_slot |-> first_slot]

\* The number of leaders to ask for.
fanout(slots_in_epoch) == Min({2 * MaxFanoutSlots, slots_in_epoch})

last_slot(c) == c.first_slot + saturating_sub(Len(c.leaders), 1)

KnowsSlot(c, slot) == slot >= c.first_slot /\ slot - c.first_slot < Len(c.leaders)

\* Mutant: the index is one too low.
get_slot_leader_Previous(c, slot) == c.leaders[Max({1, slot - c.first_slot})]

get_slot_leader(c, slot) == c.leaders[slot - c.first_slot + 1]

-----------------------------------------------------------------------------

\* (current_slot .. current_slot + fanout_slots).step_by(4)
SampledSlots(current_slot, fanout_slots) ==
  {s \in current_slot .. (current_slot + fanout_slots - 1) :
     (s - current_slot) % NumConsecutiveLeaderSlots = 0}

\* Mutant: the estimate is not moved up to the start of the window.
CurrentSlot_AsRead(c, estimated_current_slot) == estimated_current_slot

CurrentSlot(c, estimated_current_slot) == Max({estimated_current_slot, c.first_slot})

get_leader_sockets(c, estimated_current_slot, fanout_slots) ==
  LET HasSocket(s) == KnowsSlot(c, s) /\ get_slot_leader(c, s) \in DOMAIN c.leader_tpu_map
      sampled == SampledSlots(CurrentSlot(c, estimated_current_slot), fanout_slots)
      reachable == Ascending({s \in sampled : HasSocket(s)})
  IN  [k \in DOMAIN reachable |-> c.leader_tpu_map[get_slot_leader(c, reachable[k])]]

\* First occurrences, in order.
get_unique_leader_sockets(c, estimated_current_slot, fanout_slots) ==
  LET all   == get_leader_sockets(c, estimated_current_slot, fanout_slots)
      first == Ascending({k \in DOMAIN all : \A j \in 1 .. k - 1 : all[j] # all[k]})
  IN  [k \in DOMAIN first |-> all[first[k]]]

-----------------------------------------------------------------------------

HasSome(info) ==
  \/ info.cluster_nodes # NotAsked
  \/ info.epoch_info # NotAsked
  \/ info.slot_leaders # NotAsked

\* update_all: what each successful answer overwrites.  An answer that failed
\* leaves its part of the cache as it was.
Overwritten(answer, new, old) == IF answer.tag = "ok" THEN new ELSE old

\* Mutant: the new leaders are added after the old ones.
NewLeaders_Extended(c, info) ==
  Overwritten(info.slot_leaders, c.leaders \o info.slot_leaders.val, c.leaders)

NewLeaders(c, info) == Overwritten(info.slot_leaders, info.slot_leaders.val, c.leaders)

\* Mutant: the window keeps its old start.
NewFirstSlot_Kept(c, estimated_current_slot, info) == c.first_slot

NewFirstSlot(c, estimated_current_slot, info) ==
  Overwritten(info.slot_leaders, estimated_current_slot, c.first_slot)

\* Mutant: a leader that is in the map keeps its socket.
NewTpuMap_OrInsert(c, info) ==
  IF info.cluster_nodes.tag # "ok" THEN c.leader_tpu_map
  ELSE LET new == extract_cluster_tpu_sockets(info.cluster_nodes.val)
           old == c.leader_tpu_map
       IN  [p \in DOMAIN old \cup DOMAIN new |-> IF p \in DOMAIN old THEN old[p] ELSE new[p]]

NewTpuMap(c, info) ==
  Overwritten(info.cluster_nodes, extract_cluster_tpu_sockets(info.cluster_nodes.val),
              c.leader_tpu_map)

\* Mutant: the slot is stored where the epoch's length belongs.
NewSlotsInEpoch_Slot(c, estimated_current_slot, info) ==
  Overwritten(info.epoch_info, estimated_current_slot, c.slots_in_epoch)

NewSlotsInEpoch(c, estimated_current_slot, info) ==
  Overwritten(info.epoch_info, info.epoch_info.val, c.slots_in_epoch)

update_all(c, estimated_current_slot, info) ==
  [first_slot           |-> NewFirstSlot(c, estimated_current_slot, info),
   leaders              |-> NewLeaders(c, info),
   leader_tpu_map       |-> NewTpuMap(c, info),
   slots_in_epoch       |-> NewSlotsInEpoch(c, estimated_current_slot, info),
   last_epoch_info_slot |-> Overwritten(info.epoch_info, estimated_current_slot,
                                        c.last_epoch_info_slot)]

ClusterRefreshed(info) == info.cluster_nodes.tag = "ok"

=============================================================================
