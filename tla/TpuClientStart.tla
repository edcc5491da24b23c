--------------------------- MODULE TpuClientStart ---------------------------
(***************************************************************************)
(* From main to the first request: TpuClient::new of engine/tpu_client.rs  *)
(* and LeaderTpuService::new of engine/backend_tpu_client.rs, one RPC call *)
(* after the other, and then the service they start, which is              *)
(* LeaderTpuService.  An error of new is unwrapped by TpuClient, so that   *)
(* every failure of the start ends the program.                            *)
(*                                                                         *)
(* Slots pass and the cluster changes while the calls are made: what the   *)
(* service starts from is older than the moment it starts.                 *)
(***************************************************************************)
EXTENDS LeaderTpuService

CONSTANTS
  StartTimeout,    \* tpu_leader_service_creation_timeout, 20 seconds
  RetryInterval,   \* retry_interval, one second
  WebsocketUrls    \* the WS_URL the program may be started with, "" among them

ASSUME StartAssumption ==
  /\ StartTimeout \in Nat \ {0} /\ RetryInterval \in Nat \ {0}
  /\ WebsocketUrls \subseteq STRING

VARIABLES
  websocket_url,  \* the argument
  start,          \* where the start is, with its locals
  scheduled       \* environment: the RPC node has the leader schedule

startup == <<websocket_url, start, scheduled>>
startVars == <<vars, startup>>

Starting == {"get_slot", "get_epoch_info", "get_slot_leaders", "sleep",
             "get_cluster_nodes", "pubsub"}

Running == start.pc = "running"

\* The locals of new, before the first call and once it has returned.
StartAt(pc) == [pc |-> pc, start_slot |-> 0, slots_in_epoch |-> 0, leaders |-> <<>>, nodes |-> <<>>,
            waited |-> 0,        \* seconds inside timeout(..)
            wake |-> 0,          \* when the sleep between two tries ends
            failed |-> FALSE]    \* history: an RPC call failed for good

\* Until the service is spawned, its structures are empty and its loops do not
\* exist.
StartInit ==
  /\ clock = StartSlot /\ contacts = 1 /\ stream = "open"
  /\ recent_slots = <<0>>
  /\ cache = NewCache(0, 0, <<>>, <<>>)
  /\ fetched_at = 0
  /\ cluster_due = FALSE
  /\ watcher = "unborn" /\ refresher = At("unborn")
  /\ exit = FALSE
  /\ joiner = "idle"
  /\ websocket_url \in WebsocketUrls
  /\ start = StartAt("get_slot")
  /\ scheduled \in BOOLEAN

-----------------------------------------------------------------------------
(* LeaderTpuService::new.                                                  *)

StartGoes(from, to) ==
  /\ start.pc = from
  /\ start' = to
  /\ UNCHANGED <<vars, websocket_url, scheduled>>

\* get_slot_with_commitment(processed): the node may lag behind the cluster.
GotSlot ==
  \E slot \in saturating_sub(clock, Lag) .. clock :
    StartGoes("get_slot", [start EXCEPT !.pc = "get_epoch_info", !.start_slot = slot])

GotEpochInfo ==
  \E n \in EpochLengths :
    StartGoes("get_epoch_info",
              [start EXCEPT !.pc = "get_slot_leaders", !.slots_in_epoch = n])

GotLeaders ==
  /\ scheduled
  /\ StartGoes("get_slot_leaders",
               [start EXCEPT !.pc = "get_cluster_nodes",
                  !.leaders = get_slot_leaders(start.start_slot, fanout(start.slots_in_epoch))])

\* Mutant: an invalid slot range is an error like the others.
InvalidSlotRange_NotRetried ==
  /\ ~scheduled
  /\ StartGoes("get_slot_leaders", [start EXCEPT !.pc = "panicked"])

\* is_invalid_slot_range_error: sleep, and ask again.
InvalidSlotRange ==
  /\ ~scheduled
  /\ StartGoes("get_slot_leaders",
               [start EXCEPT !.pc = "sleep", !.wake = start.waited + RetryInterval])

\* Mutant: each try has the whole timeout for itself.
AskAgain_FreshTimeout ==
  /\ start.waited >= start.wake
  /\ StartGoes("sleep", [start EXCEPT !.pc = "get_slot_leaders", !.waited = 0])

AskAgain ==
  /\ start.waited >= start.wake
  /\ StartGoes("sleep", [start EXCEPT !.pc = "get_slot_leaders"])

\* A second passes inside timeout(..): a call takes its time, or the sleep its
\* interval.
SecondPasses ==
  /\ start.pc \in {"get_slot_leaders", "sleep"}
  /\ start.waited < StartTimeout
  /\ start.pc = "sleep" => start.waited < start.wake
  /\ StartGoes(start.pc, [start EXCEPT !.waited = @ + 1])

\* The timeout expires: map_err(..).unwrap().
StartTimesOut ==
  /\ start.pc \in {"get_slot_leaders", "sleep"}
  /\ start.waited >= StartTimeout
  /\ StartGoes(start.pc, [start EXCEPT !.pc = "panicked"])

\* Any other error: `?` and the unwrap of TpuClient, or the second unwrap here.
StartCallFails ==
  /\ start.pc \in Starting \ {"sleep"}
  /\ StartGoes(start.pc, [start EXCEPT !.pc = "panicked", !.failed = TRUE])

\* tokio::spawn(run(..)): both structures are filled and the loops begin, the
\* watcher at `loop`.
Spawn(nodes, loop) ==
  /\ recent_slots' = <<start.start_slot>>
  /\ cache' = NewCache(start.start_slot, start.slots_in_epoch, start.leaders, nodes)
  /\ fetched_at' = start.start_slot
  /\ watcher' = loop
  /\ refresher' = At("check")
  /\ start' = StartAt("running")
  /\ UNCHANGED <<environment, cluster_due, exit, joiner, websocket_url, scheduled>>

\* With no websocket URL there is no pubsub client: the watcher returns at once.
GotClusterNodes ==
  /\ start.pc = "get_cluster_nodes"
  /\ \/ websocket_url = "" /\ Spawn(cluster_nodes, "ok")
     \/ websocket_url # "" /\ StartGoes("get_cluster_nodes",
                                [start EXCEPT !.pc = "pubsub", !.nodes = cluster_nodes])

\* PubsubClient::new(websocket_url).await?
PubsubConnected == start.pc = "pubsub" /\ Spawn(start.nodes, "subscribe")

StartStep ==
  \/ GotSlot \/ GotEpochInfo \/ GotLeaders \/ InvalidSlotRange \/ AskAgain
  \/ StartTimesOut \/ StartCallFails \/ GotClusterNodes \/ PubsubConnected

-----------------------------------------------------------------------------
(* The environment as long as the program runs, and the service once it is *)
(* spawned.                                                                *)

ScheduleAppears ==
  /\ ~scheduled
  /\ scheduled' = TRUE
  /\ UNCHANGED <<vars, websocket_url, start>>

EnvironmentStep ==
  /\ start.pc # "panicked"
  /\ SlotPasses \/ ClusterChanges \/ StreamEnds
  /\ UNCHANGED startup

ServiceStep ==
  /\ Running
  /\ FiveMinutesPass \/ Watcher \/ Refresher \/ DropClient \/ Shutdown \/ Join
  /\ UNCHANGED startup

StartNext ==
  StartStep \/ SecondPasses \/ ScheduleAppears \/ EnvironmentStep \/ ServiceStep

StartSpec == StartInit /\ [][StartNext]_startVars

\* The runtime polls the start, its calls end (the RPC client has a timeout),
\* and time passes.  Nothing obliges the schedule to appear.
FairStartSpec == StartSpec /\ WF_startVars(StartStep) /\ WF_startVars(SecondPasses)

-----------------------------------------------------------------------------
(* Properties.                                                             *)

\* The types of the start, and of the service as soon as it runs.
StartTypeOK ==
  /\ websocket_url \in WebsocketUrls /\ scheduled \in BOOLEAN
  /\ start.pc \in Starting \cup {"running", "panicked"}
  /\ start.start_slot \in Nat /\ start.waited \in 0 .. StartTimeout
  /\ Running => TypeOK

\* A schedule that is late does not stop the program: the start panics only
\* after a call failed for another reason, or when the whole timeout was spent.
LateScheduleTolerated ==
  start.pc = "panicked" => start.failed \/ start.waited = StartTimeout

\* The start ends, in a running service or in a panic, also when the leader
\* schedule never becomes available.
StartDecided == <>(start.pc \in {"running", "panicked"})

=============================================================================
