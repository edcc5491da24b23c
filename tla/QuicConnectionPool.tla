------------------------- MODULE QuicConnectionPool -------------------------
(***************************************************************************)
(* The pools of connections of quik/mod.rs under the ConnectionCache of    *)
(* engine/connection_cache.rs: who gets which client, which certificate    *)
(* and which UDP socket it connects with, and what replacing the keypair   *)
(* or evicting a pool does to the calls in progress.                       *)
(*                                                                         *)
(* The cache itself is the crate solana-connection-cache: a map from       *)
(* addresses to pools under one lock, taken whole by each of its calls.    *)
(* A pool here is a QuicPool with its lazy endpoint and the clients made   *)
(* on it; the clients keep the endpoint after the pool is evicted, and the *)
(* socket stays for a while after the last of them.  What a client does    *)
(* with its connection is QuicClient.                                      *)
(***************************************************************************)
EXTENDS Integers, Sequences, FiniteSets

CONSTANTS
  Addr,      \* TPU addresses
  Callers,   \* the calls, and the cache's warm-up thread, that may hold a client
  Pools,     \* names for the pools that have not gone yet
  PoolSize,  \* DEFAULT_CONNECTION_POOL_SIZE = 4
  MaxPools,  \* addresses the cache keeps a pool for: 1024
  LastKey,   \* bound: keypairs the server is given, in order 1, 2, ...
  None

ASSUME SizesAssumption ==
  PoolSize \in Nat \ {0} /\ MaxPools \in Nat \ {0} /\ LastKey \in Nat \ {0}
ASSUME FiniteAssumption ==
  IsFiniteSet(Addr) /\ IsFiniteSet(Callers) /\ IsFiniteSet(Pools) /\ None \notin Pools

VARIABLES
  client_endpoint,     \* whether QuicConfig was given an endpoint
  client_certificate,  \* that of the manager's QuicConfig: the key it is made of
  cache,               \* the pool of each address, or None
  pools,               \* each pool
  calls                \* what each caller holds, and how far it is

vars == <<client_endpoint, client_certificate, cache, pools, calls>>

NotConnected == 0

\* No pool: what a name stands for when its pool and its socket are gone.
Dropped == [certificate |-> 0,     \* QuicLazyInitializedEndpoint.client_certificate
            ready       |-> FALSE, \* its OnceCell is set
            sockets     |-> 0,     \* sockets bound for it
            clients     |-> <<>>]  \* the certificate of each client's connection

\* A pool nothing refers to any more: its clients and its lazy endpoint go at
\* once.  A socket it has bound belongs to quinn's endpoint driver, which keeps
\* it until the connections have drained.
Released(pool) ==
  IF pool.sockets = 0 THEN Dropped ELSE [pool EXCEPT !.ready = FALSE, !.clients = <<>>]

NoCall == [pc |-> "idle", pool |-> None, index |-> 1, key |-> 0]

Init ==
  /\ client_endpoint \in BOOLEAN
  /\ client_certificate = 1
  /\ cache = [a \in Addr |-> None]
  /\ pools = [p \in Pools |-> Dropped]
  /\ calls = [c \in Callers |-> NoCall]

Cached == {a \in Addr : cache[a] # None}
Held == {calls[c].pool : c \in Callers} \ {None}

Referenced == ({cache[a] : a \in Addr} \ {None}) \cup Held

\* Mutant: a pool that leaves the cache closes its endpoint.
Keep_ClosesEvicted(P) ==
  pools' = [p \in Pools |-> IF p \in {cache'[a] : a \in Addr} THEN P[p]
                            ELSE IF p \in Held' THEN [P[p] EXCEPT !.ready = FALSE]
                            ELSE Released(P[p])]

\* The pools become P, and those nothing refers to any more are released.
Keep(P) == pools' = [p \in Pools |-> IF p \in Referenced' THEN P[p] ELSE Released(P[p])]

\* The endpoint driver of a released pool ends, and its socket closes.
Drained(p) ==
  /\ p \notin Referenced
  /\ pools[p].sockets > 0
  /\ pools' = [pools EXCEPT ![p] = Dropped]
  /\ UNCHANGED <<client_endpoint, client_certificate, cache, calls>>

-----------------------------------------------------------------------------
(* The cache's calls.                                                      *)

\* Mutant: the certificate comes from the copy of the config the cache keeps.
new_connection_pool_OldConfig == [Dropped EXCEPT !.certificate = 1]

new_connection_pool == [Dropped EXCEPT !.certificate = client_certificate]

\* create_pool_entry looks at the pool's endpoint, never at the config.
add_connection(pool) == [pool EXCEPT !.clients = Append(@, NotConnected)]

\* The addresses that may have to make room for one more.
Evicted == IF Cardinality(Cached) >= MaxPools THEN {{a} : a \in Cached} ELSE {{}}

Takes(c, p, i) ==
  /\ calls[c].pc = "idle"
  /\ calls' = [calls EXCEPT ![c] = [pc |-> "held", pool |-> p, index |-> i,
                                    key |-> client_certificate]]

\* There is a pool for the address: get(i), for some i.  It is an error if the
\* pool was replaced since i was chosen and the new one is shorter.
GetConnection(c, a, i) ==
  /\ cache[a] # None
  /\ i \in DOMAIN pools[cache[a]].clients
  /\ Takes(c, cache[a], i)
  /\ UNCHANGED <<client_endpoint, client_certificate, cache, pools>>

\* The names that are free: no pool, and no socket that is still draining.
Free == {p \in Pools \ Referenced : pools[p].sockets = 0}
Unused == CHOOSE p \in Free : TRUE

\* There is none: a new one with one client.
CreatePool(c, a) ==
  /\ cache[a] = None
  /\ Free # {}
  /\ \E out \in Evicted :
       cache' = [b \in Addr |-> IF b = a THEN Unused ELSE IF b \in out THEN None ELSE cache[b]]
  /\ Takes(c, Unused, 1)
  /\ Keep([pools EXCEPT ![Unused] = add_connection(new_connection_pool)])
  /\ UNCHANGED <<client_endpoint, client_certificate>>

\* The cache fills a pool up in the background.
AddConnection(a) ==
  /\ cache[a] # None
  /\ Len(pools[cache[a]].clients) < PoolSize
  /\ pools' = [pools EXCEPT ![cache[a]] = add_connection(@)]
  /\ UNCHANGED <<client_endpoint, client_certificate, cache, calls>>

\* Mutant: the pools stay.
update_key_KeepsPools ==
  /\ client_certificate < LastKey
  /\ client_certificate' = client_certificate + 1
  /\ UNCHANGED <<client_endpoint, cache, pools, calls>>

\* NotifyKeyUpdate: the cache drops every pool, which is the crate's doing, and
\* calls the manager's update_key, which replaces the certificate in its config.
\* Both happen under the cache's lock.
update_key ==
  /\ client_certificate < LastKey
  /\ client_certificate' = client_certificate + 1
  /\ cache' = [a \in Addr |-> None]
  /\ UNCHANGED <<client_endpoint, calls>>
  /\ Keep(pools)

-----------------------------------------------------------------------------
(* A caller with a client.                                                 *)

Goes(c, from, to) ==
  /\ calls[c].pc = from
  /\ calls' = [calls EXCEPT ![c].pc = to]
  /\ UNCHANGED <<client_endpoint, client_certificate, cache>>

\* The call is over, and lets go of the client.
Ends(c, from) ==
  /\ calls[c].pc = from
  /\ calls' = [calls EXCEPT ![c] = NoCall]
  /\ UNCHANGED <<client_endpoint, client_certificate, cache>>

\* Mutant: without the OnceCell.
Bound_EachTime(pool) ==
  [pool EXCEPT !.ready = TRUE, !.sockets = @ + (IF client_endpoint THEN 0 ELSE 1)]

\* create_endpoint, for the first caller only: the endpoint that was given, or
\* one on a port of VALIDATOR_PORT_RANGE.
Bound(pool) ==
  IF pool.ready THEN pool
  ELSE [pool EXCEPT !.ready = TRUE, !.sockets = IF client_endpoint THEN 0 ELSE 1]

GetEndpoint(c) ==
  /\ Goes(c, "held", "connecting")
  /\ pools' = [pools EXCEPT ![calls[c].pool] = Bound(@)]

\* Every port is taken: bind_in_range fails and the caller panics.  The OnceCell
\* stays empty.
Panics(c) ==
  /\ calls[c].pc = "held"
  /\ ~pools[calls[c].pool].ready /\ ~client_endpoint
  /\ Ends(c, "held")
  /\ Keep(pools)

\* The client has a connection it may use.
Reuses(c) ==
  /\ calls[c].pc = "held"
  /\ pools[calls[c].pool].clients[calls[c].index] # NotConnected
  /\ Goes(c, "held", "sending")
  /\ UNCHANGED pools

\* The handshake, with the certificate of the endpoint.
Connected(c) ==
  /\ Goes(c, "connecting", "sending")
  /\ LET p == calls[c].pool
     IN  pools' = [pools EXCEPT ![p].clients[calls[c].index] = pools[p].certificate]

\* The handshake fails or times out, the data is sent or the send fails.
Finishes(c) ==
  /\ Ends(c, "connecting") \/ Ends(c, "sending")
  /\ Keep(pools)

CallerStep(c) == GetEndpoint(c) \/ Panics(c) \/ Reuses(c) \/ Connected(c) \/ Finishes(c)

Next ==
  \/ \E c \in Callers, a \in Addr, i \in 1..PoolSize : GetConnection(c, a, i)
  \/ \E c \in Callers, a \in Addr : CreatePool(c, a)
  \/ \E a \in Addr : AddConnection(a)
  \/ update_key
  \/ \E p \in Pools : Drained(p)
  \/ \E c \in Callers : CallerStep(c)

Spec == Init /\ [][Next]_vars

\* Futures are polled, a handshake and an idle connection time out, and a
\* connection that was closed drains within a few probe timeouts.
FairSpec ==
  /\ Spec
  /\ \A c \in Callers : WF_vars(CallerStep(c))
  /\ \A p \in Pools : WF_vars(Drained(p))

-----------------------------------------------------------------------------
(* Properties.                                                             *)

Key == 1..LastKey

PoolType ==
  [certificate : {0} \cup Key, ready : BOOLEAN, sockets : {0, 1}, clients : Seq({0} \cup Key)]

CallType ==
  [pc : {"idle", "held", "connecting", "sending"}, pool : Pools \cup {None},
   index : 1..PoolSize, key : {0} \cup Key]

\* The types; and at most one socket for a pool, however many of its clients
\* connect at the same time.
PoolTypeOK ==
  /\ client_endpoint \in BOOLEAN
  /\ client_certificate \in Key
  /\ cache \in [Addr -> Pools \cup {None}]
  /\ pools \in [Pools -> PoolType]
  /\ calls \in [Callers -> CallType]

\* A call sends over a connection made with the key that was in force when it
\* asked for the client: neither a pool kept in the cache, nor the copy of the
\* config the cache was built with, nor a connection made earlier brings back
\* a key that update_key has replaced.
CallsUseKeyInForce ==
  \A c \in Callers : calls[c].pc = "sending" =>
    pools[calls[c].pool].clients[calls[c].index] = calls[c].key

\* The endpoint under a call stays open until the call lets go, although its
\* pool may be evicted or the key be replaced meanwhile.
OpenWhileInUse ==
  \A c \in Callers : calls[c].pc \in {"connecting", "sending"} => pools[calls[c].pool].ready

\* Once the key is no longer replaced, the sockets of the old keys are closed:
\* calls end, nothing else keeps the old pools, and what they leave behind
\* drains.
OldKeysRetire ==
  <>[][~update_key]_vars =>
    <>[](\A p \in Pools : pools[p].sockets > 0 => pools[p].certificate = client_certificate)

=============================================================================
