---------------------- MODULE QuicConnectionPoolProofs ----------------------
(***************************************************************************)
(* Proofs about QuicConnectionPool, for any addresses, callers, pools and  *)
(* sizes.                                                                  *)
(*                                                                         *)
(* A pool keeps for life the certificate it was made with, and connections *)
(* of that certificate only.  So the key of a call is known from the pool  *)
(* it holds: what has to be shown is that the cache never hands out a pool *)
(* of another key than the manager's, and that a pool somebody holds is    *)
(* not taken for an unused one.                                            *)
(***************************************************************************)
EXTENDS QuicConnectionPool, TLAPS

\* What is known of a pool something refers to.
PoolOK(pool) ==
  /\ Len(pool.clients) \in 1 .. PoolSize
  /\ pool.certificate \in Key
  /\ \A i \in 1 .. Len(pool.clients) :
       /\ pool.clients[i] \in {NotConnected, pool.certificate}
       /\ pool.clients[i] # NotConnected => pool.ready

\* What is known of a call from the pool it holds.
CallOK(call, pool) ==
  /\ call.key = pool.certificate
  /\ call.index \in 1 .. Len(pool.clients)
  /\ call.pc \in {"connecting", "sending"} => pool.ready
  /\ call.pc = "sending" => pool.clients[call.index] # NotConnected

PoolsInv == \A p \in Referenced : PoolOK(pools[p])
CacheInv == \A a \in Addr : cache[a] # None => pools[cache[a]].certificate = client_certificate
CallsInv ==
  \A c \in Callers : /\ calls[c].pc = "idle" <=> calls[c].pool = None
                     /\ calls[c].pool # None => CallOK(calls[c], pools[calls[c].pool])

Inv == PoolTypeOK /\ PoolsInv /\ CacheInv /\ CallsInv

\* A pool as it may have changed while somebody held it.
Later(old, new) ==
  /\ new.certificate = old.certificate
  /\ old.ready => new.ready
  /\ Len(old.clients) \in Nat /\ Len(new.clients) \in Nat
  /\ Len(old.clients) <= Len(new.clients)
  /\ \A i \in 1 .. Len(old.clients) :
       old.clients[i] # NotConnected => new.clients[i] # NotConnected

LEMMA CallOKLater ==
  ASSUME NEW call, NEW old, NEW new, CallOK(call, old), Later(old, new)
  PROVE  CallOK(call, new)
BY DEF CallOK, Later

\* Everything referred to is a pool.
LEMMA ReferencedArePools ==
  ASSUME cache \in [Addr -> Pools \cup {None}], calls \in [Callers -> CallType]
  PROVE  Referenced \subseteq Pools
BY DEF Referenced, Held, CallType

\* Keep changes nothing of the pools still referred to.
LEMMA Kept ==
  ASSUME NEW P \in [Pools -> PoolType], Keep(P), Referenced' \subseteq Pools
  PROVE  /\ pools' \in [Pools -> PoolType]
         /\ \A p \in Referenced' : pools'[p] = P[p]
<1>1. \A p \in Pools : Released(P[p]) \in PoolType
  <2>1. <<>> \in Seq({0} \cup Key)
    OBVIOUS
  <2> QED
    BY <2>1 DEF Released, Dropped, PoolType
<1> QED
  BY <1>1 DEF Keep

\* A caller that moves on, and one that lets go.
LEMMA CallersMove ==
  ASSUME calls \in [Callers -> CallType], NEW c \in Callers, NEW from,
         NEW to \in {"idle", "held", "connecting", "sending"}, Goes(c, from, to)
  PROVE  /\ calls[c].pc = from
         /\ calls' \in [Callers -> CallType]
         /\ calls'[c].pc = to
         /\ calls'[c].pool = calls[c].pool /\ calls'[c].index = calls[c].index
         /\ calls'[c].key = calls[c].key
         /\ \A d \in Callers \ {c} : calls'[d] = calls[d]
         /\ UNCHANGED <<client_endpoint, client_certificate, cache>>
         /\ Referenced' = Referenced
<1>1. /\ calls[c].pc = from
      /\ calls' = [calls EXCEPT ![c] = [calls[c] EXCEPT !.pc = to]]
      /\ UNCHANGED <<client_endpoint, client_certificate, cache>>
  BY DEF Goes
<1> DEFINE d == [calls[c] EXCEPT !.pc = to]
<1>2. /\ d \in CallType
      /\ d.pc = to /\ d.pool = calls[c].pool /\ d.index = calls[c].index /\ d.key = calls[c].key
  BY DEF CallType
<1> HIDE DEF d
<1>3. calls' = [calls EXCEPT ![c] = d]
  BY <1>1 DEF d
<1>4. calls' \in [Callers -> CallType] /\ calls'[c] = d /\ \A e \in Callers \ {c} : calls'[e] = calls[e]
  BY <1>2, <1>3
<1>5. Held' = Held
  <2>1. \A e \in Callers : calls'[e].pool = calls[e].pool
    BY <1>2, <1>4
  <2> QED
    BY <2>1 DEF Held
<1> QED
  BY <1>1, <1>2, <1>4, <1>5 DEF Referenced

LEMMA CallersEnd ==
  ASSUME calls \in [Callers -> CallType], NEW c \in Callers, NEW from, Ends(c, from)
  PROVE  /\ calls' \in [Callers -> CallType]
         /\ calls'[c].pool = None /\ calls'[c].pc = "idle"
         /\ \A d \in Callers \ {c} : calls'[d] = calls[d]
         /\ UNCHANGED <<client_endpoint, client_certificate, cache>>
         /\ Referenced' \subseteq Referenced
<1>1. NoCall \in CallType /\ NoCall.pool = None /\ NoCall.pc = "idle"
  BY SizesAssumption DEF NoCall, CallType
<1>2. calls' = [calls EXCEPT ![c] = NoCall] /\ UNCHANGED <<client_endpoint, client_certificate, cache>>
  BY DEF Ends
<1>3. calls' \in [Callers -> CallType] /\ calls'[c] = NoCall /\ \A e \in Callers \ {c} : calls'[e] = calls[e]
  BY <1>1, <1>2
<1>4. Held' \subseteq Held
  BY <1>1, <1>3 DEF Held
<1> QED
  BY <1>1, <1>2, <1>3, <1>4 DEF Referenced

\* A step after which the pools still referred to are later versions of what
\* they were, and calls and cache refer to them as before.
LEMMA OthersKeep ==
  ASSUME Inv, NEW d \in Callers, calls'[d] = calls[d],
         calls[d].pool # None => Later(pools[calls[d].pool], pools'[calls[d].pool])
  PROVE  /\ calls'[d].pc = "idle" <=> calls'[d].pool = None
         /\ calls'[d].pool # None => CallOK(calls'[d], pools'[calls'[d].pool])
BY CallOKLater DEF Inv, CallsInv

\* A pool that stays the same is a later version of itself.
LEMMA LaterSelf ==
  ASSUME NEW pool \in PoolType
  PROVE  Later(pool, pool)
<1>1. Len(pool.clients) \in Nat
  BY DEF PoolType
<1> QED
  BY <1>1 DEF Later

-----------------------------------------------------------------------------

LEMMA InitInv == Init => Inv
<1> SUFFICES ASSUME Init PROVE Inv
  OBVIOUS
<1>1. 1 \in Key /\ 1 \in 1 .. PoolSize
  BY SizesAssumption DEF Key
<1>2. Dropped \in PoolType
  <2>1. <<>> \in Seq({0} \cup Key)
    OBVIOUS
  <2> QED
    BY <2>1 DEF Dropped, PoolType
<1>3. NoCall \in CallType /\ NoCall.pc = "idle" /\ NoCall.pool = None
  BY <1>1 DEF NoCall, CallType
<1>4. PoolTypeOK
  BY <1>1, <1>2, <1>3 DEF Init, PoolTypeOK
<1>5. Referenced = {}
  BY <1>3 DEF Init, Referenced, Held
<1>6. PoolsInv /\ CacheInv /\ CallsInv
  BY <1>3, <1>5 DEF Init, PoolsInv, CacheInv, CallsInv
<1> QED
  BY <1>4, <1>6 DEF Inv

\* One pool moves on, and the cache and what is referred to stay.
LEMMA PoolMovesOn ==
  ASSUME Inv, NEW q \in Referenced, NEW new \in PoolType,
         pools' = [pools EXCEPT ![q] = new], PoolOK(new), Later(pools[q], new),
         UNCHANGED <<client_endpoint, client_certificate, cache>>, Referenced' = Referenced
  PROVE  /\ pools' \in [Pools -> PoolType] /\ PoolsInv' /\ CacheInv'
         /\ pools'[q] = new
         /\ \A p \in Referenced : Later(pools[p], pools'[p])
<1>1. Referenced \subseteq Pools /\ pools \in [Pools -> PoolType]
  BY ReferencedArePools DEF Inv, PoolTypeOK
<1>2. pools' \in [Pools -> PoolType] /\ pools'[q] = new /\ \A p \in Pools \ {q} : pools'[p] = pools[p]
  BY <1>1
<1>3. \A p \in Referenced : Later(pools[p], pools'[p])
  BY <1>1, <1>2, LaterSelf
<1>4. PoolsInv'
  BY <1>1, <1>2 DEF Inv, PoolsInv, PoolOK, Key
<1>5. CacheInv'
  <2>1. \A a \in Addr : cache[a] # None => cache[a] \in Referenced
    BY DEF Referenced
  <2> QED
    BY <1>3, <2>1 DEF Inv, CacheInv, Later
<1> QED
  BY <1>2, <1>3, <1>4, <1>5

-----------------------------------------------------------------------------
(* The cache's calls.                                                      *)

\* Everything a caller or the cache refers to is referred to.
LEMMA ReferencesCount ==
  /\ \A a \in Addr : cache[a] # None => cache[a] \in Referenced
  /\ \A c \in Callers : calls[c].pool # None => calls[c].pool \in Referenced
BY DEF Referenced, Held

\* The call a caller begins.
LEMMA CallTaken ==
  ASSUME Inv, NEW c \in Callers, NEW p \in Pools, NEW i \in 1 .. PoolSize, Takes(c, p, i)
  PROVE  /\ calls' \in [Callers -> CallType]
         /\ calls'[c].pc = "held" /\ calls'[c].pool = p /\ calls'[c].index = i
         /\ calls'[c].key = client_certificate
         /\ \A d \in Callers \ {c} : calls'[d] = calls[d]
         /\ Held' \subseteq Held \cup {p}
<1> DEFINE call == [pc |-> "held", pool |-> p, index |-> i, key |-> client_certificate]
<1>1. call \in CallType
  BY DEF Inv, PoolTypeOK, CallType
<1>2. /\ call.pc = "held" /\ call.pool = p /\ call.index = i /\ call.key = client_certificate
  OBVIOUS
<1>3. calls' = [calls EXCEPT ![c] = call]
  BY DEF Takes
<1> HIDE DEF call
<1>4. calls' \in [Callers -> CallType] /\ calls'[c] = call /\ \A d \in Callers \ {c} : calls'[d] = calls[d]
  BY <1>1, <1>3 DEF Inv, PoolTypeOK
<1>5. Held' \subseteq Held \cup {p}
  BY <1>2, <1>4 DEF Held
<1> QED
  BY <1>2, <1>4, <1>5

LEMMA GetConnectionInv ==
  ASSUME Inv, NEW c \in Callers, NEW a \in Addr, NEW i \in 1 .. PoolSize, GetConnection(c, a, i)
  PROVE  Inv'
<1> DEFINE p == cache[a]
<1>1. p # None /\ p \in Referenced /\ p \in Pools
  BY ReferencesCount, ReferencedArePools DEF GetConnection, Inv, PoolTypeOK
<1>2. PoolOK(pools[p]) /\ pools[p].certificate = client_certificate /\ i \in 1 .. Len(pools[p].clients)
  <2>1. pools[p].clients \in Seq({0} \cup Key)
    BY <1>1 DEF Inv, PoolTypeOK, PoolType
  <2> QED
    BY <1>1, <2>1 DEF Inv, PoolsInv, CacheInv, GetConnection
<1>3. UNCHANGED <<client_endpoint, client_certificate, cache, pools>> /\ Takes(c, p, i)
  BY DEF GetConnection
<1>4. /\ calls' \in [Callers -> CallType]
      /\ calls'[c].pc = "held" /\ calls'[c].pool = p /\ calls'[c].index = i
      /\ calls'[c].key = client_certificate
      /\ \A d \in Callers \ {c} : calls'[d] = calls[d]
      /\ Held' \subseteq Held \cup {p}
  BY <1>1, <1>3, CallTaken
<1>5. PoolTypeOK'
  BY <1>3, <1>4 DEF Inv, PoolTypeOK
<1>6. Referenced' \subseteq Referenced
  BY <1>1, <1>3, <1>4 DEF Referenced
<1>7. PoolsInv' /\ CacheInv'
  BY <1>3, <1>6 DEF Inv, PoolsInv, CacheInv, PoolOK, Key
<1>8. CallsInv'
  <2>1. CallOK(calls'[c], pools[p])
    BY <1>2, <1>4 DEF CallOK
  <2> QED
    BY <1>1, <1>3, <1>4, <2>1 DEF Inv, CallsInv, CallOK
<1> QED
  BY <1>5, <1>7, <1>8 DEF Inv

\* A pool as the cache makes it, with its first client.
LEMMA NewPool ==
  ASSUME Inv
  PROVE  LET new == add_connection(new_connection_pool)
         IN  new \in PoolType /\ PoolOK(new) /\ new.certificate = client_certificate
             /\ Len(new.clients) = 1
<1> DEFINE new == add_connection(new_connection_pool)
<1>1. new = [Dropped EXCEPT !.certificate = client_certificate, !.clients = <<0>>]
  BY DEF add_connection, new_connection_pool, Dropped, NotConnected
<1>2. client_certificate \in Key /\ <<0>> \in Seq({0} \cup Key) /\ Len(<<0>>) = 1 /\ <<0>>[1] = 0
  BY DEF Inv, PoolTypeOK
<1>3. new \in PoolType /\ new.certificate = client_certificate /\ new.clients = <<0>>
  BY <1>1, <1>2 DEF Dropped, PoolType
<1>4. 1 \in 1 .. PoolSize
  BY SizesAssumption
<1>5. PoolOK(new)
  BY <1>2, <1>3, <1>4 DEF PoolOK, NotConnected
<1> QED
  BY <1>2, <1>3, <1>5

LEMMA CreatePoolInv ==
  ASSUME Inv, NEW c \in Callers, NEW a \in Addr, CreatePool(c, a)
  PROVE  Inv'
<1> DEFINE u == Unused
           new == add_connection(new_connection_pool)
           Q == [pools EXCEPT ![u] = new]
<1>1. u \in Pools /\ u \notin Referenced /\ u # None
  <2>1. u \in Free
    BY DEF CreatePool, Unused
  <2>2. u \in Pools /\ u \notin Referenced
    BY <2>1 DEF Free
  <2> QED
    BY <2>2, FiniteAssumption
<1>2. new \in PoolType /\ PoolOK(new) /\ new.certificate = client_certificate /\ Len(new.clients) = 1
  BY NewPool
<1>3. /\ cache' \in [Addr -> Pools \cup {None}]
      /\ \A b \in Addr : cache'[b] \in {u, None, cache[b]}
  <2>1. PICK out \in Evicted :
          cache' = [b \in Addr |-> IF b = a THEN u ELSE IF b \in out THEN None ELSE cache[b]]
    BY DEF CreatePool
  <2> QED
    BY <1>1, <2>1 DEF Inv, PoolTypeOK
<1>4. Takes(c, u, 1) /\ Keep(Q) /\ UNCHANGED <<client_endpoint, client_certificate>>
  BY DEF CreatePool
<1>5. /\ calls' \in [Callers -> CallType]
      /\ calls'[c].pc = "held" /\ calls'[c].pool = u /\ calls'[c].index = 1
      /\ calls'[c].key = client_certificate
      /\ \A d \in Callers \ {c} : calls'[d] = calls[d]
      /\ Held' \subseteq Held \cup {u}
  BY <1>1, <1>4, CallTaken, SizesAssumption
<1> HIDE DEF u, new, Q
<1>6. Q \in [Pools -> PoolType] /\ Q[u] = new /\ \A p \in Pools \ {u} : Q[p] = pools[p]
  BY <1>1, <1>2 DEF Inv, PoolTypeOK, Q
<1>7. Referenced' \subseteq Referenced \cup {u} /\ Referenced \subseteq Pools
  BY <1>3, <1>5, ReferencedArePools DEF Referenced, Inv, PoolTypeOK
<1>8. pools' \in [Pools -> PoolType] /\ \A p \in Referenced' : pools'[p] = Q[p]
  BY <1>1, <1>4, <1>6, <1>7, Kept
<1>9. /\ u \in Referenced' => pools'[u] = new
      /\ \A p \in Referenced' \ {u} : p \in Referenced /\ pools'[p] = pools[p]
  BY <1>6, <1>7, <1>8
<1>10. PoolTypeOK'
  BY <1>3, <1>4, <1>5, <1>8 DEF Inv, PoolTypeOK
<1>11. PoolsInv'
  <2>1. \A p \in Referenced : PoolOK(pools[p])
    BY DEF Inv, PoolsInv
  <2>2. \A p \in Referenced' : PoolOK(pools'[p])
    BY <1>2, <1>9, <2>1
  <2> QED
    BY <2>2 DEF PoolsInv
<1>12. CacheInv'
  <2>1. \A b \in Addr : cache'[b] # None => cache'[b] \in Referenced'
    BY DEF Referenced
  <2> QED
    BY <1>2, <1>3, <1>4, <1>9, <2>1 DEF Inv, CacheInv
<1>13. CallsInv'
  <2>1. \A d \in Callers : calls'[d].pool # None => calls'[d].pool \in Referenced'
    BY DEF Referenced, Held
  <2>2. calls'[c].pool = u /\ CallOK(calls'[c], pools'[u])
    <3>1. calls'[c].pool = u /\ pools'[u] = new
      BY <1>1, <1>5, <1>9, <2>1
    <3>2. 1 \in 1 .. Len(new.clients) /\ calls'[c].pc \notin {"connecting", "sending"}
      BY <1>2, <1>5
    <3> QED
      BY <1>2, <1>5, <3>1, <3>2 DEF CallOK
  <2>3. ASSUME NEW d \in Callers \ {c}
        PROVE  /\ calls'[d].pc = "idle" <=> calls'[d].pool = None
               /\ calls'[d].pool # None => CallOK(calls'[d], pools'[calls'[d].pool])
    <3>1. calls'[d] = calls[d]
      BY <1>5
    <3>2. calls[d].pool # None => calls[d].pool # u /\ pools'[calls[d].pool] = pools[calls[d].pool]
      BY <1>1, <1>9, <2>1, <3>1, ReferencesCount
    <3> QED
      BY <3>1, <3>2 DEF Inv, CallsInv
  <2>4. calls'[c].pc # "idle"
    BY <1>5
  <2> QED
    BY <1>1, <2>2, <2>3, <2>4 DEF CallsInv, CallOK
<1> QED
  BY <1>10, <1>11, <1>12, <1>13 DEF Inv

LEMMA AddConnectionInv ==
  ASSUME Inv, NEW a \in Addr, AddConnection(a)
  PROVE  Inv'
<1> DEFINE q == cache[a]
           old == pools[q]
           new == add_connection(old)
<1>1. /\ q # None /\ Len(old.clients) < PoolSize
      /\ pools' = [pools EXCEPT ![q] = new]
      /\ UNCHANGED <<client_endpoint, client_certificate, cache, calls>>
  BY DEF AddConnection
<1>2. q \in Referenced /\ q \in Pools /\ old \in PoolType /\ PoolOK(old)
  BY <1>1, ReferencesCount, ReferencedArePools DEF Inv, PoolTypeOK, PoolsInv
<1> HIDE DEF q, old
<1>3. new = [old EXCEPT !.clients = Append(old.clients, 0)]
  BY <1>2 DEF add_connection, NotConnected
<1>4. /\ Append(old.clients, 0) \in Seq({0} \cup Key)
      /\ Len(Append(old.clients, 0)) = Len(old.clients) + 1 /\ Len(old.clients) \in Nat
      /\ \A i \in 1 .. Len(old.clients) : Append(old.clients, 0)[i] = old.clients[i]
      /\ Append(old.clients, 0)[Len(old.clients) + 1] = 0
  BY <1>2 DEF PoolType
<1>5. /\ new \in PoolType /\ new.clients = Append(old.clients, 0)
      /\ new.certificate = old.certificate /\ new.ready = old.ready
  BY <1>2, <1>3, <1>4 DEF PoolType
<1> HIDE DEF new
<1>6. PoolOK(new)
  <2>1. Len(new.clients) \in 1 .. PoolSize
    BY <1>1, <1>4, <1>5, SizesAssumption DEF old
  <2>2. ASSUME NEW i \in 1 .. Len(new.clients)
        PROVE  /\ new.clients[i] \in {NotConnected, new.certificate}
               /\ new.clients[i] # NotConnected => new.ready
    <3>1. CASE i = Len(old.clients) + 1
      BY <1>4, <1>5, <3>1 DEF NotConnected
    <3>2. CASE i \in 1 .. Len(old.clients)
      BY <1>2, <1>4, <1>5, <3>2 DEF PoolOK
    <3> QED
      BY <1>4, <1>5, <3>1, <3>2
  <2> QED
    BY <1>2, <1>5, <2>1, <2>2 DEF PoolOK
<1>7. Later(old, new)
  BY <1>4, <1>5 DEF Later
<1>8. Referenced' = Referenced
  BY <1>1 DEF Referenced, Held
<1>9. /\ pools' \in [Pools -> PoolType] /\ PoolsInv' /\ CacheInv'
      /\ \A p \in Referenced : Later(pools[p], pools'[p])
  BY <1>1, <1>2, <1>5, <1>6, <1>7, <1>8, PoolMovesOn DEF old
<1>10. CallsInv'
  <2>1. ASSUME NEW d \in Callers
        PROVE  /\ calls'[d].pc = "idle" <=> calls'[d].pool = None
               /\ calls'[d].pool # None => CallOK(calls'[d], pools'[calls'[d].pool])
    BY <1>1, <1>9, OthersKeep, ReferencesCount
  <2> QED
    BY <2>1 DEF CallsInv, CallOK
<1>11. PoolTypeOK'
  BY <1>1, <1>9 DEF Inv, PoolTypeOK
<1> QED
  BY <1>9, <1>10, <1>11 DEF Inv

\* Nobody begins a call and no pool changes: what is still referred to is as it
\* was.  For the steps that let go of pools.
LEMMA ReferencesDrop ==
  ASSUME Inv, Keep(pools), Referenced' \subseteq Referenced
  PROVE  /\ pools' \in [Pools -> PoolType] /\ PoolsInv'
         /\ \A p \in Referenced' : pools'[p] = pools[p]
<1>1. pools \in [Pools -> PoolType] /\ Referenced' \subseteq Pools
  BY ReferencedArePools DEF Inv, PoolTypeOK
<1>2. pools' \in [Pools -> PoolType] /\ \A p \in Referenced' : pools'[p] = pools[p]
  BY <1>1, Kept
<1>3. \A p \in Referenced' : PoolOK(pools'[p])
  BY <1>2 DEF Inv, PoolsInv
<1>4. PoolsInv'
  BY <1>3 DEF PoolsInv
<1> QED
  BY <1>2, <1>4

\* A socket that has drained belongs to a pool nothing refers to.
LEMMA DrainedInv ==
  ASSUME Inv, NEW p \in Pools, Drained(p)
  PROVE  Inv'
<1>1. /\ p \notin Referenced /\ pools' = [pools EXCEPT ![p] = Dropped]
      /\ UNCHANGED <<client_endpoint, client_certificate, cache, calls>>
  BY DEF Drained
<1>2. Referenced' = Referenced /\ Referenced \subseteq Pools
  BY <1>1, ReferencedArePools DEF Inv, PoolTypeOK, Referenced, Held
<1>3. Dropped \in PoolType
  <2>1. <<>> \in Seq({0} \cup Key)
    OBVIOUS
  <2> QED
    BY <2>1 DEF Dropped, PoolType
<1>4. pools' \in [Pools -> PoolType] /\ \A q \in Referenced : pools'[q] = pools[q]
  BY <1>1, <1>2, <1>3 DEF Inv, PoolTypeOK
<1>5. PoolTypeOK'
  BY <1>1, <1>4 DEF Inv, PoolTypeOK
<1>6. PoolsInv'
  BY <1>2, <1>4 DEF Inv, PoolsInv, PoolOK, Key
<1>7. CacheInv' /\ CallsInv'
  BY <1>1, <1>4, ReferencesCount DEF Inv, CacheInv, CallsInv, CallOK
<1> QED
  BY <1>5, <1>6, <1>7 DEF Inv

LEMMA UpdateKeyInv ==
  ASSUME Inv, update_key
  PROVE  Inv'
<1>1. /\ client_certificate' \in Key /\ client_endpoint' = client_endpoint
      /\ cache' = [a \in Addr |-> None] /\ calls' = calls /\ Keep(pools)
  BY SizesAssumption DEF update_key, Inv, PoolTypeOK, Key
<1>2. Referenced' \subseteq Referenced
  BY <1>1 DEF Referenced, Held
<1>3. /\ pools' \in [Pools -> PoolType] /\ PoolsInv'
      /\ \A p \in Referenced' : pools'[p] = pools[p]
  BY <1>1, <1>2, ReferencesDrop
<1>4. PoolTypeOK'
  BY <1>1, <1>3 DEF Inv, PoolTypeOK
<1>5. CacheInv'
  BY <1>1 DEF CacheInv
<1>6. CallsInv'
  <2>1. \A d \in Callers : calls'[d].pool # None => calls'[d].pool \in Referenced'
    BY DEF Referenced, Held
  <2>2. \A d \in Callers : /\ calls'[d].pc = "idle" <=> calls'[d].pool = None
                           /\ calls'[d].pool # None => CallOK(calls'[d], pools'[calls'[d].pool])
    BY <1>1, <1>3, <2>1 DEF Inv, CallsInv
  <2> QED
    BY <2>2 DEF CallsInv, CallOK
<1> QED
  BY <1>3, <1>4, <1>5, <1>6 DEF Inv

-----------------------------------------------------------------------------
(* A caller with a client.                                                 *)

\* A caller that is not idle holds a pool that something refers to.
LEMMA HoldsPool ==
  ASSUME Inv, NEW c \in Callers, calls[c].pc # "idle"
  PROVE  /\ calls[c].pool # None /\ calls[c].pool \in Referenced /\ calls[c].pool \in Pools
         /\ pools[calls[c].pool] \in PoolType /\ PoolOK(pools[calls[c].pool])
         /\ CallOK(calls[c], pools[calls[c].pool])
<1>1. calls[c].pool # None /\ CallOK(calls[c], pools[calls[c].pool])
  BY DEF Inv, CallsInv
<1>2. calls[c].pool \in Referenced /\ calls[c].pool \in Pools
  BY <1>1, ReferencesCount, ReferencedArePools DEF Inv, PoolTypeOK
<1> QED
  BY <1>1, <1>2 DEF Inv, PoolsInv, PoolTypeOK

\* The call of a caller moves on, and its pool with it.
LEMMA CallMovesOn ==
  ASSUME Inv, NEW c \in Callers, NEW from, from # "idle", NEW to \in {"connecting", "sending"},
         Goes(c, from, to), NEW new \in PoolType, PoolOK(new), Later(pools[calls[c].pool], new),
         pools' = [pools EXCEPT ![calls[c].pool] = new],
         new.ready, to = "sending" => new.clients[calls[c].index] # NotConnected
  PROVE  Inv'
<1> DEFINE q == calls[c].pool
<1>1. /\ calls[c].pc = from
      /\ calls' \in [Callers -> CallType]
      /\ calls'[c].pc = to
      /\ calls'[c].pool = q /\ calls'[c].index = calls[c].index
      /\ calls'[c].key = calls[c].key
      /\ \A d \in Callers \ {c} : calls'[d] = calls[d]
      /\ UNCHANGED <<client_endpoint, client_certificate, cache>>
      /\ Referenced' = Referenced
  BY CallersMove DEF Inv, PoolTypeOK
<1>2. q # None /\ q \in Referenced /\ CallOK(calls[c], pools[q])
  BY <1>1, HoldsPool
<1>3. /\ pools' \in [Pools -> PoolType] /\ PoolsInv' /\ CacheInv'
      /\ pools'[q] = new
      /\ \A p \in Referenced : Later(pools[p], pools'[p])
  BY <1>1, <1>2, PoolMovesOn
<1>4. CallOK(calls[c], new)
  BY <1>2, CallOKLater
<1>5. CallOK(calls'[c], new)
  BY <1>1, <1>4 DEF CallOK
<1>6. CallsInv'
  <2>1. ASSUME NEW d \in Callers \ {c}
        PROVE  /\ calls'[d].pc = "idle" <=> calls'[d].pool = None
               /\ calls'[d].pool # None => CallOK(calls'[d], pools'[calls'[d].pool])
    BY <1>1, <1>3, OthersKeep, ReferencesCount
  <2>2. /\ calls'[c].pc # "idle" /\ calls'[c].pool # None
        /\ CallOK(calls'[c], pools'[calls'[c].pool])
    BY <1>1, <1>2, <1>3, <1>5
  <2>3. \A d \in Callers : /\ calls'[d].pc = "idle" <=> calls'[d].pool = None
                           /\ calls'[d].pool # None => CallOK(calls'[d], pools'[calls'[d].pool])
    BY <2>1, <2>2
  <2> QED
    BY <2>3 DEF CallsInv, CallOK
<1>7. PoolTypeOK'
  BY <1>1, <1>3 DEF Inv, PoolTypeOK
<1> QED
  BY <1>3, <1>6, <1>7 DEF Inv

LEMMA GetEndpointInv ==
  ASSUME Inv, NEW c \in Callers, GetEndpoint(c)
  PROVE  Inv'
<1> DEFINE q == calls[c].pool
           old == pools[q]
           new == Bound(old)
<1>1. Goes(c, "held", "connecting") /\ pools' = [pools EXCEPT ![q] = new]
  BY DEF GetEndpoint
<1>2. calls[c].pc = "held"
  BY <1>1 DEF Goes
<1>3. old \in PoolType /\ PoolOK(old)
  BY <1>2, HoldsPool
<1> HIDE DEF q, old
<1>4. /\ new \in PoolType /\ new.ready
      /\ new.clients = old.clients /\ new.certificate = old.certificate
  BY <1>3 DEF Bound, PoolType
<1> HIDE DEF new
<1>5. PoolOK(new)
  BY <1>3, <1>4 DEF PoolOK
<1>6. Later(old, new)
  <2>1. Len(old.clients) \in Nat
    BY <1>3 DEF PoolType
  <2> QED
    BY <1>4, <2>1 DEF Later
<1> QED
  BY <1>1, <1>4, <1>5, <1>6, CallMovesOn DEF q, old

LEMMA ReusesInv ==
  ASSUME Inv, NEW c \in Callers, Reuses(c)
  PROVE  Inv'
<1> DEFINE q == calls[c].pool
           old == pools[q]
<1>1. /\ calls[c].pc = "held" /\ old.clients[calls[c].index] # NotConnected
      /\ Goes(c, "held", "sending") /\ pools' = pools
  BY DEF Reuses
<1>2. q \in Pools /\ old \in PoolType /\ PoolOK(old) /\ CallOK(calls[c], old)
  BY <1>1, HoldsPool
<1>3. old.ready
  BY <1>1, <1>2 DEF PoolOK, CallOK
<1>4. pools' = [pools EXCEPT ![q] = old]
  BY <1>1, <1>2 DEF Inv, PoolTypeOK
<1> QED
  BY <1>1, <1>2, <1>3, <1>4, LaterSelf, CallMovesOn

LEMMA ConnectedInv ==
  ASSUME Inv, NEW c \in Callers, Connected(c)
  PROVE  Inv'
<1> DEFINE q == calls[c].pool
           old == pools[q]
           i == calls[c].index
           clients == [old.clients EXCEPT ![i] = old.certificate]
           new == [old EXCEPT !.clients = clients]
<1>1. /\ Goes(c, "connecting", "sending")
      /\ pools' = [pools EXCEPT ![q].clients[i] = old.certificate]
  BY DEF Connected
<1>2. calls[c].pc = "connecting"
  BY <1>1 DEF Goes
<1>3. q \in Pools /\ old \in PoolType /\ PoolOK(old) /\ CallOK(calls[c], old)
  BY <1>2, HoldsPool
<1>4. pools' = [pools EXCEPT ![q] = new]
  BY <1>1, <1>3
<1>5. i \in 1 .. Len(old.clients) /\ old.ready /\ old.certificate \in Key /\ old.certificate # 0
  BY <1>2, <1>3 DEF CallOK, PoolOK, Key
<1>6. /\ clients \in Seq({0} \cup Key) /\ Len(clients) = Len(old.clients)
      /\ Len(old.clients) \in Nat
      /\ clients[i] = old.certificate
      /\ \A j \in 1 .. Len(old.clients) : j # i => clients[j] = old.clients[j]
  BY <1>3, <1>5 DEF PoolType
<1> HIDE DEF clients, q, old, i
<1>7. /\ new \in PoolType /\ new.clients = clients
      /\ new.certificate = old.certificate /\ new.ready = old.ready
  BY <1>3, <1>6 DEF PoolType
<1> HIDE DEF new
<1>8. PoolOK(new)
  BY <1>3, <1>5, <1>6, <1>7 DEF PoolOK, NotConnected
<1>9. Later(old, new)
  BY <1>5, <1>6, <1>7 DEF Later, NotConnected
<1> QED
  BY <1>1, <1>4, <1>5, <1>6, <1>7, <1>8, <1>9, CallMovesOn DEF q, old, i, NotConnected

\* The call of a caller is over: it finishes, or panics.
LEMMA EndsInv ==
  ASSUME Inv, NEW c \in Callers, NEW from, Ends(c, from), Keep(pools)
  PROVE  Inv'
<1>1. /\ calls' \in [Callers -> CallType]
      /\ calls'[c].pool = None /\ calls'[c].pc = "idle"
      /\ \A d \in Callers \ {c} : calls'[d] = calls[d]
      /\ UNCHANGED <<client_endpoint, client_certificate, cache>>
      /\ Referenced' \subseteq Referenced
  BY CallersEnd DEF Inv, PoolTypeOK
<1>2. /\ pools' \in [Pools -> PoolType] /\ PoolsInv'
      /\ \A p \in Referenced' : pools'[p] = pools[p]
  BY <1>1, ReferencesDrop
<1>3. PoolTypeOK'
  BY <1>1, <1>2 DEF Inv, PoolTypeOK
<1>4. /\ \A a \in Addr : cache'[a] # None => cache'[a] \in Referenced'
      /\ \A d \in Callers : calls'[d].pool # None => calls'[d].pool \in Referenced'
  BY DEF Referenced, Held
<1>5. CacheInv'
  BY <1>1, <1>2, <1>4 DEF Inv, CacheInv
<1>6. CallsInv'
  <2>1. \A d \in Callers : /\ calls'[d].pc = "idle" <=> calls'[d].pool = None
                           /\ calls'[d].pool # None => CallOK(calls'[d], pools'[calls'[d].pool])
    BY <1>1, <1>2, <1>4 DEF Inv, CallsInv
  <2> QED
    BY <2>1 DEF CallsInv, CallOK
<1> QED
  BY <1>2, <1>3, <1>5, <1>6 DEF Inv

-----------------------------------------------------------------------------

LEMMA NextInv == Inv /\ [Next]_vars => Inv'
<1> SUFFICES ASSUME Inv, [Next]_vars PROVE Inv'
  OBVIOUS
<1>1. ASSUME NEW c \in Callers, NEW a \in Addr, NEW i \in 1 .. PoolSize, GetConnection(c, a, i)
      PROVE  Inv'
  BY <1>1, GetConnectionInv
<1>2. ASSUME NEW c \in Callers, NEW a \in Addr, CreatePool(c, a)
      PROVE  Inv'
  BY <1>2, CreatePoolInv
<1>3. ASSUME NEW a \in Addr, AddConnection(a)
      PROVE  Inv'
  BY <1>3, AddConnectionInv
<1>4. CASE update_key
  BY <1>4, UpdateKeyInv
<1>5. ASSUME NEW c \in Callers, CallerStep(c)
      PROVE  Inv'
  <2>1. CASE GetEndpoint(c)
    BY <2>1, GetEndpointInv
  <2>2. CASE Panics(c) \/ Finishes(c)
    BY <2>2, EndsInv DEF Panics, Finishes
  <2>3. CASE Reuses(c)
    BY <2>3, ReusesInv
  <2>4. CASE Connected(c)
    BY <2>4, ConnectedInv
  <2> QED
    BY <1>5, <2>1, <2>2, <2>3, <2>4 DEF CallerStep
<1>6. ASSUME NEW p \in Pools, Drained(p)
      PROVE  Inv'
  BY <1>6, DrainedInv
<1>7. CASE UNCHANGED vars
  BY <1>7 DEF vars, Inv, PoolTypeOK, PoolsInv, CacheInv, CallsInv, Referenced, Held, PoolOK, CallOK
<1> QED
  BY <1>1, <1>2, <1>3, <1>4, <1>5, <1>6, <1>7 DEF Next

\* The invariant of every behaviour.
LEMMA Invariance == Spec => []Inv
BY InitInv, NextInv, PTL DEF Spec

\* The types: PoolTypeOK holds for every number of pools and callers, so no
\* pool ever has more than one socket, whoever races in get_endpoint.
THEOREM PoolTypesHold == Spec => []PoolTypeOK
<1>1. Inv => PoolTypeOK
  BY DEF Inv
<1> QED
  BY <1>1, Invariance, PTL

\* CallsUseKeyInForce: a call sends over a connection of the key that was in
\* force when it took the client, whatever update_key replaces meanwhile.
THEOREM KeyInForceIsUsed == Spec => []CallsUseKeyInForce
<1>1. ASSUME Inv PROVE CallsUseKeyInForce
  <2>1. ASSUME NEW c \in Callers, calls[c].pc = "sending"
        PROVE  pools[calls[c].pool].clients[calls[c].index] = calls[c].key
    BY <1>1, <2>1, HoldsPool DEF CallOK, PoolOK
  <2> QED
    BY <2>1 DEF CallsUseKeyInForce
<1> QED
  BY <1>1, Invariance, PTL

\* OpenWhileInUse: evicting a pool or replacing the key closes no endpoint
\* under a call.
THEOREM EndpointsStayOpen == Spec => []OpenWhileInUse
<1>1. ASSUME Inv PROVE OpenWhileInUse
  <2>1. ASSUME NEW c \in Callers, calls[c].pc \in {"connecting", "sending"}
        PROVE  pools[calls[c].pool].ready
    BY <1>1, <2>1, HoldsPool DEF CallOK
  <2> QED
    BY <2>1 DEF OpenWhileInUse
<1> QED
  BY <1>1, Invariance, PTL

=============================================================================
