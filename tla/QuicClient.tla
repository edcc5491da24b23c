----------------------------- MODULE QuicClient -----------------------------
(***************************************************************************)
(* `struct QuicClient` of quik/nonblocking/quik_client.rs: the calls that  *)
(* share one Mutex<Option<QuicNewConnection>> to one leader, reconnect it  *)
(* and send buffers over it.                                               *)
(*                                                                         *)
(* The calls are futures that run in parallel; an action of a call is what *)
(* it does between two awaits.  send_buffer is send_batch of one buffer.   *)
(* Of a buffer, the code only looks at whether it is empty.                *)
(*                                                                         *)
(* The mutex is async_lock's: whoever comes when it is free may take it,   *)
(* before the calls that have waited, so that there is no queue here.      *)
(*                                                                         *)
(* A connection is named by its stable_id().  quinn derives it from the    *)
(* address of the connection object, so once nothing refers to a           *)
(* connection its id can come back for another one.                        *)
(***************************************************************************)
EXTENDS Integers, SequencesExt

CONSTANTS
  Sender,      \* the futures that may be sending to this leader
  ConnId,      \* values stable_id() can take
  None,        \* no connection, no holder, and the 0 of last_connection_id
  Batches,     \* what a call may be asked to send: sequences over Buffer
  IdsReused    \* an id may come back while a call still remembers it

Buffer == {"empty", "data"}

ASSUME NoneAssumption == None \notin ConnId \cup Sender
ASSUME BatchesAssumption == Batches \subseteq Seq(Buffer)
ASSUME ReuseAssumption == IdsReused \in BOOLEAN

VARIABLES
  status,      \* whether a connection is known to be closed, by id
  connection,  \* self.connection: the shared connection, or None
  mutex,       \* the call that holds the mutex over an await, or None
  pc,          \* where each call is
  calls,       \* the locals of each call
  calm         \* environment: the network has settled for good

vars == <<status, connection, mutex, pc, calls, calm>>

\* Locals of send_batch and _send_buffer, and of what they are awaiting.
NoCall == [buffers    |-> <<>>,   \* the argument
           sent       |-> 0,      \* buffers done with
           try_count  |-> 0,      \* connection_try_count
           last_id    |-> None,   \* last_connection_id
           last_error |-> "none", \* last_error
           conn       |-> None,   \* the Arc<Connection> in use
           wire       |-> <<>>,   \* history: <<buffer, connection>> put on the wire
           in_calm    |-> FALSE]  \* history: the network was calm at the call

Ended  == {"idle", "ok", "err", "panicked", "cancelled"}
Active == {"loop", "locking", "connecting", "opening", "writing"}

Init ==
  /\ status = [c \in ConnId |-> "closed"]
  /\ connection = None
  /\ mutex = None
  /\ pc = [s \in Sender |-> "idle"]
  /\ calls = [s \in Sender |-> NoCall]
  /\ calm = FALSE

-----------------------------------------------------------------------------
(* Helpers.                                                                *)

\* Ids of the connections something still refers to.
Referenced == {connection} \cup {calls[s].conn : s \in Sender}

Remembered == {calls[s].last_id : s \in Sender}

FreshIds == ConnId \ (Referenced \cup (IF IdsReused THEN {} ELSE Remembered))

\* The call goes on at `to` with its locals changed as in `c`.
Goes(s, to, c) ==
  /\ pc' = [pc EXCEPT ![s] = to]
  /\ calls' = [calls EXCEPT ![s] = c]

Return(c) == [c EXCEPT !.conn = None]

\* Mutant: the last buffer is left out.
GoesOn_OffByOne(s, c) ==
  \/ c.sent >= Len(c.buffers) - 1 /\ Goes(s, "ok", Return(c))
  \/ c.sent < Len(c.buffers) - 1 /\ Goes(s, "opening", c)

\* One more buffer is dealt with: return Ok, or open a stream for the next.
GoesOn(s, c) ==
  \/ c.sent = Len(c.buffers) /\ Goes(s, "ok", Return(c))
  \/ c.sent < Len(c.buffers) /\ Goes(s, "opening", c)

\* The rest of an iteration once `conn` is chosen and the lock released: an
\* empty first buffer is not sent, since it is taken for cache warming.
UseConnection(s, conn, try_count) ==
  LET c == [calls[s] EXCEPT !.conn = conn, !.try_count = try_count]
  IN  \/ Head(c.buffers) = "empty" /\ GoesOn(s, [c EXCEPT !.sent = 1])
      \/ Head(c.buffers) = "data" /\ Goes(s, "opening", [c EXCEPT !.last_id = conn])

-----------------------------------------------------------------------------
(* A call of send_batch.                                                   *)

send_batch(s, buffers) ==
  /\ pc[s] \in Ended
  /\ Goes(s, IF buffers = <<>> THEN "ok" ELSE "loop",
          [NoCall EXCEPT !.buffers = buffers, !.in_calm = calm])
  /\ UNCHANGED <<status, connection, mutex, calm>>

\* Mutant: one more attempt.
Lock_OnceMore(s) ==
  /\ pc[s] = "loop" /\ calls[s].try_count <= 2
  /\ Goes(s, "locking", calls[s])
  /\ UNCHANGED <<status, connection, mutex, calm>>

\* while connection_try_count < 2: ask for the mutex.
Lock(s) ==
  /\ pc[s] = "loop" /\ calls[s].try_count < 2
  /\ Goes(s, "locking", calls[s])
  /\ UNCHANGED <<status, connection, mutex, calm>>

\* The loop ends: last_error.expect(..).
Exhausted(s) ==
  /\ pc[s] = "loop" /\ calls[s].try_count >= 2
  /\ Goes(s, IF calls[s].last_error = "none" THEN "panicked" ELSE "err", calls[s])
  /\ UNCHANGED <<status, connection, mutex, calm>>

\* The mutex is free.  A connection is shared, and it is not the one that
\* failed this call: the mutex is released before the next await.
Reuse(s) ==
  /\ pc[s] = "locking" /\ mutex = None
  /\ connection # None /\ connection # calls[s].last_id
  /\ UseConnection(s, connection, calls[s].try_count)
  /\ UNCHANGED <<status, connection, mutex, calm>>

\* Mutant: a call that failed reconnects, without comparing the ids.
StartConnecting_Unchecked(s) ==
  /\ pc[s] = "locking" /\ mutex = None
  /\ connection = None \/ calls[s].last_id # None
  /\ Goes(s, "connecting", calls[s])
  /\ mutex' = s
  /\ UNCHANGED <<status, connection, calm>>

\* No connection, or the problematic one: make_connection or
\* make_connection_0rtt, with the mutex held over the await.
StartConnecting(s) ==
  /\ pc[s] = "locking" /\ mutex = None
  /\ connection \in {None, calls[s].last_id}
  /\ Goes(s, "connecting", calls[s])
  /\ mutex' = s
  /\ UNCHANGED <<status, connection, calm>>

\* The handshake succeeds: the connection is shared before the lock is left.
Connected(s, new) ==
  /\ pc[s] = "connecting"
  /\ UseConnection(s, new, calls[s].try_count + 1)
  /\ connection' = new
  /\ status' = [status EXCEPT ![new] = "up"]
  /\ mutex' = None
  /\ UNCHANGED calm

\* The handshake fails or times out: return Err, the shared one stays.
ConnectFails(s) ==
  /\ pc[s] = "connecting" /\ ~calm
  /\ Goes(s, "err", [calls[s] EXCEPT !.last_error = "connect"])
  /\ mutex' = None
  /\ UNCHANGED <<status, connection, calm>>

\* open_uni().await gives a stream.
Opened(s) ==
  /\ pc[s] = "opening" /\ status[calls[s].conn] = "up"
  /\ Goes(s, "writing", calls[s])
  /\ UNCHANGED <<status, connection, mutex, calm>>

\* Mutant: the error is not kept.
OpenFails_Forgets(s) ==
  /\ pc[s] = "opening" /\ status[calls[s].conn] = "closed"
  /\ LET c == Return(calls[s])
     IN  Goes(s, IF c.sent = 0 THEN "loop" ELSE "err", c)
  /\ UNCHANGED <<status, connection, mutex, calm>>

\* Mutant: the first failure is returned.
OpenFails_NoRetry(s) ==
  /\ pc[s] = "opening" /\ status[calls[s].conn] = "closed"
  /\ Goes(s, "err", [Return(calls[s]) EXCEPT !.last_error = "open"])
  /\ UNCHANGED <<status, connection, mutex, calm>>

\* open_uni().await finds the connection closed.  For the first buffer the
\* error is kept and the loop goes on, without the reference to the
\* connection; for a later one send_batch returns.
OpenFails(s) ==
  /\ pc[s] = "opening" /\ status[calls[s].conn] = "closed"
  /\ LET c == [Return(calls[s]) EXCEPT !.last_error = "open"]
     IN  Goes(s, IF c.sent = 0 THEN "loop" ELSE "err", c)
  /\ UNCHANGED <<status, connection, mutex, calm>>

OnWire(c) == [c EXCEPT !.wire = Append(@, <<c.sent + 1, c.conn>>)]

\* write_all().await takes the whole buffer.
Written(s) ==
  /\ pc[s] = "writing" /\ status[calls[s].conn] = "up"
  /\ GoesOn(s, [OnWire(calls[s]) EXCEPT !.sent = @ + 1])
  /\ UNCHANGED <<status, connection, mutex, calm>>

\* The connection is lost, or the leader gives up the stream.
WriteBreaks(s) == status[calls[s].conn] = "closed" \/ ~calm

\* Mutant: a failed write of the first buffer is tried again.
WriteFails_Retried(s) ==
  /\ pc[s] = "writing" /\ WriteBreaks(s)
  /\ \E c \in {calls[s], OnWire(calls[s])} :
       Goes(s, IF c.sent = 0 THEN "loop" ELSE "err", [Return(c) EXCEPT !.last_error = "write"])
  /\ UNCHANGED <<status, connection, mutex, calm>>

\* write_all().await fails, before or after some of the buffer has left: a
\* WriteError, which is returned at once.
WriteFails(s) ==
  /\ pc[s] = "writing" /\ WriteBreaks(s)
  /\ \E c \in {calls[s], OnWire(calls[s])} :
       Goes(s, "err", [Return(c) EXCEPT !.last_error = "write"])
  /\ UNCHANGED <<status, connection, mutex, calm>>

\* Mutant: a dropped future leaves the mutex locked.
Cancelled_KeepsLock(s) ==
  /\ pc[s] \in Active
  /\ Goes(s, "cancelled", Return(calls[s]))
  /\ UNCHANGED <<status, connection, mutex, calm>>

\* The future is dropped: its request went away, or timeout() expired.
Cancelled(s) ==
  /\ pc[s] \in Active
  /\ Goes(s, "cancelled", Return(calls[s]))
  /\ mutex' = IF mutex = s THEN None ELSE mutex
  /\ UNCHANGED <<status, connection, calm>>

Step(s) ==
  \/ Lock(s) \/ Exhausted(s) \/ Reuse(s) \/ StartConnecting(s)
  \/ \E new \in FreshIds : Connected(s, new)
  \/ ConnectFails(s)
  \/ Opened(s) \/ OpenFails(s) \/ Written(s) \/ WriteFails(s)

-----------------------------------------------------------------------------
(* The network.                                                            *)

\* The idle timeout expires or the leader closes the connection.
Close(c) ==
  /\ ~calm
  /\ c \in Referenced /\ status[c] = "up"
  /\ status' = [status EXCEPT ![c] = "closed"]
  /\ UNCHANGED <<connection, mutex, pc, calls, calm>>

\* From here on connections stay up and handshakes succeed.
Settle ==
  /\ ~calm
  /\ calm' = TRUE
  /\ UNCHANGED <<status, connection, mutex, pc, calls>>

Next ==
  \/ \E s \in Sender : \/ \E buffers \in Batches : send_batch(s, buffers)
                       \/ Step(s) \/ Cancelled(s)
  \/ \E c \in ConnId : Close(c)
  \/ Settle

Spec == Init /\ [][Next]_vars

\* Every await of a call ends: the handshakes are under timeout(), and a stream
\* that gets no credit ends with the idle timeout of its connection.  A call that
\* waits for the mutex may be overtaken, but not for ever (strong fairness):
\* async_lock lets nobody pass a waiter that has starved for a while, it is
\* "eventually fair".  Connections are assumed not to fail for ever.
FairSpec == Spec /\ (\A s \in Sender : SF_vars(Step(s))) /\ WF_vars(Settle)

-----------------------------------------------------------------------------
(* Properties.                                                             *)

TypeOK ==
  /\ status \in [ConnId -> {"up", "closed"}]
  /\ connection \in ConnId \cup {None}
  /\ mutex \in Sender \cup {None}
  /\ pc \in [Sender -> Ended \cup Active]
  /\ calls \in [Sender ->
       [buffers : Batches \cup {<<>>}, sent : Nat, try_count : 0 .. 2,
        last_id : ConnId \cup {None}, last_error : {"none", "connect", "open", "write"},
        conn : ConnId \cup {None}, wire : Seq((Nat \ {0}) \X ConnId), in_calm : BOOLEAN]]
  /\ calm \in BOOLEAN

\* "If we get here but last_error is None, then we have a logic error in this
\* function": the expect at the end of _send_buffer never panics.
NeverPanics == \A s \in Sender : pc[s] # "panicked"

\* Retries never send a buffer twice: within one call the buffers go out at
\* most once, in order, with none skipped but an empty first one, and all over
\* one connection, whatever reconnects happen meanwhile.
WireIsRunOnOneConnection ==
  \A s \in Sender :
    LET w == calls[s].wire
    IN  w # <<>> =>
          /\ w[1][1] = (IF calls[s].buffers[1] = "empty" THEN 2 ELSE 1)
          /\ \A i \in 2 .. Len(w) : w[i][1] = w[i - 1][1] + 1 /\ w[i][2] = w[1][2]

\* Ok means that every buffer was handed to the connection, except that an
\* empty first one is only a warm-up.
OkMeansWritten ==
  \A s \in Sender :
    pc[s] = "ok" /\ calls[s].buffers # <<>> =>
      Len(calls[s].wire) =
        Len(calls[s].buffers) - (IF calls[s].buffers[1] = "empty" THEN 1 ELSE 0)

Outcome(place) ==
  CASE place \in Active -> "running"
    [] place = "idle" -> "none"
    [] place = "ok" -> "ok"
    [] OTHER -> "failed"

Promised == INSTANCE BatchSend WITH
  Connection <- ConnId,
  outcome <- [s \in Sender |-> Outcome(pc[s])],
  batch <- [s \in Sender |-> calls[s].buffers],
  wire <- [s \in Sender |-> calls[s].wire]

\* Whatever other calls do to the shared connection, the mutex and each other, a
\* call looks to its caller like one uninterrupted send of its batch: locking,
\* connecting and retrying are steps nobody sees.
ImplementsBatchSend == Promised!Spec

\* A call made once the network has settled succeeds if it starts with data,
\* although the shared connection may have been closed before: one reconnect is
\* enough, also when several calls find the connection broken at the same time.
CalmCallsSucceed ==
  \A s \in Sender :
    calls[s].in_calm /\ calls[s].buffers # <<>> /\ Head(calls[s].buffers) = "data"
      => pc[s] # "err"

\* Only a connection that is closed is replaced: calls that failed on the same
\* one do not tear down what another call has just connected ("this is the
\* problematic connection we had used before, create a new one").
HealthyConnectionKept ==
  [][connection' # connection /\ connection # None => status[connection] = "closed"]_vars

\* Every call ends once connections stop failing: no call waits for ever on the
\* mutex, even if its holder is cancelled, and none retries for ever.
CallsEnd == \A s \in Sender : pc[s] \in Active ~> pc[s] \in Ended

=============================================================================
