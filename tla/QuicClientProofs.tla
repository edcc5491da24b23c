-------------------------- MODULE QuicClientProofs --------------------------
(***************************************************************************)
(* Proofs about QuicClient, for any senders, connections and batches.      *)
(*                                                                         *)
(* What a call knows about itself is one predicate, CallOK(p, c), of its   *)
(* place p and its locals c: every action moves one call, so that a step   *)
(* preserves the predicate of all calls as soon as it establishes it for   *)
(* the place and the locals the call goes to (GoesKeeps).                  *)
(*                                                                         *)
(* What a call knows about the others is the lock discipline: the call     *)
(* that connects holds the mutex, and finds the shared connection as it    *)
(* was when it decided to replace it.                                      *)
(***************************************************************************)
EXTENDS QuicClient, TLAPS

\* The type of the locals of a call.
Call == [buffers : Batches \cup {<<>>}, sent : Nat, try_count : 0 .. 2,
         last_id : ConnId \cup {None}, last_error : {"none", "connect", "open", "write"},
         conn : ConnId \cup {None}, wire : Seq((Nat \ {0}) \X ConnId), in_calm : BOOLEAN]

\* Places at which nothing of the batch has been dealt with yet.
Choosing == {"loop", "locking", "connecting"}

\* Places at which a connection is used.
Using == {"opening", "writing"}

\* The buffers that are left out at the front.
Skip(c) == IF c.buffers[1] = "empty" THEN 1 ELSE 0

\* The buffers that left are consecutive ones, on connection k.
RunOn(c, k) == \A i \in 1 .. Len(c.wire) : c.wire[i] = <<Skip(c) + i, k>>

\* What a call at p with the locals c has done so far.
CallOK(p, c) ==
  /\ c \in Call
  /\ p \in Ended \cup Active
  /\ p # "panicked"
  /\ p \in Choosing => c.buffers # <<>> /\ c.sent = 0 /\ c.wire = <<>>
  /\ p \in {"locking", "connecting"} => c.try_count < 2
  /\ p = "loop" /\ c.try_count > 0 => c.last_error # "none"
  /\ p \in Using => /\ c.conn \in ConnId
                    /\ c.buffers # <<>>
                    /\ c.sent < Len(c.buffers)
                    /\ Len(c.wire) = c.sent - Skip(c)
                    /\ RunOn(c, c.conn)
                    /\ c.sent = 0 => c.last_id = c.conn
  /\ c.wire # <<>> => \E k \in ConnId : RunOn(c, k)
  /\ p = "ok" /\ c.buffers # <<>> => Len(c.wire) = Len(c.buffers) - Skip(c)

Globals ==
  /\ status \in [ConnId -> {"up", "closed"}]
  /\ connection \in ConnId \cup {None}
  /\ mutex \in Sender \cup {None}
  /\ calm \in BOOLEAN

Calls ==
  /\ pc \in [Sender -> Ended \cup Active]
  /\ calls \in [Sender -> Call]
  /\ \A s \in Sender : CallOK(pc[s], calls[s])

-----------------------------------------------------------------------------
(* The calls.                                                              *)

\* A call that moves leaves the others as they were.
LEMMA GoesKeeps ==
  ASSUME Calls, NEW s \in Sender, NEW p, NEW c, CallOK(p, c), Goes(s, p, c)
  PROVE  Calls'
<1>1. /\ pc' = [pc EXCEPT ![s] = p]
      /\ calls' = [calls EXCEPT ![s] = c]
  BY DEF Goes
<1>2. c \in Call /\ p \in Ended \cup Active
  BY DEF CallOK
<1>3. pc' \in [Sender -> Ended \cup Active] /\ calls' \in [Sender -> Call]
  BY <1>1, <1>2 DEF Calls
<1>4. ASSUME NEW t \in Sender PROVE CallOK(pc'[t], calls'[t])
  <2>1. CASE t = s
    <3>1. pc'[t] = p /\ calls'[t] = c
      BY <1>1, <2>1 DEF Calls
    <3> QED
      BY <3>1
  <2>2. CASE t # s
    <3>1. pc'[t] = pc[t] /\ calls'[t] = calls[t]
      BY <1>1, <2>2 DEF Calls
    <3>2. CallOK(pc[t], calls[t])
      BY DEF Calls
    <3> QED
      BY <3>1, <3>2
  <2> QED
    BY <2>1, <2>2
<1> QED
  BY <1>3, <1>4 DEF Calls

\* A batch is a sequence; one that is not empty has a first buffer.
LEMMA BuffersAreSeq ==
  ASSUME NEW c \in Call
  PROVE  /\ c.buffers \in Seq(Buffer)
         /\ Len(c.buffers) \in Nat
         /\ c.buffers # <<>> => /\ Len(c.buffers) > 0
                                /\ Head(c.buffers) = c.buffers[1]
                                /\ Head(c.buffers) \in Buffer
         /\ Skip(c) \in 0 .. 1
<1>1. c.buffers \in Seq(Buffer)
  <2>1. c.buffers \in Batches \/ c.buffers = <<>>
    BY DEF Call
  <2>2. <<>> \in Seq(Buffer)
    OBVIOUS
  <2> QED
    BY <2>1, <2>2, BatchesAssumption
<1>2. Skip(c) \in 0 .. 1
  BY DEF Skip
<1> QED
  BY <1>1, <1>2

\* Once a buffer is dealt with, the call returns Ok or opens a stream.
LEMMA GoesOnKeeps ==
  ASSUME Calls, NEW s \in Sender, NEW c \in Call, GoesOn(s, c),
         c.conn \in ConnId, c.buffers # <<>>,
         0 < c.sent, c.sent <= Len(c.buffers),
         Len(c.wire) = c.sent - Skip(c), RunOn(c, c.conn)
  PROVE  Calls'
<1>1. CASE c.sent = Len(c.buffers) /\ Goes(s, "ok", Return(c))
  <2>1. /\ Return(c) \in Call
        /\ Return(c).buffers = c.buffers /\ Return(c).wire = c.wire
    BY DEF Return, Call
  <2>2. Skip(Return(c)) = Skip(c)
    BY <2>1 DEF Skip
  <2>3. RunOn(Return(c), c.conn)
    BY <2>1, <2>2 DEF RunOn
  <2>4. CallOK("ok", Return(c))
    BY <1>1, <2>1, <2>2, <2>3 DEF CallOK, Ended, Active, Choosing, Using
  <2> QED
    BY <1>1, <2>4, GoesKeeps
<1>2. CASE c.sent < Len(c.buffers) /\ Goes(s, "opening", c)
  <2>1. CallOK("opening", c)
    BY <1>2 DEF CallOK, Ended, Active, Choosing, Using, Call
  <2> QED
    BY <1>2, <2>1, GoesKeeps
<1> QED
  BY <1>1, <1>2 DEF GoesOn

\* A connection is chosen: nothing of the batch has left before.
LEMMA UseConnectionKeeps ==
  ASSUME Calls, NEW s \in Sender, NEW conn \in ConnId, NEW n \in 0 .. 2,
         pc[s] \in Choosing, UseConnection(s, conn, n)
  PROVE  Calls'
<1> DEFINE c == [calls[s] EXCEPT !.conn = conn, !.try_count = n]
<1>1. /\ calls[s] \in Call /\ calls[s].buffers # <<>>
      /\ calls[s].sent = 0 /\ calls[s].wire = <<>>
  BY DEF Calls, CallOK
<1>2. /\ c \in Call /\ c.conn = conn /\ c.buffers # <<>> /\ c.sent = 0 /\ c.wire = <<>>
  BY <1>1 DEF Call
<1>3. /\ Len(c.buffers) \in Nat \ {0} /\ Head(c.buffers) = c.buffers[1]
  BY <1>2, BuffersAreSeq
<1>4. \/ Head(c.buffers) = "empty" /\ GoesOn(s, [c EXCEPT !.sent = 1])
      \/ Head(c.buffers) = "data" /\ Goes(s, "opening", [c EXCEPT !.last_id = conn])
  BY DEF UseConnection
<1> HIDE DEF c
<1>5. CASE Head(c.buffers) = "empty" /\ GoesOn(s, [c EXCEPT !.sent = 1])
  <2> DEFINE d == [c EXCEPT !.sent = 1]
  <2>1. /\ d \in Call /\ d.conn = conn /\ d.buffers = c.buffers /\ d.sent = 1 /\ d.wire = <<>>
    BY <1>2 DEF Call
  <2>2. Skip(d) = 1
    BY <1>3, <1>5, <2>1 DEF Skip
  <2> HIDE DEF d
  <2>3. Len(d.wire) = d.sent - Skip(d) /\ RunOn(d, d.conn)
    BY <2>1, <2>2 DEF RunOn
  <2>4. GoesOn(s, d)
    BY <1>5 DEF d
  <2> QED
    BY <1>2, <1>3, <2>1, <2>3, <2>4, GoesOnKeeps
<1>6. CASE Head(c.buffers) = "data" /\ Goes(s, "opening", [c EXCEPT !.last_id = conn])
  <2> DEFINE d == [c EXCEPT !.last_id = conn]
  <2>1. /\ d \in Call /\ d.conn = conn /\ d.buffers = c.buffers
        /\ d.sent = 0 /\ d.wire = <<>> /\ d.last_id = conn
    BY <1>2 DEF Call
  <2>2. Skip(d) = 0
    BY <1>3, <1>6, <2>1 DEF Skip
  <2> HIDE DEF d
  <2>3. Len(d.wire) = d.sent - Skip(d) /\ RunOn(d, d.conn)
    BY <2>1, <2>2 DEF RunOn
  <2>4. CallOK("opening", d)
    BY <1>2, <1>3, <2>1, <2>3 DEF CallOK, Ended, Active, Choosing, Using
  <2>5. Goes(s, "opening", d)
    BY <1>6 DEF d
  <2> QED
    BY <2>4, <2>5, GoesKeeps
<1> QED
  BY <1>4, <1>5, <1>6

\* The next buffer leaves on the connection in use: still one run.
LEMMA OnWireIsRun ==
  ASSUME NEW c \in Call, CallOK("writing", c)
  PROVE  /\ OnWire(c) \in Call
         /\ OnWire(c).buffers = c.buffers /\ OnWire(c).sent = c.sent
         /\ OnWire(c).conn = c.conn
         /\ Len(OnWire(c).wire) = Len(c.wire) + 1
         /\ RunOn(OnWire(c), c.conn)
<1> DEFINE e == <<c.sent + 1, c.conn>>
           w == Append(c.wire, e)
<1>1. /\ c.conn \in ConnId /\ c.sent \in Nat /\ c.wire \in Seq((Nat \ {0}) \X ConnId)
      /\ Len(c.wire) = c.sent - Skip(c) /\ RunOn(c, c.conn)
  BY DEF CallOK, Using, Call
<1>2. e \in (Nat \ {0}) \X ConnId
  BY <1>1
<1> HIDE DEF e
<1>3. /\ w \in Seq((Nat \ {0}) \X ConnId)
      /\ Len(w) = Len(c.wire) + 1
      /\ \A i \in 1 .. Len(c.wire) : w[i] = c.wire[i]
      /\ w[Len(c.wire) + 1] = e
  BY <1>1, <1>2
<1> HIDE DEF w
<1>4. OnWire(c) = [c EXCEPT !.wire = w]
  BY DEF OnWire, w, e
<1>5. /\ OnWire(c) \in Call /\ OnWire(c).wire = w
      /\ OnWire(c).buffers = c.buffers /\ OnWire(c).sent = c.sent
      /\ OnWire(c).conn = c.conn
  BY <1>3, <1>4 DEF Call
<1>6. Skip(OnWire(c)) = Skip(c) /\ Skip(c) \in 0 .. 1
  BY <1>5 DEF Skip
<1>7. Len(c.wire) \in Nat
  BY <1>1
<1>8. ASSUME NEW i \in 1 .. Len(w) PROVE w[i] = <<Skip(c) + i, c.conn>>
  <2>1. CASE i <= Len(c.wire)
    <3>1. i \in 1 .. Len(c.wire)
      BY <1>3, <1>7, <2>1
    <3>2. c.wire[i] = <<Skip(c) + i, c.conn>>
      BY <1>1, <3>1 DEF RunOn
    <3> QED
      BY <1>3, <3>1, <3>2
  <2>2. CASE i = Len(c.wire) + 1
    <3>1. c.sent + 1 = Skip(c) + i
      BY <1>1, <1>6, <1>7, <2>2
    <3> QED
      BY <1>3, <2>2, <3>1 DEF e
  <2> QED
    BY <1>3, <1>7, <2>1, <2>2
<1>9. RunOn(OnWire(c), c.conn)
  BY <1>5, <1>6, <1>8 DEF RunOn
<1> QED
  BY <1>3, <1>5, <1>9

\* A buffer is written, and the call goes on with the next one.
LEMMA WrittenKeeps ==
  ASSUME Calls, NEW s \in Sender, NEW c \in Call, CallOK("writing", c),
         GoesOn(s, [OnWire(c) EXCEPT !.sent = @ + 1])
  PROVE  Calls'
<1> DEFINE o == OnWire(c)
           d == [o EXCEPT !.sent = @ + 1]
<1>1. /\ o \in Call /\ o.buffers = c.buffers /\ o.sent = c.sent
      /\ o.conn = c.conn /\ Len(o.wire) = Len(c.wire) + 1 /\ RunOn(o, c.conn)
  BY OnWireIsRun
<1>2. /\ c.conn \in ConnId /\ c.sent \in Nat /\ c.buffers # <<>>
      /\ c.sent < Len(c.buffers) /\ Len(c.wire) = c.sent - Skip(c)
  BY DEF CallOK, Using, Call
<1> HIDE DEF o
<1>3. /\ d \in Call /\ d.buffers = c.buffers /\ d.sent = c.sent + 1
      /\ d.conn = c.conn /\ d.wire = o.wire
  <2>1. d = [o EXCEPT !.sent = c.sent + 1]
    BY <1>1
  <2>2. c.sent + 1 \in Nat
    BY <1>2
  <2> HIDE DEF d
  <2> QED
    BY <1>1, <2>1, <2>2 DEF Call
<1>4. GoesOn(s, d)
  BY DEF o
<1> HIDE DEF d
<1>5. Skip(d) = Skip(c) /\ Skip(d) = Skip(o) /\ Skip(c) \in 0 .. 1
  BY <1>1, <1>3 DEF Skip
<1>6. RunOn(d, d.conn)
  BY <1>1, <1>3, <1>5 DEF RunOn
<1>7. Len(d.wire) = d.sent - Skip(d)
  BY <1>1, <1>2, <1>3, <1>5
<1>8. 0 < d.sent /\ d.sent <= Len(d.buffers)
  BY <1>2, <1>3, BuffersAreSeq
<1> QED
  BY <1>2, <1>3, <1>4, <1>6, <1>7, <1>8, GoesOnKeeps

\* A new call has sent nothing.
LEMMA SendBatchKeeps ==
  ASSUME Calls, NEW s \in Sender, NEW buffers \in Batches, send_batch(s, buffers),
         calm \in BOOLEAN
  PROVE  Calls'
<1> DEFINE c == [NoCall EXCEPT !.buffers = buffers, !.in_calm = calm]
<1>1. /\ c \in Call /\ c.buffers = buffers /\ c.sent = 0 /\ c.wire = <<>>
      /\ c.try_count = 0
  <2>1. /\ c.buffers = buffers /\ c.sent = 0 /\ c.try_count = 0
        /\ c.last_id = None /\ c.last_error = "none" /\ c.conn = None
        /\ c.wire = <<>> /\ c.in_calm = calm
    BY DEF NoCall
  <2>3. <<>> \in Seq((Nat \ {0}) \X ConnId)
    OBVIOUS
  <2>4. NoCall \in Call
    BY <2>3 DEF NoCall, Call
  <2>5. c \in Call
    BY <2>4 DEF Call
  <2> QED
    BY <2>1, <2>5
<1>2. Goes(s, IF buffers = <<>> THEN "ok" ELSE "loop", c)
  BY DEF send_batch
<1> HIDE DEF c
<1>3. CallOK(IF buffers = <<>> THEN "ok" ELSE "loop", c)
  BY <1>1 DEF CallOK, Ended, Active, Choosing, Using
<1> QED
  BY <1>2, <1>3, GoesKeeps

\* A step of a call keeps what each call knows about itself.
LEMMA StepKeepsCalls ==
  ASSUME Globals, Calls, NEW s \in Sender, Step(s)
  PROVE  Calls'
<1> DEFINE c == calls[s]
<1>0. CallOK(pc[s], c) /\ c \in Call
  BY DEF Calls
<1>1. CASE Lock(s)
  <2>1. pc[s] = "loop" /\ c.try_count < 2 /\ Goes(s, "locking", c)
    BY <1>1 DEF Lock
  <2>2. CallOK("locking", c)
    BY <1>0, <2>1 DEF CallOK, Ended, Active, Choosing, Using
  <2> QED
    BY <2>1, <2>2, GoesKeeps
<1>2. CASE Exhausted(s)
  <2>1. pc[s] = "loop" /\ c.try_count >= 2 /\ c.try_count \in 0 .. 2
    BY <1>0, <1>2 DEF Exhausted, Call
  <2>2. c.last_error # "none"
    BY <1>0, <2>1 DEF CallOK
  <2>3. Goes(s, "err", c)
    BY <1>2, <2>2 DEF Exhausted
  <2>4. CallOK("err", c)
    BY <1>0, <2>1 DEF CallOK, Ended, Active, Choosing, Using
  <2> QED
    BY <2>3, <2>4, GoesKeeps
<1>3. CASE Reuse(s)
  <2>1. /\ pc[s] \in Choosing /\ connection \in ConnId
        /\ UseConnection(s, connection, c.try_count) /\ c.try_count \in 0 .. 2
    BY <1>0, <1>3 DEF Reuse, Choosing, Call, Globals
  <2> QED
    BY <2>1, UseConnectionKeeps
<1>4. CASE StartConnecting(s)
  <2>1. pc[s] = "locking" /\ Goes(s, "connecting", c)
    BY <1>4 DEF StartConnecting
  <2>2. CallOK("connecting", c)
    BY <1>0, <2>1 DEF CallOK, Ended, Active, Choosing, Using
  <2> QED
    BY <2>1, <2>2, GoesKeeps
<1>5. ASSUME NEW new \in FreshIds, Connected(s, new) PROVE Calls'
  <2>1. pc[s] = "connecting" /\ UseConnection(s, new, c.try_count + 1)
    BY <1>5 DEF Connected
  <2>2. c.try_count + 1 \in 0 .. 2 /\ new \in ConnId /\ pc[s] \in Choosing
    BY <1>0, <2>1 DEF CallOK, Call, FreshIds, Choosing
  <2> QED
    BY <2>1, <2>2, UseConnectionKeeps
<1>6. CASE ConnectFails(s)
  <2> DEFINE d == [c EXCEPT !.last_error = "connect"]
  <2>1. pc[s] = "connecting" /\ Goes(s, "err", d)
    BY <1>6 DEF ConnectFails
  <2>2. d \in Call /\ d.wire = c.wire
    BY <1>0 DEF Call
  <2>3. CallOK("err", d)
    BY <1>0, <2>1, <2>2 DEF CallOK, Ended, Active, Choosing, Using
  <2> QED
    BY <2>1, <2>3, GoesKeeps
<1>7. CASE Opened(s)
  <2>1. pc[s] = "opening" /\ Goes(s, "writing", c)
    BY <1>7 DEF Opened
  <2>2. CallOK("writing", c)
    BY <1>0, <2>1 DEF CallOK, Ended, Active, Choosing, Using
  <2> QED
    BY <2>1, <2>2, GoesKeeps
<1>8. CASE OpenFails(s)
  <2> DEFINE d == [Return(c) EXCEPT !.last_error = "open"]
  <2>1. pc[s] = "opening" /\ Goes(s, IF d.sent = 0 THEN "loop" ELSE "err", d)
    BY <1>8 DEF OpenFails
  <2>2. /\ d \in Call /\ d.buffers = c.buffers /\ d.sent = c.sent
        /\ d.wire = c.wire /\ d.last_error = "open"
    BY <1>0 DEF Call, Return
  <2>3. Skip(d) = Skip(c)
    BY <2>2 DEF Skip
  <2>4. /\ c.conn \in ConnId /\ c.buffers # <<>> /\ RunOn(c, c.conn)
        /\ Len(c.wire) = c.sent - Skip(c)
    BY <1>0, <2>1 DEF CallOK, Using
  <2>5. RunOn(d, c.conn)
    BY <2>2, <2>3, <2>4 DEF RunOn
  <2> HIDE DEF d
  <2>6. CASE d.sent = 0
    <3>1. Len(c.wire) \in Nat /\ (Len(c.wire) = 0 => c.wire = <<>>)
      BY <1>0 DEF Call
    <3>2. d.wire = <<>>
      BY <1>0, <2>2, <2>4, <2>6, <3>1, BuffersAreSeq
    <3>3. CallOK("loop", d)
      BY <2>2, <2>4, <2>6, <3>2 DEF CallOK, Ended, Active, Choosing, Using
    <3> QED
      BY <2>1, <2>6, <3>3, GoesKeeps
  <2>7. CASE d.sent # 0
    <3>1. CallOK("err", d)
      BY <2>2, <2>4, <2>5 DEF CallOK, Ended, Active, Choosing, Using
    <3> QED
      BY <2>1, <2>7, <3>1, GoesKeeps
  <2> QED
    BY <2>6, <2>7
<1>9. CASE Written(s)
  <2>1. pc[s] = "writing" /\ GoesOn(s, [OnWire(c) EXCEPT !.sent = @ + 1])
    BY <1>9 DEF Written
  <2> QED
    BY <1>0, <2>1, WrittenKeeps
<1>10. CASE WriteFails(s)
  <2>1. PICK w \in {c, OnWire(c)} :
          Goes(s, "err", [Return(w) EXCEPT !.last_error = "write"])
    BY <1>10 DEF WriteFails
  <2>2. pc[s] = "writing"
    BY <1>10 DEF WriteFails
  <2>3. w \in Call /\ w.wire # <<>> => \E k \in ConnId : RunOn(w, k)
    BY <1>0, <2>1, <2>2, OnWireIsRun DEF CallOK, Using
  <2>4. w \in Call
    BY <1>0, <2>1, <2>2, OnWireIsRun DEF CallOK, Using
  <2> DEFINE d == [Return(w) EXCEPT !.last_error = "write"]
  <2>5. d \in Call /\ d.buffers = w.buffers /\ d.wire = w.wire
    BY <2>4 DEF Call, Return
  <2> HIDE DEF d
  <2>6. ASSUME NEW k, RunOn(w, k) PROVE RunOn(d, k)
    BY <2>5, <2>6 DEF RunOn, Skip
  <2>7. CallOK("err", d)
    BY <2>3, <2>4, <2>5, <2>6 DEF CallOK, Ended, Active, Choosing, Using
  <2>8. Goes(s, "err", d)
    BY <2>1 DEF d
  <2> QED
    BY <2>7, <2>8, GoesKeeps
<1> QED
  BY <1>1, <1>2, <1>3, <1>4, <1>5, <1>6, <1>7, <1>8, <1>9, <1>10 DEF Step

-----------------------------------------------------------------------------
(* The shared state.                                                       *)

\* The actions of a call that leave the shared connection alone.
Elsewhere(s) ==
  \/ \E buffers \in Batches : send_batch(s, buffers)
  \/ Lock(s) \/ Exhausted(s) \/ Reuse(s) \/ StartConnecting(s) \/ ConnectFails(s)
  \/ Opened(s) \/ OpenFails(s) \/ Written(s) \/ WriteFails(s) \/ Cancelled(s)

LEMMA ElsewhereUnchanged ==
  ASSUME NEW s \in Sender, Elsewhere(s)
  PROVE  UNCHANGED <<status, connection, calm>>
BY DEF Elsewhere, send_batch, Lock, Exhausted, Reuse, StartConnecting, ConnectFails,
       Opened, OpenFails, Written, WriteFails, Cancelled

LEMMA NextCases ==
  ASSUME [Next]_vars
  PROVE  \/ \E s \in Sender : Elsewhere(s)
         \/ \E s \in Sender, new \in FreshIds : Connected(s, new)
         \/ \E c \in ConnId : Close(c)
         \/ Settle
         \/ UNCHANGED vars
BY DEF Next, Step, Elsewhere

\* Nobody but its holder lets the mutex go.
LEMMA MutexStep ==
  ASSUME Globals, NEW s \in Sender, pc[s] = "connecting" => mutex = s,
         Elsewhere(s) \/ \E new \in FreshIds : Connected(s, new)
  PROVE  /\ mutex' \in Sender \cup {None}
         /\ \A t \in Sender \ {s} : mutex = t => mutex' = t
BY NoneAssumption
   DEF Globals, Elsewhere, send_batch, Lock, Exhausted, Reuse, StartConnecting, ConnectFails,
       Opened, OpenFails, Written, WriteFails, Cancelled, Connected

\* The call that connects holds the mutex, and what it replaces is nothing or
\* the connection that failed it.
LockInv ==
  \A s \in Sender :
    pc[s] = "connecting" => mutex = s /\ connection \in {None, calls[s].last_id}

\* A call that is choosing a connection again saw its last one closed.
BlameInv ==
  \A s \in Sender :
    pc[s] \in Choosing /\ calls[s].last_id # None => status[calls[s].last_id] = "closed"

LEMMA GlobalsStep ==
  ASSUME Globals, LockInv, [Next]_vars
  PROVE  Globals'
<1>1. ASSUME NEW s \in Sender, Elsewhere(s) PROVE Globals'
  <2>1. mutex' \in Sender \cup {None}
    BY <1>1, MutexStep DEF LockInv
  <2> QED
    BY <1>1, <2>1, ElsewhereUnchanged DEF Globals
<1>2. ASSUME NEW s \in Sender, NEW new \in FreshIds, Connected(s, new) PROVE Globals'
  <2>1. mutex' \in Sender \cup {None}
    BY <1>2, MutexStep DEF LockInv
  <2> QED
    BY <1>2, <2>1 DEF Globals, Connected, FreshIds
<1>3. ASSUME NEW c \in ConnId, Close(c) PROVE Globals'
  BY <1>3 DEF Globals, Close
<1>4. CASE Settle
  BY <1>4 DEF Globals, Settle
<1>5. CASE UNCHANGED vars
  BY <1>5 DEF Globals, vars
<1> QED
  BY <1>1, <1>2, <1>3, <1>4, <1>5, NextCases

\* A cancelled call keeps what it has sent.
LEMMA CancelledKeeps ==
  ASSUME Calls, NEW s \in Sender, Cancelled(s)
  PROVE  Calls'
<1> DEFINE c == calls[s]
           d == Return(c)
<1>1. CallOK(pc[s], c) /\ c \in Call
  BY DEF Calls
<1>2. d \in Call /\ d.buffers = c.buffers /\ d.wire = c.wire
  BY <1>1 DEF Call, Return
<1>3. Goes(s, "cancelled", d)
  BY DEF Cancelled
<1> HIDE DEF d
<1>4. ASSUME NEW k, RunOn(c, k) PROVE RunOn(d, k)
  BY <1>2, <1>4 DEF RunOn, Skip
<1>5. c.wire # <<>> => \E k \in ConnId : RunOn(c, k)
  BY <1>1 DEF CallOK
<1>6. CallOK("cancelled", d)
  BY <1>2, <1>4, <1>5 DEF CallOK, Ended, Active, Choosing, Using
<1> QED
  BY <1>3, <1>6, GoesKeeps

LEMMA CallsStep ==
  ASSUME Globals, Calls, [Next]_vars
  PROVE  Calls'
<1>1. ASSUME NEW s \in Sender, NEW buffers \in Batches, send_batch(s, buffers)
      PROVE Calls'
  BY <1>1, SendBatchKeeps DEF Globals
<1>2. ASSUME NEW s \in Sender, Step(s) PROVE Calls'
  BY <1>2, StepKeepsCalls
<1>3. ASSUME NEW s \in Sender, Cancelled(s) PROVE Calls'
  BY <1>3, CancelledKeeps
<1>4. CASE UNCHANGED <<pc, calls>>
  BY <1>4 DEF Calls
<1> QED
  BY <1>1, <1>2, <1>3, <1>4 DEF Next, Close, Settle, vars

\* Only one call at a time replaces the connection: no other gets the mutex
\* before it is done, and no other call writes the shared connection.
LEMMA LockStep ==
  ASSUME Globals, Calls, LockInv, [Next]_vars
  PROVE  LockInv'
<1>1. ASSUME NEW s \in Sender, Elsewhere(s), NEW t \in Sender, pc'[t] = "connecting"
      PROVE  mutex' = t /\ connection' \in {None, calls'[t].last_id}
  <2>1. CASE t = s
    <3>1. StartConnecting(s)
      BY <1>1, <2>1 DEF Elsewhere, send_batch, Lock, Exhausted, Reuse, ConnectFails, Opened,
            OpenFails, Written, WriteFails, Cancelled, Goes, UseConnection, GoesOn, Calls
    <3> QED
      BY <2>1, <3>1 DEF StartConnecting, Goes, Calls
  <2>2. CASE t # s
    <3>1. pc'[t] = pc[t] /\ calls'[t] = calls[t]
      BY <1>1, <2>2 DEF Elsewhere, send_batch, Lock, Exhausted, Reuse, StartConnecting,
            ConnectFails, Opened, OpenFails, Written, WriteFails, Cancelled, Goes,
            UseConnection, GoesOn, Calls
    <3>2. mutex' = t
      BY <1>1, <2>2, <3>1, MutexStep DEF LockInv
    <3> QED
      BY <1>1, <3>1, <3>2, ElsewhereUnchanged DEF LockInv
  <2> QED
    BY <2>1, <2>2
<1>2. ASSUME NEW s \in Sender, NEW new \in FreshIds, Connected(s, new),
             NEW t \in Sender, pc'[t] = "connecting"
      PROVE  FALSE
  <2>1. t # s
    BY <1>2 DEF Connected, UseConnection, GoesOn, Goes, Calls
  <2>2. pc[t] = "connecting" /\ pc[s] = "connecting"
    BY <1>2, <2>1 DEF Connected, UseConnection, GoesOn, Goes, Calls
  <2> QED
    BY <2>1, <2>2 DEF LockInv
<1>3. CASE UNCHANGED <<connection, mutex, pc, calls>>
  BY <1>3 DEF LockInv
<1> QED
  BY <1>1, <1>2, <1>3, NextCases DEF LockInv, Close, Settle, vars

\* While ids are not reused, a connection that failed a call stays closed as
\* long as the call remembers it; and the call remembers it only after its
\* open_uni() found it closed.
LEMMA BlameStep ==
  ASSUME Globals, Calls, LockInv, BlameInv, ~IdsReused, [Next]_vars
  PROVE  BlameInv'
<1> DEFINE Blamed(t) == pc[t] \in Choosing /\ calls[t].last_id # None
<1>1. ASSUME NEW s \in Sender, Elsewhere(s), NEW t \in Sender, Blamed(t)'
      PROVE  status'[calls'[t].last_id] = "closed"
  <2>0. status' = status
    BY <1>1, ElsewhereUnchanged
  <2>1. CASE t # s
    <3>1. pc'[t] = pc[t] /\ calls'[t] = calls[t]
      BY <1>1, <2>1 DEF Elsewhere, send_batch, Lock, Exhausted, Reuse, StartConnecting,
            ConnectFails, Opened, OpenFails, Written, WriteFails, Cancelled, Goes,
            UseConnection, GoesOn, Calls
    <3> QED
      BY <1>1, <2>0, <3>1 DEF BlameInv
  <2>2. CASE t = s
    <3>1. CASE \E buffers \in Batches : send_batch(s, buffers)
      <4>1. calls'[s].last_id = None
        BY <3>1 DEF send_batch, Goes, NoCall, Calls
      <4> QED
        BY <1>1, <2>2, <4>1
    <3>2. CASE Lock(s) \/ StartConnecting(s)
      <4>1. pc[s] \in Choosing /\ calls'[s] = calls[s]
        BY <3>2 DEF Lock, StartConnecting, Goes, Choosing, Calls
      <4> QED
        BY <1>1, <2>0, <2>2, <4>1 DEF BlameInv
    <3>3. CASE OpenFails(s)
      <4>1. /\ pc[s] = "opening" /\ status[calls[s].conn] = "closed"
            /\ Goes(s, IF calls[s].sent = 0 THEN "loop" ELSE "err",
                    [Return(calls[s]) EXCEPT !.last_error = "open"])
        BY <3>3 DEF OpenFails, Return, Calls, Call
      <4>2. /\ pc'[s] = (IF calls[s].sent = 0 THEN "loop" ELSE "err")
            /\ calls'[s].last_id = calls[s].last_id
        BY <4>1 DEF Goes, Return, Calls, Call
      <4>3. calls[s].sent = 0
        BY <1>1, <2>2, <4>2 DEF Choosing
      <4>4. calls[s].last_id = calls[s].conn
        BY <4>1, <4>3 DEF Calls, CallOK, Using
      <4> QED
        BY <2>0, <2>2, <4>1, <4>2, <4>4
    <3>4. CASE \/ Reuse(s) \/ Written(s)
               \/ Exhausted(s) \/ ConnectFails(s) \/ Opened(s) \/ WriteFails(s) \/ Cancelled(s)
      <4>1. pc'[s] \in {"ok", "err", "panicked", "opening", "writing", "cancelled"}
        <5>1. CASE Reuse(s)
          BY <5>1 DEF Reuse, UseConnection, GoesOn, Goes, Calls
        <5>2. CASE Written(s)
          BY <5>2 DEF Written, GoesOn, Goes, Calls
        <5>3. CASE \/ Exhausted(s) \/ ConnectFails(s) \/ Opened(s)
                   \/ WriteFails(s) \/ Cancelled(s)
          BY <5>3 DEF Exhausted, ConnectFails, Opened, WriteFails, Cancelled, Goes, Calls
        <5> QED
          BY <3>4, <5>1, <5>2, <5>3
      <4> QED
        BY <1>1, <2>2, <4>1 DEF Choosing
    <3> QED
      BY <1>1, <3>1, <3>2, <3>3, <3>4 DEF Elsewhere
  <2> QED
    BY <2>1, <2>2
<1>2. ASSUME NEW s \in Sender, NEW new \in FreshIds, Connected(s, new),
             NEW t \in Sender, Blamed(t)'
      PROVE  status'[calls'[t].last_id] = "closed"
  <2>1. t # s
    BY <1>2 DEF Connected, UseConnection, GoesOn, Goes, Calls, Choosing
  <2>2. pc'[t] = pc[t] /\ calls'[t] = calls[t]
    BY <1>2, <2>1 DEF Connected, UseConnection, GoesOn, Goes, Calls
  <2>3. new # calls[t].last_id
    BY <1>2 DEF FreshIds, Remembered
  <2>4. status' = [status EXCEPT ![new] = "up"]
    BY <1>2 DEF Connected
  <2>5. status[calls[t].last_id] = "closed" /\ calls[t].last_id \in ConnId
    BY <1>2, <2>2 DEF BlameInv, Calls, Call
  <2> QED
    BY <2>2, <2>3, <2>4, <2>5 DEF Globals
<1>3. ASSUME NEW c \in ConnId, Close(c), NEW t \in Sender, Blamed(t)'
      PROVE  status'[calls'[t].last_id] = "closed"
  <2>1. /\ status' = [status EXCEPT ![c] = "closed"]
        /\ pc' = pc /\ calls' = calls
    BY <1>3 DEF Close
  <2>2. status[calls[t].last_id] = "closed" /\ calls[t].last_id \in ConnId
    BY <1>3, <2>1 DEF BlameInv, Calls, Call
  <2> QED
    BY <2>1, <2>2 DEF Globals
<1>4. CASE UNCHANGED <<status, pc, calls>>
  BY <1>4 DEF BlameInv
<1>5. CASE \/ \E s \in Sender : Elsewhere(s)
           \/ \E s \in Sender, new \in FreshIds : Connected(s, new)
           \/ \E c \in ConnId : Close(c)
  BY <1>1, <1>2, <1>3, <1>5 DEF BlameInv
<1> QED
  BY <1>4, <1>5, NextCases DEF Settle, vars

-----------------------------------------------------------------------------
(* Calls made once the network has settled.                                *)

\* What a call that was made in calm, and starts with data, can rely on at p
\* while the connections are as in st: as long as it chooses it has made no
\* connection; the one it uses is up, unless it was shared already and the call
\* is still to find out.
Settled(p, c, st) ==
  c.in_calm /\ c.buffers # <<>> /\ Head(c.buffers) = "data" =>
    /\ p # "err"
    /\ p \in Choosing => c.try_count = 0
    /\ p \in Using => \/ st[c.conn] = "up"
                      \/ p = "opening" /\ c.sent = 0 /\ c.try_count = 0

CalmInv ==
  /\ \A s \in Sender : calls[s].in_calm => calm
  /\ \A s \in Sender : Settled(pc[s], calls[s], status)

\* In calm no connection is lost.
LEMMA CalmConnectionsStay ==
  ASSUME Globals, calm, [Next]_vars
  PROVE  calm' /\ \A k \in ConnId : status[k] = "up" => status'[k] = "up"
<1>1. ASSUME NEW s \in Sender, Elsewhere(s) PROVE calm' = calm /\ status' = status
  BY <1>1, ElsewhereUnchanged
<1>2. ASSUME NEW s \in Sender, NEW new \in FreshIds, Connected(s, new)
      PROVE  calm' = calm /\ \A k \in ConnId : status[k] = "up" => status'[k] = "up"
  BY <1>2 DEF Connected, Globals
<1>3. ASSUME NEW c \in ConnId, Close(c) PROVE FALSE
  BY <1>3 DEF Close
<1>4. ASSUME Settle PROVE FALSE
  BY <1>4 DEF Settle
<1> QED
  BY <1>1, <1>2, <1>3, <1>4, NextCases DEF vars

\* Who keeps its place and locals can rely on what it could rely on before.
LEMMA SettledStays ==
  ASSUME NEW p, NEW c \in Call, NEW st, NEW new, CallOK(p, c), Settled(p, c, st),
         \A k \in ConnId : st[k] = "up" => new[k] = "up"
  PROVE  Settled(p, c, new)
BY DEF Settled, CallOK

\* The call that moves.
LEMMA MoverSettled ==
  ASSUME Globals, Calls, CalmInv, NEW s \in Sender,
         Elsewhere(s) \/ \E new \in FreshIds : Connected(s, new)
  PROVE  /\ calls'[s].in_calm => calm
         /\ Settled(pc'[s], calls'[s], status')
<1> DEFINE c == calls[s]
<1>0. /\ CallOK(pc[s], c) /\ c \in Call /\ Settled(pc[s], c, status)
      /\ c.in_calm => calm
  BY DEF Calls, CalmInv
<1>a. ASSUME NEW p, NEW d, Goes(s, p, d) PROVE pc'[s] = p /\ calls'[s] = d
  BY <1>a DEF Goes, Calls
<1>b. Elsewhere(s) => status' = status
  BY ElsewhereUnchanged
<1>1. ASSUME NEW buffers \in Batches, send_batch(s, buffers)
      PROVE  /\ calls'[s].in_calm => calm
             /\ Settled(pc'[s], calls'[s], status')
  <2> DEFINE d == [NoCall EXCEPT !.buffers = buffers, !.in_calm = calm]
  <2>1. pc'[s] \in {"ok", "loop"} /\ calls'[s] = d
    BY <1>1, <1>a DEF send_batch
  <2>2. d.in_calm = calm /\ d.try_count = 0
    BY DEF NoCall
  <2> HIDE DEF d
  <2> QED
    BY <2>1, <2>2 DEF Settled, Choosing, Using
<1>2. CASE Lock(s) \/ StartConnecting(s)
  <2>1. pc[s] \in Choosing /\ pc'[s] \in Choosing /\ calls'[s] = c
    BY <1>2, <1>a DEF Lock, StartConnecting, Choosing
  <2> QED
    BY <1>0, <2>1 DEF Settled, Choosing, Using
<1>3. CASE Exhausted(s)
  <2>1. pc[s] = "loop" /\ c.try_count >= 2 /\ calls'[s] = c /\ pc'[s] \in {"panicked", "err"}
    BY <1>3, <1>a DEF Exhausted
  <2> QED
    BY <1>0, <2>1 DEF Settled, Choosing, Using
<1>4. CASE ConnectFails(s)
  <2>1. ~calm /\ calls'[s] = [c EXCEPT !.last_error = "connect"]
    BY <1>4, <1>a DEF ConnectFails
  <2>2. calls'[s].in_calm = c.in_calm
    BY <1>0, <2>1 DEF Call
  <2> QED
    BY <1>0, <2>1, <2>2 DEF Settled
<1>5. ASSUME NEW conn \in ConnId, NEW n \in 0 .. 2, NEW st, UseConnection(s, conn, n),
             pc[s] \in Choosing, st[conn] = "up" \/ n = c.try_count
      PROVE  /\ calls'[s].in_calm => calm
             /\ Settled(pc'[s], calls'[s], st)
  <2> DEFINE d == [calls[s] EXCEPT !.conn = conn, !.try_count = n]
  <2>1. /\ d \in Call /\ d.conn = conn /\ d.try_count = n /\ d.sent = 0
        /\ d.buffers = c.buffers /\ d.in_calm = c.in_calm
    BY <1>0, <1>5 DEF Call, CallOK
  <2>2. \/ Head(d.buffers) = "empty" /\ GoesOn(s, [d EXCEPT !.sent = 1])
        \/ Head(d.buffers) = "data" /\ Goes(s, "opening", [d EXCEPT !.last_id = conn])
    BY <1>5 DEF UseConnection
  <2> HIDE DEF d
  <2>3. CASE Head(d.buffers) = "empty" /\ GoesOn(s, [d EXCEPT !.sent = 1])
    <3> DEFINE e == [d EXCEPT !.sent = 1]
    <3>1. calls'[s] \in {e, Return(e)}
      BY <2>3, <1>a DEF GoesOn
    <3>2. /\ e.buffers = d.buffers /\ e.in_calm = d.in_calm
          /\ Return(e).buffers = d.buffers /\ Return(e).in_calm = d.in_calm
      BY <2>1 DEF Call, Return
    <3> HIDE DEF e
    <3>3. calls'[s].buffers = d.buffers /\ calls'[s].in_calm = d.in_calm
      BY <3>1, <3>2
    <3> QED
      BY <1>0, <2>1, <2>3, <3>3 DEF Settled
  <2>4. CASE Head(d.buffers) = "data" /\ Goes(s, "opening", [d EXCEPT !.last_id = conn])
    <3> DEFINE e == [d EXCEPT !.last_id = conn]
    <3>1. pc'[s] = "opening" /\ calls'[s] = e
      BY <2>4, <1>a
    <3>2. /\ e.buffers = d.buffers /\ e.in_calm = d.in_calm /\ e.conn = conn
          /\ e.sent = 0 /\ e.try_count = n
      BY <2>1 DEF Call
    <3> HIDE DEF e
    <3> QED
      BY <1>0, <1>5, <2>1, <3>1, <3>2 DEF Settled, Choosing, Using
  <2> QED
    BY <2>2, <2>3, <2>4
<1>6. CASE Reuse(s)
  <2>1. /\ pc[s] \in Choosing /\ connection \in ConnId
        /\ UseConnection(s, connection, c.try_count) /\ c.try_count \in 0 .. 2
    BY <1>0, <1>6 DEF Reuse, Choosing, Call, Globals
  <2> QED
    BY <1>5, <2>1
<1>7. ASSUME NEW new \in FreshIds, Connected(s, new)
      PROVE  /\ calls'[s].in_calm => calm
             /\ Settled(pc'[s], calls'[s], status')
  <2>1. /\ pc[s] \in Choosing /\ new \in ConnId /\ c.try_count + 1 \in 0 .. 2
        /\ UseConnection(s, new, c.try_count + 1) /\ status'[new] = "up"
    BY <1>0, <1>7 DEF Connected, CallOK, Call, FreshIds, Choosing, Globals
  <2> QED
    BY <1>5, <2>1
<1>8. CASE Opened(s)
  <2>1. /\ pc[s] = "opening" /\ status[c.conn] = "up"
        /\ pc'[s] = "writing" /\ calls'[s] = c
    BY <1>8, <1>a DEF Opened
  <2> QED
    BY <1>0, <2>1, <1>b, <1>8 DEF Settled, Choosing, Using, Elsewhere
<1>9. CASE OpenFails(s)
  <2> DEFINE d == [Return(c) EXCEPT !.last_error = "open"]
  <2>1. /\ pc[s] = "opening" /\ status[c.conn] = "closed"
        /\ pc'[s] = (IF d.sent = 0 THEN "loop" ELSE "err") /\ calls'[s] = d
    BY <1>9, <1>a DEF OpenFails
  <2>2. /\ d.buffers = c.buffers /\ d.in_calm = c.in_calm
        /\ d.sent = c.sent /\ d.try_count = c.try_count
    BY <1>0 DEF Call, Return
  <2> HIDE DEF d
  <2> QED
    BY <1>0, <2>1, <2>2 DEF Settled, Choosing, Using
<1>10. CASE Written(s)
  <2> DEFINE o == OnWire(c)
             d == [o EXCEPT !.sent = @ + 1]
  <2>1. pc[s] = "writing" /\ status[c.conn] = "up" /\ GoesOn(s, d)
    BY <1>10 DEF Written
  <2>2. /\ d.buffers = c.buffers /\ d.in_calm = c.in_calm /\ d.conn = c.conn
        /\ Return(d).buffers = c.buffers /\ Return(d).in_calm = c.in_calm
    <3>1. o \in Call /\ o.buffers = c.buffers /\ o.conn = c.conn
      BY <1>0, <2>1, OnWireIsRun
    <3>2. o.in_calm = c.in_calm
      BY <1>0 DEF OnWire, Call
    <3> HIDE DEF o
    <3> QED
      BY <3>1, <3>2 DEF Call, Return
  <2> HIDE DEF d
  <2>3. \/ pc'[s] = "ok" /\ calls'[s] = Return(d)
        \/ pc'[s] = "opening" /\ calls'[s] = d
    BY <2>1, <1>a DEF GoesOn
  <2>4. status' = status
    BY <1>10 DEF Written
  <2> QED
    BY <1>0, <2>1, <2>2, <2>3, <2>4 DEF Settled, Choosing, Using
<1>11. CASE WriteFails(s)
  <2>1. PICK w \in {c, OnWire(c)} :
          Goes(s, "err", [Return(w) EXCEPT !.last_error = "write"])
    BY <1>11 DEF WriteFails
  <2>2. pc[s] = "writing" /\ (status[c.conn] = "closed" \/ ~calm)
    BY <1>11 DEF WriteFails, WriteBreaks
  <2> DEFINE d == [Return(w) EXCEPT !.last_error = "write"]
  <2>3. d.buffers = c.buffers /\ d.in_calm = c.in_calm
    <3>1. w.buffers = c.buffers /\ w.in_calm = c.in_calm /\ w \in Call
      <4>1. OnWire(c).in_calm = c.in_calm
        BY <1>0 DEF OnWire, Call
      <4> QED
        BY <1>0, <2>2, <4>1, OnWireIsRun
    <3> QED
      BY <3>1 DEF Call, Return
  <2>4. pc'[s] = "err" /\ calls'[s] = d
    BY <2>1, <1>a
  <2> HIDE DEF d
  <2> QED
    BY <1>0, <2>2, <2>3, <2>4 DEF Settled, Using
<1>12. CASE Cancelled(s)
  <2>1. pc'[s] = "cancelled" /\ calls'[s] = Return(c)
    BY <1>12, <1>a DEF Cancelled
  <2>2. Return(c).in_calm = c.in_calm
    BY <1>0 DEF Return, Call
  <2> QED
    BY <1>0, <2>1, <2>2 DEF Settled, Choosing, Using
<1> QED
  BY <1>1, <1>2, <1>3, <1>4, <1>6, <1>7, <1>8, <1>9, <1>10, <1>11, <1>12 DEF Elsewhere

\* A step moves one call at most; the others lose nothing by it.
LEMMA CalmStep ==
  ASSUME Globals, Calls, CalmInv, [Next]_vars
  PROVE  CalmInv'
<1>1. calm => calm'
  BY CalmConnectionsStay
<1>2. ASSUME NEW t \in Sender, pc'[t] = pc[t], calls'[t] = calls[t]
      PROVE  /\ calls'[t].in_calm => calm'
             /\ Settled(pc'[t], calls'[t], status')
  <2>1. /\ CallOK(pc[t], calls[t]) /\ calls[t] \in Call
        /\ Settled(pc[t], calls[t], status)
        /\ calls[t].in_calm => calm
    BY DEF Calls, CalmInv
  <2>2. CASE calls[t].in_calm
    <3>1. \A k \in ConnId : status[k] = "up" => status'[k] = "up"
      BY <2>1, <2>2, CalmConnectionsStay
    <3>2. Settled(pc[t], calls[t], status')
      BY <2>1, <3>1, SettledStays
    <3> QED
      BY <1>1, <1>2, <2>1, <3>2
  <2>3. CASE ~calls[t].in_calm
    BY <1>2, <2>3 DEF Settled
  <2> QED
    BY <2>2, <2>3
<1>3. ASSUME NEW s \in Sender, Elsewhere(s) \/ \E new \in FreshIds : Connected(s, new)
      PROVE  CalmInv'
  <2>1. ASSUME NEW t \in Sender, t # s PROVE pc'[t] = pc[t] /\ calls'[t] = calls[t]
    BY <1>3, <2>1 DEF Elsewhere, send_batch, Lock, Exhausted, Reuse, StartConnecting,
          ConnectFails, Opened, OpenFails, Written, WriteFails, Cancelled, Connected, Goes,
          UseConnection, GoesOn, Calls
  <2>2. ASSUME NEW t \in Sender
        PROVE  /\ calls'[t].in_calm => calm'
               /\ Settled(pc'[t], calls'[t], status')
    BY <1>1, <1>2, <1>3, <2>1, MoverSettled
  <2> QED
    BY <2>2 DEF CalmInv
<1>4. CASE UNCHANGED <<pc, calls>>
  BY <1>2, <1>4 DEF CalmInv
<1> QED
  BY <1>3, <1>4, NextCases DEF Close, Settle, vars

-----------------------------------------------------------------------------
(* The theorems.                                                           *)

LEMMA InitHolds == Init => Globals /\ Calls /\ LockInv /\ BlameInv
<1> SUFFICES ASSUME Init PROVE Globals /\ Calls /\ LockInv /\ BlameInv
  OBVIOUS
<1>1. <<>> \in Seq((Nat \ {0}) \X ConnId)
  OBVIOUS
<1>2. NoCall \in Call
  BY <1>1 DEF NoCall, Call
<1>3. CallOK("idle", NoCall)
  BY <1>2 DEF CallOK, NoCall, Ended, Active, Choosing, Using
<1>4. Calls
  BY <1>2, <1>3 DEF Init, Calls, Ended, Active
<1>5. Globals
  BY DEF Init, Globals
<1>6. LockInv /\ BlameInv
  BY DEF Init, LockInv, BlameInv, Choosing
<1> QED
  BY <1>4, <1>5, <1>6

\* The inductive invariant holds throughout.
THEOREM Invariance == Spec => [](Globals /\ Calls /\ LockInv)
<1>1. Init => Globals /\ Calls /\ LockInv
  BY InitHolds
<1>2. Globals /\ Calls /\ LockInv /\ [Next]_vars => (Globals /\ Calls /\ LockInv)'
  BY GlobalsStep, CallsStep, LockStep
<1> QED
  BY <1>1, <1>2, PTL DEF Spec

\* The state of QuicClient always has its type: in particular a call connects
\* at most twice (connection_try_count).
THEOREM AlwaysTyped == Spec => []TypeOK
<1>1. Globals /\ Calls => TypeOK
  BY DEF Globals, Calls, TypeOK, Call
<1> QED
  BY <1>1, Invariance, PTL

\* The expect at the end of _send_buffer never panics: the loop runs out only
\* after an error was kept.
THEOREM PanicUnreachable == Spec => []NeverPanics
<1>1. Globals /\ Calls => NeverPanics
  BY DEF Calls, CallOK, NeverPanics
<1> QED
  BY <1>1, Invariance, PTL

\* Within one call the buffers leave at most once, in order and over a single
\* connection, however often the call and the others reconnect.
THEOREM WireAlwaysOneRun == Spec => []WireIsRunOnOneConnection
<1>1. ASSUME Calls, NEW s \in Sender, calls[s].wire # <<>>
      PROVE  LET w == calls[s].wire
             IN  /\ w[1][1] = (IF calls[s].buffers[1] = "empty" THEN 2 ELSE 1)
                 /\ \A i \in 2 .. Len(w) : w[i][1] = w[i - 1][1] + 1 /\ w[i][2] = w[1][2]
  <2> DEFINE c == calls[s]
  <2>1. CallOK(pc[s], c) /\ c \in Call
    BY <1>1 DEF Calls
  <2>2. PICK k \in ConnId : RunOn(c, k)
    BY <1>1, <2>1 DEF CallOK
  <2>3. Len(c.wire) \in Nat /\ Len(c.wire) > 0
    BY <1>1, <2>1 DEF Call
  <2>4. Skip(c) \in 0 .. 1
    BY DEF Skip
  <2>5. \A i \in 1 .. Len(c.wire) : c.wire[i][1] = Skip(c) + i /\ c.wire[i][2] = k
    BY <2>2 DEF RunOn
  <2>6. c.wire[1][1] = Skip(c) + 1 /\ c.wire[1][2] = k
    BY <2>3, <2>5
  <2>7. ASSUME NEW i \in 2 .. Len(c.wire)
        PROVE  c.wire[i][1] = c.wire[i - 1][1] + 1 /\ c.wire[i][2] = c.wire[1][2]
    <3>1. i \in 1 .. Len(c.wire) /\ i - 1 \in 1 .. Len(c.wire)
      BY <2>3
    <3>2. c.wire[i][1] = Skip(c) + i /\ c.wire[i - 1][1] = Skip(c) + (i - 1)
      BY <2>5, <3>1
    <3> QED
      BY <2>4, <2>5, <2>6, <3>1, <3>2
  <2> QED
    BY <2>4, <2>6, <2>7 DEF Skip
<1>2. Globals /\ Calls => WireIsRunOnOneConnection
  BY <1>1 DEF WireIsRunOnOneConnection
<1> QED
  BY <1>2, Invariance, PTL

\* A call that returned Ok handed every buffer to the connection, but for an
\* empty first one.
THEOREM OkAlwaysMeansWritten == Spec => []OkMeansWritten
<1>1. Globals /\ Calls => OkMeansWritten
  BY DEF Calls, CallOK, OkMeansWritten, Skip
<1> QED
  BY <1>1, Invariance, PTL

\* CalmCallsSucceed: a call that starts with data in a settled network is not
\* failed by what other calls and earlier closes have left behind, ids that come
\* back included.
THEOREM CalmCallsAlwaysSucceed == Spec => []CalmCallsSucceed
<1>1. Init => CalmInv
  BY DEF Init, CalmInv, Settled, NoCall
<1>2. Globals /\ Calls /\ CalmInv /\ [Next]_vars => CalmInv'
  BY CalmStep
<1>3. CalmInv => CalmCallsSucceed
  BY DEF CalmInv, Settled, CalmCallsSucceed
<1> QED
  BY <1>1, <1>2, <1>3, Invariance, PTL DEF Spec

\* As long as quinn does not give a new connection the id of one that a call
\* still remembers, the shared connection is replaced only once it is closed.
THEOREM HealthyAlwaysKept == ASSUME ~IdsReused PROVE Spec => HealthyConnectionKept
<1> DEFINE I == Globals /\ Calls /\ LockInv /\ BlameInv
<1>1. Init => I
  BY InitHolds
<1>2. I /\ [Next]_vars => I'
  BY GlobalsStep, CallsStep, LockStep, BlameStep
<1>3. I /\ [Next]_vars =>
        [connection' # connection /\ connection # None => status[connection] = "closed"]_vars
  <2> SUFFICES ASSUME I, [Next]_vars, connection' # connection, connection # None
               PROVE  status[connection] = "closed"
    OBVIOUS
  <2>1. PICK s \in Sender, new \in FreshIds : Connected(s, new)
    BY NextCases, ElsewhereUnchanged DEF Close, Settle, vars
  <2>2. pc[s] = "connecting"
    BY <2>1 DEF Connected
  <2>3. connection = calls[s].last_id
    BY <2>2 DEF LockInv
  <2> QED
    BY <2>2, <2>3 DEF BlameInv, Choosing
<1> QED
  BY <1>1, <1>2, <1>3, PTL DEF Spec, HealthyConnectionKept

=============================================================================
