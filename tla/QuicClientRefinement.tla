------------------------ MODULE QuicClientRefinement ------------------------
(***************************************************************************)
(* QuicClient implements BatchSend, for any senders, connections and       *)
(* batches.  The mapping is that of Promised: the outcome of a call is     *)
(* read off its place, its batch and its wire off its locals.  So a step   *)
(* that moves a call is seen as the change of one entry of each function   *)
(* (SeenBecomes), and not at all if none of the three changes (NotSeen).   *)
(***************************************************************************)
EXTENDS QuicClientProofs

\* The variables of BatchSend, as Promised has them.
seenOutcome == [s \in Sender |-> Outcome(pc[s])]
seenBatch   == [s \in Sender |-> calls[s].buffers]
seenWire    == [s \in Sender |-> calls[s].wire]

LEMMA Outcomes ==
  /\ \A p \in Active : Outcome(p) = "running"
  /\ Outcome("idle") = "none" /\ Outcome("ok") = "ok"
  /\ Outcome("err") = "failed" /\ Outcome("panicked") = "failed" /\ Outcome("cancelled") = "failed"
BY DEF Outcome, Active

\* A call that moves is the only one whose entries change.
LEMMA SeenGoes ==
  ASSUME Calls, NEW s \in Sender, NEW p, NEW c, Goes(s, p, c)
  PROVE  /\ seenOutcome' = [seenOutcome EXCEPT ![s] = Outcome(p)]
         /\ seenBatch' = [seenBatch EXCEPT ![s] = c.buffers]
         /\ seenWire' = [seenWire EXCEPT ![s] = c.wire]
<1>1. /\ pc' = [pc EXCEPT ![s] = p] /\ calls' = [calls EXCEPT ![s] = c]
      /\ pc \in [Sender -> Ended \cup Active] /\ calls \in [Sender -> Call]
  BY DEF Goes, Calls
<1>2. /\ pc'[s] = p /\ calls'[s] = c
      /\ \A t \in Sender \ {s} : pc'[t] = pc[t] /\ calls'[t] = calls[t]
  BY <1>1
<1>3. seenOutcome' = [seenOutcome EXCEPT ![s] = Outcome(p)]
  <2>1. seenOutcome' = [t \in Sender |-> Outcome(pc'[t])]
    BY DEF seenOutcome, Outcome
  <2>2. \A t \in Sender : Outcome(pc'[t]) = IF t = s THEN Outcome(p) ELSE Outcome(pc[t])
    BY <1>2
  <2> QED
    BY <2>1, <2>2 DEF seenOutcome
<1>4. seenBatch' = [seenBatch EXCEPT ![s] = c.buffers] /\ seenWire' = [seenWire EXCEPT ![s] = c.wire]
  BY <1>2 DEF seenBatch, seenWire
<1> QED
  BY <1>3, <1>4

\* A call that moves on with the same batch.
LEMMA SeenBecomes ==
  ASSUME Calls, NEW s \in Sender, NEW p, NEW c, Goes(s, p, c), c.buffers = calls[s].buffers
  PROVE  /\ seenOutcome' = [seenOutcome EXCEPT ![s] = Outcome(p)]
         /\ seenBatch' = seenBatch
         /\ seenWire' = [seenWire EXCEPT ![s] = c.wire]
<1>1. /\ seenOutcome' = [seenOutcome EXCEPT ![s] = Outcome(p)]
      /\ seenBatch' = [seenBatch EXCEPT ![s] = c.buffers]
      /\ seenWire' = [seenWire EXCEPT ![s] = c.wire]
  BY SeenGoes
<1>2. seenBatch' = seenBatch
  BY <1>1 DEF seenBatch
<1> QED
  BY <1>1, <1>2

LEMMA NotSeen ==
  ASSUME Calls, NEW s \in Sender, NEW p, NEW c, Goes(s, p, c),
         c.buffers = calls[s].buffers, c.wire = calls[s].wire, Outcome(p) = Outcome(pc[s])
  PROVE  UNCHANGED Promised!vars
<1>1. /\ seenOutcome' = [seenOutcome EXCEPT ![s] = Outcome(p)]
      /\ seenBatch' = [seenBatch EXCEPT ![s] = c.buffers]
      /\ seenWire' = [seenWire EXCEPT ![s] = c.wire]
  BY SeenGoes
<1>2. seenOutcome' = seenOutcome /\ seenBatch' = seenBatch /\ seenWire' = seenWire
  BY <1>1 DEF seenOutcome, seenBatch, seenWire
<1> QED
  BY <1>2 DEF Promised!vars, seenOutcome, seenBatch, seenWire

\* A call that is over with an error, or dropped, and nothing more has left.
LEMMA SeenFail ==
  ASSUME Calls, NEW s \in Sender, NEW p, NEW c, Goes(s, p, c), pc[s] \in Active,
         c.buffers = calls[s].buffers, c.wire = calls[s].wire, Outcome(p) = "failed"
  PROVE  Promised!Fail(s)
<1>1. /\ seenOutcome' = [seenOutcome EXCEPT ![s] = "failed"]
      /\ seenBatch' = seenBatch
      /\ seenWire' = [seenWire EXCEPT ![s] = calls[s].wire]
  BY SeenBecomes
<1>2. Outcome(pc[s]) = "running"
  BY Outcomes
<1> QED
  BY <1>1, <1>2 DEF Promised!Fail, Promised!Becomes, seenOutcome, seenBatch, seenWire

\* What is left out of a batch, and what is due of it, in terms of the call.
LEMMA DueOfCall ==
  ASSUME NEW c \in Call, c.buffers # <<>>
  PROVE  /\ Promised!Skipped(c.buffers) = Skip(c)
         /\ Promised!Due(c.buffers) = Len(c.buffers) - Skip(c)
BY BuffersAreSeq DEF Promised!Skipped, Promised!Due, Skip

-----------------------------------------------------------------------------
(* The actions.                                                            *)

\* What a step of call s may look like.
Seen(s) ==
  \/ Promised!Ends(s)
  \/ \E b \in Batches : Promised!Start(s, b)
  \/ UNCHANGED Promised!vars

LEMMA SendBatchSeen ==
  ASSUME Calls, NEW s \in Sender, NEW b \in Batches, send_batch(s, b)
  PROVE  Promised!Start(s, b)
<1> DEFINE c == [NoCall EXCEPT !.buffers = b, !.in_calm = calm]
           p == IF b = <<>> THEN "ok" ELSE "loop"
<1>1. Goes(s, p, c) /\ pc[s] \in Ended
  BY DEF send_batch
<1>2. c.buffers = b /\ c.wire = <<>>
  BY DEF NoCall
<1>3. Outcome(p) = IF b = <<>> THEN "ok" ELSE "running"
  BY DEF Outcome, Active
<1>4. Outcome(pc[s]) # "running"
  BY <1>1 DEF Outcome, Ended, Active
<1> HIDE DEF c, p
<1>5. /\ seenOutcome' = [seenOutcome EXCEPT ![s] = Outcome(p)]
      /\ seenBatch' = [seenBatch EXCEPT ![s] = b]
      /\ seenWire' = [seenWire EXCEPT ![s] = <<>>]
  BY <1>1, <1>2, SeenGoes
<1> QED
  BY <1>3, <1>4, <1>5 DEF Promised!Start, seenOutcome, seenBatch, seenWire

\* The call has chosen a connection: only a batch that is nothing but a warm-up
\* is over with it.
LEMMA UseConnectionSeen ==
  ASSUME Calls, NEW s \in Sender, NEW conn, NEW n, pc[s] \in Choosing, UseConnection(s, conn, n)
  PROVE  Seen(s)
<1> DEFINE c == [calls[s] EXCEPT !.conn = conn, !.try_count = n]
           d == [c EXCEPT !.last_id = conn]
           e == [c EXCEPT !.sent = 1]
<1>1. /\ calls[s] \in Call /\ calls[s].buffers # <<>> /\ calls[s].wire = <<>>
  BY DEF Calls, CallOK
<1>2. /\ c.buffers = calls[s].buffers /\ c.wire = calls[s].wire
      /\ d.buffers = calls[s].buffers /\ d.wire = calls[s].wire
      /\ e.buffers = calls[s].buffers /\ e.wire = calls[s].wire /\ e.sent = 1
  BY <1>1 DEF Call
<1>3. \/ Head(c.buffers) = "empty" /\ GoesOn(s, e)
      \/ Head(c.buffers) = "data" /\ Goes(s, "opening", d)
  BY DEF UseConnection
<1>4. Outcome(pc[s]) = "running" /\ Outcome("opening") = "running" /\ Outcome("ok") = "ok"
  BY Outcomes DEF Choosing, Active
<1> HIDE DEF c, d, e
<1>5. CASE Goes(s, "opening", d)
  BY <1>2, <1>4, <1>5, NotSeen DEF Seen
<1>6. CASE Goes(s, "opening", e)
  BY <1>2, <1>4, <1>6, NotSeen DEF Seen
<1>7. CASE Head(c.buffers) = "empty" /\ e.sent = Len(e.buffers) /\ Goes(s, "ok", Return(e))
  <2>1. Return(e).buffers = calls[s].buffers /\ Return(e).wire = calls[s].wire
    BY <1>1, <1>2 DEF Return, Call, e, c
  <2>2. /\ seenOutcome' = [seenOutcome EXCEPT ![s] = "ok"]
        /\ seenBatch' = seenBatch
        /\ seenWire' = [seenWire EXCEPT ![s] = calls[s].wire]
    BY <1>4, <1>7, <2>1, SeenBecomes
  <2>3. Promised!Due(calls[s].buffers) = 0
    <3>1. Skip(calls[s]) = 1 /\ Len(calls[s].buffers) = 1
      BY <1>1, <1>2, <1>7, BuffersAreSeq DEF Skip
    <3>2. Promised!Due(calls[s].buffers) = Len(calls[s].buffers) - Skip(calls[s])
      BY <1>1, DueOfCall
    <3> QED
      BY <3>1, <3>2
  <2>4. Promised!Warm(s)
    BY <1>4, <2>2, <2>3 DEF Promised!Warm, Promised!Becomes, Promised!Due, Promised!Skipped,
       seenOutcome, seenBatch, seenWire
  <2> QED
    BY <2>4 DEF Seen, Promised!Ends
<1> QED
  BY <1>3, <1>5, <1>6, <1>7 DEF GoesOn

\* The next buffer of a call in "writing" may leave on its connection, and what
\* has left afterwards is what the call keeps.
LEMMA WireSeen ==
  ASSUME Calls, NEW s \in Sender, pc[s] = "writing"
  PROVE  LET c == calls[s]
         IN  /\ c.conn \in ConnId
             /\ Promised!MayLeave(s, c.conn)
             /\ Promised!Left(s, c.conn) = OnWire(c).wire
             /\ Len(c.wire) + 1 = Promised!Due(c.buffers) <=> c.sent + 1 = Len(c.buffers)
<1> DEFINE c == calls[s]
<1>1. /\ c \in Call /\ c.buffers # <<>> /\ c.conn \in ConnId
      /\ c.sent < Len(c.buffers) /\ Len(c.wire) = c.sent - Skip(c) /\ RunOn(c, c.conn)
  BY DEF Calls, CallOK, Using
<1>2. /\ Skip(c) \in 0 .. 1 /\ Len(c.buffers) \in Nat /\ c.sent \in Nat
      /\ Len(c.wire) \in Nat /\ c.wire \in Seq((Nat \ {0}) \X ConnId)
  BY <1>1, BuffersAreSeq DEF Call
<1>3. /\ Promised!Skipped(c.buffers) = Skip(c)
      /\ Promised!Due(c.buffers) = Len(c.buffers) - Skip(c)
  BY <1>1, DueOfCall
<1>4. Outcome(pc[s]) = "running"
  BY Outcomes DEF Active
<1>5. c.wire # <<>> => c.wire[1][2] = c.conn
  <2>1. c.wire # <<>> => 1 \in 1 .. Len(c.wire)
    BY <1>2
  <2> QED
    BY <1>1, <2>1 DEF RunOn
<1>6. OnWire(c).wire = Append(c.wire, <<c.sent + 1, c.conn>>)
  BY <1>1 DEF OnWire, Call
<1>7. Skip(c) + Len(c.wire) + 1 = c.sent + 1
  BY <1>1, <1>2
<1>8. Len(c.wire) < Promised!Due(c.buffers)
      /\ (Len(c.wire) + 1 = Promised!Due(c.buffers) <=> c.sent + 1 = Len(c.buffers))
  BY <1>1, <1>2, <1>3
<1> HIDE DEF c
<1>9. Promised!MayLeave(s, c.conn)
  <2>1. [t \in Sender |-> calls[t].wire][s] = c.wire /\ [t \in Sender |-> calls[t].buffers][s] = c.buffers
    BY DEF c
  <2> QED
    BY <1>4, <1>5, <1>8, <2>1 DEF Promised!MayLeave, Promised!Due, Promised!Skipped
<1>10. Promised!Left(s, c.conn) = OnWire(c).wire
  BY <1>3, <1>6, <1>7 DEF Promised!Left, Promised!Skipped, c
<1> QED
  BY <1>1, <1>8, <1>9, <1>10 DEF c

\* A write that succeeds delivers the buffer, with it the last one ends the call.
LEMMA WrittenSeen ==
  ASSUME Calls, NEW s \in Sender, Written(s)
  PROVE  Seen(s)
<1> DEFINE c == calls[s]
           k == c.conn
           d == [OnWire(c) EXCEPT !.sent = @ + 1]
           w == OnWire(c).wire
<1>1. pc[s] = "writing" /\ GoesOn(s, d)
  BY DEF Written
<1>2. CallOK("writing", c) /\ c \in Call /\ k \in ConnId
  BY <1>1 DEF Calls, CallOK, Using
<1>3. /\ d.buffers = c.buffers /\ d.wire = w /\ d.sent = c.sent + 1
      /\ Return(d).buffers = c.buffers /\ Return(d).wire = w
  BY <1>2, OnWireIsRun DEF Call, Return
<1>4. /\ Promised!MayLeave(s, k) /\ Promised!Left(s, k) = w
      /\ Len(c.wire) + 1 = Promised!Due(c.buffers) <=> c.sent + 1 = Len(c.buffers)
  BY <1>1, WireSeen
<1>5. Outcome("ok") = "ok" /\ Outcome("opening") = "running"
  BY Outcomes DEF Active
<1> DEFINE o == IF Len(c.wire) + 1 = Promised!Due(c.buffers) THEN "ok" ELSE "running"
<1>6. /\ seenOutcome' = [seenOutcome EXCEPT ![s] = o]
      /\ seenBatch' = seenBatch
      /\ seenWire' = [seenWire EXCEPT ![s] = w]
  <2> HIDE DEF d, w, k
  <2>1. CASE d.sent = Len(d.buffers) /\ Goes(s, "ok", Return(d))
    <3>1. o = "ok"
      BY <1>3, <1>4, <2>1
    <3> HIDE DEF o
    <3> QED
      BY <1>3, <1>5, <2>1, <3>1, SeenBecomes
  <2>2. CASE d.sent < Len(d.buffers) /\ Goes(s, "opening", d)
    <3>1. o = "running"
      BY <1>2, <1>3, <1>4, <2>2 DEF Call
    <3> HIDE DEF o
    <3> QED
      BY <1>3, <1>5, <2>2, <3>1, SeenBecomes
  <2> QED
    BY <1>1, <2>1, <2>2 DEF GoesOn
<1>7. Promised!Deliver(s, k)
  <2>1. [t \in Sender |-> calls[t].wire][s] = c.wire /\ [t \in Sender |-> calls[t].buffers][s] = c.buffers
    OBVIOUS
  <2> HIDE DEF c, k, w
  <2> QED
    BY <1>4, <1>6, <2>1 DEF Promised!Deliver, Promised!Becomes, seenOutcome, seenBatch, seenWire
<1> QED
  BY <1>2, <1>7 DEF Seen, Promised!Ends

\* A write that fails may have put the buffer on the wire.
LEMMA WriteFailsSeen ==
  ASSUME Calls, NEW s \in Sender, WriteFails(s)
  PROVE  Seen(s)
<1> DEFINE k == calls[s].conn
<1>1. PICK c \in {calls[s], OnWire(calls[s])} :
        Goes(s, "err", [Return(c) EXCEPT !.last_error = "write"])
  BY DEF WriteFails
<1> DEFINE d == [Return(c) EXCEPT !.last_error = "write"]
<1>2. pc[s] = "writing" /\ CallOK("writing", calls[s]) /\ calls[s] \in Call /\ k \in ConnId
  BY DEF WriteFails, Calls, CallOK, Using
<1>3. c \in Call /\ c.buffers = calls[s].buffers
  BY <1>1, <1>2, OnWireIsRun
<1>4. d.buffers = calls[s].buffers /\ d.wire = c.wire
  BY <1>3 DEF Return, Call
<1>5. pc[s] \in Active /\ Outcome("err") = "failed" /\ Outcome(pc[s]) = "running"
  BY <1>2, Outcomes DEF Active
<1>6. CASE c = calls[s]
  <2> HIDE DEF d
  <2>1. Promised!Fail(s)
    BY <1>1, <1>4, <1>5, <1>6, SeenFail DEF d
  <2> QED
    BY <2>1 DEF Seen, Promised!Ends
<1>7. CASE c = OnWire(calls[s])
  <2>1. Promised!MayLeave(s, k) /\ Promised!Left(s, k) = c.wire
    BY <1>2, <1>7, WireSeen
  <2>2. /\ seenOutcome' = [seenOutcome EXCEPT ![s] = "failed"]
        /\ seenBatch' = seenBatch
        /\ seenWire' = [seenWire EXCEPT ![s] = c.wire]
    <3> HIDE DEF d
    <3>1. Goes(s, "err", d)
      BY <1>1 DEF d
    <3> QED
      BY <1>4, <1>5, <3>1, SeenBecomes
  <2>3. Promised!FailMidway(s, k)
    BY <2>1, <2>2 DEF Promised!FailMidway, Promised!Becomes, seenOutcome, seenBatch, seenWire
  <2> QED
    BY <1>2, <2>3 DEF Seen, Promised!Ends
<1> QED
  BY <1>1, <1>6, <1>7

\* The rest of the steps keep the wire: they end the call with an error, or are
\* not seen.
LEMMA QuietStepSeen ==
  ASSUME Calls, NEW s \in Sender, NEW p \in Ended \cup Active, NEW c, Goes(s, p, c), pc[s] \in Active,
         c.buffers = calls[s].buffers, c.wire = calls[s].wire, p \notin {"idle", "ok"}
  PROVE  Seen(s)
<1>1. Outcome(pc[s]) = "running"
  BY Outcomes
<1>2. CASE p \in Active
  <2>1. Outcome(p) = "running"
    BY <1>2, Outcomes
  <2> QED
    BY <1>1, <2>1, NotSeen DEF Seen
<1>3. CASE p \notin Active
  <2>1. Outcome(p) = "failed"
    BY <1>3, Outcomes DEF Ended
  <2> QED
    BY <2>1, SeenFail DEF Seen, Promised!Ends
<1> QED
  BY <1>2, <1>3

LEMMA StepSeen ==
  ASSUME Calls, NEW s \in Sender, Step(s) \/ Cancelled(s)
  PROVE  Seen(s)
<1> DEFINE c == calls[s]
<1>1. c \in Call
  BY DEF Calls
<1>2. ASSUME NEW p \in Ended \cup Active, NEW d \in Call, Goes(s, p, d), pc[s] \in Active,
             d.buffers = c.buffers, d.wire = c.wire, p \notin {"idle", "ok"}
      PROVE  Seen(s)
  BY <1>2, QuietStepSeen
<1>3. /\ Return(c) \in Call /\ Return(c).buffers = c.buffers /\ Return(c).wire = c.wire
      /\ \A e \in {"connect", "open", "write"} :
           /\ [Return(c) EXCEPT !.last_error = e] \in Call
           /\ [Return(c) EXCEPT !.last_error = e].buffers = c.buffers
           /\ [Return(c) EXCEPT !.last_error = e].wire = c.wire
           /\ [c EXCEPT !.last_error = e] \in Call
           /\ [c EXCEPT !.last_error = e].buffers = c.buffers
           /\ [c EXCEPT !.last_error = e].wire = c.wire
  BY <1>1 DEF Return, Call
<1> HIDE DEF c
<1>4. CASE Lock(s) \/ StartConnecting(s) \/ Opened(s)
  <2>1. CASE Lock(s)
    <3>1. pc[s] \in Active /\ Goes(s, "locking", c)
      BY <2>1 DEF Lock, Active, c
    <3> QED
      BY <1>1, <3>1, QuietStepSeen DEF Active, c
  <2>2. CASE StartConnecting(s)
    <3>1. pc[s] \in Active /\ Goes(s, "connecting", c)
      BY <2>2 DEF StartConnecting, Active, c
    <3> QED
      BY <1>1, <3>1, QuietStepSeen DEF Active, c
  <2>3. CASE Opened(s)
    <3>1. pc[s] \in Active /\ Goes(s, "writing", c)
      BY <2>3 DEF Opened, Active, c
    <3> QED
      BY <1>1, <3>1, QuietStepSeen DEF Active, c
  <2> QED
    BY <1>4, <2>1, <2>2, <2>3
<1>5. CASE Exhausted(s)
  BY <1>1, <1>2, <1>5 DEF Exhausted, Active, Ended, c
<1>6. CASE ConnectFails(s)
  <2> DEFINE d == [c EXCEPT !.last_error = "connect"]
  <2>1. pc[s] \in Active /\ Goes(s, "err", d)
    BY <1>6 DEF ConnectFails, Active, c
  <2>2. d.buffers = c.buffers /\ d.wire = c.wire
    BY <1>3
  <2> HIDE DEF d
  <2> QED
    BY <2>1, <2>2, QuietStepSeen DEF Ended, c
<1>7. CASE OpenFails(s)
  <2> DEFINE d == [Return(c) EXCEPT !.last_error = "open"]
             p == IF d.sent = 0 THEN "loop" ELSE "err"
  <2>1. pc[s] \in Active /\ Goes(s, p, d)
    BY <1>7 DEF OpenFails, Active, c
  <2>2. d.buffers = c.buffers /\ d.wire = c.wire
    BY <1>3
  <2>3. p \in Ended \cup Active /\ p \notin {"idle", "ok"}
    BY DEF Ended, Active
  <2> HIDE DEF d, p
  <2> QED
    BY <2>1, <2>2, <2>3, QuietStepSeen DEF c
<1>8. CASE Cancelled(s)
  BY <1>2, <1>3, <1>8 DEF Cancelled, Active, Ended, c
<1>9. CASE Reuse(s)
  BY <1>9, UseConnectionSeen DEF Reuse, Choosing
<1>10. CASE \E new \in FreshIds : Connected(s, new)
  BY <1>10, UseConnectionSeen DEF Connected, Choosing
<1>11. CASE Written(s)
  BY <1>11, WrittenSeen
<1>12. CASE WriteFails(s)
  BY <1>12, WriteFailsSeen
<1> QED
  BY <1>4, <1>5, <1>6, <1>7, <1>8, <1>9, <1>10, <1>11, <1>12 DEF Step

-----------------------------------------------------------------------------

LEMMA StepIsBatchSendStep == Calls /\ [Next]_vars => [Promised!Next]_(Promised!vars)
<1> SUFFICES ASSUME Calls, [Next]_vars PROVE [Promised!Next]_(Promised!vars)
  OBVIOUS
<1>1. ASSUME NEW s \in Sender, Seen(s)
      PROVE  [Promised!Next]_(Promised!vars)
  BY <1>1 DEF Seen, Promised!Next
<1>2. ASSUME NEW s \in Sender, NEW b \in Batches, send_batch(s, b)
      PROVE  [Promised!Next]_(Promised!vars)
  BY <1>1, <1>2, SendBatchSeen DEF Seen
<1>3. ASSUME NEW s \in Sender, Step(s) \/ Cancelled(s)
      PROVE  [Promised!Next]_(Promised!vars)
  BY <1>1, <1>3, StepSeen
<1>4. CASE UNCHANGED vars \/ Settle \/ \E c \in ConnId : Close(c)
  <2>1. pc' = pc /\ calls' = calls
    BY <1>4 DEF vars, Settle, Close
  <2>2. UNCHANGED Promised!vars
    BY <2>1 DEF Promised!vars, Outcome
  <2> QED
    BY <2>2
<1> QED
  BY <1>2, <1>3, <1>4 DEF Next

\* ImplementsBatchSend: send_batch is, to whoever awaits it, the uninterrupted
\* send of BatchSend, whatever happens to the connection and to other calls.
THEOREM ClientImplementsBatchSend == Spec => ImplementsBatchSend
<1>1. Init => Promised!Init
  BY Outcomes DEF Init, Promised!Init, NoCall, Outcome, Active
<1> QED
  BY <1>1, Invariance, StepIsBatchSendStep, PTL DEF Spec, ImplementsBatchSend, Promised!Spec

=============================================================================
