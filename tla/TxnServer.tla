----------------------------- MODULE TxnServer ------------------------------
(***************************************************************************)
(* One HTTP request: handle_transaction and handle_transactions_batched of *)
(* main.rs, on top of try_send_wire_transaction and its batch form in      *)
(* engine/backend_tpu_client.rs.  The client can also be called without    *)
(* the handlers and their retries: a single fan-out ("direct"), or the     *)
(* leaders one after the other ("upcoming").                               *)
(*                                                                         *)
(* Requests share nothing but the leaders they send to, so the module      *)
(* follows a single one.  Within it the sends to the leaders run at the    *)
(* same time under join_all; each is a call of QuicClient, of which only   *)
(* the outcome and what it has written matter here.  Written means that    *)
(* the QUIC connection has taken the bytes, which is all that Ok tells the *)
(* program: no leader acknowledges a transaction.  The answer is its       *)
(* status: the times and the attempt count it reports are left out.        *)
(***************************************************************************)
EXTENDS SortedSets, SequencesExt

CONSTANTS
  Requests,      \* requests that may come: see Request
  Leader,        \* leaders the service may know
  LeaderLists,   \* what unique_leader_tpu_sockets may return
  SendError,     \* errors a send to a leader may end with
  NoSends,       \* the "No sends attempted" error
  MaxRetries,    \* MAX_RETRIES = 10
  BatchSize      \* 10: transactions of a batch sent together

\* The body of /send_txn or /send_batch, or a call of the client: for each
\* transaction whether it is base64.  Only a batch holds more than one.
Request == [kind : {"single", "batch", "direct", "upcoming"},
            txns : Seq({"base64", "undecodable"})]

ASSUME RequestsAssumption ==
  /\ Requests \subseteq Request
  /\ \A r \in Requests : r.kind # "batch" => Len(r.txns) = 1
ASSUME LeadersAssumption ==
  \A list \in LeaderLists : list \in Seq(Leader) /\ IsInjective(list)
ASSUME ErrorAssumption == NoSends \notin SendError /\ {"ok", "pending", "waiting", "none"} \cap (SendError \cup {NoSends}) = {}
ASSUME BoundsAssumption == MaxRetries \in Nat \ {0} /\ BatchSize \in Nat \ {0}

VARIABLES
  request,     \* the request being handled
  pc,          \* where its handler is
  chunk,       \* number of the batch of BatchSize being sent, from 1
  attempt,     \* attempts made on that batch
  last_error,  \* last_error of the handler
  leaders,     \* the leaders of the current fan-out
  sends,       \* the outcome of the send to each of them
  received     \* history: the transactions written to a connection to each leader

handler == <<request, chunk, attempt>>
vars == <<handler, pc, last_error, leaders, sends, received>>

-----------------------------------------------------------------------------
(* What there is to send.  A transaction is its place in the request.      *)

\* filter_map(..).collect()
Decodable(txns) == Ascending({i \in DOMAIN txns : txns[i] = "base64"})

\* The batch handler skips what does not decode; the single handler replaces it
\* by an empty buffer.
Decoded == IF request.kind = "batch" THEN Decodable(request.txns) ELSE <<1>>

\* decoded_txns.chunks(10)
NumChunks == (Len(Decoded) + BatchSize - 1) \div BatchSize

Chunk(k) == SubSeq(Decoded, (k - 1) * BatchSize + 1, Min({k * BatchSize, Len(Decoded)}))

\* The transactions among the first n buffers of a chunk: an empty buffer that
\* stands for an undecodable transaction carries none, and is not sent.
Carried(k, n) == {Chunk(k)[i] : i \in {j \in 1 .. n : request.txns[Chunk(k)[j]] = "base64"}}

InChunk(k) == Carried(k, Len(Chunk(k)))

-----------------------------------------------------------------------------

Init ==
  /\ request \in Requests
  /\ pc = (IF NumChunks = 0 THEN "success" ELSE "attempt")
  /\ chunk = 1
  /\ attempt = 0
  /\ last_error = "none"
  /\ leaders = <<>>
  /\ sends = <<>>
  /\ received = [l \in Leader |-> {}]

\* Mutant: the leaders of send_transaction_to_upcoming_leaders all start at once.
StartAt_Together(i) == "pending"

\* join_all starts every send, send_transaction_to_upcoming_leaders the first.
StartAt(i) == IF request.kind = "upcoming" /\ i > 1 THEN "waiting" ELSE "pending"

\* The top of the retry loop: ask for the leaders and start the sends.
Attempt ==
  /\ pc = "attempt"
  /\ pc' = "sending"
  /\ attempt' = attempt + 1
  /\ leaders' \in LeaderLists
  /\ sends' = [i \in DOMAIN leaders' |-> StartAt(i)]
  /\ UNCHANGED <<request, chunk, last_error, received>>

\* One send is over; the leader that waits for its success is next.
SendEnds(i, outcome, n) ==
  /\ pc = "sending"
  /\ sends[i] = "pending"
  /\ sends' = [j \in DOMAIN sends |->
                 CASE j = i -> outcome
                   [] j = i + 1 /\ sends[j] = "waiting" /\ outcome = "ok" -> "pending"
                   [] OTHER -> sends[j]]
  /\ received' = [received EXCEPT ![leaders[i]] = @ \cup Carried(chunk, n)]
  /\ UNCHANGED <<handler, pc, last_error, leaders>>

SendSucceeds(i) == SendEnds(i, "ok", Len(Chunk(chunk)))

\* A send may fail after part of its buffers, or all, were written.
SendFails(i) ==
  \E e \in SendError, n \in 0 .. Len(Chunk(chunk)) : SendEnds(i, e, n)

\* No port is left for the endpoint of a new pool, and the expect in
\* create_endpoint panics before anything of this send is written.  join_all
\* polls the sends in the handler's own task: it dies with all of them.
SendPanics(i) ==
  /\ pc = "sending"
  /\ sends[i] = "pending"
  /\ pc' = "panicked"
  /\ UNCHANGED <<handler, last_error, leaders, sends, received>>

\* Mutant: nobody to send to counts as sent.
Aggregate_NoLeaderIsOk(results) ==
  LET errors == SelectSeq(results, LAMBDA r : r # "ok")
  IN  IF \E i \in DOMAIN results : results[i] = "ok" THEN "ok"
      ELSE IF results = <<>> THEN "ok" ELSE errors[1]

\* Mutant: one failed send fails the fan-out.
Aggregate_AnyError(results) ==
  LET errors == SelectSeq(results, LAMBDA r : r # "ok")
  IN  CASE errors # <<>> -> errors[1]
        [] results = <<>> -> NoSends
        [] OTHER -> "ok"

\* What try_send_wire_transaction makes of the results: Ok if some leader was
\* reached, else the first error, which is the first result.
Aggregate(results) ==
  CASE \E i \in DOMAIN results : results[i] = "ok" -> "ok"
    [] results = <<>> -> NoSends
    [] OTHER -> results[1]

\* send_transaction_to_upcoming_leaders: Ok unless a send failed, also when
\* there was nobody to send to.
InTurn(results) ==
  IF \E i \in DOMAIN results : results[i] \in SendError
  THEN CHOOSE e \in SendError : \E i \in DOMAIN results : results[i] = e
  ELSE "ok"

Result == IF request.kind = "upcoming" THEN InTurn(sends) ELSE Aggregate(sends)

\* The handlers retry, the client's own methods do not.
Attempts == IF request.kind \in {"single", "batch"} THEN MaxRetries ELSE 1

AllEnded == pc = "sending" /\ \A i \in DOMAIN sends : sends[i] # "pending"

\* The fan-out succeeded: answer, or go on with the next batch.
AttemptSucceeds ==
  /\ AllEnded
  /\ Result = "ok"
  /\ \/ /\ chunk = NumChunks
        /\ pc' = "success"
        /\ UNCHANGED <<chunk, attempt>>
     \/ /\ chunk < NumChunks
        /\ pc' = "attempt"
        /\ chunk' = chunk + 1
        /\ attempt' = 0
  /\ UNCHANGED <<request, last_error, leaders, sends, received>>

\* The batch handler sleeps before it tries again, the other does not.
Retry == IF request.kind = "batch" THEN "sleeping" ELSE "attempt"

\* The fan-out failed: try again, or answer 500.
AttemptFails ==
  /\ AllEnded
  /\ Result # "ok"
  /\ last_error' = Result
  /\ pc' = IF attempt < Attempts THEN Retry ELSE "error"
  /\ UNCHANGED <<handler, leaders, sends, received>>

\* Mutant: the attempts are counted afresh after each sleep.
Slept_ForgetsCount ==
  /\ pc = "sleeping"
  /\ pc' = "attempt"
  /\ attempt' = 0
  /\ UNCHANGED <<request, chunk, last_error, leaders, sends, received>>

\* tokio::time::sleep(retry_delay).await
Slept ==
  /\ pc = "sleeping"
  /\ pc' = "attempt"
  /\ UNCHANGED <<handler, last_error, leaders, sends, received>>

\* The client goes away: the server drops the handler with all its sends.
Disconnect ==
  /\ pc \in {"sending", "sleeping"}
  /\ pc' = "gone"
  /\ UNCHANGED <<handler, last_error, leaders, sends, received>>

Send == \E i \in DOMAIN sends : SendSucceeds(i) \/ SendFails(i)

Panic == \E i \in DOMAIN sends : SendPanics(i)

Next ==
  Attempt \/ Send \/ Panic \/ AttemptSucceeds \/ AttemptFails \/ Slept \/ Disconnect

Spec == Init /\ [][Next]_vars

\* The runtime polls the handler, and every send ends: QuicClient!CallsEnd.
FairSpec == Spec /\ WF_vars(Attempt \/ Send \/ AttemptSucceeds \/ AttemptFails \/ Slept)

-----------------------------------------------------------------------------
(* Properties.                                                             *)

Errors == SendError \cup {NoSends}

\* The types; no batch is attempted more often than MaxRetries.
TypeOK ==
  /\ request \in Requests
  /\ pc \in {"attempt", "sending", "sleeping", "success", "error", "gone", "panicked"}
  /\ chunk \in Nat \ {0} /\ attempt \in 0 .. MaxRetries
  /\ last_error \in Errors \cup {"none"}
  /\ leaders \in LeaderLists \cup {<<>>}
  /\ sends \in [DOMAIN leaders -> SendError \cup {"ok", "pending", "waiting"}]
  /\ DOMAIN received = Leader

\* The whole of batch k was written to one leader's connection.
Accepted(k) == \E l \in Leader : InChunk(k) \subseteq received[l]

\* Nothing of a batch is written before every earlier batch has been, in full,
\* to some leader: also when the request fails, is dropped or panics half way,
\* what was written is a run of whole batches and part of one.
BatchesInOrder ==
  \A k \in 1 .. NumChunks :
    (\E l \in Leader : received[l] \cap InChunk(k) # {}) => \A j \in 1 .. k - 1 : Accepted(j)

\* A success answer means that each batch of decodable transactions was written
\* in full to the connection of some leader; one written to several piecemeal
\* does not count.  Whether it arrives is not known to the program.
\* Only send_transaction_to_upcoming_leaders also succeeds with no leader known.
SuccessMeansAccepted ==
  pc = "success" =>
    \/ \A k \in 1 .. NumChunks : Accepted(k)
    \/ request.kind = "upcoming" /\ leaders = <<>>

\* send_transaction_to_upcoming_leaders serves the leaders in turn: nothing is
\* written to one before the connection of every leader before it has taken all
\* of the transaction, and success means that all of them did.
UpcomingReachedInTurn ==
  request.kind = "upcoming" =>
    /\ \A i \in DOMAIN leaders :
         received[leaders[i]] # {} => \A j \in 1 .. i - 1 : InChunk(1) \subseteq received[leaders[j]]
    /\ pc = "success" => \A i \in DOMAIN leaders : InChunk(1) \subseteq received[leaders[i]]

\* An error answer comes only after MaxRetries fan-outs of the batch at hand
\* failed, the last of them at every leader, and nothing of the later batches
\* was sent.
ErrorMeansExhausted ==
  pc = "error" =>
    /\ attempt = Attempts /\ last_error \in Errors
    /\ request.kind # "upcoming" => \A i \in DOMAIN sends : sends[i] \in SendError
    /\ \A k \in (chunk + 1) .. NumChunks, l \in Leader : received[l] \cap InChunk(k) = {}

\* A batch that one leader's connection has taken is not sent again, however
\* many of the other sends failed.
NoRetryAfterSuccess ==
  [][pc = "attempt" /\ pc' = "sending" /\ attempt > 0
       => \A i \in DOMAIN sends : sends[i] # "ok"]_vars

\* Every request is answered unless its client goes away or its handler panics,
\* also when no leader is known or none can be reached.
Answered == <>(pc \in {"success", "error", "gone", "panicked"})

\* "Transaction processed successfully": a success answer means that each
\* transaction of the request was sent to some leader.
SuccessMeansSent ==
  pc = "success" => \A i \in DOMAIN request.txns : \E l \in Leader : i \in received[l]

=============================================================================
