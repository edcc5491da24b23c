----------------------------- MODULE BatchSend ------------------------------
(***************************************************************************)
(* What a send of quik/nonblocking/quik_client.rs promises to whoever      *)
(* awaits it, with connecting, reconnecting and locking left out: the      *)
(* buffers of a batch leave one after the other over one connection, Ok    *)
(* comes with the last one, and after an error nothing more leaves.  A     *)
(* first buffer that is empty only warms the connection up.                *)
(*                                                                         *)
(* QuicClient implements this module; BlockingClient is built on it.       *)
(***************************************************************************)
EXTENDS Naturals, Sequences

CONSTANTS
  Sender,       \* who may have a send in progress
  Connection,   \* connections a send may use
  Batches       \* the batches that may be sent

VARIABLES
  outcome,   \* per sender: "none", "running", "ok" or "failed"
  batch,     \* the batch being sent, or the last one
  wire       \* what has left of it: <<buffer, connection>> in order

vars == <<outcome, batch, wire>>

Init ==
  /\ outcome = [s \in Sender |-> "none"]
  /\ batch = [s \in Sender |-> <<>>]
  /\ wire = [s \in Sender |-> <<>>]

\* Buffers left out at the front, and buffers that have to leave.
Skipped(b) == IF b # <<>> /\ Head(b) = "empty" THEN 1 ELSE 0
Due(b)     == Len(b) - Skipped(b)

Becomes(s, o, w) ==
  /\ outcome' = [outcome EXCEPT ![s] = o]
  /\ wire' = [wire EXCEPT ![s] = w]
  /\ UNCHANGED batch

\* A batch of no buffers is done at once.
Start(s, b) ==
  /\ outcome[s] # "running"
  /\ outcome' = [outcome EXCEPT ![s] = IF b = <<>> THEN "ok" ELSE "running"]
  /\ batch' = [batch EXCEPT ![s] = b]
  /\ wire' = [wire EXCEPT ![s] = <<>>]

\* The next buffer can leave on connection k, and what has left once it did.
MayLeave(s, k) ==
  /\ outcome[s] = "running"
  /\ Len(wire[s]) < Due(batch[s])
  /\ wire[s] # <<>> => wire[s][1][2] = k
Left(s, k) == Append(wire[s], <<Skipped(batch[s]) + Len(wire[s]) + 1, k>>)

Deliver(s, k) ==
  /\ MayLeave(s, k)
  /\ Becomes(s, IF Len(wire[s]) + 1 = Due(batch[s]) THEN "ok" ELSE "running", Left(s, k))

\* The batch was nothing but a warm-up.
Warm(s) ==
  /\ outcome[s] = "running"
  /\ Due(batch[s]) = 0
  /\ Becomes(s, "ok", wire[s])

\* An error, a panic, or the future is dropped.
Fail(s) == outcome[s] = "running" /\ Becomes(s, "failed", wire[s])

\* An error after some of the next buffer has left.
FailMidway(s, k) == MayLeave(s, k) /\ Becomes(s, "failed", Left(s, k))

\* For the user of sends: the results of those among S that are over are not
\* needed any more.  One that is not over goes on.
Forget(S) ==
  LET over == {s \in S : outcome[s] # "running"}
  IN  /\ outcome' = [s \in Sender |-> IF s \in over THEN "none" ELSE outcome[s]]
      /\ batch' = [s \in Sender |-> IF s \in over THEN <<>> ELSE batch[s]]
      /\ wire' = [s \in Sender |-> IF s \in over THEN <<>> ELSE wire[s]]

Ends(s) == Warm(s) \/ Fail(s) \/ \E k \in Connection : Deliver(s, k) \/ FailMidway(s, k)

Next == \E s \in Sender : Ends(s) \/ \E b \in Batches : Start(s, b)

Spec == Init /\ [][Next]_vars

=============================================================================
