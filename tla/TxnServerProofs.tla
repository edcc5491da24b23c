--------------------------- MODULE TxnServerProofs ---------------------------
(***************************************************************************)
(* Proofs about TxnServer, for any requests, leaders, errors and bounds:   *)
(* what a success answer stands for, and that no retry follows a success.  *)
(*                                                                         *)
(* What has left for a leader stays with it, so an outcome "ok" of a send  *)
(* is remembered in `received` for as long as the handler runs.  What a    *)
(* handler has to know besides is that a fan-out with a success in it is   *)
(* never followed by another one of the same batch.                        *)
(***************************************************************************)
EXTENDS TxnServer, SortedSetsProofs

Upcoming == request.kind = "upcoming"

SendOutcome == SendError \cup {"ok"}

Shape ==
  /\ request \in Requests
  /\ pc \in {"attempt", "sending", "sleeping", "success", "error", "gone", "panicked"}
  /\ chunk \in Nat \ {0} /\ attempt \in Nat
  /\ leaders \in LeaderLists \cup {<<>>}
  /\ sends \in [DOMAIN leaders -> SendError \cup {"ok", "pending", "waiting"}]
  /\ received = [l \in Leader |-> received[l]]

\* A send that succeeded has its leader keep the batch.
OkMeansReached ==
  pc = "sending" \/ Upcoming =>
    \A i \in DOMAIN sends : sends[i] = "ok" => InChunk(chunk) \subseteq received[leaders[i]]

\* The batches before this one were accepted.
EarlierAccepted == \A k \in 1 .. chunk - 1 : Accepted(k)

\* Between two fan-outs of a batch, the first one had no success.
NoneSucceeded ==
  pc \in {"attempt", "sleeping"} /\ attempt > 0 => \A i \in DOMAIN sends : sends[i] # "ok"

\* A call for the upcoming leaders is one batch, tried once.
OneAttempt ==
  /\ pc = "sending" => attempt > 0
  /\ Upcoming => chunk = 1
  /\ Upcoming /\ pc \in {"attempt", "sleeping"} => pc = "attempt" /\ attempt = 0 /\ leaders = <<>>

\* The leaders in turn: those that wait do so behind one that has not succeeded.
InTurnInv ==
  /\ \A i \in DOMAIN sends :
       sends[i] = "waiting" =>
         /\ Upcoming
         /\ \E j \in 1 .. i - 1 : sends[j] \notin {"ok", "waiting"}
  /\ Upcoming => \A i \in DOMAIN sends :
       sends[i] # "waiting" => \A j \in 1 .. i - 1 : sends[j] = "ok"

\* Only the leaders that were started hear of the transaction.
OnlyStartedHear ==
  Upcoming => \A l \in Leader : received[l] # {} =>
    \E i \in DOMAIN sends : leaders[i] = l /\ sends[i] # "waiting"

Inv ==
  /\ Shape /\ OkMeansReached /\ EarlierAccepted /\ NoneSucceeded /\ OneAttempt
  /\ InTurnInv /\ OnlyStartedHear
  /\ pc = "success" => SuccessMeansAccepted
  /\ pc = "success" /\ Upcoming => \A i \in DOMAIN sends : sends[i] = "ok"

-----------------------------------------------------------------------------
(* The parts of a request.                                                 *)

\* The list of leaders is a sequence of different leaders.
LEMMA LeadersAreSeq ==
  ASSUME leaders \in LeaderLists \cup {<<>>}
  PROVE  /\ Len(leaders) \in Nat /\ DOMAIN leaders = 1 .. Len(leaders)
         /\ \A i \in DOMAIN leaders : leaders[i] \in Leader
         /\ \A i, j \in DOMAIN leaders : leaders[i] = leaders[j] => i = j
<1>1. leaders \in Seq(Leader)
  <2>1. CASE leaders = <<>>
    BY <2>1
  <2>2. CASE leaders \in LeaderLists
    BY <2>2, LeadersAssumption
  <2> QED
    BY <2>1, <2>2
<1>2. \A i, j \in DOMAIN leaders : leaders[i] = leaders[j] => i = j
  <2>1. CASE leaders = <<>>
    BY <2>1
  <2>2. CASE leaders \in LeaderLists
    BY <2>2, LeadersAssumption DEF IsInjective
  <2> QED
    BY <2>1, <2>2
<1> QED
  BY <1>1, <1>2

\* Nothing of the request changes but which batch of it is sent.
LEMMA RequestStays ==
  ASSUME request' = request
  PROVE  /\ Decoded' = Decoded /\ NumChunks' = NumChunks /\ Upcoming' = Upcoming
         /\ \A k : Chunk(k)' = Chunk(k)
         /\ \A k, n : Carried(k, n)' = Carried(k, n)
         /\ \A k : InChunk(k)' = InChunk(k)
<1>1. Decoded' = Decoded /\ Upcoming' = Upcoming
  BY DEF Decoded, Upcoming
<1>2. NumChunks' = NumChunks
  BY <1>1 DEF NumChunks
<1>3. \A k : Chunk(k)' = Chunk(k)
  BY <1>1 DEF Chunk
<1>4. \A k, n : Carried(k, n)' = Carried(k, n)
  BY <1>3 DEF Carried
<1>5. \A k : InChunk(k)' = InChunk(k)
  BY <1>3, <1>4 DEF InChunk
<1> QED
  BY <1>1, <1>2, <1>3, <1>4, <1>5

\* A transaction sent to the upcoming leaders is a batch of its own.
LEMMA UpcomingIsOneChunk == Upcoming => NumChunks = 1
<1> SUFFICES ASSUME Upcoming PROVE NumChunks = 1
  OBVIOUS
<1>1. Len(Decoded) = 1
  BY DEF Upcoming, Decoded
<1>2. BatchSize \div BatchSize = 1
  BY BoundsAssumption
<1> QED
  BY <1>1, <1>2, BoundsAssumption DEF NumChunks

\* The words for an outcome differ.
LEMMA OutcomesDiffer ==
  /\ \A e \in SendError : e \notin {"ok", "pending", "waiting", "none"}
  /\ NoSends # "ok"
BY ErrorAssumption

-----------------------------------------------------------------------------
(* The actions.                                                            *)

LEMMA InitInv == Init => Inv
<1> SUFFICES ASSUME Init PROVE Inv
  OBVIOUS
<1>1. /\ leaders = <<>> /\ sends = <<>> /\ DOMAIN sends = {} /\ chunk = 1 /\ attempt = 0
      /\ pc \in {"attempt", "success"}
      /\ pc = "success" => NumChunks = 0
      /\ request \in Requests /\ received = [l \in Leader |-> {}]
  BY DEF Init
<1>2. Shape
  <2>1. received = [l \in Leader |-> received[l]]
    BY <1>1
  <2>2. sends \in [DOMAIN leaders -> SendError \cup {"ok", "pending", "waiting"}]
    BY <1>1
  <2>3. leaders \in LeaderLists \cup {<<>>} /\ chunk \in Nat \ {0} /\ attempt \in Nat
    BY <1>1
  <2> QED
    BY <1>1, <2>1, <2>2, <2>3 DEF Shape
<1>3. OkMeansReached /\ EarlierAccepted /\ NoneSucceeded /\ OneAttempt /\ InTurnInv
  <2>1. EarlierAccepted
    BY <1>1 DEF EarlierAccepted
  <2>2. OkMeansReached /\ NoneSucceeded /\ InTurnInv
    BY <1>1 DEF OkMeansReached, NoneSucceeded, InTurnInv
  <2>3. OneAttempt
    <3>1. pc \notin {"sending", "sleeping"}
      BY <1>1
    <3> QED
      BY <1>1, <3>1 DEF OneAttempt
  <2> QED
    BY <2>1, <2>2, <2>3
<1>4. OnlyStartedHear
  BY <1>1 DEF OnlyStartedHear
<1>5. pc = "success" => SuccessMeansAccepted
  BY <1>1 DEF SuccessMeansAccepted
<1> QED
  BY <1>1, <1>2, <1>3, <1>4, <1>5 DEF Inv

LEMMA AttemptInv == Inv /\ Attempt => Inv'
<1> SUFFICES ASSUME Inv, Attempt PROVE Inv'
  OBVIOUS
<1>1. /\ pc = "attempt" /\ pc' = "sending" /\ attempt' = attempt + 1
      /\ leaders' \in LeaderLists
      /\ sends' = [i \in DOMAIN leaders' |-> StartAt(i)]
      /\ UNCHANGED <<request, chunk, last_error, received>>
  BY DEF Attempt
<1>2. /\ DOMAIN leaders' = 1 .. Len(leaders') /\ Len(leaders') \in Nat
      /\ DOMAIN sends' = DOMAIN leaders'
      /\ \A i \in DOMAIN sends' : sends'[i] = (IF Upcoming /\ i > 1 THEN "waiting" ELSE "pending")
  <2>1. leaders' \in Seq(Leader)
    BY <1>1, LeadersAssumption
  <2> QED
    BY <1>1, <2>1 DEF StartAt, Upcoming
<1>3. Upcoming' = Upcoming
  BY <1>1 DEF Upcoming
<1>4. Shape'
  BY <1>1, <1>2 DEF Inv, Shape
<1>5. OkMeansReached'
  BY <1>2 DEF OkMeansReached
<1>6. EarlierAccepted'
  BY <1>1, RequestStays DEF Inv, EarlierAccepted, Accepted
<1>7. NoneSucceeded' /\ OneAttempt'
  BY <1>1, <1>3 DEF Inv, Shape, NoneSucceeded, OneAttempt
<1>8. InTurnInv'
  BY <1>2, <1>3 DEF InTurnInv
<1>9. OnlyStartedHear'
  <2>1. Upcoming => \A l \in Leader : received[l] = {}
    <3>1. ASSUME Upcoming PROVE DOMAIN sends = {}
      BY <1>1, <3>1 DEF Inv, Shape, OneAttempt
    <3> QED
      BY <3>1 DEF Inv, OnlyStartedHear
  <2> QED
    BY <1>1, <1>3, <2>1 DEF OnlyStartedHear
<1> QED
  BY <1>1, <1>4, <1>5, <1>6, <1>7, <1>8, <1>9 DEF Inv

LEMMA SendEndsInv ==
  ASSUME Inv, NEW i \in DOMAIN sends, NEW o \in SendOutcome, NEW n \in Int,
         o = "ok" => n = Len(Chunk(chunk)), SendEnds(i, o, n)
  PROVE  Inv'
<1>1. /\ pc = "sending" /\ sends[i] = "pending"
      /\ sends' = [j \in DOMAIN sends |->
                     CASE j = i -> o
                       [] j = i + 1 /\ sends[j] = "waiting" /\ o = "ok" -> "pending"
                       [] OTHER -> sends[j]]
      /\ received' = [received EXCEPT ![leaders[i]] = @ \cup Carried(chunk, n)]
      /\ UNCHANGED <<request, chunk, attempt, pc, last_error, leaders>>
  BY DEF SendEnds, handler
<1>2. /\ Len(leaders) \in Nat /\ DOMAIN sends = 1 .. Len(leaders) /\ leaders[i] \in Leader
      /\ \A j, k \in DOMAIN sends : leaders[j] = leaders[k] => j = k
      /\ \A j \in DOMAIN sends : leaders[j] \in Leader
  BY LeadersAreSeq DEF Inv, Shape
<1>3. /\ DOMAIN sends' = DOMAIN sends /\ sends'[i] = o
      /\ \A j \in DOMAIN sends \ {i} :
           sends'[j] = IF j = i + 1 /\ sends[j] = "waiting" /\ o = "ok" THEN "pending" ELSE sends[j]
  BY <1>1, <1>2
<1>4. o \notin {"waiting", "pending"}
  BY OutcomesDiffer DEF SendOutcome
<1>5. /\ received' = [l \in Leader |-> received'[l]]
      /\ received'[leaders[i]] = received[leaders[i]] \cup Carried(chunk, n)
      /\ \A l \in Leader \ {leaders[i]} : received'[l] = received[l]
      /\ \A l \in Leader : received[l] \subseteq received'[l]
  BY <1>1, <1>2 DEF Inv, Shape
<1>6. Upcoming' = Upcoming
  BY <1>1 DEF Upcoming
<1>7. Shape'
  <2>1. \A j \in DOMAIN sends : sends'[j] \in SendError \cup {"ok", "pending", "waiting"}
    BY <1>3 DEF Inv, Shape, SendOutcome
  <2>2. sends' \in [DOMAIN leaders -> SendError \cup {"ok", "pending", "waiting"}]
    BY <1>1, <2>1 DEF Inv, Shape
  <2> QED
    BY <1>1, <1>5, <2>2 DEF Inv, Shape
<1>8. EarlierAccepted'
  BY <1>1, <1>5, RequestStays DEF Inv, EarlierAccepted, Accepted
<1>9. OkMeansReached'
  <2>1. InChunk(chunk)' = InChunk(chunk)
    BY <1>1 DEF InChunk, Carried, Chunk, Decoded
  <2>2. o = "ok" => InChunk(chunk) \subseteq received'[leaders[i]]
    BY <1>5 DEF InChunk
  <2>3. ASSUME NEW j \in DOMAIN sends, sends'[j] = "ok"
        PROVE  InChunk(chunk) \subseteq received'[leaders[j]]
    <3>1. CASE j = i
      BY <1>3, <2>2, <2>3, <3>1
    <3>2. CASE j # i
      <4>1. sends[j] = "ok"
        BY <1>3, <2>3, <3>2
      <4> QED
        BY <1>1, <1>2, <1>5, <4>1 DEF Inv, OkMeansReached
    <3> QED
      BY <3>1, <3>2
  <2> QED
    BY <1>1, <1>3, <2>1, <2>3 DEF OkMeansReached
<1>10. NoneSucceeded' /\ OneAttempt'
  BY <1>1, <1>6 DEF Inv, NoneSucceeded, OneAttempt
<1>11. InTurnInv'
  <2>1. ASSUME NEW m \in DOMAIN sends, sends'[m] = "waiting"
        PROVE  Upcoming /\ \E j \in 1 .. m - 1 : sends'[j] \notin {"ok", "waiting"}
    <3>1. m # i /\ sends[m] = "waiting" /\ ~(m = i + 1 /\ o = "ok")
      BY <1>3, <1>4, <2>1
    <3>2. PICK j \in 1 .. m - 1 : sends[j] \notin {"ok", "waiting"}
      BY <3>1 DEF Inv, InTurnInv
    <3>3. Upcoming
      BY <3>1 DEF Inv, InTurnInv
    <3>4. CASE j # i
      BY <1>2, <1>3, <3>2, <3>3, <3>4
    <3>5. CASE j = i /\ o # "ok"
      BY <1>3, <1>4, <3>3, <3>5
    <3>6. CASE j = i /\ o = "ok"
      <4>1. i + 1 \in 1 .. m - 1 /\ i + 1 \in DOMAIN sends
        BY <1>2, <3>1, <3>2, <3>6
      <4>2. sends[i + 1] = "waiting"
        BY <1>1, <1>2, <3>3, <4>1 DEF Inv, InTurnInv
      <4>3. sends'[i + 1] = "pending"
        BY <1>2, <1>3, <3>6, <4>1, <4>2
      <4> QED
        BY <3>3, <4>1, <4>3
    <3> QED
      BY <3>4, <3>5, <3>6
  <2>2. ASSUME Upcoming, NEW m \in DOMAIN sends, sends'[m] # "waiting", NEW j \in 1 .. m - 1
        PROVE  sends'[j] = "ok"
    <3>1. CASE sends[m] # "waiting"
      <4>1. sends[j] = "ok" /\ j # i /\ j \in DOMAIN sends
        BY <1>1, <1>2, <2>2, <3>1 DEF Inv, InTurnInv
      <4> QED
        BY <1>3, <4>1
    <3>2. CASE sends[m] = "waiting"
      <4>1. m = i + 1 /\ o = "ok"
        BY <1>1, <1>3, <2>2, <3>2
      <4>2. CASE j = i
        BY <1>3, <4>1, <4>2
      <4>3. CASE j \in 1 .. i - 1
        <5>1. j # i /\ j \in DOMAIN sends
          BY <1>2, <4>3
        <5>2. sends[j] = "ok"
          BY <1>1, <2>2, <4>3 DEF Inv, InTurnInv
        <5> QED
          BY <1>3, <5>1, <5>2
      <4> QED
        BY <1>2, <4>1, <4>2, <4>3
    <3> QED
      BY <3>1, <3>2
  <2> QED
    BY <1>3, <1>6, <2>1, <2>2 DEF InTurnInv
<1>12. OnlyStartedHear'
  <2>1. ASSUME Upcoming, NEW l \in Leader, received'[l] # {}
        PROVE  \E j \in DOMAIN sends : leaders[j] = l /\ sends'[j] # "waiting"
    <3>1. CASE l = leaders[i]
      BY <1>3, <1>4, <3>1
    <3>2. CASE l # leaders[i]
      <4>1. PICK j \in DOMAIN sends : leaders[j] = l /\ sends[j] # "waiting"
        BY <1>5, <2>1, <3>2 DEF Inv, OnlyStartedHear
      <4> QED
        BY <1>3, <3>2, <4>1
    <3> QED
      BY <3>1, <3>2
  <2> QED
    BY <1>1, <1>3, <1>6, <2>1 DEF OnlyStartedHear
<1> QED
  BY <1>1, <1>7, <1>8, <1>9, <1>10, <1>11, <1>12 DEF Inv

\* A fan-out that succeeded had the batch accepted, by every leader if the
\* leaders were served in turn.
LEMMA ResultOkMeansAccepted ==
  ASSUME Inv, AllEnded, Result = "ok"
  PROVE  /\ Upcoming => \A i \in DOMAIN sends : sends[i] = "ok"
         /\ Accepted(chunk) \/ (Upcoming /\ leaders = <<>>)
<1>1. pc = "sending" /\ \A i \in DOMAIN sends : sends[i] # "pending"
  BY DEF AllEnded
<1>2. /\ Len(leaders) \in Nat /\ DOMAIN sends = 1 .. Len(leaders) /\ DOMAIN leaders = DOMAIN sends
      /\ \A j \in DOMAIN sends : leaders[j] \in Leader
  BY LeadersAreSeq DEF Inv, Shape
<1>3. ASSUME NEW i \in DOMAIN sends, sends[i] = "ok"
      PROVE  Accepted(chunk)
  BY <1>1, <1>2, <1>3 DEF Inv, OkMeansReached, Accepted
<1>4. CASE Upcoming
  <2>1. \A i \in DOMAIN sends : sends[i] \notin SendError
    <3> SUFFICES ASSUME NEW i \in DOMAIN sends, sends[i] \in SendError PROVE FALSE
      OBVIOUS
    <3>1. Result \in SendError
      BY <1>4 DEF Result, InTurn, Upcoming
    <3> QED
      BY <3>1, OutcomesDiffer
  <2>2. ASSUME NEW i \in DOMAIN sends PROVE sends[i] = "ok"
    <3>1. sends[i] \in SendError \cup {"ok", "pending", "waiting"}
      BY DEF Inv, Shape
    <3>2. CASE sends[i] = "waiting"
      <4>1. PICK j \in 1 .. i - 1 : sends[j] \notin {"ok", "waiting"}
        BY <3>2 DEF Inv, InTurnInv
      <4>2. j \in DOMAIN sends
        BY <1>2, <4>1
      <4>3. sends[j] \in SendError \cup {"ok", "pending", "waiting"}
        BY <4>2 DEF Inv, Shape
      <4> QED
        BY <1>1, <2>1, <4>1, <4>2, <4>3
    <3> QED
      BY <1>1, <2>1, <3>1, <3>2
  <2>3. leaders # <<>> => 1 \in DOMAIN sends
    <3>1. leaders \in Seq(Leader)
      <4>1. CASE leaders = <<>>
        BY <4>1
      <4>2. CASE leaders \in LeaderLists
        BY <4>2, LeadersAssumption
      <4> QED
        BY <4>1, <4>2 DEF Inv, Shape
    <3> QED
      BY <1>2, <3>1
  <2> QED
    BY <1>3, <1>4, <2>2, <2>3
<1>5. CASE ~Upcoming
  <2>1. Result = Aggregate(sends)
    BY <1>5 DEF Result, Upcoming
  <2>2. \E i \in DOMAIN sends : sends[i] = "ok"
    <3> SUFFICES ASSUME \A i \in DOMAIN sends : sends[i] # "ok" PROVE FALSE
      OBVIOUS
    <3>1. CASE sends = <<>>
      BY <2>1, <3>1, OutcomesDiffer DEF Aggregate
    <3>2. CASE sends # <<>>
      <4>1. sends[1] = "ok"
        BY <2>1, <3>2 DEF Aggregate
      <4>2. 1 \in DOMAIN sends
        <5>1. Len(leaders) # 0
          BY <1>2, <3>2 DEF Inv, Shape
        <5> QED
          BY <1>2, <5>1
      <4> QED
        BY <4>1, <4>2
    <3> QED
      BY <3>1, <3>2
  <2> QED
    BY <1>3, <1>5, <2>2
<1> QED
  BY <1>4, <1>5

LEMMA AttemptSucceedsInv == Inv /\ AttemptSucceeds => Inv'
<1> SUFFICES ASSUME Inv, AttemptSucceeds PROVE Inv'
  OBVIOUS
<1>1. /\ AllEnded /\ Result = "ok" /\ pc = "sending"
      /\ UNCHANGED <<request, last_error, leaders, sends, received>>
      /\ \/ chunk = NumChunks /\ pc' = "success" /\ UNCHANGED <<chunk, attempt>>
         \/ chunk < NumChunks /\ pc' = "attempt" /\ chunk' = chunk + 1 /\ attempt' = 0
  BY DEF AttemptSucceeds, AllEnded
<1>2. /\ Upcoming => \A i \in DOMAIN sends : sends[i] = "ok"
      /\ Accepted(chunk) \/ (Upcoming /\ leaders = <<>>)
  BY <1>1, ResultOkMeansAccepted
<1>3. Upcoming' = Upcoming /\ NumChunks' = NumChunks
  BY <1>1, RequestStays
<1>4. \A k : Accepted(k)' <=> Accepted(k)
  BY <1>1 DEF Accepted, InChunk, Carried, Chunk, Decoded
<1>5. chunk \in Nat \ {0} /\ attempt \in Nat
  BY DEF Inv, Shape
<1>6. Upcoming => chunk = NumChunks
  <2>1. Upcoming => NumChunks = 1
    BY UpcomingIsOneChunk
  <2> QED
    BY <1>1, <1>5, <2>1
<1>7. Shape'
  BY <1>1, <1>5 DEF Inv, Shape
<1>8. InTurnInv' /\ OnlyStartedHear'
  BY <1>1, <1>3 DEF Inv, InTurnInv, OnlyStartedHear
<1>9. CASE chunk = NumChunks /\ pc' = "success" /\ UNCHANGED <<chunk, attempt>>
  <2>1. EarlierAccepted'
    BY <1>4, <1>9 DEF Inv, EarlierAccepted
  <2>2. OkMeansReached'
    <3>1. InChunk(chunk)' = InChunk(chunk)
      BY <1>1, <1>9 DEF InChunk, Carried, Chunk, Decoded
    <3> QED
      BY <1>1, <1>3, <1>9, <3>1 DEF Inv, OkMeansReached
  <2>3. NoneSucceeded' /\ OneAttempt'
    BY <1>3, <1>9 DEF Inv, NoneSucceeded, OneAttempt
  <2>4. SuccessMeansAccepted'
    <3>1. CASE Upcoming /\ leaders = <<>>
      BY <1>1, <3>1 DEF SuccessMeansAccepted, Upcoming
    <3>2. CASE Accepted(chunk)
      <4>1. \A k \in 1 .. NumChunks : Accepted(k)
        <5>1. \A k \in 1 .. chunk - 1 : Accepted(k)
          BY DEF Inv, EarlierAccepted
        <5>2. \A k \in 1 .. NumChunks : k \in 1 .. chunk - 1 \/ k = chunk
          BY <1>5, <1>9
        <5> QED
          BY <3>2, <5>1, <5>2
      <4> QED
        BY <1>3, <1>4, <4>1 DEF SuccessMeansAccepted
    <3> QED
      BY <1>2, <3>1, <3>2
  <2> QED
    BY <1>1, <1>2, <1>3, <1>7, <1>8, <2>1, <2>2, <2>3, <2>4 DEF Inv
<1>10. CASE chunk < NumChunks /\ pc' = "attempt" /\ chunk' = chunk + 1 /\ attempt' = 0
  <2>1. ~Upcoming
    BY <1>5, <1>6, <1>10
  <2>2. EarlierAccepted'
    <3>1. \A k \in 1 .. chunk : Accepted(k)
      <4>1. \A k \in 1 .. chunk - 1 : Accepted(k)
        BY DEF Inv, EarlierAccepted
      <4>2. \A k \in 1 .. chunk : k \in 1 .. chunk - 1 \/ k = chunk
        BY <1>5
      <4> QED
        BY <1>2, <2>1, <4>1, <4>2
    <3>2. chunk' - 1 = chunk
      BY <1>5, <1>10
    <3> QED
      BY <1>4, <3>1, <3>2 DEF EarlierAccepted
  <2>3. OkMeansReached' /\ NoneSucceeded' /\ OneAttempt'
    BY <1>3, <1>10, <2>1 DEF OkMeansReached, NoneSucceeded, OneAttempt
  <2> QED
    BY <1>7, <1>8, <1>10, <2>2, <2>3 DEF Inv
<1> QED
  BY <1>1, <1>9, <1>10

LEMMA AttemptFailsInv == Inv /\ AttemptFails => Inv'
<1> SUFFICES ASSUME Inv, AttemptFails PROVE Inv'
  OBVIOUS
<1>1. /\ pc = "sending" /\ Result # "ok"
      /\ pc' = (IF attempt < Attempts THEN Retry ELSE "error")
      /\ UNCHANGED <<request, chunk, attempt, leaders, sends, received>>
  BY DEF AttemptFails, AllEnded, handler
<1>2. /\ Upcoming' = Upcoming /\ attempt \in Nat /\ attempt > 0
      /\ pc' \in {"sleeping", "attempt", "error"}
  BY <1>1 DEF Upcoming, Inv, Shape, OneAttempt, Retry
<1>3. Upcoming => pc' = "error"
  BY <1>1, <1>2 DEF Upcoming, Attempts
<1>4. ~Upcoming => \A i \in DOMAIN sends : sends[i] # "ok"
  <2> SUFFICES ASSUME ~Upcoming, NEW i \in DOMAIN sends, sends[i] = "ok" PROVE FALSE
    OBVIOUS
  <2>1. Result = "ok"
    BY DEF Result, Upcoming, Aggregate
  <2> QED
    BY <1>1, <2>1
<1>5. Shape'
  BY <1>1, <1>2 DEF Inv, Shape
<1>6. NoneSucceeded' /\ OneAttempt'
  BY <1>1, <1>2, <1>3, <1>4 DEF Inv, NoneSucceeded, OneAttempt
<1>7. OkMeansReached' /\ EarlierAccepted'
  <2>1. \A k : InChunk(k)' = InChunk(k)
    BY <1>1, RequestStays
  <2>2. InChunk(chunk)' = InChunk(chunk)
    BY <1>1 DEF InChunk, Carried, Chunk, Decoded
  <2> QED
    BY <1>1, <1>2, <2>1, <2>2 DEF Inv, OkMeansReached, EarlierAccepted, Accepted
<1>8. InTurnInv' /\ OnlyStartedHear'
  BY <1>1, <1>2 DEF Inv, InTurnInv, OnlyStartedHear
<1> QED
  BY <1>2, <1>5, <1>6, <1>7, <1>8 DEF Inv

\* Only the place of the handler changes.
LEMMA HandlerMovesInv ==
  ASSUME Inv, UNCHANGED <<request, chunk, attempt, leaders, sends, received>>,
         (pc = "sleeping" /\ pc' = "attempt") \/ pc' \in {"gone", "panicked"}
  PROVE  Inv'
<1>1. Upcoming' = Upcoming
  BY DEF Upcoming
<1>2. Shape'
  BY DEF Inv, Shape
<1>3. NoneSucceeded' /\ OneAttempt'
  BY <1>1 DEF Inv, NoneSucceeded, OneAttempt
<1>4. OkMeansReached' /\ EarlierAccepted'
  <2>1. \A k : InChunk(k)' = InChunk(k)
    BY RequestStays
  <2>2. InChunk(chunk)' = InChunk(chunk)
    BY DEF InChunk, Carried, Chunk, Decoded
  <2> QED
    BY <1>1, <2>1, <2>2 DEF Inv, OkMeansReached, EarlierAccepted, Accepted
<1>5. InTurnInv' /\ OnlyStartedHear'
  BY <1>1 DEF Inv, InTurnInv, OnlyStartedHear
<1> QED
  BY <1>2, <1>3, <1>4, <1>5 DEF Inv

-----------------------------------------------------------------------------

LEMMA NextInv == Inv /\ [Next]_vars => Inv'
<1> SUFFICES ASSUME Inv, [Next]_vars PROVE Inv'
  OBVIOUS
<1>1. ASSUME NEW i \in DOMAIN sends, SendSucceeds(i) \/ SendFails(i)
      PROVE  Inv'
  <2>1. CASE SendFails(i)
    <3>1. PICK e \in SendError, n \in 0 .. Len(Chunk(chunk)) : SendEnds(i, e, n)
      BY <2>1 DEF SendFails
    <3>2. e # "ok"
      BY OutcomesDiffer
    <3> QED
      BY <3>1, <3>2, SendEndsInv DEF SendOutcome
  <2>2. CASE SendSucceeds(i)
    BY <2>2, SendEndsInv DEF SendSucceeds, SendOutcome
  <2> QED
    BY <1>1, <2>1, <2>2
<1>2. CASE Slept \/ Disconnect \/ Panic
  BY <1>2, HandlerMovesInv DEF Slept, Disconnect, Panic, SendPanics, handler
<1>3. CASE UNCHANGED vars
  <2>1. UNCHANGED <<request, chunk, attempt, pc, leaders, sends, received>>
    BY <1>3 DEF vars, handler
  <2>2. Upcoming' = Upcoming /\ NumChunks' = NumChunks /\ \A k : InChunk(k)' = InChunk(k)
    BY <2>1, RequestStays
  <2>3. InChunk(chunk)' = InChunk(chunk)
    BY <2>1 DEF InChunk, Carried, Chunk, Decoded
  <2>4. \A k : Accepted(k)' <=> Accepted(k)
    BY <2>1, <2>2 DEF Accepted
  <2>5. Shape' /\ NoneSucceeded' /\ OneAttempt' /\ InTurnInv' /\ OnlyStartedHear'
    BY <2>1, <2>2 DEF Inv, Shape, NoneSucceeded, OneAttempt, InTurnInv, OnlyStartedHear
  <2>6. OkMeansReached' /\ EarlierAccepted'
    BY <2>1, <2>2, <2>3, <2>4 DEF Inv, OkMeansReached, EarlierAccepted
  <2>7. pc' = "success" => SuccessMeansAccepted'
    BY <2>1, <2>2, <2>4 DEF Inv, SuccessMeansAccepted
  <2>8. pc' = "success" /\ Upcoming' => \A i \in DOMAIN sends' : sends'[i] = "ok"
    BY <2>1, <2>2 DEF Inv
  <2> QED
    BY <2>5, <2>6, <2>7, <2>8 DEF Inv
<1> QED
  BY <1>1, <1>2, <1>3, AttemptInv, AttemptSucceedsInv, AttemptFailsInv DEF Next, Send

LEMMA Invariance == Spec => []Inv
BY InitInv, NextInv, PTL DEF Spec

\* What the handler keeps of the attempts it made.
AttemptsInv ==
  /\ last_error \in Errors \cup {"none"}
  /\ attempt <= Attempts
  /\ pc \in {"attempt", "sleeping"} => attempt < Attempts

\* A fan-out that failed leaves an error: the first, or that nobody was there.
LEMMA ResultIsError ==
  ASSUME Inv, AllEnded, Result # "ok"
  PROVE  Result \in Errors
<1>1. CASE Upcoming
  <2>1. Result = InTurn(sends)
    BY <1>1 DEF Result, Upcoming
  <2>2. \E i \in DOMAIN sends : sends[i] \in SendError
    BY <2>1 DEF InTurn
  <2>3. \E e \in SendError : \E i \in DOMAIN sends : sends[i] = e
    BY <2>2
  <2> QED
    BY <2>1, <2>2, <2>3 DEF InTurn, Errors
<1>2. CASE ~Upcoming
  <2>1. Result = Aggregate(sends)
    BY <1>2 DEF Result, Upcoming
  <2>2. ~\E i \in DOMAIN sends : sends[i] = "ok"
    BY <2>1 DEF Aggregate
  <2>3. CASE sends = <<>>
    BY <2>1, <2>2, <2>3 DEF Aggregate, Errors
  <2>4. CASE sends # <<>>
    <3>1. Result = sends[1]
      BY <2>1, <2>2, <2>4 DEF Aggregate
    <3>2. 1 \in DOMAIN sends
      BY <2>4, LeadersAssumption DEF Inv, Shape
    <3>3. sends[1] \notin {"ok", "pending", "waiting"}
      BY <1>2, <2>2, <3>2 DEF AllEnded, Inv, InTurnInv
    <3> QED
      BY <3>1, <3>2, <3>3 DEF Inv, Shape, Errors
  <2> QED
    BY <2>3, <2>4
<1> QED
  BY <1>1, <1>2

LEMMA AttemptsKept ==
  ASSUME Inv, AttemptsInv, [Next]_vars
  PROVE  AttemptsInv'
<1> USE BoundsAssumption
<1>1. Attempts \in Nat \ {0} /\ attempt \in Nat
  BY DEF Attempts, Inv, Shape
<1>2. Attempts' = Attempts
  <2>1. request' = request
    BY DEF Next, vars, handler, Attempt, Send, SendSucceeds, SendFails, SendEnds,
           AttemptSucceeds, AttemptFails, Slept, Disconnect, Panic, SendPanics
  <2> QED
    BY <2>1 DEF Attempts
<1>3. CASE Attempt
  BY <1>1, <1>2, <1>3 DEF Attempt, AttemptsInv
<1>4. CASE Send
  BY <1>1, <1>2, <1>4 DEF Send, SendSucceeds, SendFails, SendEnds, handler, AttemptsInv
<1>5. CASE AttemptSucceeds
  BY <1>1, <1>2, <1>5 DEF AttemptSucceeds, AttemptsInv
<1>6. CASE AttemptFails
  <2>1. last_error' \in Errors
    BY <1>6, ResultIsError DEF AttemptFails
  <2>2. attempt' = attempt /\ pc' = IF attempt < Attempts THEN Retry ELSE "error"
    BY <1>6 DEF AttemptFails, handler
  <2> QED
    BY <1>1, <1>2, <2>1, <2>2 DEF AttemptsInv, Retry
<1>7. CASE Slept \/ Disconnect \/ Panic \/ UNCHANGED vars
  BY <1>1, <1>2, <1>7 DEF Slept, Disconnect, Panic, SendPanics, vars, handler, AttemptsInv
<1> QED
  BY <1>3, <1>4, <1>5, <1>6, <1>7 DEF Next

\* TypeOK: the types, and with them that each batch is attempted at most
\* MaxRetries times.
THEOREM TypesHold == Spec => []TypeOK
<1>1. Init => AttemptsInv
  BY BoundsAssumption DEF Init, AttemptsInv, Attempts
<1>2. ASSUME Inv, AttemptsInv PROVE TypeOK
  <2>1. attempt \in 0 .. MaxRetries
    BY <1>2, BoundsAssumption DEF Inv, Shape, AttemptsInv, Attempts
  <2> QED
    BY <1>2, <2>1 DEF Inv, Shape, AttemptsInv, TypeOK
<1>3. Inv /\ AttemptsInv /\ [Next]_vars => AttemptsInv'
  BY AttemptsKept
<1> QED
  BY <1>1, <1>2, <1>3, Invariance, PTL DEF Spec

\* SuccessMeansAccepted: whatever fails and is retried, a success answer means
\* that each batch reached some leader in full.
THEOREM SuccessIsAccepted == Spec => []SuccessMeansAccepted
<1>1. Inv => SuccessMeansAccepted
  BY DEF Inv, SuccessMeansAccepted
<1> QED
  BY <1>1, Invariance, PTL

\* NoRetryAfterSuccess: no fan-out of a batch follows one in which a leader
\* accepted it.
THEOREM NeverRetriedAfterSuccess == Spec => NoRetryAfterSuccess
<1>1. ASSUME Inv, [Next]_vars
      PROVE  [pc = "attempt" /\ pc' = "sending" /\ attempt > 0
                => \A i \in DOMAIN sends : sends[i] # "ok"]_vars
  BY <1>1 DEF Inv, NoneSucceeded
<1> QED
  BY <1>1, Invariance, PTL DEF Spec, NoRetryAfterSuccess

\* UpcomingReachedInTurn: a leader hears of the transaction only after all the
\* leaders before it have taken it whole.
THEOREM UpcomingServedInTurn == Spec => []UpcomingReachedInTurn
<1>1. ASSUME Inv PROVE UpcomingReachedInTurn
  <2> SUFFICES ASSUME Upcoming PROVE UpcomingReachedInTurn
    BY DEF UpcomingReachedInTurn, Upcoming
  <2>1. chunk = 1
    BY <1>1 DEF Inv, OneAttempt
  <2>2. /\ Len(leaders) \in Nat /\ DOMAIN leaders = 1 .. Len(leaders) /\ DOMAIN sends = DOMAIN leaders
        /\ \A i \in DOMAIN leaders : leaders[i] \in Leader
        /\ \A i, j \in DOMAIN leaders : leaders[i] = leaders[j] => i = j
    BY <1>1, LeadersAreSeq DEF Inv, Shape
  <2>3. \A i \in DOMAIN leaders : sends[i] = "ok" => InChunk(1) \subseteq received[leaders[i]]
    BY <1>1, <2>1, <2>2 DEF Inv, OkMeansReached
  <2>4. ASSUME NEW i \in DOMAIN leaders, received[leaders[i]] # {}, NEW j \in 1 .. i - 1
        PROVE  InChunk(1) \subseteq received[leaders[j]]
    <3>1. sends[i] # "waiting"
      BY <1>1, <2>2, <2>4 DEF Inv, OnlyStartedHear
    <3>2. sends[j] = "ok"
      BY <1>1, <2>2, <2>4, <3>1 DEF Inv, InTurnInv
    <3>3. j \in DOMAIN leaders
      BY <2>2
    <3> QED
      BY <2>3, <3>2, <3>3
  <2>5. pc = "success" => \A i \in DOMAIN leaders : InChunk(1) \subseteq received[leaders[i]]
    BY <1>1, <2>2, <2>3 DEF Inv
  <2> QED
    BY <2>4, <2>5 DEF UpcomingReachedInTurn
<1> QED
  BY <1>1, Invariance, PTL

-----------------------------------------------------------------------------
(* The batches do not overlap, so what a leader holds tells which of them  *)
(* were sent.                                                              *)

\* What is sent of a request is each of its transactions at most once.
LEMMA DecodedIsInjective ==
  ASSUME request \in Requests
  PROVE  /\ Len(Decoded) \in Nat /\ Decoded \in Seq(Int)
         /\ \A i, j \in 1 .. Len(Decoded) : Decoded[i] = Decoded[j] => i = j
<1>1. CASE request.kind = "batch"
  <2> DEFINE D == DOMAIN request.txns
             Places == {i \in D : request.txns[i] = "base64"}
  <2>1. request.txns \in Seq({"base64", "undecodable"})
    BY RequestsAssumption DEF Request
  <2>2. D = 1 .. Len(request.txns) /\ Len(request.txns) \in Nat
    BY <2>1
  <2>3. IsFiniteSet(D)
    BY <2>2, FS_Interval
  <2>4. Places \in SUBSET Int /\ IsFiniteSet(Places)
    BY <2>2, <2>3, FS_Subset
  <2>5. Decoded = Ascending(Places)
    BY <1>1 DEF Decoded, Decodable
  <2> HIDE DEF D, Places
  <2>6. /\ Cardinality(Places) \in Nat
        /\ DOMAIN Ascending(Places) = 1 .. Cardinality(Places)
        /\ \A k \in 1 .. Cardinality(Places) : Ascending(Places)[k] \in Places
        /\ \A j, k \in 1 .. Cardinality(Places) :
             j < k => Ascending(Places)[j] < Ascending(Places)[k]
    BY <2>4, AscendingIsSorted
  <2>7. Ascending(Places) \in [1 .. Cardinality(Places) -> Int]
    BY <2>4, <2>6 DEF Ascending
  <2>8. Decoded \in Seq(Int) /\ Len(Decoded) = Cardinality(Places)
    BY <2>5, <2>6, <2>7
  <2>9. ASSUME NEW i \in 1 .. Len(Decoded), NEW j \in 1 .. Len(Decoded), Decoded[i] = Decoded[j]
        PROVE  i = j
    <3>1. Decoded[i] \in Int /\ Decoded[j] \in Int
      BY <2>8
    <3>2. ~(i < j) /\ ~(j < i)
      BY <2>5, <2>6, <2>8, <2>9, <3>1
    <3> QED
      BY <2>6, <2>8, <3>2
  <2> QED
    BY <2>6, <2>8, <2>9
<1>2. CASE request.kind # "batch"
  <2>1. Decoded = <<1>>
    BY <1>2 DEF Decoded
  <2> QED
    BY <2>1
<1> QED
  BY <1>1, <1>2

\* Where the k-th batch begins and ends.
LEMMA ChunkBounds ==
  ASSUME request \in Requests, NEW k \in 1 .. NumChunks
  PROVE  /\ (k - 1) * BatchSize \in Nat /\ (k - 1) * BatchSize < Len(Decoded)
         /\ k * BatchSize = (k - 1) * BatchSize + BatchSize
<1> DEFINE L == Len(Decoded)
           B == BatchSize
<1>1. L \in Nat /\ B \in Nat \ {0}
  BY DecodedIsInjective, BoundsAssumption
<1>2. k <= (L + B - 1) \div B /\ k \in Nat \ {0}
  BY <1>1 DEF NumChunks
<1> HIDE DEF L, B
<1>3. \A n \in Nat : B * (n \div B) <= n
  BY <1>1
<1>4. B * ((L + B - 1) \div B) <= L + B - 1 /\ (L + B - 1) \div B \in Int
  BY <1>1, <1>3
<1>5. \A x, y \in Int : x <= y => x * B <= y * B
  BY <1>1
<1>6. k * B <= L + B - 1
  <2>1. k * B <= ((L + B - 1) \div B) * B
    BY <1>2, <1>4, <1>5
  <2> QED
    BY <1>1, <1>2, <1>4, <2>1
<1>7. k * B = (k - 1) * B + B /\ (k - 1) * B \in Int
  BY <1>1, <1>2
<1>8. 0 <= (k - 1) * B
  BY <1>1, <1>2, <1>5
<1>9. (k - 1) * B < L
  BY <1>1, <1>2, <1>6, <1>7
<1> QED
  BY <1>7, <1>8, <1>9 DEF L, B

\* The transactions of the k-th batch are those from its beginning to its end.
LEMMA ChunkIsInPlace ==
  ASSUME request \in Requests, NEW k \in 1 .. NumChunks
  PROVE  /\ Len(Chunk(k)) \in Nat
         /\ \A i \in 1 .. Len(Chunk(k)) :
              /\ (k - 1) * BatchSize + i \in 1 .. Len(Decoded)
              /\ i <= BatchSize
              /\ Chunk(k)[i] = Decoded[(k - 1) * BatchSize + i]
<1> DEFINE L == Len(Decoded)
           from == (k - 1) * BatchSize
           ends == Min({k * BatchSize, L})
<1>1. /\ L \in Nat /\ Decoded \in Seq(Int) /\ BatchSize \in Nat \ {0}
      /\ from \in Nat /\ from < L /\ k * BatchSize = from + BatchSize
  BY DecodedIsInjective, ChunkBounds, BoundsAssumption
<1>2. ends \in Nat /\ from < ends /\ ends <= L /\ ends <= from + BatchSize
  <2>1. \E x \in {k * BatchSize, L} : \A y \in {k * BatchSize, L} : x <= y
    <3> HIDE DEF L, from
    <3>1. CASE k * BatchSize <= L
      BY <1>1, <3>1
    <3>2. CASE L <= k * BatchSize
      BY <1>1, <3>2
    <3> QED
      BY <1>1, <3>1, <3>2
  <2>2. ends \in {k * BatchSize, L} /\ \A y \in {k * BatchSize, L} : ends <= y
    BY <2>1 DEF Min
  <2> QED
    BY <1>1, <2>2
<1>3. Chunk(k) = SubSeq(Decoded, from + 1, ends)
  BY DEF Chunk
<1> HIDE DEF L, from, ends
<1>4. /\ Len(SubSeq(Decoded, from + 1, ends)) = ends - from
      /\ \A i \in 1 .. ends - from : SubSeq(Decoded, from + 1, ends)[i] = Decoded[from + i]
  BY <1>1, <1>2 DEF L
<1>5. /\ Len(Chunk(k)) \in Nat
      /\ \A i \in 1 .. Len(Chunk(k)) :
           from + i \in 1 .. L /\ i <= BatchSize /\ Chunk(k)[i] = Decoded[from + i]
  BY <1>1, <1>2, <1>3, <1>4
<1> QED
  BY <1>5 DEF L, from

\* Two batches have no transaction in common.
LEMMA ChunksAreDisjoint ==
  ASSUME request \in Requests, NEW j \in 1 .. NumChunks, NEW k \in 1 .. NumChunks, j < k
  PROVE  InChunk(j) \cap InChunk(k) = {}
<1> SUFFICES ASSUME NEW t \in InChunk(j), t \in InChunk(k) PROVE FALSE
  OBVIOUS
<1>1. PICK a \in 1 .. Len(Chunk(j)) : t = Chunk(j)[a]
  BY DEF InChunk, Carried
<1>2. PICK b \in 1 .. Len(Chunk(k)) : t = Chunk(k)[b]
  BY DEF InChunk, Carried
<1>3. /\ (j - 1) * BatchSize + a \in 1 .. Len(Decoded) /\ a <= BatchSize
      /\ t = Decoded[(j - 1) * BatchSize + a] /\ Len(Chunk(j)) \in Nat
  BY <1>1, ChunkIsInPlace
<1>4. /\ (k - 1) * BatchSize + b \in 1 .. Len(Decoded)
      /\ t = Decoded[(k - 1) * BatchSize + b] /\ Len(Chunk(k)) \in Nat
  BY <1>2, ChunkIsInPlace
<1>5. (j - 1) * BatchSize + a = (k - 1) * BatchSize + b
  BY <1>3, <1>4, DecodedIsInjective
<1>6. /\ (j - 1) * BatchSize \in Nat /\ (k - 1) * BatchSize \in Nat
      /\ j * BatchSize = (j - 1) * BatchSize + BatchSize
  BY ChunkBounds
<1>7. j * BatchSize <= (k - 1) * BatchSize
  <2>1. \A x, y \in Int : x <= y => x * BatchSize <= y * BatchSize
    BY BoundsAssumption
  <2>2. j \in Int /\ k - 1 \in Int /\ j <= k - 1
    BY SMT
  <2> QED
    BY <2>1, <2>2
<1>8. b >= 1 /\ a \in Int /\ b \in Int /\ BatchSize \in Nat
  BY <1>3, <1>4, BoundsAssumption
<1> QED
  BY <1>3, <1>5, <1>6, <1>7, <1>8

\* What has left for a leader is of the batches up to this one.
LaterUntouched ==
  \A k \in (chunk + 1) .. NumChunks, l \in Leader : received[l] \cap InChunk(k) = {}

LEMMA LaterKept ==
  ASSUME Inv, LaterUntouched, [Next]_vars
  PROVE  LaterUntouched'
<1>1. request' = request
  BY DEF Next, vars, handler, Attempt, Send, SendSucceeds, SendFails, SendEnds,
         AttemptSucceeds, AttemptFails, Slept, Disconnect, Panic, SendPanics
<1>2. NumChunks' = NumChunks /\ \A k : InChunk(k)' = InChunk(k)
  BY <1>1, RequestStays
<1>3. chunk \in Nat \ {0} /\ request \in Requests
  BY DEF Inv, Shape
<1>4. ASSUME NEW i \in DOMAIN sends, NEW o, NEW n \in Int, n <= Len(Chunk(chunk)),
             SendEnds(i, o, n)
      PROVE  LaterUntouched'
  <2>1. /\ chunk' = chunk
        /\ received' = [received EXCEPT ![leaders[i]] = @ \cup Carried(chunk, n)]
    BY <1>4 DEF SendEnds, handler
  <2> SUFFICES ASSUME NEW k \in (chunk + 1) .. NumChunks, NEW l \in Leader
               PROVE  received'[l] \cap InChunk(k) = {}
    BY <1>2, <2>1 DEF LaterUntouched
  <2>2. received[l] \cap InChunk(k) = {}
    BY DEF LaterUntouched
  <2>3. received'[l] \subseteq received[l] \cup Carried(chunk, n)
    BY <2>1 DEF Inv, Shape
  <2>4. NumChunks \in Int
    BY <1>3, DecodedIsInjective, BoundsAssumption DEF NumChunks
  <2>5. chunk \in 1 .. NumChunks /\ k \in 1 .. NumChunks /\ chunk < k
    BY <1>3, <2>4
  <2>6. Len(Chunk(chunk)) \in Nat
    BY <1>3, <2>5, ChunkIsInPlace
  <2>7. Carried(chunk, n) \subseteq InChunk(chunk)
    BY <1>4, <2>6 DEF InChunk, Carried
  <2>8. InChunk(chunk) \cap InChunk(k) = {}
    BY <1>3, <2>5, ChunksAreDisjoint
  <2> QED
    BY <2>2, <2>3, <2>7, <2>8
<1>5. CASE Send
  <2>1. PICK i \in DOMAIN sends : SendSucceeds(i) \/ SendFails(i)
    BY <1>5 DEF Send
  <2>2. ASSUME chunk \notin 1 .. NumChunks
        PROVE  LaterUntouched'
    <3>1. chunk' = chunk
      BY <2>1 DEF SendSucceeds, SendFails, SendEnds, handler
    <3>2. NumChunks \in Int
      BY <1>3, DecodedIsInjective, BoundsAssumption DEF NumChunks
    <3>3. (chunk + 1) .. NumChunks = {}
      BY <1>3, <2>2, <3>2
    <3> QED
      BY <1>2, <3>1, <3>3 DEF LaterUntouched
  <2>3. CASE chunk \in 1 .. NumChunks
    <3>1. Len(Chunk(chunk)) \in Nat
      BY <1>3, <2>3, ChunkIsInPlace
    <3>2. CASE SendSucceeds(i)
      BY <1>4, <3>1, <3>2 DEF SendSucceeds
    <3>3. CASE SendFails(i)
      <4>1. PICK e \in SendError, n \in 0 .. Len(Chunk(chunk)) : SendEnds(i, e, n)
        BY <3>3 DEF SendFails
      <4>2. n \in Int /\ n <= Len(Chunk(chunk))
        BY <3>1
      <4> QED
        BY <1>4, <4>1, <4>2
    <3> QED
      BY <2>1, <3>2, <3>3
  <2> QED
    BY <2>2, <2>3
<1>6. CASE Attempt \/ AttemptSucceeds \/ AttemptFails \/ Slept \/ Disconnect \/ Panic \/ UNCHANGED vars
  <2>1. received' = received /\ chunk' \in {chunk, chunk + 1}
    BY <1>6 DEF Attempt, AttemptSucceeds, AttemptFails, Slept, Disconnect, Panic, SendPanics, vars,
           handler
  <2>2. NumChunks \in Int
    BY <1>3, DecodedIsInjective, BoundsAssumption DEF NumChunks
  <2>3. chunk' \in Nat /\ chunk <= chunk'
    BY <1>3, <2>1
  <2>4. \A c \in Nat : chunk <= c => \A k \in (c + 1) .. NumChunks : k \in (chunk + 1) .. NumChunks
    BY <1>3, <2>2
  <2> QED
    BY <1>2, <2>1, <2>3, <2>4 DEF LaterUntouched
<1> QED
  BY <1>5, <1>6 DEF Next

LEMMA LaterInvariance == Spec => []LaterUntouched
<1>1. Init => LaterUntouched
  BY DEF Init, LaterUntouched
<1>2. Inv /\ LaterUntouched /\ [Next]_vars => LaterUntouched'
  BY LaterKept
<1> QED
  BY <1>1, <1>2, Invariance, PTL DEF Spec

\* BatchesInOrder: whatever fails, is retried or dropped, nothing of a batch
\* leaves before all the batches in front of it have been accepted in full.
THEOREM BatchesLeaveInOrder == Spec => []BatchesInOrder
<1>1. ASSUME Inv, LaterUntouched PROVE BatchesInOrder
  <2> SUFFICES ASSUME NEW k \in 1 .. NumChunks, NEW l \in Leader,
                      received[l] \cap InChunk(k) # {}, NEW j \in 1 .. k - 1
               PROVE  Accepted(j)
    BY DEF BatchesInOrder
  <2>1. chunk \in Nat \ {0} /\ k \in Int /\ j \in Int
    BY <1>1 DEF Inv, Shape
  <2>2. k \notin (chunk + 1) .. NumChunks
    BY <1>1 DEF LaterUntouched
  <2>3. j \in 1 .. chunk - 1
    BY <2>1, <2>2
  <2> QED
    BY <1>1, <2>3 DEF Inv, EarlierAccepted
<1> QED
  BY <1>1, Invariance, LaterInvariance, PTL

\* What an error answer stands for.
ErrorInv ==
  pc = "error" =>
    /\ attempt = Attempts /\ last_error \in Errors
    /\ ~Upcoming => \A i \in DOMAIN sends : sends[i] \in SendError

LEMMA ErrorKept ==
  ASSUME Inv, AttemptsInv, ErrorInv, [Next]_vars
  PROVE  ErrorInv'
<1> USE BoundsAssumption
<1>1. Attempts \in Nat \ {0} /\ attempt \in Nat
  BY DEF Attempts, Inv, Shape
<1>2. Attempts' = Attempts /\ Upcoming' = Upcoming
  <2>1. request' = request
    BY DEF Next, vars, handler, Attempt, Send, SendSucceeds, SendFails, SendEnds,
           AttemptSucceeds, AttemptFails, Slept, Disconnect, Panic, SendPanics
  <2> QED
    BY <2>1 DEF Attempts, Upcoming
<1>3. CASE AttemptFails
  <2>1. /\ AllEnded /\ Result # "ok" /\ last_error' = Result /\ attempt' = attempt /\ sends' = sends
        /\ pc' = IF attempt < Attempts THEN Retry ELSE "error"
    BY <1>3 DEF AttemptFails, handler
  <2> SUFFICES ASSUME pc' = "error"
               PROVE  /\ attempt = Attempts /\ last_error' \in Errors
                      /\ ~Upcoming => \A i \in DOMAIN sends : sends[i] \in SendError
    BY <1>2, <2>1 DEF ErrorInv, Errors
  <2>2. attempt = Attempts
    <3>1. ~(attempt < Attempts)
      BY <2>1 DEF Retry
    <3> QED
      BY <1>1, <3>1 DEF AttemptsInv
  <2>3. last_error' \in Errors
    BY <2>1, ResultIsError
  <2>4. ASSUME ~Upcoming, NEW i \in DOMAIN sends PROVE sends[i] \in SendError
    <3>1. sends[i] \in SendError \cup {"ok", "pending", "waiting"}
      BY DEF Inv, Shape
    <3>2. sends[i] # "pending"
      BY <2>1 DEF AllEnded
    <3>3. sends[i] # "waiting"
      BY <2>4 DEF Inv, InTurnInv
    <3>4. sends[i] # "ok"
      BY <2>1, <2>4 DEF Result, Aggregate, Upcoming
    <3> QED
      BY <3>1, <3>2, <3>3, <3>4
  <2> QED
    BY <2>2, <2>3, <2>4
<1>4. CASE UNCHANGED vars
  BY <1>2, <1>4 DEF vars, handler, ErrorInv, Errors
<1>5. CASE Attempt \/ Send \/ AttemptSucceeds \/ Slept \/ Disconnect \/ Panic
  <2>1. pc' # "error"
    BY <1>5 DEF Attempt, Send, SendSucceeds, SendFails, SendEnds, AttemptSucceeds, Slept,
           Disconnect, Panic, SendPanics
  <2> QED
    BY <2>1 DEF ErrorInv
<1> QED
  BY <1>3, <1>4, <1>5 DEF Next

\* ErrorMeansExhausted: an error answer comes after MaxRetries failed fan-outs
\* of one batch, with nothing of the later batches sent.
THEOREM ErrorIsExhausted == Spec => []ErrorMeansExhausted
<1>1. Init => AttemptsInv
  BY BoundsAssumption DEF Init, AttemptsInv, Attempts
<1>2. Init => ErrorInv
  BY DEF Init, ErrorInv
<1>3. Inv /\ AttemptsInv /\ [Next]_vars => AttemptsInv'
  BY AttemptsKept
<1>4. Inv /\ AttemptsInv /\ ErrorInv /\ [Next]_vars => ErrorInv'
  BY ErrorKept
<1>5. ErrorInv /\ LaterUntouched => ErrorMeansExhausted
  BY DEF ErrorInv, LaterUntouched, ErrorMeansExhausted, Upcoming
<1> QED
  BY <1>1, <1>2, <1>3, <1>4, <1>5, Invariance, LaterInvariance, PTL DEF Spec

=============================================================================
