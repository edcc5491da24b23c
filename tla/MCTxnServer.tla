---------------------------- MODULE MCTxnServer -----------------------------
(***************************************************************************)
(* Requests of up to six transactions, five of which decode, in batches of *)
(* two, and up to two leaders that may differ from attempt to attempt.     *)
(***************************************************************************)
EXTENDS TxnServer

CONSTANTS l1, l2, e1

MCLeaders == {l1, l2}
MCErrors == {e1}

MCLeaderLists == {<<>>, <<l1>>, <<l1, l2>>, <<l2, l1>>}

Single(t) == [kind |-> "single", txns |-> <<t>>]
Call(kind) == [kind |-> kind, txns |-> <<"base64">>]
Batch(ts) == [kind |-> "batch", txns |-> ts]

MCRequests ==
  {Call("direct"), Call("upcoming"), Single("base64"), Single("undecodable"),
   Batch(<<>>), Batch(<<"undecodable">>),
   Batch(<<"base64", "undecodable", "base64", "base64", "base64", "base64">>)}

MCUndecodable == {Single("undecodable")}

=============================================================================
