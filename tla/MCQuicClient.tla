---------------------------- MODULE MCQuicClient ----------------------------
(***************************************************************************)
(* Calls that share one connection, with batches that start with data or   *)
(* with an empty buffer, or single sends.  Three ids are enough for a new  *)
(* one to be free whenever one of the two calls connects.                  *)
(***************************************************************************)
EXTENDS QuicClient

CONSTANTS s1, s2, k1, k2, k3

MCTwoSenders == {s1, s2}

MCThreeIds == {k1, k2, k3}

MCBatches == {<<"data", "data">>, <<"empty", "data">>}
MCSingle == {<<"data">>}

=============================================================================
