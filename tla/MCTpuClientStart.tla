-------------------------- MODULE MCTpuClientStart --------------------------
(***************************************************************************)
(* Constants for TpuClientStart: a rotation is shorter than the fanout and *)
(* the fanout than the window.                                             *)
(***************************************************************************)
EXTENDS TpuClientStart

MCRotation == <<"A", "B", "C", "D">>

\* A and C name their QUIC port, B its TPU port only, D is not known.
MCOneContactList ==
  << <<[pubkey |-> "A", tpu_quic |-> 1, tpu |-> NoPort],
       [pubkey |-> "B", tpu_quic |-> NoPort, tpu |-> 2],
       [pubkey |-> "C", tpu_quic |-> 3, tpu |-> NoPort]>> >>

=============================================================================
