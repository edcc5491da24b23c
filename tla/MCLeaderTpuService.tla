------------------------- MODULE MCLeaderTpuService -------------------------
(***************************************************************************)
(* Constants for LeaderTpuService.  The sizes keep the proportions of the  *)
(* code: a rotation is shorter than the fanout, and an epoch is either     *)
(* longer than the window of twice the fanout or, as in a warm-up epoch,   *)
(* cuts it short.                                                          *)
(***************************************************************************)
EXTENDS LeaderTpuService

MCRotation == <<"A", "B", "C", "D">>

Node(key, quic, tpu) == [pubkey |-> key, tpu_quic |-> quic, tpu |-> tpu]

\* A names its QUIC port, B only its TPU port, C a TPU port too high for the
\* offset, D is absent; then C and D come up, and A moves.
MCContactLists ==
  << <<Node("A", 1, 11), Node("B", NoPort, 2), Node("C", NoPort, 15)>>,
     <<Node(BadPubkey, 5, NoPort), Node("A", 1, NoPort), Node("B", NoPort, 2),
       Node("C", 3, NoPort), Node("D", 4, NoPort), Node("A", 6, NoPort)>> >>

MCOneContactList == <<MCContactLists[2]>>

=============================================================================
