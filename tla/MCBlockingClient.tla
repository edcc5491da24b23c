-------------------------- MODULE MCBlockingClient --------------------------
(***************************************************************************)
(* Two threads for three permits, so that a task may panic before callers  *)
(* and panicked tasks outnumber the permits; and room for one task more    *)
(* than permits.                                                           *)
(***************************************************************************)
EXTENDS BlockingClient

CONSTANTS c1, c2, t1, t2, t3, t4, k1

MCCallers == {c1, c2}
MCTasks == {t1, t2, t3, t4}
MCConnections == {k1}
MCBatches == {<<"data">>}

=============================================================================
