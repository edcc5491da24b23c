------------------------ MODULE MCQuicConnectionPool ------------------------
(***************************************************************************)
(* One address more than the cache keeps pools for, and two callers.       *)
(***************************************************************************)
EXTENDS QuicConnectionPool

CONSTANTS a1, a2, c1, c2, p1, p2, p3

MCAddr == {a1, a2}
MCCallers == {c1, c2}
MCPools == {p1, p2, p3}

=============================================================================
