------------------------- MODULE MCRecentLeaderSlots -------------------------
(***************************************************************************)
(* RecentLeaderSlots on a window of five slots out of eight, with a skip   *)
(* distance of one, so that a slot can be out of line in either direction. *)
(***************************************************************************)
EXTENDS RecentLeaderSlots

MCSlot == 0 .. 7

=============================================================================
