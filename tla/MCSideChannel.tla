--------------------------- MODULE MCSideChannel ----------------------------
(* SideChannel with a ring of two: six events fill it, wrap it and overflow *)
(* it.                                                                       *)
EXTENDS SideChannel
=============================================================================
