--------------------------- MODULE MCWaypointLoop ---------------------------
(* The TLC instances of WaypointLoop. *)
EXTENDS WaypointLoop, TLC
=============================================================================
