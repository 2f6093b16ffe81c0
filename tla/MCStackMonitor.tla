--------------------------- MODULE MCStackMonitor ---------------------------
(* The TLC instances of StackMonitor. *)
EXTENDS StackMonitor, TLC
=============================================================================
