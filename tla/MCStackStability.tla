-------------------------- MODULE MCStackStability --------------------------
(* The TLC instances of StackStability. *)
EXTENDS StackStability, TLC
=============================================================================
