--------------------------- MODULE MCMotionChain ----------------------------
(* The TLC instances of MotionChain. *)
EXTENDS MotionChain, TLC
=============================================================================
