--------------------------- MODULE MCNavSession -----------------------------
(* The TLC instance of NavSession. *)
EXTENDS NavSession, TLC
=============================================================================
