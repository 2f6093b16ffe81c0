--------------------------- MODULE MCOperatorStop ---------------------------
(* Joy messages and symmetry for the TLC instances of OperatorStop. *)
EXTENDS OperatorStop, TLC

Press(stop, reset, deadman, neutral) ==
  [valid |-> TRUE, stop |-> stop, reset |-> reset, deadman |-> deadman,
   neutral |-> neutral]

Idle    == Press(FALSE, FALSE, FALSE, TRUE)
Reset   == Press(FALSE, TRUE, FALSE, TRUE)
Tilted  == Press(FALSE, TRUE, FALSE, FALSE)
Circle  == Press(TRUE, FALSE, FALSE, TRUE)
Deadman == Press(FALSE, FALSE, TRUE, FALSE)
Invalid == [Idle EXCEPT !.valid = FALSE]

ResetOnly    == {Idle, Reset}
ResetAndStop == {Idle, Reset, Circle}
AllJoy       == {Idle, Reset, Tilted, Circle, Deadman, Invalid}

GoalSymmetry == Permutations(Goal)
=============================================================================
