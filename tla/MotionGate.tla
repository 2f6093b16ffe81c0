----------------------------- MODULE MotionGate -----------------------------
(***************************************************************************)
(* What guard and velocity bridge together promise the platform.  Motion   *)
(* is granted only while armed: a command came while nothing blocked, and  *)
(* nothing has blocked since.  Every motion sent needs a grant that is not *)
(* spent, and only an armed gate gives a new one.                          *)
(***************************************************************************)
VARIABLES
  blocked,  \* a heartbeat says stop or has lapsed
  armed,
  granted,  \* a grant is on its way or in use
  wheels    \* the last command sent to the platform: "zero" or "move"

vars == <<blocked, armed, granted, wheels>>

Init == blocked = TRUE /\ armed = FALSE /\ granted = FALSE /\ wheels = "zero"

KeepGrant == granted' = TRUE => granted = TRUE

Block ==
  /\ blocked' = TRUE /\ armed' = FALSE /\ KeepGrant
  /\ UNCHANGED wheels
Unblock ==
  /\ blocked' = FALSE /\ armed = FALSE /\ armed' = FALSE /\ KeepGrant
  /\ UNCHANGED wheels
Arm ==
  /\ blocked = FALSE /\ armed' = TRUE
  /\ UNCHANGED <<blocked, granted, wheels>>
Grant ==
  /\ armed = TRUE /\ granted' = TRUE
  /\ UNCHANGED <<blocked, armed, wheels>>
Withdraw ==
  /\ (armed' = TRUE => armed = TRUE) /\ KeepGrant
  /\ UNCHANGED <<blocked, wheels>>
Drive ==
  /\ granted = TRUE /\ wheels' = "move"
  /\ UNCHANGED <<blocked, armed, granted>>
Halt ==
  /\ wheels' = "zero" /\ KeepGrant
  /\ UNCHANGED <<blocked, armed>>

Next == Block \/ Unblock \/ Arm \/ Grant \/ Withdraw \/ Drive \/ Halt

Spec == Init /\ [][Next]_vars
=============================================================================
