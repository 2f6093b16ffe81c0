----------------------------- MODULE FieldTools -----------------------------
(***************************************************************************)
(* The parts that share nothing with one another but the ROS clock: the    *)
(* sensor adapters and the operator's tools.  A behaviour is of one of     *)
(* them, part, and the others stay as they start.                          *)
(***************************************************************************)
EXTENDS OdomAdapter, CloudRelay, MapPatch, ReadinessCheck, Recording,
        LocalizationAudit

Parts == {"odometry", "relay", "patch", "readiness", "recording", "audit"}

VARIABLE part

vars == <<ros, part, OdomVars, RelayVars, PatchVars, CheckVars, RecordingVars,
          AuditVars>>

Init ==
  /\ part \in Parts
  /\ OdomInit /\ RelayInit /\ PatchInit /\ CheckInit /\ RecordingInit
  /\ AuditInit

Next ==
  /\ UNCHANGED part
  /\ \/ /\ part = "odometry" /\ OdomNext
        /\ UNCHANGED <<RelayVars, PatchVars, CheckVars, RecordingVars, AuditVars>>
     \/ /\ part = "relay" /\ RelayNext
        /\ UNCHANGED <<OdomVars, PatchVars, CheckVars, RecordingVars, AuditVars>>
     \/ /\ part = "patch" /\ PatchNext
        /\ UNCHANGED <<OdomVars, RelayVars, CheckVars, RecordingVars, AuditVars>>
     \/ /\ part = "readiness" /\ CheckNext
        /\ UNCHANGED <<OdomVars, RelayVars, PatchVars, RecordingVars, AuditVars>>
     \/ /\ part = "recording" /\ RecordingNext
        /\ UNCHANGED <<ros, OdomVars, RelayVars, PatchVars, CheckVars, AuditVars>>
     \/ /\ part = "audit" /\ AuditNext
        /\ UNCHANGED <<OdomVars, RelayVars, PatchVars, CheckVars, RecordingVars>>

Spec == Init /\ [][Next]_vars

\* Every part keeps to its types.
TypeOK ==
  /\ ros \in 1 .. MaxRos
  /\ OdomTypeOK /\ RelayTypeOK /\ PatchTypeOK /\ CheckTypeOK /\ RecordingTypeOK
  /\ AuditTypeOK
=============================================================================
