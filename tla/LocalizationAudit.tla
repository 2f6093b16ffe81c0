------------------------- MODULE LocalizationAudit -------------------------
(***************************************************************************)
(* scripts/tf_localization_audit.py: for every scan of a bounded window    *)
(* the transform at the very time of the scan is looked up, with a grace   *)
(* for its arrival, and counted under the phase the scan was received in.  *)
(* A signal may end the window and the waiting early.                      *)
(***************************************************************************)
EXTENDS RosClock, FiniteSets

CONSTANTS
  Scans,         \* scans, each published once
  TfGrace,       \* the 0.5 s a transform may come late
  Warmup,        \* --warmup
  Duration,      \* --duration
  RestartGap,    \* the 2 s of silence, and the 0.5 s back in the stamps, after
  RestartStep,   \* which the odometry counts as restarted
  AuditMaxRos    \* bound on the ROS clock here

ASSUME AuditAssumption ==
  /\ {TfGrace, Warmup, Duration, RestartGap, RestartStep, AuditMaxRos} \subseteq Nat
  /\ Warmup < Duration /\ AuditMaxRos # 0

Targets == {"odom", "map"}
Phases == {"initialization", "restart_candidate", "steady"}

VARIABLES
  audit,    \* start (as the time since), restart_until, last_ros, accept_samples,
            \* rclpy.ok() and the odometry sample last seen
  pending,  \* exact_checks.pending
  counts,   \* exact_checks.phases
  buffer,   \* the transforms received, [scan, target]
  taken,    \* history: the scans received, each with its phase
  issue     \* the report: "none" before it, then whether it has an issue

AuditVars == <<audit, pending, counts, buffer, taken, issue>>

AuditInit ==
  /\ RosInit
  /\ audit = [elapsed |-> 0, until |-> 0, last |-> 0, accept |-> TRUE,
              ok |-> TRUE, odom |-> [stamp |-> 0, at |-> 0]]
  /\ pending = {} /\ buffer = {}
  /\ counts = [p \in Phases |-> [t \in Targets |-> [checked |-> 0, good |-> 0]]]
  /\ taken = [s \in {} |-> ""]
  /\ issue = "none"

\* restart_candidate of a sample of /aft_mapped_to_init
RestartCandidate(stamp) ==
  /\ audit.odom.stamp > 0
  /\ \/ audit.odom.stamp - stamp > RestartStep
     \/ audit.elapsed - audit.odom.at > RestartGap

\* restart_until after a sample; odometry: whether it is of that topic.
Until(odometry, stamp) ==
  IF ros < audit.last \/ (odometry /\ RestartCandidate(stamp))
  THEN audit.elapsed + Warmup ELSE audit.until

Phase(until) == CASE audit.elapsed < Warmup -> "initialization"
                  [] audit.elapsed >= Warmup /\ audit.elapsed < until -> "restart_candidate"
                  [] OTHER -> "steady"

\* on_sample
OnOdometry(stamp) ==
  /\ audit.accept /\ audit.ok
  /\ audit' = [audit EXCEPT !.until = Until(TRUE, stamp), !.last = ros,
                            !.odom = [stamp |-> stamp, at |-> audit.elapsed]]
  /\ UNCHANGED <<ros, pending, counts, buffer, taken, issue>>
OnScan(s) ==
  LET until == Until(FALSE, 0)
  IN  /\ audit.accept /\ audit.ok /\ s \notin DOMAIN taken
      /\ audit' = [audit EXCEPT !.until = until, !.last = ros]
      /\ pending' = pending \cup {[scan |-> s, at |-> audit.elapsed,
                                   phase |-> Phase(until), targets |-> Targets]}
      /\ taken' = [r \in DOMAIN taken \cup {s} |->
                     IF r = s THEN Phase(until) ELSE taken[r]]
      /\ UNCHANGED <<ros, counts, buffer, issue>>

\* Mutant of Remains: a scan is done with once one target is.
UntouchedRemains(targets) == targets = Targets
Remains(targets) == targets # {}

\* ExactTimeChecks.process: what is there is counted, and what has been waited
\* for long enough as missing.
Available(entry, t) == [scan |-> entry.scan, target |-> t] \in buffer
Settles(entry, t) ==
  t \in entry.targets /\ (Available(entry, t) \/ audit.elapsed - entry.at >= TfGrace)
Process ==
  /\ issue = "none" /\ audit.ok
  /\ counts' = [p \in Phases |-> [t \in Targets |->
       LET now == {e \in pending : e.phase = p /\ Settles(e, t)}
       IN  [checked |-> counts[p][t].checked + Cardinality(now),
            good |-> counts[p][t].good + Cardinality({e \in now : Available(e, t)})]]]
  /\ pending' = {e \in {[e EXCEPT !.targets = {t \in @ : ~Settles(e, t)}] : e \in pending} :
                   Remains(e.targets)}
  /\ UNCHANGED <<ros, audit, buffer, taken, issue>>

\* main(): the window ends, what is pending is waited for, and report() judges;
\* of so few scans 99 of 100 are all.  Both loops end when rclpy is shut down.
WindowEnds ==
  /\ audit.accept /\ (audit.elapsed >= Duration \/ ~audit.ok)
  /\ audit' = [audit EXCEPT !.accept = FALSE]
  /\ UNCHANGED <<ros, pending, counts, buffer, taken, issue>>
Reports ==
  /\ ~audit.accept /\ (pending = {} \/ ~audit.ok) /\ issue = "none"
  /\ issue' = IF \E t \in Targets : LET c == counts["steady"][t]
                                    IN  c.checked = 0 \/ c.good < c.checked
              THEN "issue" ELSE "clean"
  /\ UNCHANGED <<ros, audit, pending, counts, buffer, taken>>

\* External: SIGINT or SIGTERM shuts rclpy down; nothing of the node runs after it,
\* and time does not matter any more.
ShutDown ==
  /\ issue = "none" /\ audit.ok
  /\ audit' = [audit EXCEPT !.ok = FALSE]
  /\ UNCHANGED <<ros, pending, counts, buffer, taken, issue>>

\* External: a transform for the time of a scan becomes known, or never does.
TfArrives(s, t) ==
  /\ issue = "none" /\ audit.ok
  /\ buffer' = buffer \cup {[scan |-> s, target |-> t]}
  /\ UNCHANGED <<ros, audit, pending, counts, taken, issue>>

AuditClock ==
  /\ issue = "none" /\ audit.ok /\ audit.elapsed < Duration + TfGrace
  /\ audit' = [audit EXCEPT !.elapsed = @ + 1]
  /\ RosMoves /\ ros' <= AuditMaxRos
  /\ UNCHANGED <<pending, counts, buffer, taken, issue>>

AuditNext ==
  \/ \E stamp \in 1 .. AuditMaxRos : OnOdometry(stamp)
  \/ \E s \in Scans : OnScan(s) \/ \E t \in Targets : TfArrives(s, t)
  \/ Process \/ WindowEnds \/ Reports \/ ShutDown
  \/ AuditClock

AuditTypeOK ==
  /\ audit.elapsed \in 0 .. Duration + TfGrace /\ audit.last \in 0 .. AuditMaxRos
  /\ \A e \in pending : e.scan \in DOMAIN taken /\ e.targets \subseteq Targets
  /\ issue \in {"none", "clean", "issue"}

\* When the audit reports, every scan it received has been judged once for each
\* target under its phase, the last ones too and however late one target was;
\* and it finds no issue only when some scan was steady and every steady one
\* could be placed in both frames.  Only a signal leaves scans waiting, and then
\* this is true of those that are not.
Waits(s, t) == \E e \in pending : e.scan = s /\ t \in e.targets
Judged(p, t) == {s \in DOMAIN taken : taken[s] = p /\ ~Waits(s, t)}
EveryScanIsJudged ==
  issue # "none" =>
    /\ audit.ok => pending = {}
    /\ \A p \in Phases, t \in Targets : counts[p][t].checked = Cardinality(Judged(p, t))
    /\ issue = "clean" => \A t \in Targets :
         /\ Judged("steady", t) # {}
         /\ \A s \in Judged("steady", t) : [scan |-> s, target |-> t] \in buffer
=============================================================================
