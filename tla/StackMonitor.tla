---------------------------- MODULE StackMonitor ----------------------------
(***************************************************************************)
(* The two programs of one class.  scripts/topic_ready_gate.py ends with   *)
(* the first tick that finds everything ready; scripts/stack_stability.py  *)
(* inherits its inputs and lifecycle poll and overrides the timer, which   *)
(* feeds StackStability for as long as it runs.                            *)
(***************************************************************************)
EXTENDS ReadinessGate, StackStability

\* The history is as long as the settling time, and as an answer can be old.
ASSUME StackAssumption ==
  Settle <= PastLimit /\ KnownLimit + QueryLimit + Gap <= PastLimit

VARIABLES
  kind,      \* "gate" or "monitor"
  signature, \* lifecycle_signature: the nodes known active at the last tick
  late       \* history: time since a tick of the monitor came late

monitor == <<vars, signature, late>>
allVars == <<gateVars, vars, kind, signature, late>>

\* The signature before the first tick.
NoSignature == {"none"}

StackInit ==
  /\ GateInit /\ Init
  /\ kind \in {"gate", "monitor"}
  /\ signature = NoSignature
  /\ late = Expired(KnownLimit)

\* A window was reset since the last tick, or a node was activated or lost.
Changed(known) ==
  \/ window.last # Absent /\ (resets # {} \/ \E t \in Topic : Stale(win[t]))
  \/ signature \notin {NoSignature, known}

\* StackStability._tick().  What it finds of map, graph, guard diagnostics, base
\* and scan transforms, and of the action server when there is a pose, is chosen
\* (`sound'); so is what it finds of the map transform (`pose').
MonitorTick(reachable, arrived, sound, pose) ==
  LET polled == Poll(reachable, arrived)
      known  == {n \in Node : ActiveWithin(polled[n], KnownLimit)}
      navigation == known = Node
      healthy ==
        /\ \A t \in Topic : Settled(win[t])
        /\ Localized(polled, sound)
        /\ ~Changed(known)
        /\ pose => navigation
  IN  /\ life' = polled
      /\ signature' = known
      /\ late' = IF window.last > Gap THEN 0 ELSE late
      /\ Tick(healthy, pose /\ navigation)

AnyMonitorTick ==
  /\ kind = "monitor"
  /\ resets' = {}
  /\ win' = [t \in Topic |-> Polled(win[t])]
  /\ UNCHANGED <<previous, exit, started, up, past, kind>>
  /\ \E reachable \in SUBSET Node, arrived \in SUBSET Responses, sound, pose \in BOOLEAN :
       MonitorTick(reachable, arrived, sound, pose)

\* main(): the process ends with False on the topic, and a new one is started.
MonitorRestart ==
  /\ kind = "monitor"
  /\ Restart
  /\ win' = [t \in Topic |-> Empty] /\ resets' = {}
  /\ previous' = [t \in Topic |-> NoPose]
  /\ life' = [n \in Node |->
                [future |-> "none", sent |-> Expired(SentLimit), active |-> Absent]]
  /\ signature' = NoSignature
  /\ late' = Expired(KnownLimit)
  /\ UNCHANGED <<exit, started, up, past, kind>>

GateOnly ==
  /\ kind = "gate"
  /\ AnyGateTick \/ Interrupted
  /\ UNCHANGED <<monitor, kind>>

World ==
  /\ exit = "running"
  /\ \/ AnyReceive \/ RosAdvance \/ RosStepBack
     \/ \E n \in Node : Answer(n) \/ NodeChanges(n)
  /\ UNCHANGED <<monitor, kind>>

StackTime ==
  /\ exit = "running"
  /\ GateTime
  /\ IF kind = "monitor"
     THEN TimeElapses /\ late' = Older(late, KnownLimit) /\ UNCHANGED started
     ELSE started' = Older(started, GateTimeout) /\ UNCHANGED <<vars, late>>
  /\ UNCHANGED <<kind, signature>>

StackNext ==
  \/ GateOnly
  \/ AnyMonitorTick
  \/ MonitorRestart
  \/ World
  \/ StackTime

StackSpec == StackInit /\ [][StackNext]_allVars

(* Fairness: the timer of a monitor fires again and again, and time passes; a tick *)
(* after a unit of time, and a unit of time after a tick, are always possible.     *)
FairStack ==
  /\ StackSpec
  /\ kind = "monitor" => /\ []<><<AnyMonitorTick>>_allVars
                         /\ []<><<StackTime>>_allVars

-----------------------------------------------------------------------------
(* Properties *)

\* The launch goes on only when every input has been calm for the settling time:
\* no message was bad, none out of its order, and no silence too long, whether
\* the timer saw the gap or not.
PassIsEarned == exit = "passed" => \A t \in Topic : past.calm[t] >= InputSettle

\* The time an answer of a node counts: 2 s for localization, 5 s for the others.
Counts(n) == IF n \in Required THEN ActiveLimit ELSE KnownLimit

\* The monitor sends `ready' only when every input has been calm for the whole
\* settling time, and, unless a tick came late while an answer counts, when every
\* lifecycle node was active not longer ago than an answer counts, is under way and
\* waits for a tick.  A settling time longer than an answer counts excludes the
\* late tick: it starts the settling again.
ReadyIsLive ==
  [][heartbeat' /\ AnyMonitorTick =>
       /\ \A t \in Topic : past.calm[t] >= Settle
       /\ \A n \in Node :
            late' > Counts(n) => past.away[n] <= Counts(n) + QueryLimit + Gap]_allVars
=============================================================================
