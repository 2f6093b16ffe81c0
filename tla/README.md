# TLA+ models of jackal_nav2_bringup

This directory models the parts of `jackal_nav2_bringup` that decide whether the
robot may move, what is running, and what the operator's tools say about it. TLC
checks the models on small instances and TLAPS proves the central properties for
every value of their constants. Paths are relative to the repository; `core` and
`node` name the two files of a component.

## 1. The system

| Component | State | Operations | Modelled in |
|---|---|---|---|
| Operator stop: `scripts/operator_stop_core.py`, `operator_stop.py` | latched phase, button latches and hold time, banned goals and re-arm stamp, cancel and parameter requests with their retry times, last Bluetooth result | Joy, odometry, goal status and `stack_ready` callbacks; a 20 Hz timer that polls two services, decides and sends the heartbeat; a probe thread | `OperatorState`, `OperatorStop` |
| Safety guard: `nav2_safety_core.py`, `nav2_safety_guard.py` | last observation, cached command, pending cloud, last ROS time, two heartbeats | command, cloud, operator-stop and `stack_ready` callbacks; a 20 Hz steady-clock timer that sends the velocity | `SafetyGuard` |
| Velocity bridge: `cmd_vel_safety_bridge.py` | last command and its receipt | command callback, watchdog timer | `MotionChain` |
| Waypoint loop: `waypoint_loop_core.py`, `waypoint_loop_node.py` | points, phase, target, laps; goal handle, button latches, pending goal | clicked point, Joy, operator diagnostics, dispatch timer, goal response and result | `WaypointLoop` |
| Readiness gate: `topic_ready_gate.py`, `readiness_core.py` (`FreshWindow`) | a window per input, odometry continuity, lifecycle requests | message callbacks, timer, exit code | `ReadinessGate` |
| Stack stability: `readiness_core.py` (`StabilityWindow`), `stack_stability.py` | phase, start of the period and of the hold, lifecycle signature | a 10 Hz timer over the inherited inputs | `StackStability`, `StackMonitor` |
| Session manager: `nav_session.py` | lock and record per role, process groups, stop requests | start, supervise, stop | `NavSession` |
| Critical exits: `launch/nav2.launch.py`, `localization.launch.py` | `failure.json`, shutdown flag of the launch | process-exit handler | `NavSession` |
| Odometry adapter: `fast_livo_odom_adapter.py` | last sample, filtered twist, last clock reading | one callback | `OdomAdapter` |
| Cloud relay: `src/pointcloud_relay_node.cpp`, `relay_health.hpp` | flags of the last observation | cloud callback, diagnostics timer | `CloudRelay` |
| Map patch: `map_patch_node.py` | last costmap | costmap callback, timer | `MapPatch` |
| Readiness check: `check_navigation_ready.py` | query per node, last measurement, settle window | callbacks, poll, exit code | `ReadinessCheck` (partly) |
| Validation recording: `record_navigation_validation.py` | steps, children, exception under way | captures, bag, cleanup, verdict, Ctrl-C | `Recording` |
| Localization audit: `tf_localization_audit.py` | window, restart phase, pending exact-time checks | odometry, scans, report | `LocalizationAudit` (partly) |

**How they interact.** Nav2 commands pass the collision monitor, then the guard, then
the velocity bridge, which alone writes the topic of the platform. The guard obeys two
volatile Bool heartbeats, `/nav2/operator_stop` and `/nav2/stack_ready`; both stop it by
their value and by their absence. The operator stop also reads `stack_ready`, watches
the goals of the NavigateToPose server, cancels them through its service and reads the
parameters of the bridge. The waypoint loop sends goals to the same server and arms
itself from the same button and from the diagnostics of the operator stop. The stability
monitor inherits the inputs of the readiness gate and makes the heartbeat; the gate lets
the staged launch go on. The launch runs inside a process group owned by a session, the
perception session depends on the navigation session, and both talk through records in a
directory and signals. Relay, adapter, map patch, check, recording and audit feed or
observe the rest and share nothing with each other but the ROS clock.

**What is hard.** Every Python node is one single-threaded executor: callbacks are
atomic, but their order is free, and the probe thread of the operator stop is not part
of it. Heartbeats may be lost, clouds may wait for transforms, requests may be refused,
lost or answered late, the ROS clock may stop or step back while the monotonic clock
goes on. Goals may be accepted at any moment and reported later, a click may fall
between a request and its answer. Sessions are processes: they start at the same time,
are killed between any two steps, leave children behind, and a pid may come back. The
recording is interrupted while it is handling an interrupt. `PROJECT.json` lists these
hazards at their lines.

**What makes the components correct.**
- Operator stop: no goal from before a re-arm runs, re-arming is deliberate, whoever
  stops the node blocks the guard, the goals of a stop are cancelled.
- Guard and bridge: no motion on an old command or an old cloud, or against a stop, and
  the wheels stop when a stream dries up or the guard dies.
- Waypoint loop: real laps, one goal, legs started by a hold, late results do no harm.
- Gate and monitor: `passed` and `ready` follow a whole settling time; starting ends.
- Sessions: one stack, records that tell the truth, failures reported, no perception
  without its navigation.
- Tools: a twist of one stretch of motion, `fresh` exactly for clouds in order, a patch
  that shows the map, a check, a recording and an audit whose good verdict is earned.

## 2. Modules

| Module | Content |
|---|---|
| `Ages` | time as saturated ages |
| `OperatorState`, `OperatorStop` | the core as operators on a record; the node, action server, cancel service, bridge parameters, restart |
| `SafetyGuard` | `GuardState` and its node |
| `MotionGate` | abstract: motion only by a grant given while armed |
| `MotionChain` | guard, bounded topic and bridge; implements `MotionGate` |
| `WaypointLoop` | `LoopState`, its node, the server and an operator |
| `ReadinessGate` | input windows, odometry continuity, lifecycle poll, the gate's timer |
| `StackStability` | `StabilityWindow` and its timer |
| `StackMonitor` | the gate and the monitor, the latter on the windows and poll of the former |
| `StackOwners` | abstract: one owner of the robot per role, a stack started once, a perception under a navigation |
| `NavSession` | two roles of sessions, locks, records, groups, critical exits; implements `StackOwners` |
| `RosClock` | the ROS clock of the parts below |
| `OdomAdapter`, `CloudRelay`, `MapPatch`, `ReadinessCheck`, `Recording`, `LocalizationAudit` | one part each |
| `FieldTools` | these six side by side: the variable `part` picks one per behaviour |
| `*Proofs` | the theorems of section 4 |
| `MC*` | input sets and symmetry for TLC; a `.cfg` is named after module and run |

One callback is one action, named after it, with everything the callback calls; records
hold the attributes of the object they are named after. Variables called `hist`, `past`,
`stretch`, `clouds`, `taken` or marked "history" record what happened and are read by
properties only. In `NavSession` and `Recording`, which are programs and not nodes, an
action is the code between two places where another process may act.

**Time.** The code stores a monotonic time and tests `now - stamp <= limit`. The models
store the age, which grows by one when time passes and saturates one above its limit:
"never" and "too long ago" then are the same value, as they are in the code (`-inf`).
Time passes between callbacks only, by any amount, so every lateness of timers and
messages is covered. A stamp is measured on the ROS clock, which is a variable of its
own; `ReadinessGate` keeps the lag of a stamp behind that clock instead, in a window
`MinLag .. MaxLag` beyond which the code does not distinguish.

**Data.** A goal is a model value, a cloud its stamp and whether it shows an obstacle, a
velocity one of zero, move or invalid, a waypoint the number of the click that set it, a
Joy message the five facts the core computes from it. Parsing and transforming is an
outcome chosen at each look. Diagnostics, logging, markers, yaw, the clamping of
velocities and layout of files are left out.

Deliberate abstractions, each in a comment where it is made:
- operator stop: `rest_since` is written but never read by the code and kept as one
  boolean; the bridge parameters are good or bad; a restart is one step, and what an
  abandoned cancel request still does at the server is not modelled.
- guard: an invalid stamp and `None` are both stamp 0; the age of the two required
  transforms is a boolean of the tick.
- bridge: its last command is kept as the age of a cached motion, a cached zero being
  the same as none: both are published as zero.
- waypoint loop: the result of a goal and its end at the server are one step; the
  diagnostics carry the phase the operator stop has at that moment.
- gate and monitor: every input is an odometry, the type with the most checks; what a
  tick finds of the map message, transforms, graph and guard diagnostics is chosen. A
  lifecycle answer is read by its server at one moment (`Answer`) and found done by any
  later tick (`arrived`), which stamps the node active with its own time.
- sessions: a process is named by the identity `process_info()` reads, so that a reused
  pid is a mutant and not a behaviour; the network check and the log directory are left
  out; the stop tool is the request it makes. A group that outlives its launch has
  processes left that `stack_role()` lists (`orphans`), or only others (`hidden`), such as
  the velocity bridge or the lifecycle managers, which no later start can see.
- odometry: poses lie on a line, and a twist is the set of stretches of continuous
  motion that have a share in it.
- map patch: integer lengths, quarter turns, and a costmap that is a drawing of one plane
  in which every place has its own value, so that a wrong cell is seen.
- readiness check: a query is read by the server and delivered later; the timer runs
  once per unit of time at least (`polled`), as a round-robin executor provides; graph,
  transforms and parameters of a report are one Boolean (`OtherChecks`).
- recording: all parameter dumps are one capture; a child told to end may be late, and
  SIGKILL may be late too. Ctrl-C arrives where the program blocks, inside `Popen` before
  the child is known (`Launching`), or between the decision to stop a child and the signal
  to it (`Telling`); in these two the child is let go of (`children.left`).
- audit: every scan is looked up for two targets; the tolerated share (99 of 100) is all
  of at most two scans. SIGTERM may shut rclpy down at any moment (`ShutDown`); then both
  loops end, with scans pending or not.

## 3. Runs

| Run | Bounds | Shows |
|---|---|---|
| `operator_arming` | 1 goal, 1 restart, ROS clock 0..1, hold 2, other limits 0 or 1, a bridge that comes and goes, is bad, late or silent | `TypeOK`, `RunningGoalsAreNew`, `ArmingIsDeliberate`, `BadBridgeBlocks` |
| `operator_inputs` | 1 goal, every kind of Joy, probe and ready message, ROS clock steps back | `BlockedUnlessRunning`: no callback leaves a `go` behind; `BannedGoalsNeverRun` |
| `operator_liveness` | 1 goal, fair | `HoldingArms`, `StopIsCancelled` |
| `motion_chain` | topic of depth 1, ROS clock 1..2 with steps back, stamps to one beyond the tolerance, all outcomes; only bridge and time are fair | `ChainTypeOK`, `StopHolds`, `NewestCloudDecides`, `FreshCommandsOnly`, `ImplementsGate`, `WheelsNeedStreams` |
| `waypoint_clicks` | 2 laps, 4 clicks, 2 goals at once, all outcomes, rejections, operator stops, fair | `TypeOK`, `ResultFindsTarget`, `LapsAreReal`, `OneGoalAtATime`, `HoldStartsLeg`, `LoopCompletes` |
| `stack_ready` | 1 input, 1 node, timeout 2, settle 1, gap 1, an answer counts 1, clock steps, restarts, fair | `TypeOK`, `ReadyIsEarned`, `PassIsEarned`, `ReadyIsLive`, `StartIsBounded` |
| `session` | 2 navigation sessions, 1 perception session, 1 crash, 2 critical nodes in the launch of one of them, groups that leave recognised, hidden or no processes, fair | `TypeOK`, `OneStack`, `StoppedIsTrue`, `FirstFailureCounts`, `ImplementsOwners`, `PerceptionEndsWithNav` |
| `field_tools` | ROS clock 1..3, 3 poses, 3 costmaps and 8 robot poses, 1 queried node, 2 interrupts, 2 scans | `TypeOK`, `TwistIsOneStretch`, `StampsIncrease`, `FreshIsEarned`, `PatchShowsPlane`, `CheckIsEarned`, `RecordedIsComplete`, `EveryChildIsTold`, `EveryScanIsJudged` |

The bounds are enough for every ordering the code distinguishes: limits are compared
with ages only, so their order and distance from zero matter, not their size. The proofs
have no bounds.
- *Operator stop.* A unit is about one second. One goal can be accepted before a stop,
  banned, and be reported after a re-arm; the proofs cover several.
- *Chain.* Two ROS times give a step back, with stamps behind, at and ahead of both. A
  topic of depth 1 drops every older message; the proof is for every depth.
- *Waypoint loop.* Two goals are that of the run before and that of this run; two clicks
  set the points, the third takes them back, the fourth sets them again.
- *Stack.* One input and one node exercise window, poll and signature; inputs and nodes
  are combined only by conjunction in the code. An answer counts as long as the settling
  time takes, so that a late tick does not just start the settling again and the premise
  of `ReadyIsLive` does its work.
- *Sessions.* Two navigation sessions race for one role or follow each other; the crash
  may hit any of the three, at any step (`MaxCrashes`). Two critical nodes fail in
  either order, in the launch of one of the sessions (`Followed`): failure files of
  different sessions have nothing to do with each other.
- *Field tools.* The clock bounds `MaxRos`, `CheckMaxRos`, `AuditMaxRos` and the time
  bound `CheckTimeout` leave room for a step back and for a late answer; two interrupts
  are one that cancels and one that hits the cleanup (`MaxInterrupts`). The costmaps lie
  straight, turned by a quarter with larger cells, and by a half; all four headings of
  the robot occur. Scans are interchangeable, hence the symmetry; no run with symmetry
  has a liveness property.

`CHECK_DEADLOCK FALSE` is set for OperatorStop, NavSession, StackMonitor and FieldTools,
where bounded clocks and inputs run out or programs end.

**Fairness.** A timer of a spinning executor fires and time passes: weak fairness of the
ticks and of the passing of time; for the monitor it is written as ticks and units of time
that occur for ever (`FairStack`), which is the same, since after each of the two the other
is possible and changes something, and spares TLC the ENABLED. In the chain only the bridge and time are fair: the
guard may hang or die, and the wheels still stop. The cancel service answers infinitely
often if asked infinitely often (a service that never answers refutes `StopIsCancelled`,
rightly). In the waypoint loop the server answers and a goal to a point that is sent
again and again succeeds some time, and a button held long enough again and again is seen
held (strong fairness, since a Joy message at 50 Hz does fall into a two-second hold). Of
the sessions, a live perception supervisor goes on and a group that was sent SIGKILL dies
(weak fairness); nobody has to start, signal or stop anything, and navigation sessions
may hang anywhere. Nothing is assumed of other inputs: the liveness properties name them
as premises.

Four runs end in a counterexample. Each states what the repository says of itself and is
a finding in `PROJECT.json` with the quoted line:

| Run | What the code does |
|---|---|
| `operator_rearm` | re-arms while moving, with an active goal, before cancellation is confirmed |
| `waypoint_dropped` | the loop says NAVIGATING and its goal was dropped |
| `waypoint_uncancelled` | a click between a goal's request and its response cancels nothing; the goal runs on |
| `stability_failed` | the monitor announces that it continues, and stays FAILED for ever |

Modelling met more places where code and documents differ, or that a reader should know.
The models have them as the code has them:
- `operator_stop.py:220`: a Joy message at most 1 s old overrides a disconnected
  Bluetooth result.
- `operator_stop.py:132`: a `stack_ready` that is missing or expired does not stop the
  operator stop, only a false one; the guard does stop.
- `operator_stop.py:179`: a goal accepted in a stop whose cancellation was confirmed
  before is not cancelled in that stop. It is banned.
- `operator_stop_core.py:99`: with a ROS clock stepped back, a goal accepted before the
  re-arm and reported after it looks new (`ClockSteps`); `RunningGoalsAreNew` is stated
  without steps back, `BannedGoalsNeverRun` with them.
- `waypoint_loop_core.py:100`: the operator stop's return to WAITING FOR NEW GOAL at the
  end of the first leg arms the loop without the second press (`OperatorRuns`).
- `waypoint_loop_node.py:103`: the late result of a goal that was not cancelled moves the
  new run; `LapsAreReal` and `OneGoalAtATime` exclude legs started meanwhile
  (`hist.stray`).
- `waypoint_loop_node.py:190`: with `driving_policy` `other` nothing leads out of
  `WAITING_EXTERNAL` (`Policy`).
- `launch_stability_monitor` defaults to false and `nav_session.py` does not pass it, so
  `require_stability` is false in managed sessions: there the guard does not ask for
  `stack_ready`. `motion_chain` runs with it, the proofs cover both.
- `nav_session.py` refuses to start navigation while `localization.launch.py` runs, yet
  `nav2.launch.py` does not start localization and ignores `map:=`.
- `nav_session.py:61`: `stack_role()` lists not all executables of the stack. Of a killed
  session `cmd_vel_safety_bridge.py`, `behavior_server`, `lifecycle_manager` and others may
  run on unseen, and a second navigation starts beside them. `OneStack` and `StackOwners`
  make exactly this exception, for the rest of a session that is gone.
- `nav2.launch.py:336`, `nav_session.py:353`: the monitor settles for 2 s or 3 s by default,
  while an answer of a lifecycle node outside the required ones counts 5 s. A tick that
  comes late can then take an old answer for a new one and still find it counting after a
  whole settling time; `ReadyIsLive` bounds the age of a node where no tick was late.
- `record_navigation_validation.py:28`, `:211`, `:227`: a Ctrl-C inside `Popen` or right
  before the signal leaves a child running, unasked (`EveryChildIsTold` names the case).
- `record_navigation_validation.py`: the bag is said to "finalize its evidence on every
  exit path", but a Ctrl-C during `bag.stop` leaves the bag step `running` and skips the
  closing of the resources; and a `TimeoutExpired` raised while an interrupt is being
  handled replaces it, so that the status reads `incomplete` and not `interrupted`. No
  verdict calls such a recording complete (`RecordedIsComplete`).

## 4. Proofs

All theorems hold for every value of the constants allowed by the `ASSUME` of the
component; nothing else is assumed.

| Module | Theorems (property) |
|---|---|
| `OperatorStopProofs` | `TypeCorrect`, `OldGoalsNeverRun` (`RunningGoalsAreNew`) |
| `OperatorStopSafetyProofs` | `GoOnlyWhileRunning` (`BlockedUnlessRunning`), `BannedGoalsStayBanned` (`BannedGoalsNeverRun`), `EveryArmingIsDeliberate` (`ArmingIsDeliberate`), `BadBridgeAlwaysBlocks` (`BadBridgeBlocks`) |
| `SafetyGuardProofs` | `TypeCorrect`, `StopsHold`, `OnlyFreshCommandsMove`, `OnlyNewestCloudMoves` |
| `MotionChainProofs` | `ChainTypeCorrect`, `ChainImplementsGate` (`ImplementsGate`), `ChainKeepsGuard` |
| `StackMonitorProofs` | of StackStability: `TypeCorrect`, `ReadyNeedsSettling` (`ReadyIsEarned`); of StackMonitor: `MonitorIsStability` (implements StackStability), `LaunchIsEarned` (`PassIsEarned`), `ReadyMeansLive` (`ReadyIsLive`) |
| `WaypointLoopProofs` | `TypeCorrect`, `ResultIndexIsSafe` (`ResultFindsTarget`), `NoLapIsInvented` (`LapsAreReal`), `OneGoalOnly` (`OneGoalAtATime`), `LegsAreAskedFor` (`HoldStartsLeg`) |
| `FieldToolsProofs` | `TwistsAreUnmixed` (`TwistIsOneStretch`), `StampsGoForward` (`StampsIncrease`), `FreshClouds` (`FreshIsEarned`), `VerdictsAreTrue` (`RecordedIsComplete`), `NobodyIsForgotten` (`EveryChildIsTold`), `ChecksAreEarned` (`CheckIsEarned`), `PatchesAreTrue` (`PatchShowsPlane`), `EveryScanCounts` (`EveryScanIsJudged`), `TypeCorrect` |
| `NavSessionProofs` | `TypeCorrect`, `OneStackEver` (`OneStack`), `StoppedRecordsAreTrue` (`StoppedIsTrue`), `FailuresAreReported`, `FirstFailureStays`, `FirstFailureIsTold` (`FirstFailureCounts`), `SessionsTakeTurns` (`ImplementsOwners`) |

*OldGoalsNeverRun* (no step back of the ROS clock). That no running goal is old is not
inductive: the goals the node sees are those of an old status array, newer arrays are
under way, and the stamps are the server's. `StampInv` bounds every stamp the node
compares by the ROS clock, and those of the goals accepted before the re-arm by `armed`.
`ViewInv` says that once the node, or a message under way, shows a goal accepted after
the re-arm, it also shows every goal accepted before it that is still live, so an old
goal cannot surface later, and that in RUNNING none is live.

*OperatorStopSafetyProofs* needs no premise on the clock. `View`: the newest array is
under way or is what the node sees; `Banned`: a banned goal that is live is still seen,
since no array since its ban left it out; `Pressed`: the latches of the node know no more
of the buttons than what happened. *BadBridgeAlwaysBlocks* relates the values the node
keeps to the answers that were collected: good values have the age of the last good answer,
and no bad or overdue one has followed it (`BridgeInv`).

*SafetyGuardProofs* uses `Inv`, the type invariant with `StopHolds`, `CommandInv` and
`CloudInv`. `CommandInv`: a cached command came after the last block, or a heartbeat
blocks or has lapsed now (then the tick overrides, and the next heartbeat clears it).
`CloudInv`: an observation belongs to the newest cloud, or the newest cloud is pending
and there is no observation.

*ChainImplementsGate* is the refinement: the gate is blocked when a heartbeat is, armed
when the guard's history says `fresh`, and a grant is a motion on the topic or a lease
the bridge holds. Beyond the guard's `Inv` it needs that the cache of the bridge is
exactly the lease and that what is fresh is permitted. Every step of the chain is mapped
to a step of the gate or to a stutter. `ChainKeepsGuard` carries the guard's theorems
over to the chain.

*ReadyNeedsSettling*: `Earned` relates the heartbeat to time: outside FAILED the hold of
the window is never longer than the time without a fault; a settled window has held for
the settling time; a pose is seen only when settled, READY only with a pose, FAILED never
settled. `MonitorIsStability`: every step of the composition is a step of StackStability
or a stutter, so this holds of the monitor that runs on real windows.

*LaunchIsEarned*, *ReadyMeansLive*: `Honest` says that a window that is not empty and was
not silent spans no more than the calm of its input and ends with the pose before;
`Held` that the hold of the monitor is not longer than the calm, unless the next tick
finds a reset or a silence; `Asked` that a state was read after its question, and that an
answer that counts was taken when it was not older than a question may be under way and the
next tick may be off, or that a tick came late since it was taken. So the bound on how long
a node may have been away has a premise on what happened, not on the constants: no tick
came late while the answer counts. A settling time longer than that implies it, since a
late tick starts the settling again; the shipped 2 s and 3 s against 5 s do not.
`StackAssumption` only makes the history long enough.

*WaypointLoopProofs*: `PointsInv` says what phase and goals tell of the points, which
keeps the target within them; `CourseInv` is about a node all of whose legs started
without a goal of an earlier run being live: it has at most one goal, which leads to the
current target while it navigates and to no current point before a leg, and a robot sent
back to the start has been at the end; `HoldInv` bounds the age of the press by the hold
that really happened.

*FieldToolsProofs*: the stamp last published is that of the baseline, cleared together
with the filter (`TwistInv`); the flags of the relay, which keeps no cloud, are those of
the last two clouds (`RelayInv`). `RecordInv` has four parts: who may live without having
been told to end, and that whoever was let go of was so by an exception that is still under way,
which the verdict then reports (`ToldInv`); what the collection has not come to is untouched, and what
lives while nothing is raised is the child of the place (`CourseInv`); what a captured
step says of its child (`CapturedInv`); and that only a verdict calls a recording complete
(`VerdictInv`). `QueryInv` of the check bounds the idle time of a node by the age of the
call that found it active, and from then on by that of the answer kept.

*PatchesAreTrue*: the costmap kept is whole or has no data, and the published patch is
what sampling gives (`PatchInv`). The rest is geometry of the code's formulas
(`SampleShows`): a quarter turn is undone by its inverse (`TurnBack`) and keeps distances
along the axes up to their exchange (`TurnNear`), and the floor of a quotient names the
column or row whose half-open interval holds the coordinate (`Quotient`, `CellPlace`,
`PlaceCell`). It needs positive sizes, as `GridGeometry.validate` requires (`Grids`), and
even units, so that a cell has its centre on the integers: a matter of scale.

*EveryScanCounts*: a scan is pending at most once (`PendingInv`), and for each target it
is pending or counted, so that `checked` is the number of scans judged and `good` at most
the number of those that can be placed (`CountInv`). A report comes when nothing is
pending, or once rclpy is shut down (`IssueInv`); what it has counted are the scans judged
by then, and as many good as judged means all of these placed.
*TypeCorrect* needs these invariants: what was pending is a scan received, and the times
kept of the audit are bounded by its own clock.

*NavSessionProofs*: `OneStack` follows from claims. A session past the lock of its role
excludes every other session and every group left behind in that role of which
`stack_role()` lists a process (`Exclusive`, `Alone`), and a perception that has adopted a navigation, or a group started under one,
excludes every other navigation (`Under`). Only three actions make a claim: `Enter`
checks lock and processes, `Adopt` takes over a running owner that the record names, and
so the only one of its role, `Popen` starts under what was adopted. `AllKnow` says what a
supervisor at each place knows of its group, `Records` that a record that says stopped
belongs to a dead session without a group, `AllTell` what the exit code and the failure
file have to do with each other from the `finally` clause on.

*SessionsTakeTurns* is the refinement of `StackOwners`. A session waits until it has the
lock of its role, owns from then on, runs once the child of its last command exists, ends
with the `finally` clause and is gone when its process is. It depends on its parent while
it supervises and afterwards, as long as its group is left, on the navigation that group
was started under. `Enter`, `Adopt` and the `Popen` of the last command are the abstract
`Acquire`, `Depend` and `Start`, a crash or an end is `Leave`, the death of a group
`StackEnds`; every other step is a stutter, the commands before the last one included,
unless it enters the `finally` clause (`Finish`). The claims above give the guards of
`Acquire` and `Depend`. What they do not give is that a stack is started once and under
the parent the session still has: that is `Lives`, which says for each place of a
supervisor whether it has a child, whether it is in its `finally` clause, and that its
group hangs on its parent.

Every invariant, every action property and every refinement of a passing run is the
statement of a theorem.
Only model-checked is liveness under fairness, which is out of TLAPS's reach:
`HoldingArms`, `StopIsCancelled`, `WheelsNeedStreams`, `LoopCompletes`, `StartIsBounded`,
`PerceptionEndsWithNav`; and the four counterexamples.

## 5. Not modelled

- `tf_authority_probe.cpp`, `static_costmap_node.cpp`: a diagnostic that counts
  publishers, and a wrapper around a costmap of Nav2. Next to no control of their own.
- `runtime_resource_audit.py`, `analyze_navigation_bag.py`, `amcl_quality_monitor.py`:
  read-only measurements of ROS, `/proc` and files; arithmetic and formatting.
- `calibrate_operator_stop.py`, `prepare_navigation_profile.py`,
  `prepare_perception_config.py`, `tools/`: sequential one-shot scripts over files.
- `rviz_overlay_bridge.py` and overlay plugins: display only.
- The rest of the launch files: declarations of processes, parameters and conditions.
- Of the readiness check the graph, transform and parameter checks of one report, of the
  audit the alignment score and the probe it starts: pure functions of one snapshot.

## 6. Plan

Done: operator stop, guard, bridge and chain, waypoint loop, gate and monitor, sessions,
sensor adapters and tools, with the proofs above and the abstract specifications of motion
and ownership. Left, in this order:

1. The checks of one readiness report in detail, and the authority probe.
2. `pilot_preflight.py` and the profile preparation, where they write files that later
   steps trust.
