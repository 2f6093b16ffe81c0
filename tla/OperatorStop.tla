---------------------------- MODULE OperatorStop ----------------------------
(***************************************************************************)
(* The node scripts/operator_stop.py around OperatorState: its callbacks   *)
(* (one single-threaded executor, so each is one action), the two services *)
(* it polls, the Bluetooth probe thread, and the Nav2 action server whose  *)
(* goals it watches and cancels.                                           *)
(*                                                                         *)
(* Time passes in Elapse, separately from every callback: a callback may   *)
(* be late by any amount.  The ROS clock moves on its own (it is the       *)
(* system clock, not the monotonic one) and may be stepped back.           *)
(***************************************************************************)
EXTENDS OperatorState

CONSTANTS
  CancelRetry,        \* 0.5 s between two cancel-all requests
  CancelLimit,        \* 2 s, after which an unanswered one is given up
  BridgeRetry,        \* 1 s between two bridge parameter requests
  BridgeLimit,        \* 2 s, after which an unanswered one is given up
  BridgeFresh,        \* 2.5 s, the oldest bridge answer that counts
  FootprintConfirmed, \* parameter footprint_confirmed
  JoyMsgs,            \* Joy messages that may arrive
  OdomMsgs,           \* may odometry report rest (TRUE), motion (FALSE)
  ProbeResults,       \* what the Bluetooth probe may report
  ReadyMsgs,          \* what /nav2/stack_ready may carry
  InitialUp,          \* services ready at the start
  Flaky,              \* services that may come and go
  ClockSteps,         \* may the ROS clock be stepped back
  MaxRos,             \* bound on the ROS clock
  MaxRestarts         \* bound on restarts of the node

Service == {"cancel", "bridge"}

ASSUME NodeAssumption ==
  /\ CancelLimit \in Nat /\ CancelRetry \in 0 .. CancelLimit
  /\ BridgeLimit \in Nat /\ BridgeRetry \in 0 .. BridgeLimit
  /\ BridgeFresh \in Nat
  /\ FootprintConfirmed \in BOOLEAN
  /\ JoyMsgs \subseteq JoyMsg
  /\ OdomMsgs \subseteq BOOLEAN /\ ProbeResults \subseteq BOOLEAN
  /\ ReadyMsgs \subseteq BOOLEAN
  /\ InitialUp \subseteq Service /\ Flaky \subseteq Service
  /\ ClockSteps \in BOOLEAN
  /\ MaxRos \in Nat /\ MaxRestarts \in Nat

VARIABLES
  op,         \* OperatorState
  output,     \* the last Bool published on /nav2/operator_stop
  cancel,     \* [fut, age since the request was sent, confirmed]
  bridge,     \* [fut, age since the request was sent, good, age of the answer,
              \* shown: history, see below]
  probe,      \* BluezProbe.result: [connected, age, new]; new: receipt # link_at
  ready,      \* StopHeartbeat of /nav2/stack_ready: [blocked, age]
  goalState,  \* the action server's goals
  stamp,      \* their acceptance stamps
  status,     \* undelivered goal status array, or None
  up,         \* services whose server is ready
  ros,        \* the ROS clock
  restarts,   \* how often the node was restarted
  hist        \* history: [old, released, held], see below

node == <<op, output, cancel, bridge, probe, ready>>
env  == <<goalState, stamp, status, up, ros, restarts>>
vars == <<node, env, hist>>

GoalStates == {"unsent", "executing", "canceling", "done"}
Live(gs)   == {g \in Goal : gs[g] \in {"executing", "canceling"}}
Accepted   == {g \in Goal : goalState[g] # "unsent"}

ReadyLimit == 0   \* 0.25 s, below one unit

-----------------------------------------------------------------------------
NodeInit ==
  [cancel |-> [fut |-> "none", age |-> Expired(CancelLimit),
               confirmed |-> FALSE],
   bridge |-> [fut |-> "none", age |-> Expired(BridgeLimit),
               good |-> FALSE, recv |-> Expired(BridgeFresh),
               shown |-> Expired(BridgeFresh)],
   probe  |-> [connected |-> FALSE, age |-> Expired(LinkLimit), new |-> FALSE],
   ready  |-> [blocked |-> TRUE, age |-> Expired(ReadyLimit)]]

(***************************************************************************)
(* History of what happened, for the properties only.                      *)
(*   old      : goals the server had accepted when the operator last       *)
(*              re-armed the node                                          *)
(*   released : a Joy message without stop, dead-man or reset button came  *)
(*              after the last press of stop or dead-man and after the     *)
(*              last re-arm                                                *)
(*   held     : time since the last Joy message that was not `reset only'  *)
(*   shown    : in bridge: time since a good answer of the bridge was        *)
(*              collected, if nothing bad was and no request was given up    *)
(*              since, and expired otherwise                                 *)
(***************************************************************************)
Init ==
  /\ op = InitState
  /\ output = TRUE
  /\ cancel = NodeInit.cancel
  /\ bridge = NodeInit.bridge
  /\ probe = NodeInit.probe
  /\ ready = NodeInit.ready
  /\ goalState = [g \in Goal |-> "unsent"]
  /\ stamp = [g \in Goal |-> 0]
  /\ status = None
  /\ up = InitialUp
  /\ ros = 0
  /\ restarts = 0
  /\ hist = [old |-> {}, released |-> FALSE, held |-> 0]

NewlyStopped == op.phase # Stopped /\ op'.phase = Stopped

\* Mutant of PublishIfStopped: the stop waits for the timer to publish it.
PublishLater ==
  /\ UNCHANGED output
  /\ cancel' = [cancel EXCEPT !.confirmed = @ /\ ~NewlyStopped]

\* A callback that leaves the node stopped publishes True and, when it did
\* the stopping, asks for a new cancellation.
PublishIfStopped ==
  /\ output' = (output \/ op'.phase = Stopped)
  /\ cancel' = [cancel EXCEPT !.confirmed = @ /\ ~NewlyStopped]

-----------------------------------------------------------------------------
(* Callbacks *)

Joy(m) ==
  /\ op' = JoyUpdate(Connection(op, TRUE, 0), m)
  /\ probe' = [probe EXCEPT !.new = TRUE]
  /\ PublishIfStopped
  /\ hist' = IF ~(m.valid /\ MappingVerified) THEN hist
             ELSE [hist EXCEPT
                     !.released = ~m.stop /\ ~m.deadman /\ (@ \/ ~m.reset),
                     !.held = IF m.stop \/ m.deadman \/ ~m.reset THEN 0 ELSE @]
  /\ UNCHANGED <<bridge, ready, env>>

Odom(still) ==
  /\ op' = Odometry(op, still)
  /\ UNCHANGED <<output, cancel, bridge, probe, ready, env, hist>>

GoalStatus ==
  /\ status # None
  /\ op' = Goals(op, status)
  /\ status' = None
  /\ output' = (output \/ op.phase = Stopped)
  /\ UNCHANGED <<cancel, bridge, probe, ready, goalState, stamp, up, ros,
                 restarts, hist>>

StackReady(r) ==
  /\ ready' = [blocked |-> ~r, age |-> 0]
  /\ IF ~r /\ op.phase = Running
     THEN /\ op' = Stop(op)
          /\ cancel' = [cancel EXCEPT !.confirmed = FALSE]
          /\ output' = TRUE
     ELSE UNCHANGED <<op, cancel, output>>
  /\ UNCHANGED <<bridge, probe, env, hist>>

-----------------------------------------------------------------------------
(* The 20 Hz timer: queries(), the Bluetooth result, OperatorState.tick() *)

CancelAnswered == cancel.fut \in {"confirming", "refusing"}
\* Mutant of CancelExpired: an unanswered request is never given up.
CancelWaitsForever == FALSE
CancelExpired  == cancel.fut \in {"waiting", "lost"} /\ cancel.age > CancelLimit
CancelKnown    == IF CancelAnswered THEN cancel.fut = "confirming"
                                    ELSE cancel.confirmed /\ ~CancelExpired
CancelFree     == cancel.fut = "none" \/ CancelAnswered \/ CancelExpired
CancelSend     ==
  /\ op.phase = Stopped
  /\ ~CancelKnown
  /\ cancel.age >= CancelRetry
  /\ CancelFree
  /\ "cancel" \in up

PollCancel ==
  cancel' = [fut |-> IF CancelSend THEN "waiting"
                     ELSE IF CancelFree THEN "none" ELSE cancel.fut,
             age |-> IF CancelSend THEN 0 ELSE cancel.age,
             confirmed |-> CancelKnown /\ ~NewlyStopped]

BridgeAnswered == bridge.fut \in {"good", "bad"}
\* Mutant of BridgeGood: a failed or late request keeps the values it had.
BridgeEverGood == bridge.good \/ bridge.fut = "good"

BridgeExpired  == bridge.fut = "waiting" /\ bridge.age > BridgeLimit
BridgeGood     == IF BridgeAnswered THEN bridge.fut = "good"
                                    ELSE bridge.good /\ ~BridgeExpired
BridgeRecv     == IF bridge.fut = "good" THEN 0 ELSE bridge.recv
BridgeFree     == bridge.fut = "none" \/ BridgeAnswered \/ BridgeExpired
BridgeSend     == BridgeFree /\ bridge.age >= BridgeRetry /\ "bridge" \in up

PollBridge ==
  bridge' = [fut |-> IF BridgeSend THEN "waiting"
                     ELSE IF BridgeFree THEN "none" ELSE bridge.fut,
             age |-> IF BridgeSend THEN 0 ELSE bridge.age,
             good |-> BridgeGood,
             recv |-> BridgeRecv,
             shown |-> IF bridge.fut = "good" THEN 0
                       ELSE IF bridge.fut = "bad" \/ BridgeExpired
                       THEN Expired(BridgeFresh) ELSE bridge.shown]

\* A fresh Joy message overrides the Bluetooth probe.
JoyFresh == op.joyAge <= JoyLimit
Linked ==
  IF JoyFresh       THEN Connection(op, TRUE, 0)
  ELSE IF probe.new THEN Connection(op, probe.connected, probe.age)
  ELSE op

Infrastructure(phase) ==
  /\ FootprintConfirmed
  /\ "bridge" \in up => BridgeGood /\ BridgeRecv <= BridgeFresh
  /\ "cancel" \in up \/ "bridge" \notin up \/ phase = Waiting

\* The ways OperatorState.tick ends, from the state s it has seen.
TickManual(s) ==
  /\ s.stop \/ s.deadman
  /\ op' = ManualStop(s)
  /\ output' = TRUE
  /\ UNCHANGED hist

TickStopped(s) ==
  /\ ~(s.stop \/ s.deadman)
  /\ s.phase = Stopped
  /\ ~CanArm(s)
  /\ op' = HoldReset(s)
  /\ output' = TRUE
  /\ UNCHANGED hist

TickArm(s) ==
  /\ ~(s.stop \/ s.deadman)
  /\ s.phase = Stopped
  /\ CanArm(s)
  /\ op' = Arm(s, ros)
  /\ output' = TRUE
  /\ hist' = [hist EXCEPT !.old = Accepted, !.released = FALSE]

TickPermitted(s) == ~(s.stop \/ s.deadman) /\ s.phase # Stopped

TickUnhealthy(s) ==
  /\ TickPermitted(s)
  /\ ~Healthy(s, Infrastructure(Linked.phase))
  /\ op' = Stop(s)
  /\ output' = TRUE
  /\ UNCHANGED hist

TickRun(s) ==
  /\ TickPermitted(s)
  /\ Healthy(s, Infrastructure(Linked.phase))
  /\ s.active # {} /\ AllNew(s, stamp)
  /\ op' = [s EXCEPT !.phase = Running]
  /\ output' = FALSE
  /\ UNCHANGED hist

TickOldGoal(s) ==
  /\ TickPermitted(s)
  /\ Healthy(s, Infrastructure(Linked.phase))
  /\ s.active # {} /\ ~AllNew(s, stamp)
  /\ op' = Stop(s)
  /\ output' = TRUE
  /\ UNCHANGED hist

TickNoGoal(s) ==
  /\ TickPermitted(s)
  /\ Healthy(s, Infrastructure(Linked.phase))
  /\ s.active = {}
  /\ op' = [s EXCEPT !.phase = Waiting]
  /\ output' = TRUE
  /\ UNCHANGED hist

Tick ==
  /\ LET s == ClockCheck(Linked, ros)
     IN  \/ TickManual(s)
         \/ TickStopped(s)
         \/ TickArm(s)
         \/ TickUnhealthy(s)
         \/ TickRun(s)
         \/ TickOldGoal(s)
         \/ TickNoGoal(s)
  /\ PollCancel
  /\ PollBridge
  /\ probe' = [probe EXCEPT !.new = JoyFresh]
  /\ UNCHANGED <<ready, env>>

-----------------------------------------------------------------------------
(* The world around the node *)

\* The probe thread replaces its result.
ProbeResult(c) ==
  /\ probe' = [connected |-> c, age |-> 0, new |-> TRUE]
  /\ UNCHANGED <<op, output, cancel, bridge, ready, env, hist>>

\* The action server stamps a goal with the ROS time and publishes the status
\* of all its goals (transient local, depth 1: the newest replaces the older).
AcceptGoal(g) ==
  /\ goalState[g] = "unsent"
  /\ goalState' = [goalState EXCEPT ![g] = "executing"]
  /\ stamp' = [stamp EXCEPT ![g] = ros]
  /\ status' = Live(goalState')
  /\ UNCHANGED <<node, up, ros, restarts, hist>>

FinishGoal(g) ==
  /\ g \in Live(goalState)
  /\ goalState' = [goalState EXCEPT ![g] = "done"]
  /\ status' = Live(goalState')
  /\ UNCHANGED <<node, stamp, up, ros, restarts, hist>>

\* A cancel-all request reaches the server: every executing goal starts to
\* cancel and is listed in the answer; goals that cancel already are not.
CancelAccepted ==
  LET executing == {g \in Goal : goalState[g] = "executing"}
  IN  /\ cancel.fut = "waiting"
      /\ goalState' = [g \in Goal |-> IF g \in executing THEN "canceling"
                                      ELSE goalState[g]]
      /\ status' = IF executing = {} THEN status ELSE Live(goalState')
      /\ cancel' = [cancel EXCEPT !.fut = IF executing = {} THEN "confirming"
                                          ELSE "refusing"]
      /\ UNCHANGED <<op, output, bridge, probe, ready, stamp, up, ros,
                     restarts, hist>>

\* The request or its answer is lost: only the node's own limit ends it.
CancelLost ==
  /\ cancel.fut = "waiting"
  /\ cancel' = [cancel EXCEPT !.fut = "lost"]
  /\ UNCHANGED <<op, output, bridge, probe, ready, env, hist>>

\* The request is rejected or fails.
CancelRejected ==
  /\ cancel.fut = "waiting"
  /\ cancel' = [cancel EXCEPT !.fut = "refusing"]
  /\ UNCHANGED <<op, output, bridge, probe, ready, env, hist>>

\* The bridge reports limits that match and forwarding on, or anything else.
BridgeReply(reply) ==
  /\ bridge.fut = "waiting"
  /\ bridge' = [bridge EXCEPT !.fut = reply]
  /\ UNCHANGED <<op, output, cancel, probe, ready, env, hist>>

ServiceChange(sv) ==
  /\ sv \in Flaky
  /\ up' = IF sv \in up THEN up \ {sv} ELSE up \cup {sv}
  /\ UNCHANGED <<node, goalState, stamp, status, ros, restarts, hist>>

RosAdvance ==
  /\ ros < MaxRos
  /\ ros' = ros + 1
  /\ UNCHANGED <<node, goalState, stamp, status, up, restarts, hist>>

RosStepBack ==
  /\ ClockSteps
  /\ ros > 0
  /\ ros' = ros - 1
  /\ UNCHANGED <<node, goalState, stamp, status, up, restarts, hist>>

TimeElapses ==
  /\ op' = Elapse(op)
  /\ cancel' = [cancel EXCEPT !.age = Older(@, CancelLimit)]
  /\ bridge' = [bridge EXCEPT !.age = Older(@, BridgeLimit),
                              !.recv = Older(@, BridgeFresh),
                              !.shown = Older(@, BridgeFresh)]
  /\ probe' = [probe EXCEPT !.age = Older(@, LinkLimit)]
  /\ ready' = [ready EXCEPT !.age = Older(@, ReadyLimit)]
  /\ hist' = [hist EXCEPT !.held = IF @ < ResetHold THEN @ + 1 ELSE @]
  /\ UNCHANGED <<output, env>>

\* The process ends and a new one is constructed: it publishes True, has
\* forgotten every goal, and is sent the last status array again.
Restart ==
  /\ restarts < MaxRestarts
  /\ restarts' = restarts + 1
  /\ op' = InitState
  /\ output' = TRUE
  /\ cancel' = NodeInit.cancel
  /\ bridge' = NodeInit.bridge
  /\ probe' = NodeInit.probe
  /\ ready' = NodeInit.ready
  /\ status' = Live(goalState)
  /\ hist' = [hist EXCEPT !.released = FALSE, !.held = 0]
  /\ UNCHANGED <<goalState, stamp, up, ros>>

Next ==
  \/ \E m \in JoyMsgs : Joy(m)
  \/ \E still \in OdomMsgs : Odom(still)
  \/ GoalStatus
  \/ \E r \in ReadyMsgs : StackReady(r)
  \/ Tick
  \/ \E c \in ProbeResults : ProbeResult(c)
  \/ \E g \in Goal : AcceptGoal(g)
  \/ \E g \in Goal : FinishGoal(g)
  \/ CancelAccepted
  \/ CancelRejected
  \/ CancelLost
  \/ \E reply \in {"good", "bad"} : BridgeReply(reply)
  \/ \E sv \in Service : ServiceChange(sv)
  \/ RosAdvance
  \/ RosStepBack
  \/ TimeElapses
  \/ Restart

Spec == Init /\ [][Next]_vars
-----------------------------------------------------------------------------
(* Fairness: the executor runs its steady timer, time passes, and the action *)
(* server answers cancel requests if the node keeps sending them (each one   *)
(* may be lost).  Nothing is assumed of the operator, the probe or the goals.*)
Fairness ==
  /\ WF_vars(Tick)
  /\ WF_vars(TimeElapses)
  /\ SF_vars(CancelAccepted)

FairSpec == Spec /\ Fairness

-----------------------------------------------------------------------------
(* Properties *)

CancelType == [fut : {"none", "waiting", "lost", "confirming", "refusing"},
               age : Age(CancelLimit), confirmed : BOOLEAN]
BridgeType == [fut : {"none", "waiting", "good", "bad"},
               age : Age(BridgeLimit), good : BOOLEAN, recv : Age(BridgeFresh),
               shown : Age(BridgeFresh)]
ProbeType  == [connected : BOOLEAN, age : Age(LinkLimit), new : BOOLEAN]
ReadyType  == [blocked : BOOLEAN, age : Age(ReadyLimit)]
HistType   == [old : SUBSET Goal, released : BOOLEAN, held : 0 .. ResetHold]

\* Every variable stays in its type; ages saturate and the bounds hold.
TypeOK ==
  /\ op \in StateType
  /\ output \in BOOLEAN
  /\ cancel \in CancelType
  /\ bridge \in BridgeType
  /\ probe \in ProbeType
  /\ ready \in ReadyType
  /\ goalState \in [Goal -> GoalStates]
  /\ stamp \in [Goal -> 0 .. MaxRos]
  /\ status \in (SUBSET Goal) \cup {None}
  /\ up \in SUBSET Service
  /\ ros \in 0 .. MaxRos
  /\ restarts \in 0 .. MaxRestarts
  /\ hist \in HistType

\* `A reset never resumes an old goal': while the node permits motion, no goal
\* it sees active was accepted by the action server before the operator last
\* re-armed, however late the goal status arrives and even if the node was
\* restarted and forgot the goals it had banned.
RunningGoalsAreNew == op.phase = Running => op.active \cap hist.old = {}

\* A goal that was active during a stop (or shown while stopped) never runs
\* again, also when the ROS clock steps back and its stamp looks new.
BannedGoalsNeverRun == op.phase = Running => op.active \cap op.banned = {}

\* The last heartbeat sent says `go' only in the RUNNING phase with neither
\* stop nor dead-man pressed: every callback that stops publishes the stop
\* itself and does not leave it to the timer.
BlockedUnlessRunning ==
  output = FALSE => op.phase = Running /\ ~op.stop /\ ~op.deadman

\* The node leaves STOPPED only after all buttons were seen released since the
\* last press of stop or dead-man and since the previous re-arm, and after the
\* reset button alone was held for the whole hold time: one hold re-arms once.
ArmingIsDeliberate ==
  [][op.phase = Stopped /\ op'.phase # Stopped =>
       hist.released /\ hist.held >= ResetHold]_vars

\* While the velocity bridge is up, no tick lets the robot go unless a good answer
\* of the bridge was collected not longer ago than it counts, and since then neither
\* a bad one was nor a request was given up: once the limits or the forwarding are
\* not known to be right, the output stays blocked until a new good answer comes,
\* whatever is pressed, accepted, lost or late in between.
BadBridgeBlocks ==
  [][Tick /\ "bridge" \in up /\ output' = FALSE => bridge'.shown <= BridgeFresh]_vars

\* An operator who has released the buttons and then holds reset, with Joy
\* messages arriving, is not left in STOPPED forever.
HoldingReset ==
  /\ op.phase = Stopped /\ CanReset(op)
  /\ ~op.stop /\ ~op.deadman
  /\ op.joyAge <= JoyLimit
HoldingArms == ~<>[]HoldingReset

\* A stop that is not confirmed by the action server is cancelled again, past
\* lost and refused requests, until it is (or the operator re-arms).
StopIsCancelled ==
  (op.phase = Stopped /\ ~cancel.confirmed) ~> (cancel.confirmed \/ op.phase # Stopped)

-----------------------------------------------------------------------------
(* What the documents say and the code does not do *)

\* docs/Navigation_Patch_2026-09-21.md: re-arming needs a stationary robot, no
\* active goal and a confirmed cancellation.
RearmRequirements ==
  [][op.phase = Stopped /\ op'.phase # Stopped =>
       op.resting /\ op.active = {} /\ cancel.confirmed]_vars
=============================================================================
