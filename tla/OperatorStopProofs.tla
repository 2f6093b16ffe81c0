------------------------- MODULE OperatorStopProofs -------------------------
(***************************************************************************)
(* Proofs about OperatorStop for every set of goals and every limit.       *)
(*                                                                         *)
(* RunningGoalsAreNew is not inductive: the goals the node sees are those  *)
(* of an old status array, newer arrays are under way, and the stamps are  *)
(* the server's.  StampInv bounds every stamp the node compares by the ROS *)
(* clock; ViewInv says that once the node (or a message under way) shows a *)
(* goal accepted after the re-arm, it also shows every goal accepted       *)
(* before it that is still live: an old goal cannot surface later.         *)
(***************************************************************************)
EXTENDS OperatorStop, TLAPS

\* The status array that is under way, if any.
Pending == IF status = None THEN {} ELSE status

LiveNow == Live(goalState)

StampInv ==
  /\ \A g \in Goal : stamp[g] <= ros
  /\ op.active \subseteq Accepted
  /\ Pending \subseteq Accepted
  /\ hist.old \subseteq Accepted
  /\ op.phase # Stopped =>
       /\ op.armed \in Nat
       /\ \A g \in hist.old : stamp[g] <= op.armed

ViewInv ==
  /\ ~(op.active \subseteq hist.old) =>
       /\ Pending \cap hist.old \subseteq op.active
       /\ LiveNow \cap hist.old \subseteq op.active
  /\ ~(Pending \subseteq hist.old) => LiveNow \cap hist.old \subseteq Pending
  /\ op.phase = Running =>
       /\ op.active \cap hist.old = {}
       /\ Pending \cap hist.old = {}
       /\ LiveNow \cap hist.old = {}

Inv == TypeOK /\ StampInv /\ ViewInv

-----------------------------------------------------------------------------
(* The operators of OperatorState keep the type of the record. *)

LEMMA OlderType ==
  ASSUME NEW limit \in Nat, NEW age \in Age(limit)
  PROVE  Older(age, limit) \in Age(limit)
BY DEF Older, Age

LEMMA InitStateType == InitState \in StateType
BY LimitsAssumption
   DEF InitState, StateType, Phases, Stopped, Age, Expired

LEMMA StopType ==
  ASSUME NEW s \in StateType
  PROVE  /\ Stop(s) \in StateType
         /\ ManualStop(s) \in StateType
<1>1. Stop(s) \in StateType
  BY DEF Stop, StateType, Phases, Stopped
<1>2. QED
  BY <1>1 DEF ManualStop, StateType

LEMMA ConnectionType ==
  ASSUME NEW s \in StateType, NEW c \in BOOLEAN, NEW age \in Age(LinkLimit)
  PROVE  Connection(s, c, age) \in StateType
<1> DEFINE t == [s EXCEPT !.link = c, !.linkAge = age]
<1>1. t \in StateType
  BY DEF StateType
<1>2. QED
  BY <1>1, StopType DEF Connection

LEMMA JoyUpdateType ==
  ASSUME NEW s \in StateType, NEW m \in JoyMsg
  PROVE  JoyUpdate(s, m) \in StateType
<1>0. 0 \in Age(JoyLimit)
  BY LimitsAssumption DEF Age, LimitsAssumption
<1>1. Buttons(s, m) \in StateType
  BY <1>0 DEF Buttons, StateType, JoyMsg
<1>2. [Buttons(s, m) EXCEPT !.released = TRUE, !.resetAge = None] \in StateType
  BY <1>1 DEF StateType
<1>3. QED
  BY <1>1, <1>2, StopType DEF JoyUpdate

LEMMA OdometryType ==
  ASSUME NEW s \in StateType, NEW still \in BOOLEAN
  PROVE  Odometry(s, still) \in StateType
<1>1. 0 \in Age(OdomLimit)
  BY LimitsAssumption DEF Age, LimitsAssumption
<1>2. QED
  BY <1>1 DEF Odometry, StateType

LEMMA GoalsType ==
  ASSUME NEW s \in StateType, NEW a \in SUBSET Goal
  PROVE  Goals(s, a) \in StateType
BY DEF Goals, StateType

LEMMA ClockCheckType ==
  ASSUME NEW s \in StateType, NEW r \in Nat
  PROVE  ClockCheck(s, r) \in StateType
<1>1. ASSUME NEW t \in StateType
      PROVE  [t EXCEPT !.lastRos = r] \in StateType
  BY DEF StateType
<1>2. QED
  BY <1>1, StopType DEF ClockCheck

LEMMA HoldResetType ==
  ASSUME NEW s \in StateType
  PROVE  HoldReset(s) \in StateType
<1>1. Held(s) \in 0 .. ResetHold
  BY LimitsAssumption DEF Held, StateType
<1>2. QED
  BY <1>1 DEF HoldReset, StateType

LEMMA ArmType ==
  ASSUME NEW s \in StateType, NEW r \in Nat
  PROVE  Arm(s, r) \in StateType
BY DEF Arm, StateType, Phases, Waiting

LEMMA ElapseType ==
  ASSUME NEW s \in StateType
  PROVE  Elapse(s) \in StateType
<1>1. /\ Older(s.joyAge, JoyLimit) \in Age(JoyLimit)
      /\ Older(s.linkAge, LinkLimit) \in Age(LinkLimit)
      /\ Older(s.odomAge, OdomLimit) \in Age(OdomLimit)
  BY OlderType, LimitsAssumption DEF StateType
<1> DEFINE r == IF s.resetAge = None \/ s.resetAge = ResetHold
                THEN s.resetAge ELSE s.resetAge + 1
<1>2. r \in (0 .. ResetHold) \cup {None}
  BY LimitsAssumption DEF StateType
<1>3. QED
  BY <1>1, <1>2 DEF Elapse, StateType

-----------------------------------------------------------------------------
(* Type correctness *)

\* What a tick sees: the state with the link and the clock brought up to date.
Seen == ClockCheck(Linked, ros)

LEMMA SeenType ==
  ASSUME TypeOK
  PROVE  Linked \in StateType /\ Seen \in StateType
<1>1. 0 \in Age(LinkLimit)
  BY LimitsAssumption DEF Age, LimitsAssumption
<1>2. Linked \in StateType
  BY <1>1, ConnectionType DEF Linked, TypeOK, ProbeType
<1>3. ros \in Nat
  BY NodeAssumption DEF TypeOK, NodeAssumption
<1>4. QED
  BY <1>2, <1>3, ClockCheckType DEF Seen

LEMMA AgeZero ==
  /\ 0 \in Age(CancelLimit) /\ 0 \in Age(BridgeLimit) /\ 0 \in Age(BridgeFresh)
  /\ 0 \in Age(LinkLimit) /\ 0 \in Age(ReadyLimit)
  /\ Expired(CancelLimit) \in Age(CancelLimit)
  /\ Expired(BridgeLimit) \in Age(BridgeLimit)
  /\ Expired(BridgeFresh) \in Age(BridgeFresh)
  /\ Expired(LinkLimit) \in Age(LinkLimit)
  /\ Expired(ReadyLimit) \in Age(ReadyLimit)
BY LimitsAssumption, NodeAssumption
   DEF Age, Expired, LimitsAssumption, NodeAssumption, ReadyLimit

LEMMA NodeInitType ==
  /\ NodeInit.cancel \in CancelType
  /\ NodeInit.bridge \in BridgeType
  /\ NodeInit.probe \in ProbeType
  /\ NodeInit.ready \in ReadyType
BY AgeZero DEF NodeInit, CancelType, BridgeType, ProbeType, ReadyType

LEMMA LiveType ==
  ASSUME NEW gs
  PROVE  Live(gs) \in SUBSET Goal
BY DEF Live

LEMMA PublishType ==
  ASSUME TypeOK, PublishIfStopped
  PROVE  output' \in BOOLEAN /\ cancel' \in CancelType
BY DEF TypeOK, PublishIfStopped, NewlyStopped, CancelType

LEMMA PollType ==
  ASSUME TypeOK, PollCancel, PollBridge
  PROVE  cancel' \in CancelType /\ bridge' \in BridgeType
<1>1. cancel' \in CancelType
  BY AgeZero DEF TypeOK, PollCancel, CancelType, CancelKnown, NewlyStopped
<1>2. BridgeRecv \in Age(BridgeFresh) /\ BridgeGood \in BOOLEAN
  BY AgeZero DEF BridgeRecv, BridgeGood, TypeOK, BridgeType, BridgeAnswered,
                 BridgeExpired
<1>3. bridge' \in BridgeType
  BY <1>2, AgeZero DEF TypeOK, PollBridge, BridgeType
<1>4. QED
  BY <1>1, <1>3

LEMMA TickType ==
  ASSUME TypeOK, Tick
  PROVE  op' \in StateType /\ output' \in BOOLEAN /\ hist' \in HistType
<1> USE SeenType
<1>0. ros \in Nat
  BY NodeAssumption DEF TypeOK, NodeAssumption
<1>1. CASE TickManual(Seen)
  BY <1>1, StopType DEF TickManual, TypeOK
<1>2. CASE TickStopped(Seen)
  BY <1>2, HoldResetType DEF TickStopped, TypeOK
<1>3. CASE TickArm(Seen)
  <2>1. Accepted \in SUBSET Goal
    BY DEF Accepted
  <2>2. hist' \in HistType
    BY <1>3, <2>1 DEF TickArm, TypeOK, HistType
  <2>3. QED
    BY <1>0, <1>3, <2>2, ArmType DEF TickArm, TypeOK
<1>4. CASE TickUnhealthy(Seen)
  BY <1>4, StopType DEF TickUnhealthy, TypeOK
<1>5. CASE TickRun(Seen)
  BY <1>5 DEF TickRun, TypeOK, StateType, Phases
<1>6. CASE TickOldGoal(Seen)
  BY <1>6, StopType DEF TickOldGoal, TypeOK
<1>7. CASE TickNoGoal(Seen)
  BY <1>7 DEF TickNoGoal, TypeOK, StateType, Phases
<1>8. QED
  BY <1>1, <1>2, <1>3, <1>4, <1>5, <1>6, <1>7 DEF Tick, Seen

LEMMA TypeStep == TypeOK /\ [Next]_vars => TypeOK'
<1> SUFFICES ASSUME TypeOK, [Next]_vars PROVE TypeOK'
  OBVIOUS
<1>1. ASSUME NEW m \in JoyMsgs, Joy(m) PROVE TypeOK'
  <2>1. m \in JoyMsg
    BY NodeAssumption DEF NodeAssumption
  <2>2. op' \in StateType
    BY <1>1, <2>1, AgeZero, ConnectionType, JoyUpdateType DEF Joy, TypeOK
  <2>3. probe' \in ProbeType
    BY <1>1 DEF Joy, TypeOK, ProbeType
  <2>4. hist' \in HistType
    <3> DEFINE r == ~m.stop /\ ~m.deadman /\ (hist.released \/ ~m.reset)
               h == IF m.stop \/ m.deadman \/ ~m.reset THEN 0 ELSE hist.held
    <3>1. r \in BOOLEAN /\ h \in 0 .. ResetHold
      BY LimitsAssumption DEF TypeOK, HistType, LimitsAssumption
    <3>2. [hist EXCEPT !.released = r, !.held = h] \in HistType
      BY <3>1 DEF TypeOK, HistType
    <3>3. QED
      BY <1>1, <3>2 DEF Joy, TypeOK
  <2>5. QED
    BY <1>1, <2>2, <2>3, <2>4, PublishType DEF Joy, TypeOK, env
<1>2. ASSUME NEW still \in OdomMsgs, Odom(still) PROVE TypeOK'
  <2>0. still \in BOOLEAN
    BY NodeAssumption DEF NodeAssumption
  <2>1. op' \in StateType
    BY <1>2, <2>0, OdometryType DEF Odom, TypeOK
  <2>2. QED
    BY <1>2, <2>1 DEF Odom, TypeOK, env
<1>3. CASE GoalStatus
  <2>0. status \in SUBSET Goal
    BY <1>3 DEF GoalStatus, TypeOK
  <2>1. op' \in StateType
    BY <1>3, <2>0, GoalsType DEF GoalStatus, TypeOK
  <2>2. output' \in BOOLEAN
    BY <1>3 DEF GoalStatus, TypeOK
  <2>3. QED
    BY <1>3, <2>1, <2>2 DEF GoalStatus, TypeOK
<1>4. ASSUME NEW r \in ReadyMsgs, StackReady(r) PROVE TypeOK'
  <2>1. ready' \in ReadyType
    BY <1>4, AgeZero, NodeAssumption DEF StackReady, ReadyType, NodeAssumption
  <2>2. op' \in StateType /\ output' \in BOOLEAN
    BY <1>4, StopType DEF StackReady, TypeOK
  <2>3. cancel' \in CancelType
    BY <1>4 DEF StackReady, TypeOK, CancelType
  <2>4. QED
    BY <1>4, <2>1, <2>2, <2>3 DEF StackReady, TypeOK, env
<1>5. CASE Tick
  <2>0. JoyFresh \in BOOLEAN
    BY DEF JoyFresh
  <2>1. probe' \in ProbeType
    BY <1>5, <2>0 DEF Tick, TypeOK, ProbeType
  <2>2. QED
    BY <1>5, <2>1, TickType, PollType DEF Tick, TypeOK, env
<1>6. ASSUME NEW c \in ProbeResults, ProbeResult(c) PROVE TypeOK'
  <2>1. probe' \in ProbeType
    BY <1>6, AgeZero, NodeAssumption DEF ProbeResult, ProbeType, NodeAssumption
  <2>2. QED
    BY <1>6, <2>1 DEF ProbeResult, TypeOK, env
<1>7. ASSUME NEW g \in Goal, AcceptGoal(g) PROVE TypeOK'
  BY <1>7, LiveType DEF AcceptGoal, TypeOK, node, GoalStates
<1>8. ASSUME NEW g \in Goal, FinishGoal(g) PROVE TypeOK'
  BY <1>8, LiveType DEF FinishGoal, TypeOK, node, GoalStates
<1>9. CASE CancelAccepted
  <2>1. goalState' \in [Goal -> GoalStates]
    BY <1>9 DEF CancelAccepted, TypeOK, GoalStates
  <2>2. cancel' \in CancelType
    BY <1>9 DEF CancelAccepted, TypeOK, CancelType
  <2>3. QED
    BY <1>9, <2>1, <2>2, LiveType DEF CancelAccepted, TypeOK
<1>10. CASE CancelRejected \/ CancelLost
  <2>1. cancel' \in CancelType
    BY <1>10 DEF CancelRejected, CancelLost, TypeOK, CancelType
  <2>2. QED
    BY <1>10, <2>1 DEF CancelRejected, CancelLost, TypeOK, env
<1>11. ASSUME NEW reply \in {"good", "bad"}, BridgeReply(reply) PROVE TypeOK'
  <2>1. bridge' \in BridgeType
    BY <1>11 DEF BridgeReply, TypeOK, BridgeType
  <2>2. QED
    BY <1>11, <2>1 DEF BridgeReply, TypeOK, env
<1>12. ASSUME NEW sv \in Service, ServiceChange(sv) PROVE TypeOK'
  BY <1>12 DEF ServiceChange, TypeOK, node
<1>13. CASE RosAdvance \/ RosStepBack
  BY <1>13, NodeAssumption DEF RosAdvance, RosStepBack, TypeOK, node, NodeAssumption
<1>14. CASE TimeElapses
  <2>1. op' \in StateType
    BY <1>14, ElapseType DEF TimeElapses, TypeOK
  <2>2. cancel' \in CancelType /\ bridge' \in BridgeType
    BY <1>14, OlderType, NodeAssumption
       DEF TimeElapses, TypeOK, CancelType, BridgeType, NodeAssumption
  <2>3. probe' \in ProbeType /\ ready' \in ReadyType
    BY <1>14, OlderType, LimitsAssumption
       DEF TimeElapses, TypeOK, ProbeType, ReadyType, LimitsAssumption, ReadyLimit
  <2>4. hist' \in HistType
    <3> DEFINE h == IF hist.held < ResetHold THEN hist.held + 1 ELSE hist.held
    <3>1. h \in 0 .. ResetHold
      BY LimitsAssumption DEF TypeOK, HistType, LimitsAssumption
    <3>2. QED
      BY <1>14, <3>1 DEF TimeElapses, TypeOK, HistType
  <2>5. QED
    BY <1>14, <2>1, <2>2, <2>3, <2>4 DEF TimeElapses, TypeOK, env
<1>15. CASE Restart
  <2>0. 0 \in 0 .. ResetHold
    BY LimitsAssumption DEF LimitsAssumption
  <2>1. hist' \in HistType
    BY <1>15, <2>0 DEF Restart, TypeOK, HistType
  <2>2. restarts' \in 0 .. MaxRestarts
    BY <1>15, NodeAssumption DEF Restart, TypeOK, NodeAssumption
  <2>3. QED
    BY <1>15, <2>1, <2>2, NodeInitType, InitStateType, LiveType DEF Restart, TypeOK
<1>16. CASE UNCHANGED vars
  BY <1>16 DEF vars, node, env, TypeOK
<1>17. QED
  BY <1>1, <1>2, <1>3, <1>4, <1>5, <1>6, <1>7, <1>8, <1>9, <1>10, <1>11,
     <1>12, <1>13, <1>14, <1>15, <1>16 DEF Next

LEMMA InitTypeOK == Init => TypeOK
<1> SUFFICES ASSUME Init PROVE TypeOK
  OBVIOUS
<1>0. 0 \in 0 .. ResetHold /\ 0 \in 0 .. MaxRos /\ 0 \in 0 .. MaxRestarts
  BY LimitsAssumption, NodeAssumption DEF LimitsAssumption, NodeAssumption
<1>1. hist \in HistType
  BY <1>0 DEF Init, HistType
<1>2. goalState \in [Goal -> GoalStates] /\ stamp \in [Goal -> 0 .. MaxRos]
  BY <1>0 DEF Init, GoalStates
<1>3. up \in SUBSET Service
  BY NodeAssumption DEF Init, NodeAssumption
<1>4. QED
  BY <1>0, <1>1, <1>2, <1>3, InitStateType, NodeInitType DEF Init, TypeOK

\* Every variable of the node and its environment keeps its type.
THEOREM TypeCorrect == Spec => []TypeOK
BY InitTypeOK, TypeStep, PTL DEF Spec

-----------------------------------------------------------------------------
(* Old goals never run *)

\* A state t that permits no more than s: the node may stop, but it neither
\* re-arms nor starts to run, and it sees the same goals.
Quieter(t, s) ==
  /\ t.active = s.active
  /\ t.phase # Stopped => s.phase # Stopped /\ t.armed = s.armed
  /\ t.phase = Running => s.phase = Running

\* Every operator of OperatorState but Goals, Arm and the start of a run.
LEMMA Quiet ==
  ASSUME NEW s \in StateType
  PROVE  /\ Quieter(Stop(s), s)
         /\ Quieter(ManualStop(s), s)
         /\ \A c, age : Quieter(Connection(s, c, age), s)
         /\ \A m : Quieter(JoyUpdate(s, m), s)
         /\ \A still : Quieter(Odometry(s, still), s)
         /\ \A r : Quieter(ClockCheck(s, r), s)
         /\ Quieter(HoldReset(s), s)
         /\ Quieter(Elapse(s), s)
<1>1. Quieter(Stop(s), s) /\ Quieter(ManualStop(s), s)
  BY DEF Quieter, Stop, ManualStop, StateType, Stopped, Running
<1>2. \A c, age : Quieter(Connection(s, c, age), s)
  BY DEF Quieter, Connection, Stop, StateType, Stopped, Running
<1>3. \A m : Quieter(JoyUpdate(s, m), s)
  BY DEF Quieter, JoyUpdate, Buttons, Stop, ManualStop, StateType, Stopped,
         Running
<1>4. \A still : Quieter(Odometry(s, still), s)
  BY DEF Quieter, Odometry, StateType
<1>5. \A r : Quieter(ClockCheck(s, r), s)
  BY DEF Quieter, ClockCheck, Stop, StateType, Stopped, Running
<1>6. Quieter(HoldReset(s), s) /\ Quieter(Elapse(s), s)
  BY DEF Quieter, HoldReset, Elapse, StateType
<1>7. QED
  BY <1>1, <1>2, <1>3, <1>4, <1>5, <1>6

LEMMA QuieterTransitive ==
  ASSUME NEW r, NEW s, NEW t, Quieter(r, s), Quieter(s, t)
  PROVE  Quieter(r, t)
BY DEF Quieter

LEMMA SeenQuieter ==
  ASSUME TypeOK
  PROVE  Quieter(Seen, op)
<1>1. Quieter(Linked, op)
  <2>1. op \in StateType
    BY DEF TypeOK
  <2>2. Quieter(op, op)
    BY DEF Quieter
  <2>3. /\ Quieter(Connection(op, TRUE, 0), op)
        /\ Quieter(Connection(op, probe.connected, probe.age), op)
    BY <2>1, Quiet
  <2>4. QED
    BY <2>2, <2>3 DEF Linked
<1>2. Quieter(Seen, Linked)
  BY SeenType, Quiet DEF Seen
<1>3. QED
  BY <1>1, <1>2, QuieterTransitive

\* Nothing of the server, the messages or the history changes, and the node
\* permits no more than before: the invariant is kept.
LEMMA QuietStep ==
  ASSUME Inv, TypeOK', Quieter(op', op),
         UNCHANGED <<goalState, stamp, status, ros>>, hist'.old = hist.old
  PROVE  Inv'
<1>1. UNCHANGED <<Accepted, Pending, LiveNow>>
  BY DEF Accepted, Pending, LiveNow
<1>2. StampInv'
  BY <1>1 DEF Inv, StampInv, Quieter
<1>3. ViewInv'
  BY <1>1 DEF Inv, ViewInv, Quieter
<1>4. QED
  BY <1>2, <1>3 DEF Inv

\* The operator re-arms: every goal accepted so far becomes old.
LEMMA ArmStep ==
  ASSUME Inv, TypeOK', TickArm(Seen), UNCHANGED env
  PROVE  Inv'
<1>1. /\ op'.active = op.active
      /\ op'.phase = Waiting
      /\ op'.armed = ros
  BY SeenType, SeenQuieter
     DEF Inv, TickArm, Arm, StateType, Quieter
<1>2. hist'.old = Accepted
  BY DEF Inv, TypeOK, TickArm, HistType
<1>3. UNCHANGED <<Accepted, Pending, LiveNow, stamp, ros>>
  BY DEF env, Accepted, Pending, LiveNow
<1>4. StampInv'
  <2>1. ros \in Nat
    BY NodeAssumption DEF Inv, TypeOK, NodeAssumption
  <2>2. QED
    BY <1>1, <1>2, <1>3, <2>1 DEF Inv, StampInv, Accepted
<1>5. ViewInv'
  BY <1>1, <1>2, <1>3 DEF Inv, StampInv, ViewInv, Waiting, Running
<1>6. QED
  BY <1>4, <1>5 DEF Inv

\* The node starts or goes on running: all goals it sees are newer than the
\* re-arm, so none of them is old, and no old goal is live or under way.
LEMMA RunStep ==
  ASSUME Inv, TypeOK', TickRun(Seen), UNCHANGED env
  PROVE  Inv'
<1>1. /\ op'.active = op.active
      /\ op'.phase = Running
      /\ op'.armed = op.armed
      /\ op.phase # Stopped
      /\ op.active # {}
      /\ \A g \in op.active : stamp[g] > op.armed
  BY SeenType, SeenQuieter
     DEF Inv, TickRun, TickPermitted, AllNew, StateType, Quieter, Running, Stopped
<1>2. hist' = hist
  BY DEF TickRun
<1>3. UNCHANGED <<Accepted, Pending, LiveNow, stamp, ros>>
  BY DEF env, Accepted, Pending, LiveNow
<1>4. op.active \cap hist.old = {}
  <2> SUFFICES ASSUME NEW g \in op.active, g \in hist.old PROVE FALSE
    OBVIOUS
  <2>1. g \in Goal /\ stamp[g] \in Nat /\ op.armed \in Nat
    BY <1>1, NodeAssumption
       DEF Inv, TypeOK, StampInv, StateType, NodeAssumption
  <2>2. stamp[g] <= op.armed
    BY <1>1 DEF Inv, StampInv
  <2>3. stamp[g] > op.armed
    BY <1>1
  <2>4. QED
    BY <2>1, <2>2, <2>3
<1>5. /\ Pending \cap hist.old = {}
      /\ LiveNow \cap hist.old = {}
  BY <1>1, <1>4 DEF Inv, ViewInv
<1>6. StampInv'
  BY <1>1, <1>2, <1>3 DEF Inv, StampInv, Running, Stopped
<1>7. ViewInv'
  BY <1>1, <1>2, <1>3, <1>4, <1>5 DEF Inv, ViewInv
<1>8. QED
  BY <1>6, <1>7 DEF Inv

LEMMA TickStep ==
  ASSUME Inv, TypeOK', Tick
  PROVE  Inv'
<1>0. Seen \in StateType /\ Quieter(Seen, op)
  BY SeenType, SeenQuieter DEF Inv
<1>1. UNCHANGED <<env, goalState, stamp, status, ros>>
  BY DEF Tick, env
<1>2. CASE TickArm(Seen)
  BY <1>1, <1>2, ArmStep
<1>3. CASE TickRun(Seen)
  BY <1>1, <1>3, RunStep
<1>4. CASE TickManual(Seen) \/ TickUnhealthy(Seen) \/ TickOldGoal(Seen)
  <2>1. Quieter(op', Seen) /\ hist' = hist
    BY <1>0, <1>4, Quiet DEF TickManual, TickUnhealthy, TickOldGoal
  <2>2. Quieter(op', op)
    BY <1>0, <2>1, QuieterTransitive
  <2>3. QED
    BY <1>1, <2>1, <2>2, QuietStep
<1>5. CASE TickStopped(Seen)
  <2>1. Quieter(op', Seen) /\ hist' = hist
    BY <1>0, <1>5, Quiet DEF TickStopped
  <2>2. Quieter(op', op)
    BY <1>0, <2>1, QuieterTransitive
  <2>3. QED
    BY <1>1, <2>1, <2>2, QuietStep
<1>6. CASE TickNoGoal(Seen)
  <2>1. Quieter(op', Seen) /\ hist' = hist
    BY <1>0, <1>6 DEF TickNoGoal, TickPermitted, Quieter, StateType, Waiting,
                Running, Stopped
  <2>2. Quieter(op', op)
    BY <1>0, <2>1, QuieterTransitive
  <2>3. QED
    BY <1>1, <2>1, <2>2, QuietStep
<1>7. QED
  BY <1>2, <1>3, <1>4, <1>5, <1>6 DEF Tick, Seen

\* The node takes the status array under way: ViewInv already knows what it
\* can show.
LEMMA GoalStatusStep ==
  ASSUME Inv, TypeOK', GoalStatus
  PROVE  Inv'
<1>1. /\ op'.active = Pending
      /\ op'.phase = op.phase
      /\ op'.armed = op.armed
      /\ Pending' = {}
  BY DEF GoalStatus, Goals, Pending, Inv, TypeOK, StateType
<1>2. UNCHANGED <<Accepted, LiveNow, stamp, ros, hist>>
  BY DEF GoalStatus, Accepted, LiveNow
<1>3. StampInv'
  BY <1>1, <1>2 DEF Inv, StampInv
<1>4. ViewInv'
  BY <1>1, <1>2 DEF Inv, ViewInv
<1>5. QED
  BY <1>3, <1>4 DEF Inv

\* The server publishes: a goal is accepted (it cannot be old) or goals leave.
LEMMA ServerStep ==
  ASSUME Inv, TypeOK', UNCHANGED <<op, hist, ros>>,
         Accepted \subseteq Accepted',
         LiveNow' \cap Accepted \subseteq LiveNow,
         LiveNow' \subseteq Accepted',
         \/ status' = LiveNow'
         \/ status' = status,
         \A g \in Goal : stamp'[g] = stamp[g] \/ (g \notin Accepted /\ stamp'[g] = ros)
  PROVE  Inv'
<1>1. Pending' \subseteq LiveNow' \/ Pending' = Pending
  BY DEF Pending
<1>2. Pending' = LiveNow' \/ Pending' = {} \/ Pending' = Pending
  BY DEF Pending
<1>3. hist.old \subseteq Accepted
  BY DEF Inv, StampInv
<1>4. LiveNow' \cap hist.old \subseteq LiveNow
  BY <1>3
<1>5. StampInv'
  <2>1. ros \in Nat /\ \A g \in Goal : stamp[g] \in Nat
    BY NodeAssumption DEF Inv, TypeOK, NodeAssumption
  <2>2. \A g \in Goal : stamp'[g] <= ros'
    BY <2>1 DEF Inv, StampInv
  <2>3. \A g \in hist.old : g \in Goal /\ stamp'[g] = stamp[g]
    BY <1>3 DEF Accepted
  <2>4. QED
    BY <1>1, <1>3, <2>2, <2>3 DEF Inv, StampInv
<1>6. ViewInv'
  BY <1>2, <1>4 DEF Inv, ViewInv
<1>7. QED
  BY <1>5, <1>6 DEF Inv

\* The inductive step, under a ROS clock that is never stepped back.
LEMMA InvStep ==
  ASSUME ~ClockSteps
  PROVE  Inv /\ [Next]_vars => Inv'
<1> SUFFICES ASSUME Inv, [Next]_vars PROVE Inv'
  OBVIOUS
<1>0. TypeOK' /\ op \in StateType
  BY TypeStep DEF Inv, TypeOK
<1>1. ASSUME NEW m \in JoyMsgs, Joy(m) PROVE Inv'
  <2>1. Connection(op, TRUE, 0) \in StateType
    BY <1>0, AgeZero, ConnectionType
  <2>2. Quieter(op', Connection(op, TRUE, 0))
    BY <1>1, <2>1, Quiet DEF Joy
  <2>3. Quieter(Connection(op, TRUE, 0), op)
    BY <1>0, Quiet
  <2>4. Quieter(op', op)
    BY <2>2, <2>3, QuieterTransitive
  <2>5. hist'.old = hist.old
    BY <1>1 DEF Joy, Inv, TypeOK, HistType
  <2>6. QED
    BY <1>0, <1>1, <2>4, <2>5, QuietStep DEF Joy, env
<1>2. ASSUME NEW still \in OdomMsgs, Odom(still) PROVE Inv'
  <2>1. Quieter(op', op)
    BY <1>0, <1>2, Quiet DEF Odom
  <2>2. QED
    BY <1>0, <1>2, <2>1, QuietStep DEF Odom, env
<1>3. CASE GoalStatus
  BY <1>0, <1>3, GoalStatusStep
<1>4. ASSUME NEW r \in ReadyMsgs, StackReady(r) PROVE Inv'
  <2>1. Quieter(op', op)
    BY <1>0, <1>4, Quiet DEF StackReady, Quieter
  <2>2. QED
    BY <1>0, <1>4, <2>1, QuietStep DEF StackReady, env
<1>5. CASE Tick
  BY <1>0, <1>5, TickStep
<1>6. CASE \/ \E c \in ProbeResults : ProbeResult(c)
           \/ CancelRejected \/ CancelLost
           \/ \E reply \in {"good", "bad"} : BridgeReply(reply)
           \/ \E sv \in Service : ServiceChange(sv)
           \/ UNCHANGED vars
  <2>1. UNCHANGED <<op, hist, goalState, stamp, status, ros>>
    BY <1>6 DEF ProbeResult, CancelRejected, CancelLost, BridgeReply,
                ServiceChange, vars, node, env
  <2>2. Quieter(op', op)
    BY <2>1 DEF Quieter
  <2>3. QED
    BY <1>0, <2>1, <2>2, QuietStep
<1>7. ASSUME NEW g \in Goal, AcceptGoal(g) PROVE Inv'
  <2>1. /\ Accepted \subseteq Accepted'
        /\ LiveNow' \cap Accepted \subseteq LiveNow
        /\ LiveNow' \subseteq Accepted'
        /\ g \notin Accepted
    BY <1>7 DEF AcceptGoal, Accepted, LiveNow, Live, Inv, TypeOK
  <2>2. \A h \in Goal : stamp'[h] = stamp[h] \/ (h \notin Accepted /\ stamp'[h] = ros)
    BY <1>7, <2>1 DEF AcceptGoal, Inv, TypeOK
  <2>3. UNCHANGED <<op, hist, ros>> /\ status' = LiveNow'
    BY <1>7 DEF AcceptGoal, node, LiveNow
  <2>4. QED
    BY <1>0, <2>1, <2>2, <2>3, ServerStep
<1>8. ASSUME NEW g \in Goal, FinishGoal(g) PROVE Inv'
  <2>1. /\ Accepted \subseteq Accepted'
        /\ LiveNow' \cap Accepted \subseteq LiveNow
        /\ LiveNow' \subseteq Accepted'
    BY <1>8 DEF FinishGoal, Accepted, LiveNow, Live, Inv, TypeOK
  <2>2. UNCHANGED <<op, hist, ros, stamp>> /\ status' = LiveNow'
    BY <1>8 DEF FinishGoal, node, LiveNow
  <2>3. QED
    BY <1>0, <2>1, <2>2, ServerStep
<1>9. CASE CancelAccepted
  <2>1. /\ Accepted \subseteq Accepted'
        /\ LiveNow' \cap Accepted \subseteq LiveNow
        /\ LiveNow' \subseteq Accepted'
    BY <1>9 DEF CancelAccepted, Accepted, LiveNow, Live, Inv, TypeOK
  <2>2. UNCHANGED <<op, hist, ros, stamp>>
    BY <1>9 DEF CancelAccepted
  <2>3. status' = LiveNow' \/ status' = status
    BY <1>9 DEF CancelAccepted, LiveNow
  <2>4. QED
    BY <1>0, <2>1, <2>2, <2>3, ServerStep
<1>10. CASE RosAdvance
  <2>1. UNCHANGED <<op, hist, goalState, stamp, status>> /\ ros' = ros + 1
    BY <1>10 DEF RosAdvance, node
  <2>2. ros \in Nat /\ \A g \in Goal : stamp[g] \in Nat
    BY NodeAssumption DEF Inv, TypeOK, NodeAssumption
  <2>3. StampInv'
    BY <2>1, <2>2 DEF Inv, StampInv, Accepted, Pending
  <2>4. ViewInv'
    BY <2>1 DEF Inv, ViewInv, LiveNow, Pending
  <2>5. QED
    BY <1>0, <2>3, <2>4 DEF Inv
<1>11. CASE RosStepBack
  BY <1>11 DEF RosStepBack
<1>12. CASE TimeElapses
  <2>1. Quieter(op', op)
    BY <1>0, <1>12, Quiet DEF TimeElapses
  <2>2. hist'.old = hist.old
    BY <1>12 DEF TimeElapses, Inv, TypeOK, HistType
  <2>3. QED
    BY <1>0, <1>12, <2>1, <2>2, QuietStep DEF TimeElapses, env
<1>13. CASE Restart
  <2>1. op'.active = {} /\ op'.phase = Stopped
    BY <1>13 DEF Restart, InitState
  <2>2. hist'.old = hist.old
    BY <1>13 DEF Restart, Inv, TypeOK, HistType
  <2>3. Pending' \subseteq LiveNow' /\ (Pending' = LiveNow' \/ Pending' = {})
    BY <1>13 DEF Restart, Pending, LiveNow
  <2>4. UNCHANGED <<Accepted, LiveNow, stamp, ros>> /\ LiveNow \subseteq Accepted
    BY <1>13 DEF Restart, Accepted, LiveNow, Live
  <2>5. StampInv'
    BY <2>1, <2>2, <2>3, <2>4 DEF Inv, StampInv, Stopped
  <2>6. ViewInv'
    BY <2>1, <2>2, <2>3, <2>4 DEF Inv, ViewInv, Stopped, Running
  <2>7. QED
    BY <1>0, <2>5, <2>6 DEF Inv
<1>14. QED
  BY <1>1, <1>2, <1>3, <1>4, <1>5, <1>6, <1>7, <1>8, <1>9, <1>10, <1>11,
     <1>12, <1>13 DEF Next

LEMMA InvInit == Init => Inv
<1> SUFFICES ASSUME Init PROVE Inv
  OBVIOUS
<1>1. StampInv
  BY DEF Init, StampInv, InitState, Pending, Stopped, Accepted
<1>2. ViewInv
  BY DEF Init, ViewInv, InitState, Pending, LiveNow, Live, Stopped, Running
<1>3. QED
  BY <1>1, <1>2, InitTypeOK DEF Inv

\* A reset never resumes an old goal, for any set of goals, any delays of the
\* status messages, any restarts and any limits, as long as the ROS clock is
\* not stepped back.
THEOREM OldGoalsNeverRun ==
  ASSUME ~ClockSteps
  PROVE  Spec => []RunningGoalsAreNew
<1>1. Inv => RunningGoalsAreNew
  BY DEF Inv, ViewInv, RunningGoalsAreNew
<1>2. QED
  BY <1>1, InvInit, InvStep, PTL DEF Spec
=============================================================================
