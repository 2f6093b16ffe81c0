---------------------- MODULE OperatorStopSafetyProofs ----------------------
(***************************************************************************)
(* The other properties of OperatorStop, for every set of goals and every  *)
(* limit, and also when the ROS clock is stepped back.                     *)
(*                                                                         *)
(* BannedGoalsNeverRun needs two facts about the world.  View: the newest  *)
(* status array is under way, or it is what the node sees.                 *)
(* Banned: a banned goal that is still live is still seen; it was seen     *)
(* when it was banned, and no array since then left it out.                *)
(***************************************************************************)
EXTENDS OperatorStopProofs

View ==
  /\ status = LiveNow \/ (status = None /\ op.active = LiveNow)
  /\ op.active \subseteq Accepted

Banned ==
  /\ op.banned \subseteq Accepted
  /\ LiveNow \cap op.banned \subseteq op.active

\* The button latches of the node know no more than what really happened.
Pressed ==
  /\ op.released => hist.released
  /\ op.resetAge # None => hist.held >= op.resetAge

SafetyInv ==
  /\ TypeOK
  /\ BlockedUnlessRunning
  /\ View /\ Banned /\ BannedGoalsNeverRun
  /\ Pressed

-----------------------------------------------------------------------------
(* What the operators of OperatorState do to the fields of the invariant. *)

\* A state t that came from s without a new goal or button: the goals it bans it
\* has seen, and while it runs it bans nothing.
Follows(t, s) ==
  /\ t.active = s.active
  /\ t.banned = s.banned \/ t.banned = s.banned \cup s.active
  /\ t.phase # Stopped => t.banned = s.banned
  /\ t.phase = Running => s.phase = Running
  /\ t.phase # Stopped => s.phase # Stopped

\* The latches of t are those of s or cleared, and no button changed.
Latched(t, s) ==
  /\ t.released => s.released
  /\ t.resetAge = s.resetAge \/ t.resetAge = None
  /\ t.stop = s.stop /\ t.deadman = s.deadman

LEMMA StopFollows ==
  ASSUME NEW s \in StateType
  PROVE  /\ Follows(Stop(s), s) /\ Latched(Stop(s), s)
         /\ Follows(ManualStop(s), s) /\ Latched(ManualStop(s), s)
BY DEF Follows, Latched, Stop, ManualStop, StateType, Stopped, Running

LEMMA ConnectionFollows ==
  ASSUME NEW s \in StateType, NEW c, NEW age
  PROVE  Follows(Connection(s, c, age), s) /\ Latched(Connection(s, c, age), s)
BY DEF Follows, Latched, Connection, Stop, StateType, Stopped, Running

LEMMA ClockFollows ==
  ASSUME NEW s \in StateType, NEW r
  PROVE  Follows(ClockCheck(s, r), s) /\ Latched(ClockCheck(s, r), s)
BY DEF Follows, Latched, ClockCheck, Stop, StateType, Stopped, Running

LEMMA FollowsTransitive ==
  ASSUME NEW r, NEW s, NEW t, Follows(r, s), Follows(s, t)
  PROVE  Follows(r, t)
BY DEF Follows

LEMMA LatchedTransitive ==
  ASSUME NEW r, NEW s, NEW t, Latched(r, s), Latched(s, t)
  PROVE  Latched(r, t)
BY DEF Latched

LEMMA JoyFollows ==
  ASSUME NEW s \in StateType, NEW m \in JoyMsg
  PROVE  Follows(JoyUpdate(s, m), s)
BY DEF Follows, JoyUpdate, Buttons, Stop, ManualStop, StateType, Stopped, Running

LEMMA SeenFollows ==
  ASSUME TypeOK
  PROVE  Follows(Seen, op) /\ Latched(Seen, op)
<1>1. Follows(Linked, op) /\ Latched(Linked, op)
  <2>1. op \in StateType
    BY DEF TypeOK
  <2>2. Follows(op, op) /\ Latched(op, op)
    BY DEF Follows, Latched
  <2>3. QED
    BY <2>1, <2>2, ConnectionFollows DEF Linked
<1>2. Follows(Seen, Linked) /\ Latched(Seen, Linked)
  BY SeenType, ClockFollows DEF Seen
<1>3. QED
  BY <1>1, <1>2, FollowsTransitive, LatchedTransitive

-----------------------------------------------------------------------------
(* The goals *)

LEMMA LiveIsAccepted == LiveNow \subseteq Accepted
BY DEF LiveNow, Live, Accepted

\* A step of the node that follows.
LEMMA GoalsFollow ==
  ASSUME SafetyInv, Follows(op', op), UNCHANGED <<goalState, status>>
  PROVE  View' /\ Banned' /\ BannedGoalsNeverRun'
<1>1. UNCHANGED <<Accepted, LiveNow>>
  BY DEF Accepted, LiveNow
<1>2. View'
  BY <1>1 DEF SafetyInv, View, Follows
<1>3. Banned'
  BY <1>1 DEF SafetyInv, View, Banned, Follows
<1>4. BannedGoalsNeverRun'
  BY DEF SafetyInv, BannedGoalsNeverRun, Follows, Running, Stopped
<1>5. QED
  BY <1>2, <1>3, <1>4

\* A step of the server: it publishes what lives whenever that changes, and
\* what is accepted anew was never banned.
LEMMA ServerFollows ==
  ASSUME SafetyInv, op' = op,
         Accepted \subseteq Accepted',
         LiveNow' \cap Accepted \subseteq LiveNow,
         status' = LiveNow' \/ (status' = status /\ LiveNow' = LiveNow)
  PROVE  View' /\ Banned' /\ BannedGoalsNeverRun'
<1>1. View'
  BY DEF SafetyInv, View
<1>2. Banned'
  BY DEF SafetyInv, Banned
<1>3. BannedGoalsNeverRun'
  BY DEF SafetyInv, BannedGoalsNeverRun
<1>4. QED
  BY <1>1, <1>2, <1>3

\* The node takes the newest array: what it shows of banned goals it saw before.
LEMMA StatusFollows ==
  ASSUME SafetyInv, GoalStatus
  PROVE  View' /\ Banned' /\ BannedGoalsNeverRun'
<1>1. /\ op'.active = LiveNow /\ op'.phase = op.phase
      /\ op'.banned = IF op.phase = Stopped THEN op.banned \cup LiveNow
                      ELSE op.banned
  BY DEF SafetyInv, View, TypeOK, GoalStatus, Goals, StateType
<1>2. UNCHANGED <<Accepted, LiveNow>> /\ status' = None
  BY DEF GoalStatus, Accepted, LiveNow
<1>3. View'
  BY <1>1, <1>2, LiveIsAccepted DEF View
<1>4. Banned'
  BY <1>1, <1>2, LiveIsAccepted DEF SafetyInv, Banned
<1>5. BannedGoalsNeverRun'
  BY <1>1 DEF SafetyInv, Banned, BannedGoalsNeverRun, Running, Stopped
<1>6. QED
  BY <1>3, <1>4, <1>5

-----------------------------------------------------------------------------
(* The timer *)

LEMMA TickSafe ==
  ASSUME SafetyInv, TypeOK', Tick
  PROVE  SafetyInv'
<1>0. /\ Seen \in StateType /\ Follows(Seen, op) /\ Latched(Seen, op)
      /\ TypeOK /\ UNCHANGED <<goalState, status>>
  BY SeenType, SeenFollows DEF SafetyInv, Tick, env
<1>1. CASE TickManual(Seen) \/ TickUnhealthy(Seen) \/ TickOldGoal(Seen)
  <2>1. /\ Follows(op', Seen) /\ Latched(op', Seen) /\ output' = TRUE
        /\ hist' = hist
    BY <1>0, <1>1, StopFollows DEF TickManual, TickUnhealthy, TickOldGoal
  <2>2. Follows(op', op) /\ Latched(op', op)
    BY <1>0, <2>1, FollowsTransitive, LatchedTransitive
  <2>3. View' /\ Banned' /\ BannedGoalsNeverRun'
    BY <1>0, <2>2, GoalsFollow
  <2>4. Pressed'
    BY <2>1, <2>2 DEF SafetyInv, Pressed, Latched
  <2>5. BlockedUnlessRunning'
    BY <2>1 DEF BlockedUnlessRunning
  <2>6. QED
    BY <2>3, <2>4, <2>5 DEF SafetyInv
<1>2. CASE TickStopped(Seen)
  <2>1. /\ Follows(op', Seen) /\ output' = TRUE /\ hist' = hist
        /\ op'.released = Seen.released
        /\ op'.resetAge = IF CanReset(Seen) THEN Held(Seen) ELSE None
    BY <1>0, <1>2 DEF TickStopped, HoldReset, Follows, StateType
  <2>2. View' /\ Banned' /\ BannedGoalsNeverRun'
    BY <1>0, <2>1, FollowsTransitive, GoalsFollow
  <2>3. hist.held \in Nat /\ op'.resetAge # None => hist.held >= op'.resetAge
    BY <1>0, <2>1, LimitsAssumption
       DEF SafetyInv, Pressed, Latched, Held, TypeOK, HistType, LimitsAssumption
  <2>4. Pressed'
    BY <1>0, <2>1, <2>3, LimitsAssumption
       DEF SafetyInv, Pressed, Latched, TypeOK, HistType, LimitsAssumption
  <2>5. BlockedUnlessRunning'
    BY <2>1 DEF BlockedUnlessRunning
  <2>6. QED
    BY <2>2, <2>4, <2>5 DEF SafetyInv
<1>3. CASE TickArm(Seen)
  <2>1. /\ op'.active = Seen.active /\ op'.banned = Seen.banned
        /\ op'.phase = Waiting /\ op'.released = FALSE /\ op'.resetAge = None
        /\ output' = TRUE
    BY <1>0, <1>3 DEF TickArm, Arm, StateType
  <2>2. UNCHANGED <<Accepted, LiveNow>>
    BY <1>0 DEF Accepted, LiveNow
  <2>3. View' /\ Banned' /\ BannedGoalsNeverRun'
    BY <1>0, <2>1, <2>2
       DEF SafetyInv, View, Banned, BannedGoalsNeverRun, Follows, Waiting, Running
  <2>4. Pressed' /\ BlockedUnlessRunning'
    BY <2>1 DEF Pressed, BlockedUnlessRunning
  <2>5. QED
    BY <2>3, <2>4 DEF SafetyInv
<1>4. CASE TickRun(Seen)
  <2>1. /\ op' = [Seen EXCEPT !.phase = Running] /\ output' = FALSE
        /\ hist' = hist /\ Seen.phase # Stopped
        /\ ~Seen.stop /\ ~Seen.deadman
        /\ \A g \in Seen.active : g \notin Seen.banned
    BY <1>4 DEF TickRun, TickPermitted, AllNew
  <2>2. /\ op'.active = Seen.active /\ op'.banned = Seen.banned
        /\ op'.phase = Running /\ op'.released = Seen.released
        /\ op'.resetAge = Seen.resetAge
        /\ op'.stop = Seen.stop /\ op'.deadman = Seen.deadman
    BY <1>0, <2>1 DEF StateType
  <2>3. UNCHANGED <<Accepted, LiveNow>>
    BY <1>0 DEF Accepted, LiveNow
  <2>4. View' /\ Banned'
    BY <1>0, <2>1, <2>2, <2>3 DEF SafetyInv, View, Banned, Follows
  <2>5. BannedGoalsNeverRun' /\ BlockedUnlessRunning'
    BY <2>1, <2>2 DEF BannedGoalsNeverRun, BlockedUnlessRunning
  <2>6. Pressed'
    BY <1>0, <2>1, <2>2 DEF SafetyInv, Pressed, Latched
  <2>7. QED
    BY <2>4, <2>5, <2>6 DEF SafetyInv
<1>5. CASE TickNoGoal(Seen)
  <2>1. /\ Follows(op', Seen) /\ Latched(op', Seen) /\ output' = TRUE
        /\ hist' = hist
    BY <1>0, <1>5 DEF TickNoGoal, TickPermitted, Follows, Latched, StateType,
                      Waiting, Running, Stopped
  <2>2. Follows(op', op) /\ Latched(op', op)
    BY <1>0, <2>1, FollowsTransitive, LatchedTransitive
  <2>3. View' /\ Banned' /\ BannedGoalsNeverRun'
    BY <1>0, <2>2, GoalsFollow
  <2>4. Pressed' /\ BlockedUnlessRunning'
    BY <2>1, <2>2 DEF SafetyInv, Pressed, Latched, BlockedUnlessRunning
  <2>5. QED
    BY <2>3, <2>4 DEF SafetyInv
<1>6. QED
  BY <1>1, <1>2, <1>3, <1>4, <1>5 DEF Tick, Seen

\* The timer leaves STOPPED only by re-arming, after a hold it knows of.
LEMMA TickArms ==
  ASSUME SafetyInv, Tick, op.phase = Stopped, op'.phase # Stopped
  PROVE  hist.released /\ hist.held >= ResetHold
<1>0. /\ Seen \in StateType /\ Follows(Seen, op) /\ Latched(Seen, op)
      /\ hist.held \in Nat /\ ResetHold \in Nat
  BY SeenType, SeenFollows, LimitsAssumption
     DEF SafetyInv, TypeOK, HistType, LimitsAssumption
<1>1. Seen.phase = Stopped
  BY <1>0 DEF Follows
<1>2. CanArm(Seen)
  <2>1. Stop(Seen).phase = Stopped /\ ManualStop(Seen).phase = Stopped
    BY <1>0 DEF Stop, ManualStop, StateType
  <2>2. HoldReset(Seen).phase = Seen.phase
    BY <1>0 DEF HoldReset, StateType
  <2>3. QED
    BY <1>1, <2>1, <2>2
       DEF Tick, Seen, TickManual, TickStopped, TickArm, TickPermitted,
           TickUnhealthy, TickRun, TickOldGoal, TickNoGoal
<1>3. Seen.released /\ Held(Seen) >= ResetHold
  BY <1>2 DEF CanArm, CanReset
<1>4. hist.released
  BY <1>0, <1>3 DEF SafetyInv, Pressed, Latched
<1>5. hist.held >= Held(Seen)
  BY <1>0 DEF SafetyInv, Pressed, Latched, Held
<1>6. Held(Seen) \in Nat
  BY <1>0 DEF Held, StateType
<1>7. QED
  BY <1>0, <1>3, <1>4, <1>5, <1>6

-----------------------------------------------------------------------------
(* Joy messages and time *)

LEMMA JoySafe ==
  ASSUME SafetyInv, TypeOK', NEW m \in JoyMsgs, Joy(m)
  PROVE  SafetyInv' /\ (op.phase = Stopped => op'.phase = Stopped)
<1> DEFINE linked == Connection(op, TRUE, 0)
<1>0. m \in JoyMsg /\ op \in StateType /\ linked \in StateType
  BY AgeZero, ConnectionType, NodeAssumption DEF SafetyInv, TypeOK, NodeAssumption
<1>1. Follows(linked, op) /\ Latched(linked, op)
  BY <1>0, ConnectionFollows
<1>2. op' = JoyUpdate(linked, m)
  BY DEF Joy
<1>3. Follows(op', op)
  BY <1>0, <1>1, <1>2, JoyFollows, FollowsTransitive
<1>4. View' /\ Banned' /\ BannedGoalsNeverRun'
  BY <1>3, GoalsFollow DEF Joy, env
<1>5. /\ output' = (output \/ op'.phase = Stopped)
      /\ ~(m.valid /\ MappingVerified) => hist' = hist
      /\ m.valid /\ MappingVerified =>
           /\ hist'.released = (~m.stop /\ ~m.deadman /\ (hist.released \/ ~m.reset))
           /\ hist'.held = IF m.stop \/ m.deadman \/ ~m.reset THEN 0 ELSE hist.held
  BY DEF Joy, PublishIfStopped, SafetyInv, TypeOK, HistType
<1>6. CASE ~(m.valid /\ MappingVerified)
  <2>1. op' = Stop(linked)
    BY <1>2, <1>6 DEF JoyUpdate
  <2>2. op'.phase = Stopped /\ Latched(op', op)
    BY <1>0, <1>1, <2>1, StopFollows, LatchedTransitive DEF Stop, StateType
  <2>3. Pressed' /\ BlockedUnlessRunning'
    BY <1>5, <1>6, <2>2
       DEF SafetyInv, Pressed, Latched, BlockedUnlessRunning, TypeOK
  <2>4. QED
    BY <1>4, <2>2, <2>3 DEF SafetyInv
<1>7. CASE m.valid /\ MappingVerified /\ (m.stop \/ m.deadman)
  <2>1. op' = ManualStop(Buttons(linked, m))
    BY <1>2, <1>7 DEF JoyUpdate
  <2>2. op'.phase = Stopped /\ op'.released = FALSE /\ op'.resetAge = None
    BY <1>0, <2>1 DEF ManualStop, Stop, Buttons, StateType
  <2>3. Pressed' /\ BlockedUnlessRunning'
    BY <1>5, <2>2 DEF SafetyInv, Pressed, BlockedUnlessRunning, TypeOK
  <2>4. QED
    BY <1>4, <2>2, <2>3 DEF SafetyInv
<1>8. CASE m.valid /\ MappingVerified /\ ~m.stop /\ ~m.deadman
  <2>1. op' = IF ~m.reset THEN [Buttons(linked, m) EXCEPT !.released = TRUE,
                                                          !.resetAge = None]
              ELSE Buttons(linked, m)
    BY <1>2, <1>8 DEF JoyUpdate
  <2>2. /\ op'.phase = linked.phase
        /\ op'.stop = m.stop /\ op'.deadman = m.deadman
        /\ ~m.reset => op'.resetAge = None
        /\ m.reset => op'.released = linked.released
                      /\ op'.resetAge = linked.resetAge
    BY <1>0, <2>1 DEF Buttons, StateType
  <2>3. linked.phase = op.phase
    BY <1>0 DEF Connection, StateType
  <2>4. Pressed'
    BY <1>1, <1>5, <1>8, <2>2 DEF SafetyInv, Pressed, Latched, JoyMsg
  <2>5. BlockedUnlessRunning'
    BY <1>5, <1>8, <2>2, <2>3 DEF SafetyInv, BlockedUnlessRunning, TypeOK
  <2>6. QED
    BY <1>4, <2>2, <2>3, <2>4, <2>5 DEF SafetyInv
<1>9. QED
  BY <1>0, <1>6, <1>7, <1>8 DEF JoyMsg

LEMMA TimeSafe ==
  ASSUME SafetyInv, TypeOK', TimeElapses
  PROVE  SafetyInv' /\ op'.phase = op.phase
<1>1. /\ op'.phase = op.phase /\ op'.active = op.active
      /\ op'.banned = op.banned /\ op'.released = op.released
      /\ op'.stop = op.stop /\ op'.deadman = op.deadman
      /\ op'.resetAge = IF op.resetAge = None \/ op.resetAge = ResetHold
                        THEN op.resetAge ELSE op.resetAge + 1
  BY DEF TimeElapses, Elapse, SafetyInv, TypeOK, StateType
<1>2. /\ hist'.released = hist.released
      /\ hist'.held = IF hist.held < ResetHold THEN hist.held + 1 ELSE hist.held
  BY DEF TimeElapses, SafetyInv, TypeOK, HistType
<1>3. View' /\ Banned' /\ BannedGoalsNeverRun'
  <2>1. Follows(op', op)
    BY <1>1 DEF Follows
  <2>2. QED
    BY <2>1, GoalsFollow DEF TimeElapses, env
<1>4. /\ hist.held \in 0 .. ResetHold /\ ResetHold \in Nat
      /\ op.resetAge = None \/ op.resetAge \in 0 .. ResetHold
  BY LimitsAssumption DEF SafetyInv, TypeOK, HistType, StateType, LimitsAssumption
<1>5. Pressed'
  BY <1>1, <1>2, <1>4 DEF SafetyInv, Pressed
<1>6. BlockedUnlessRunning'
  BY <1>1 DEF TimeElapses, SafetyInv, BlockedUnlessRunning
<1>7. QED
  BY <1>1, <1>3, <1>5, <1>6 DEF SafetyInv

-----------------------------------------------------------------------------
(* Every step *)

\* A step that changes neither node state nor history, nor what was sent.
LEMMA IdleSafe ==
  ASSUME SafetyInv, TypeOK', View' /\ Banned' /\ BannedGoalsNeverRun',
         UNCHANGED <<op, output, hist>>
  PROVE  SafetyInv'
BY DEF SafetyInv, Pressed, BlockedUnlessRunning

LEMMA SafetyStep == SafetyInv /\ [Next]_vars => SafetyInv'
<1> SUFFICES ASSUME SafetyInv, [Next]_vars PROVE SafetyInv'
  OBVIOUS
<1>0. TypeOK /\ TypeOK' /\ op \in StateType
  BY TypeStep DEF SafetyInv, TypeOK
<1>1. ASSUME NEW m \in JoyMsgs, Joy(m) PROVE SafetyInv'
  BY <1>0, <1>1, JoySafe
<1>2. ASSUME NEW still \in OdomMsgs, Odom(still) PROVE SafetyInv'
  <2>1. Follows(op', op) /\ Latched(op', op) /\ op'.phase = op.phase
    BY <1>0, <1>2 DEF Odom, Odometry, Follows, Latched, StateType
  <2>2. View' /\ Banned' /\ BannedGoalsNeverRun'
    BY <1>2, <2>1, GoalsFollow DEF Odom, env
  <2>3. Pressed' /\ BlockedUnlessRunning'
    BY <1>2, <2>1 DEF Odom, SafetyInv, Pressed, Latched, BlockedUnlessRunning
  <2>4. QED
    BY <1>0, <2>2, <2>3 DEF SafetyInv
<1>3. CASE GoalStatus
  <2>1. View' /\ Banned' /\ BannedGoalsNeverRun'
    BY <1>3, StatusFollows
  <2>2. /\ op'.phase = op.phase /\ op'.released = op.released
        /\ op'.resetAge = op.resetAge /\ op'.stop = op.stop
        /\ op'.deadman = op.deadman
    BY <1>0, <1>3 DEF GoalStatus, Goals, StateType
  <2>3. Pressed' /\ BlockedUnlessRunning'
    BY <1>3, <2>2 DEF GoalStatus, SafetyInv, Pressed, BlockedUnlessRunning, TypeOK
  <2>4. QED
    BY <1>0, <2>1, <2>3 DEF SafetyInv
<1>4. ASSUME NEW r \in ReadyMsgs, StackReady(r) PROVE SafetyInv'
  <2>0. Follows(op, op) /\ Latched(op, op)
    BY DEF Follows, Latched
  <2>1. Follows(op', op) /\ Latched(op', op) /\ hist' = hist
    BY <1>0, <1>4, <2>0, StopFollows DEF StackReady
  <2>2. View' /\ Banned' /\ BannedGoalsNeverRun'
    BY <1>4, <2>1, GoalsFollow DEF StackReady, env
  <2>3. Pressed' /\ BlockedUnlessRunning'
    BY <1>4, <2>1 DEF StackReady, SafetyInv, Pressed, Latched, BlockedUnlessRunning
  <2>4. QED
    BY <1>0, <2>2, <2>3 DEF SafetyInv
<1>5. CASE Tick
  BY <1>0, <1>5, TickSafe
<1>6. CASE \/ \E c \in ProbeResults : ProbeResult(c)
           \/ CancelRejected \/ CancelLost
           \/ \E reply \in {"good", "bad"} : BridgeReply(reply)
           \/ \E sv \in Service : ServiceChange(sv)
           \/ RosAdvance \/ RosStepBack
           \/ UNCHANGED vars
  <2>1. UNCHANGED <<op, output, hist, goalState, status>>
    BY <1>6 DEF ProbeResult, CancelRejected, CancelLost, BridgeReply,
                ServiceChange, RosAdvance, RosStepBack, vars, node, env
  <2>2. Follows(op', op)
    BY <2>1 DEF Follows
  <2>3. QED
    BY <1>0, <2>1, <2>2, GoalsFollow, IdleSafe
<1>7. ASSUME NEW g \in Goal, AcceptGoal(g) PROVE SafetyInv'
  <2>1. Accepted \subseteq Accepted' /\ LiveNow' \cap Accepted \subseteq LiveNow
    BY <1>0, <1>7 DEF AcceptGoal, Accepted, LiveNow, Live, TypeOK
  <2>2. UNCHANGED <<op, output, hist>> /\ status' = LiveNow'
    BY <1>7 DEF AcceptGoal, node, LiveNow
  <2>3. QED
    BY <1>0, <2>1, <2>2, ServerFollows, IdleSafe
<1>8. ASSUME NEW g \in Goal, FinishGoal(g) PROVE SafetyInv'
  <2>1. Accepted \subseteq Accepted' /\ LiveNow' \cap Accepted \subseteq LiveNow
    BY <1>0, <1>8 DEF FinishGoal, Accepted, LiveNow, Live, TypeOK
  <2>2. UNCHANGED <<op, output, hist>> /\ status' = LiveNow'
    BY <1>8 DEF FinishGoal, node, LiveNow
  <2>3. QED
    BY <1>0, <2>1, <2>2, ServerFollows, IdleSafe
<1>9. CASE CancelAccepted
  <2>1. Accepted \subseteq Accepted' /\ LiveNow' = LiveNow
    BY <1>0, <1>9 DEF CancelAccepted, Accepted, LiveNow, Live, TypeOK
  <2>2. UNCHANGED <<op, output, hist>> /\ (status' = LiveNow' \/ status' = status)
    BY <1>9 DEF CancelAccepted, LiveNow
  <2>3. QED
    BY <1>0, <2>1, <2>2, ServerFollows, IdleSafe
<1>10. CASE TimeElapses
  BY <1>0, <1>10, TimeSafe
<1>11. CASE Restart
  <2>1. /\ op'.active = {} /\ op'.banned = {} /\ op'.phase = Stopped
        /\ op'.released = FALSE /\ op'.resetAge = None /\ output' = TRUE
    BY <1>11 DEF Restart, InitState
  <2>2. UNCHANGED <<Accepted, LiveNow>> /\ status' = LiveNow
    BY <1>11 DEF Restart, Accepted, LiveNow
  <2>3. View' /\ Banned' /\ BannedGoalsNeverRun'
    BY <2>1, <2>2 DEF View, Banned, BannedGoalsNeverRun, Stopped, Running
  <2>4. Pressed' /\ BlockedUnlessRunning'
    BY <2>1 DEF Pressed, BlockedUnlessRunning
  <2>5. QED
    BY <1>0, <2>3, <2>4 DEF SafetyInv
<1>12. QED
  BY <1>1, <1>2, <1>3, <1>4, <1>5, <1>6, <1>7, <1>8, <1>9, <1>10, <1>11 DEF Next

LEMMA SafetyInit == Init => SafetyInv
<1> SUFFICES ASSUME Init PROVE SafetyInv
  OBVIOUS
<1>1. View /\ Banned /\ BannedGoalsNeverRun
  BY DEF Init, View, Banned, BannedGoalsNeverRun, InitState, LiveNow, Live,
         Accepted, Stopped, Running
<1>2. Pressed /\ BlockedUnlessRunning
  BY DEF Init, Pressed, BlockedUnlessRunning, InitState
<1>3. QED
  BY <1>1, <1>2, InitTypeOK DEF SafetyInv

\* The last heartbeat says go only while the node runs with no button pressed,
\* whatever callback was the last.
THEOREM GoOnlyWhileRunning == Spec => []BlockedUnlessRunning
<1>1. SafetyInv => BlockedUnlessRunning
  BY DEF SafetyInv
<1>2. QED
  BY <1>1, SafetyInit, SafetyStep, PTL DEF Spec

\* A goal that was active during a stop never runs again, for any goals and
\* delays, and for every behaviour of the ROS clock.
THEOREM BannedGoalsStayBanned == Spec => []BannedGoalsNeverRun
<1>1. SafetyInv => BannedGoalsNeverRun
  BY DEF SafetyInv
<1>2. QED
  BY <1>1, SafetyInit, SafetyStep, PTL DEF Spec

\* The node leaves STOPPED only after the buttons were released and the reset
\* button was held alone for the whole hold time, for every hold time, whatever
\* Joy messages are invalid, late or missing, and however often it restarts.
THEOREM EveryArmingIsDeliberate == Spec => ArmingIsDeliberate
<1> DEFINE deliberate ==
      op.phase = Stopped /\ op'.phase # Stopped =>
        hist.released /\ hist.held >= ResetHold
<1>1. SafetyInv /\ [Next]_vars => [deliberate]_vars
  <2> SUFFICES ASSUME SafetyInv, [Next]_vars,
                      op.phase = Stopped, op'.phase # Stopped
               PROVE  hist.released /\ hist.held >= ResetHold
    OBVIOUS
  <2>0. TypeOK /\ TypeOK' /\ op \in StateType
    BY TypeStep DEF SafetyInv, TypeOK
  <2>1. CASE Tick
    BY <2>1, TickArms
  <2>2. ASSUME NEW m \in JoyMsgs, Joy(m) PROVE FALSE
    BY <2>0, <2>2, JoySafe
  <2>3. CASE TimeElapses
    BY <2>0, <2>3, TimeSafe
  <2>4. CASE GoalStatus \/ \E still \in OdomMsgs : Odom(still)
    BY <2>0, <2>4 DEF GoalStatus, Goals, Odom, Odometry, StateType
  <2>5. CASE Restart
    BY <2>5 DEF Restart, InitState
  <2>6. ASSUME NEW r \in ReadyMsgs, StackReady(r) PROVE FALSE
    BY <2>0, <2>6 DEF StackReady, Stopped, Running
  <2>7. CASE \/ \E c \in ProbeResults : ProbeResult(c)
             \/ \E g \in Goal : AcceptGoal(g) \/ FinishGoal(g)
             \/ CancelAccepted \/ CancelRejected \/ CancelLost
             \/ \E reply \in {"good", "bad"} : BridgeReply(reply)
             \/ \E sv \in Service : ServiceChange(sv)
             \/ RosAdvance \/ RosStepBack
             \/ UNCHANGED vars
    BY <2>7 DEF ProbeResult, AcceptGoal, FinishGoal, CancelAccepted,
                CancelRejected, CancelLost, BridgeReply, ServiceChange,
                RosAdvance, RosStepBack, vars, node, env
  <2>8. QED
    BY <2>1, <2>2, <2>3, <2>4, <2>5, <2>6, <2>7 DEF Next
<1>2. QED
  BY <1>1, SafetyInit, SafetyStep, PTL DEF Spec, ArmingIsDeliberate

\* What the node takes for good parameters is an answer that was good, as old as it
\* takes it for, and not followed by a bad or an overdue one.
BridgeInv == bridge.good => bridge.shown = bridge.recv

LEMMA BridgeKeeps ==
  ASSUME TypeOK, BridgeInv, [Next]_vars
  PROVE  BridgeInv'
<1>1. CASE Tick
  BY <1>1 DEF Tick, PollBridge, BridgeGood, BridgeRecv, BridgeAnswered, BridgeExpired,
              BridgeInv
<1>2. CASE TimeElapses
  BY <1>2 DEF TimeElapses, BridgeInv, TypeOK, BridgeType
<1>3. ASSUME NEW reply \in {"good", "bad"}, BridgeReply(reply) PROVE BridgeInv'
  BY <1>3 DEF BridgeReply, BridgeInv, TypeOK, BridgeType
<1>4. CASE Restart
  BY <1>4 DEF Restart, NodeInit, BridgeInv
<1>5. CASE \/ \E m \in JoyMsgs : Joy(m)
           \/ \E still \in OdomMsgs : Odom(still)
           \/ GoalStatus
           \/ \E r \in ReadyMsgs : StackReady(r)
           \/ \E c \in ProbeResults : ProbeResult(c)
           \/ \E g \in Goal : AcceptGoal(g) \/ FinishGoal(g)
           \/ CancelAccepted \/ CancelRejected \/ CancelLost
           \/ \E sv \in Service : ServiceChange(sv)
           \/ RosAdvance \/ RosStepBack
           \/ UNCHANGED vars
  <2>1. bridge' = bridge
    BY <1>5 DEF Joy, Odom, GoalStatus, StackReady, ProbeResult, AcceptGoal, FinishGoal,
                CancelAccepted, CancelRejected, CancelLost, ServiceChange, RosAdvance,
                RosStepBack, vars, node
  <2>2. QED
    BY <2>1 DEF BridgeInv
<1>6. QED
  BY <1>1, <1>2, <1>3, <1>4, <1>5 DEF Next

\* While the bridge is up the robot is let go only on a good answer that still
\* counts and that no bad or overdue one has followed: the node stays stopped until
\* the next good one, for every limit and whatever happens in between.
THEOREM BadBridgeAlwaysBlocks == Spec => BadBridgeBlocks
<1> DEFINE blocks ==
      Tick /\ "bridge" \in up /\ output' = FALSE => bridge'.shown <= BridgeFresh
          known == TypeOK /\ BridgeInv
<1>1. known /\ [Next]_vars => [blocks]_vars
  <2> SUFFICES ASSUME BridgeInv, Tick, "bridge" \in up, output' = FALSE
               PROVE  bridge'.shown <= BridgeFresh
    OBVIOUS
  <2>1. \E s : Healthy(s, Infrastructure(Linked.phase))
    BY DEF Tick, TickManual, TickStopped, TickArm, TickUnhealthy, TickRun, TickOldGoal,
           TickNoGoal
  <2>2. BridgeGood /\ BridgeRecv <= BridgeFresh
    BY <2>1 DEF Healthy, Infrastructure
  <2>3. bridge'.shown = BridgeRecv
    BY <2>2 DEF Tick, PollBridge, BridgeGood, BridgeRecv, BridgeAnswered, BridgeExpired,
                BridgeInv
  <2>4. QED
    BY <2>2, <2>3
<1>2. Init => known
  BY InitTypeOK DEF Init, NodeInit, BridgeInv
<1>3. known /\ [Next]_vars => known'
  BY TypeStep, BridgeKeeps
<1>4. QED
  BY <1>1, <1>2, <1>3, PTL DEF Spec, BadBridgeBlocks
=============================================================================
