------------------------- MODULE WaypointLoopProofs -------------------------
(***************************************************************************)
(* Proofs about WaypointLoop for every number of laps, clicks and goals    *)
(* outstanding, for both driving policies and any server.                  *)
(*                                                                         *)
(* PointsInv says what the phase and the goals tell of the points; it      *)
(* keeps the target in them and the laps below their limit.  CourseInv is  *)
(* about a node whose legs all started without a goal of an earlier run    *)
(* being live: it has one goal at most, that one leads to the current      *)
(* target while it navigates, and to no current point before a leg, and a  *)
(* robot sent back to the start has been at the end.                       *)
(***************************************************************************)
EXTENDS WaypointLoop, FiniteSetTheorems, SequenceTheorems, TLAPS

Points == 1 .. MaxClicks
LoopRecord == [phase : LoopPhases, points : Seq(Points), target : {0, 1},
               laps : Nat, armed : BOOLEAN]
NodeRecord == [handle : GoalId \cup {0}, held : {Up} \cup 0 .. ResetHold,
               triggered : BOOLEAN, pending : 0 .. MaxClicks]
GoalRecord == [state : {"none", "requested", "executing"},
               point : 0 .. MaxClicks, canceling : BOOLEAN]
HistRecord == [hold : 0 .. ResetHold, end : BOOLEAN, laps : 0 .. LoopCount,
               stray : BOOLEAN]

Types ==
  /\ loop \in LoopRecord
  /\ node \in NodeRecord
  /\ goals \in [GoalId -> GoalRecord]
  /\ operator \in {"STOPPED", Waiting, "RUNNING"}
  /\ clicks \in 0 .. MaxClicks
  /\ hist \in HistRecord

\* The current points, and those of the goals on their way.
Current(p) == \E k \in 1 .. Len(loop.points) : p = loop.points[k]

LoopInv ==
  /\ Len(loop.points) <= 2
  /\ \A k \in 1 .. Len(loop.points) : loop.points[k] <= clicks
  /\ Len(loop.points) = 2 => loop.points[1] # loop.points[2]
  /\ loop.phase = "COLLECTING" =>
       loop.target = 0 /\ loop.laps = 0 /\ Len(loop.points) <= 1
  /\ loop.phase \notin {"COLLECTING", "ERROR"} => Len(loop.points) = 2
  /\ loop.target = 1 => Len(loop.points) = 2
  /\ loop.laps <= LoopCount
  /\ loop.phase \notin {"COMPLETED", "ERROR"} => loop.laps < LoopCount

GoalsInv ==
  /\ \A i \in Live : goals[i].point <= clicks /\ Len(loop.points) >= 1
  /\ node.pending <= clicks
  /\ node.pending # 0 => Len(loop.points) >= 1
  /\ node.handle # 0 => goals[node.handle].state = "executing"

PointsInv == LoopInv /\ GoalsInv

CourseInv ==
  ~hist.stray =>
    /\ \A i, j \in Live : i = j
    /\ node.pending # 0 => /\ Live = {} /\ loop.phase \in Navigating
                           /\ node.pending = TargetGoal(loop)
    /\ loop.phase \in Navigating => \A i \in Live : goals[i].point = TargetGoal(loop)
    /\ loop.phase \in {"AT_START_WAITING_FOR_LOOP", "WAITING_EXTERNAL"} => Live = {}
    /\ loop.phase \in {"COLLECTING", "READY_FOR_START"} =>
         \A i \in Live : ~Current(goals[i].point)
    /\ loop.laps <= hist.laps
    /\ loop.phase = "NAVIGATING" /\ loop.target = 0 => hist.end

\* The history knows the button at least as long as the node does, while a leg
\* can start without a click before.
HoldInv ==
  /\ loop.phase \notin {"WAITING_EXTERNAL", "COMPLETED", "ERROR"}
  /\ node.held # Up /\ ~node.triggered
  => hist.hold >= node.held

Inv == Types /\ PointsInv /\ CourseInv /\ HoldInv

-----------------------------------------------------------------------------
(* What the operators of LoopState do to the fields of a record *)

LEMMA Constants ==
  /\ LoopCount \in Nat /\ LoopCount > 0 /\ ResetHold \in Nat /\ MaxClicks \in Nat
  /\ MaxLive \in Nat /\ GoalId \subseteq Nat /\ 0 \notin GoalId
BY LoopAssumption DEF LoopAssumption, GoalId

LEMMA FirstPointEffect ==
  ASSUME NEW l \in LoopRecord, NEW p \in Points
  PROVE  LET a == FirstPoint(l, p)
         IN  /\ a \in LoopRecord
             /\ a.phase = "COLLECTING" /\ a.points = <<p>> /\ a.target = 0
             /\ a.laps = 0
<1>1. <<p>> \in Seq(Points)
  OBVIOUS
<1>2. "COLLECTING" \in LoopPhases
  BY DEF LoopPhases
<1>3. QED
  BY <1>1, <1>2 DEF FirstPoint, LoopRecord

LEMMA AddWaypointEffect ==
  ASSUME NEW l \in LoopRecord, NEW p \in Points
  PROVE  LET a == AddWaypoint(l, p)
         IN  /\ a \in LoopRecord
             /\ \/ /\ a.phase = "COLLECTING" /\ a.points = <<p>>
                   /\ a.target = 0 /\ a.laps = 0
                \/ /\ l.phase = "COLLECTING" /\ l.points = <<>>
                   /\ a.phase = "COLLECTING" /\ a.points = <<p>>
                   /\ a.target = l.target /\ a.laps = l.laps
                \/ /\ l.phase = "COLLECTING" /\ l.points # <<>> /\ Len(l.points) < 2
                   /\ a.phase = "READY_FOR_START" /\ a.points = Append(l.points, p)
                   /\ a.target = l.target /\ a.laps = l.laps
<1>1. CASE Len(l.points) >= 2 \/ l.phase # "COLLECTING"
  BY <1>1, FirstPointEffect DEF AddWaypoint
<1>2. CASE Len(l.points) < 2 /\ l.phase = "COLLECTING"
  <2> DEFINE a == AddWaypoint(l, p)
  <2>1. a = [l EXCEPT !.points = Append(l.points, p),
                      !.phase = IF l.points = <<>> THEN l.phase ELSE "READY_FOR_START"]
    BY <1>2 DEF AddWaypoint, LoopRecord
  <2>2. Append(l.points, p) \in Seq(Points) /\ Append(<<>>, p) = <<p>>
    BY DEF LoopRecord
  <2>3. "READY_FOR_START" \in LoopPhases /\ "COLLECTING" \in LoopPhases
    BY DEF LoopPhases, Asking
  <2>4. /\ a \in LoopRecord /\ a.points = Append(l.points, p)
        /\ a.phase = IF l.points = <<>> THEN l.phase ELSE "READY_FOR_START"
        /\ a.target = l.target /\ a.laps = l.laps
    BY <2>1, <2>2, <2>3 DEF LoopRecord
  <2>5. QED
    BY <1>2, <2>2, <2>4
<1>3. QED
  BY <1>1, <1>2 DEF LoopRecord

\* The target of a loop with two points is one of them.
LEMMA TargetGoalEffect ==
  ASSUME NEW l \in LoopRecord, Len(l.points) = 2
  PROVE  /\ TargetGoal(l) = l.points[l.target + 1]
         /\ l.points[1] \in Points /\ l.points[2] \in Points
         /\ TargetGoal(l) \in Points
<1>1. l.target \in {0, 1} /\ l.points \in Seq(Points)
  BY DEF LoopRecord
<1>2. l.points[1] \in Points /\ l.points[2] \in Points
  BY <1>1
<1>3. QED
  BY <1>1, <1>2 DEF TargetGoal

LEMMA NextGoalEffect ==
  ASSUME NEW l \in LoopRecord
  PROVE  LET a == NextGoal(l)
         IN  /\ a.loop \in LoopRecord
             /\ a.loop.points = l.points /\ a.loop.target = l.target
             /\ a.loop.laps = l.laps
             /\ \/ a.loop.phase = l.phase /\ a.goal = TargetGoal(l)
                \/ a.loop.phase = "WAITING_EXTERNAL" /\ a.goal = 0
BY DEF NextGoal, LoopRecord, LoopPhases

LEMMA ArmEffect ==
  ASSUME NEW l \in LoopRecord, l.phase \in Asking => Len(l.points) = 2
  PROVE  LET a == OperatorArm(l)
         IN  /\ a.loop \in LoopRecord
             /\ a.loop.points = l.points /\ a.loop.laps = l.laps
             /\ a.goal \in 0 .. MaxClicks
             /\ l.phase \notin Asking =>
                  a.goal = 0 /\ a.loop.phase = l.phase /\ a.loop.target = l.target
             /\ a.goal # 0 => TargetGoal(a.loop) = a.goal
             /\ l.phase = "READY_FOR_START" =>
                  /\ a.loop.phase = "NAVIGATING_TO_START" /\ a.loop.target = 0
                  /\ a.goal = l.points[1] /\ a.goal # 0
             /\ l.phase = "AT_START_WAITING_FOR_LOOP" =>
                  /\ a.loop.target = 1
                  /\ \/ a.loop.phase = "NAVIGATING" /\ a.goal # 0
                     \/ a.loop.phase = "WAITING_EXTERNAL" /\ a.goal = 0
<1> DEFINE a == OperatorArm(l)
<1>0. MaxClicks \in Nat
  BY Constants
<1>1. CASE l.phase = "READY_FOR_START"
  <2> DEFINE b == [l EXCEPT !.phase = "NAVIGATING_TO_START", !.target = 0]
  <2>1. a = [loop |-> b, goal |-> TargetGoal(b)]
    BY <1>1 DEF OperatorArm
  <2>2. /\ b \in LoopRecord /\ b.phase = "NAVIGATING_TO_START" /\ b.target = 0
        /\ b.points = l.points /\ b.laps = l.laps
    BY DEF LoopRecord, LoopPhases, Navigating
  <2>3. TargetGoal(b) = l.points[1] /\ l.points[1] \in Points
    <3>1. Len(b.points) = 2 /\ b.target + 1 = 1
      BY <1>1, <2>2 DEF Asking
    <3>2. TargetGoal(b) = b.points[b.target + 1] /\ b.points[1] \in Points
      BY <2>2, <3>1, TargetGoalEffect
    <3>3. QED
      BY <2>2, <3>1, <3>2
  <2>4. l.points[1] \in 0 .. MaxClicks /\ l.points[1] # 0
    BY <1>0, <2>3 DEF Points
  <2>5. a.loop = b /\ a.goal = l.points[1] /\ TargetGoal(a.loop) = a.goal
    <3> HIDE DEF b
    <3>1. QED
      BY <2>1, <2>3
  <2>6. QED
    <3> HIDE DEF a, b
    <3>1. /\ a.loop \in LoopRecord
          /\ a.loop.points = l.points /\ a.loop.laps = l.laps
          /\ a.goal \in 0 .. MaxClicks /\ a.goal # 0 /\ TargetGoal(a.loop) = a.goal
          /\ a.loop.phase = "NAVIGATING_TO_START" /\ a.loop.target = 0
          /\ a.goal = l.points[1]
      BY <2>2, <2>4, <2>5
    <3>2. QED
      BY <1>1, <3>1 DEF a, Asking
<1>2. CASE l.phase = "AT_START_WAITING_FOR_LOOP"
  <2> DEFINE b == [l EXCEPT !.phase = "NAVIGATING", !.target = 1]
  <2>1. a = NextGoal(b)
    BY <1>2 DEF OperatorArm
  <2>2. /\ b \in LoopRecord /\ b.phase = "NAVIGATING" /\ b.target = 1
        /\ b.points = l.points /\ b.laps = l.laps
    BY DEF LoopRecord, LoopPhases, Navigating
  <2>3. TargetGoal(b) = l.points[2] /\ l.points[2] \in Points
    <3>1. Len(b.points) = 2 /\ b.target + 1 = 2
      BY <1>2, <2>2 DEF Asking
    <3>2. TargetGoal(b) = b.points[b.target + 1] /\ b.points[2] \in Points
      BY <2>2, <3>1, TargetGoalEffect
    <3>3. QED
      BY <2>2, <3>1, <3>2
  <2>4. /\ a.loop \in LoopRecord
        /\ a.loop.points = b.points /\ a.loop.target = b.target
        /\ a.loop.laps = b.laps
        /\ \/ a.loop.phase = b.phase /\ a.goal = TargetGoal(b)
           \/ a.loop.phase = "WAITING_EXTERNAL" /\ a.goal = 0
    BY <2>1, <2>2, NextGoalEffect
  <2>5. TargetGoal(a.loop) = l.points[2]
    BY <2>2, <2>3, <2>4 DEF TargetGoal
  <2>6. l.points[2] \in 0 .. MaxClicks /\ l.points[2] # 0
    BY <1>0, <2>3 DEF Points
  <2>7. QED
    BY <1>0, <1>2, <2>2, <2>3, <2>4, <2>5, <2>6 DEF Asking
<1>3. CASE l.phase \notin Asking
  BY <1>0, <1>3 DEF OperatorArm, Asking
<1>4. QED
  BY <1>1, <1>2, <1>3 DEF Asking

LEMMA SucceededEffect ==
  ASSUME NEW l \in LoopRecord,
         l.phase \in {"NAVIGATING", "WAITING_EXTERNAL"} =>
           Len(l.points) = 2 /\ l.laps < LoopCount
  PROVE  LET r == GoalSucceeded(l)
             laps == IF l.target = 0 THEN l.laps + 1 ELSE l.laps
         IN  /\ r.loop \in LoopRecord /\ r.loop.points = l.points
             /\ r.goal \in 0 .. MaxClicks
             /\ r.goal # 0 => TargetGoal(r.loop) = r.goal
             /\ l.phase \notin {"NAVIGATING_TO_START", "NAVIGATING", "WAITING_EXTERNAL"}
                  => r.loop = l /\ r.goal = 0
             /\ l.phase = "NAVIGATING_TO_START" =>
                  /\ r.loop.phase = "AT_START_WAITING_FOR_LOOP"
                  /\ r.loop.target = 0 /\ r.loop.laps = l.laps /\ r.goal = 0
             /\ l.phase \in {"NAVIGATING", "WAITING_EXTERNAL"} =>
                  /\ r.loop.laps = laps /\ laps <= LoopCount
                  /\ \/ r.loop.phase = "COMPLETED" /\ r.goal = 0
                        /\ r.loop.target = l.target
                     \/ /\ r.loop.target = 1 - l.target /\ laps < LoopCount
                        /\ \/ r.loop.phase = l.phase /\ r.goal # 0
                           \/ r.loop.phase = "WAITING_EXTERNAL" /\ r.goal = 0
<1> DEFINE r == GoalSucceeded(l)
           laps == IF l.target = 0 THEN l.laps + 1 ELSE l.laps
<1>0. /\ LoopCount \in Nat /\ LoopCount > 0 /\ MaxClicks \in Nat /\ l.laps \in Nat
      /\ l.target \in {0, 1}
  BY Constants DEF LoopRecord
<1>1. CASE l.phase = "NAVIGATING_TO_START"
  <2>1. r = [loop |-> [l EXCEPT !.phase = "AT_START_WAITING_FOR_LOOP", !.target = 0],
             goal |-> 0]
    BY <1>1 DEF GoalSucceeded
  <2>2. "AT_START_WAITING_FOR_LOOP" \in LoopPhases
    BY DEF LoopPhases, Asking
  <2>3. /\ r.loop \in LoopRecord /\ r.loop.points = l.points
        /\ r.loop.phase = "AT_START_WAITING_FOR_LOOP"
        /\ r.loop.target = 0 /\ r.loop.laps = l.laps /\ r.goal = 0
    <3> HIDE DEF r
    <3>1. QED
      BY <2>1, <2>2 DEF LoopRecord
  <2>4. QED
    BY <1>0, <1>1, <2>3
<1>2. CASE l.phase \in {"NAVIGATING", "WAITING_EXTERNAL"}
  <2>1. CASE l.target = 0 /\ laps >= LoopCount
    <3>1. r = [loop |-> [l EXCEPT !.laps = laps, !.phase = "COMPLETED"], goal |-> 0]
      BY <1>2, <2>1 DEF GoalSucceeded, ReachedStart
    <3>2. QED
      <4>1. "COMPLETED" \in LoopPhases /\ laps \in Nat /\ laps <= LoopCount
        BY <1>0, <1>2, <2>1 DEF LoopPhases
      <4>2. /\ r.loop \in LoopRecord /\ r.loop.points = l.points
            /\ r.loop.phase = "COMPLETED" /\ r.loop.laps = laps
            /\ r.loop.target = l.target /\ r.goal = 0
        <5> HIDE DEF r, laps
        <5>1. QED
          BY <3>1, <4>1 DEF LoopRecord
      <4>3. QED
        BY <1>0, <1>2, <4>1, <4>2
  <2>2. CASE ~(l.target = 0 /\ laps >= LoopCount)
    <3> DEFINE b == [l EXCEPT !.laps = laps, !.target = 1 - l.target]
    <3>1. r = NextGoal(b)
      BY <1>2, <2>2 DEF GoalSucceeded, ReachedStart
    <3>2. /\ b \in LoopRecord /\ b.points = l.points /\ b.phase = l.phase
          /\ b.laps = laps /\ b.target = 1 - l.target /\ laps < LoopCount
      <4>1. laps \in Nat /\ 1 - l.target \in {0, 1} /\ laps < LoopCount
        BY <1>0, <1>2, <2>2
      <4>2. QED
        BY <4>1 DEF LoopRecord
    <3>3. TargetGoal(b) \in Points
      BY <1>2, <3>2, TargetGoalEffect
    <3>4. /\ r.loop \in LoopRecord
          /\ r.loop.points = b.points /\ r.loop.target = b.target
          /\ r.loop.laps = b.laps
          /\ \/ r.loop.phase = b.phase /\ r.goal = TargetGoal(b)
             \/ r.loop.phase = "WAITING_EXTERNAL" /\ r.goal = 0
      <4> HIDE DEF b
      <4>1. QED
        BY <3>1, <3>2, NextGoalEffect
    <3>5. TargetGoal(r.loop) = TargetGoal(b)
      BY <3>4 DEF TargetGoal
    <3>6. QED
      BY <1>0, <1>2, <3>2, <3>3, <3>4, <3>5 DEF Points
  <2>3. QED
    BY <2>1, <2>2
<1>3. CASE l.phase \notin {"NAVIGATING_TO_START", "NAVIGATING", "WAITING_EXTERNAL"}
  BY <1>0, <1>3 DEF GoalSucceeded, LoopRecord
<1>4. QED
  BY <1>1, <1>2, <1>3

LEMMA FailedEffect ==
  ASSUME NEW l \in LoopRecord
  PROVE  LET a == GoalFailed(l)
             b == Interrupted(l)
         IN  /\ a \in LoopRecord /\ a.phase = "ERROR" /\ a.points = l.points
             /\ a.target = l.target /\ a.laps = l.laps
             /\ b \in LoopRecord /\ b.points = l.points
             /\ b.target = l.target /\ b.laps = l.laps
             /\ \/ b.phase = "ERROR"
                \/ l.phase = "COLLECTING" /\ b.phase = "COLLECTING"
                \/ l.phase = "NAVIGATING_TO_START" /\ b.phase = "READY_FOR_START"
                \/ l.phase = "NAVIGATING" /\ b.phase = "AT_START_WAITING_FOR_LOOP"
BY DEF GoalFailed, Interrupted, LoopRecord, LoopPhases, Asking

-----------------------------------------------------------------------------
(* What the actions do to the goals and to the state of the loop *)

LEMMA NoGoalFacts ==
  /\ NoGoal.state = "none" /\ NoGoal.point = 0 /\ NoGoal.canceling = FALSE
  /\ \A i \in GoalId : goals[i].state # "none" => i \in Live
BY DEF NoGoal, Live

\* A click forgets nothing of the server: only who is asked to cancel changes.
LEMMA CanceledEffect ==
  ASSUME Types, GoalsInv
  PROVE  /\ Canceled \in [GoalId -> GoalRecord]
         /\ \A i \in GoalId : /\ Canceled[i].point = goals[i].point
                              /\ Canceled[i].state = goals[i].state
                              /\ Canceled[i] = NoGoal <=> goals[i] = NoGoal
<1>1. \A i \in GoalId : goals[i] \in GoalRecord
  BY DEF Types
<1>2. SUFFICES ASSUME NEW i \in GoalId
      PROVE /\ Canceled[i] \in GoalRecord
            /\ Canceled[i].point = goals[i].point
            /\ Canceled[i].state = goals[i].state
            /\ Canceled[i] = NoGoal <=> goals[i] = NoGoal
  BY DEF Canceled
<1>3. CASE i # node.handle
  BY <1>1, <1>3 DEF Canceled
<1>4. CASE i = node.handle
  <2>1. Canceled[i] = [goals[i] EXCEPT !.canceling = TRUE]
    BY <1>4 DEF Canceled
  <2>2. goals[i].state = "executing"
    BY <1>4, Constants DEF GoalsInv
  <2>3. Canceled[i].state = "executing"
    BY <1>1, <2>1, <2>2 DEF GoalRecord
  <2>4. QED
    BY <1>1, <2>1, <2>2, <2>3, NoGoalFacts DEF GoalRecord
<1>5. QED
  BY <1>3, <1>4

LEMMA ClickEffect ==
  ASSUME Types, PointsInv, Click
  PROVE  /\ loop' \in LoopRecord /\ node' \in NodeRecord
         /\ goals' \in [GoalId -> GoalRecord]
         /\ clicks' = clicks + 1 /\ clicks' \in 1 .. MaxClicks
         /\ operator' = operator
         /\ Live' = Live
         /\ \A i \in GoalId : goals'[i].point = goals[i].point
                              /\ goals'[i].state = goals[i].state
         /\ node'.held = Up
         /\ \/ loop.phase \in Navigating /\ node'.pending = 0 /\ node'.handle = 0
            \/ loop.phase \notin Navigating /\ node'.pending = node.pending
               /\ node'.handle = node.handle
         /\ \/ /\ loop'.phase = "COLLECTING" /\ loop'.points = <<clicks'>>
               /\ loop'.target = 0 /\ loop'.laps = 0
               /\ hist' = [Fresh EXCEPT !.stray = hist.stray]
            \/ /\ loop.phase = "COLLECTING" /\ Len(loop.points) = 1
               /\ loop'.phase = "READY_FOR_START" /\ loop'.target = 0
               /\ Len(loop'.points) = 2 /\ loop'.points[2] = clicks'
               /\ loop'.points[1] = loop.points[1]
               /\ loop'.laps = loop.laps
               /\ hist' = [hist EXCEPT !.hold = 0]
            \/ /\ loop.phase = "COLLECTING" /\ loop.points = <<>>
               /\ loop'.phase = "COLLECTING" /\ loop'.points = <<clicks'>>
               /\ loop'.target = 0 /\ loop'.laps = loop.laps
               /\ hist' = [Fresh EXCEPT !.stray = hist.stray]
<1>0. /\ clicks \in Nat /\ MaxClicks \in Nat /\ clicks' = clicks + 1
      /\ clicks' \in Points /\ ResetHold \in Nat
  BY Constants DEF Types, Click, Points
<1>1. loop' = AddWaypoint(loop, clicks') /\ loop \in LoopRecord
  BY DEF Click, Types
<1>2. goals' = Canceled \/ goals' = goals
  BY DEF Click
<1>3. /\ goals' \in [GoalId -> GoalRecord] /\ Live' = Live
      /\ \A i \in GoalId : goals'[i].point = goals[i].point
                           /\ goals'[i].state = goals[i].state
  BY <1>2, CanceledEffect DEF PointsInv, Types, Live
<1>4. /\ node' \in NodeRecord /\ node'.held = Up
      /\ \/ loop.phase \in Navigating /\ node'.pending = 0 /\ node'.handle = 0
         \/ loop.phase \notin Navigating /\ node'.pending = node.pending
            /\ node'.handle = node.handle
  <2>1. CASE loop.phase \in Navigating
    <3>1. node' = [node EXCEPT !.handle = 0, !.pending = 0, !.held = Up,
                               !.triggered = FALSE]
      BY <2>1 DEF Click
    <3>2. 0 \in GoalId \cup {0} /\ 0 \in 0 .. MaxClicks /\ Up \in {Up} \cup 0 .. ResetHold
      BY <1>0
    <3>3. QED
      BY <2>1, <3>1, <3>2 DEF Types, NodeRecord
  <2>2. CASE loop.phase \notin Navigating
    BY <2>2, <1>0 DEF Click, Types, NodeRecord
  <2>3. QED
    BY <2>1, <2>2
<1>5. /\ loop' \in LoopRecord
      /\ \/ /\ loop'.phase = "COLLECTING" /\ loop'.points = <<clicks'>>
            /\ loop'.target = 0 /\ loop'.laps = 0
         \/ /\ loop.phase = "COLLECTING" /\ loop.points = <<>>
            /\ loop'.phase = "COLLECTING" /\ loop'.points = <<clicks'>>
            /\ loop'.target = loop.target /\ loop'.laps = loop.laps
         \/ /\ loop.phase = "COLLECTING" /\ loop.points # <<>> /\ Len(loop.points) < 2
            /\ loop'.phase = "READY_FOR_START"
            /\ loop'.points = Append(loop.points, clicks')
            /\ loop'.target = loop.target /\ loop'.laps = loop.laps
  BY <1>0, <1>1, AddWaypointEffect
<1>6. hist' = IF Len(loop'.points) = 1 THEN [Fresh EXCEPT !.stray = hist.stray]
                                       ELSE [hist EXCEPT !.hold = 0]
  BY DEF Click
<1>7. loop.phase = "COLLECTING" => loop.target = 0
  BY DEF PointsInv, LoopInv
<1>8. CASE loop'.points = <<clicks'>>
  <2>1. Len(loop'.points) = 1
    BY <1>8
  <2>2. loop'.points # Append(loop.points, clicks') \/ loop.points = <<>>
    BY <1>0, <1>8, <2>1 DEF Types, LoopRecord
  <2>3. QED
    BY <1>0, <1>3, <1>4, <1>5, <1>6, <1>7, <2>1, <2>2 DEF Click
<1>9. CASE /\ loop.phase = "COLLECTING" /\ loop.points # <<>>
           /\ Len(loop.points) < 2 /\ loop'.points = Append(loop.points, clicks')
           /\ loop'.phase = "READY_FOR_START"
           /\ loop'.target = loop.target /\ loop'.laps = loop.laps
  <2>1. loop.points \in Seq(Points) /\ Len(loop.points) = 1
    <3>1. loop.points \in Seq(Points)
      BY DEF Types, LoopRecord
    <3>2. Len(loop.points) \in Nat \ {0}
      <4>1. \A s \in Seq(Points) : s # <<>> => Len(s) \in Nat \ {0}
        BY EmptySeq, Zenon
      <4>2. QED
        BY <1>9, <3>1, <4>1, Zenon
    <3>3. Len(loop.points) < 2
      BY <1>9
    <3>4. \A n \in Nat \ {0} : n < 2 => n = 1
      OBVIOUS
    <3>5. QED
      BY <3>1, <3>2, <3>3, <3>4, Zenon
  <2>2. /\ Len(loop'.points) = 2 /\ loop'.points[2] = clicks'
        /\ loop'.points[1] = loop.points[1]
    BY <1>0, <1>9, <2>1
  <2>3. QED
    BY <1>0, <1>3, <1>4, <1>5, <1>6, <1>7, <1>9, <2>1, <2>2 DEF Click
<1>10. QED
  BY <1>5, <1>8, <1>9

\* A button or a report of the operator stop may start a leg.
NoLeg ==
  /\ loop'.phase = loop.phase /\ loop'.target = loop.target
  /\ node'.pending = node.pending
  /\ hist' = hist
  /\ \/ node'.triggered
     \/ /\ node'.triggered = node.triggered
        /\ node'.held = node.held \/ node'.held = 0
LegBegins ==
  /\ hist' = [hist EXCEPT !.hold = 0, !.stray = hist.stray \/ Stray # {}]
  /\ node'.pending = node.pending \/ node'.pending = TargetGoal(loop')
  /\ \/ /\ loop.phase = "READY_FOR_START" /\ loop'.target = 0
        /\ loop'.phase = "NAVIGATING_TO_START" /\ node'.triggered
     \/ /\ loop.phase = "AT_START_WAITING_FOR_LOOP" /\ loop'.target = 1
        /\ loop'.phase = "NAVIGATING" /\ node'.triggered
     \/ /\ loop.phase = "AT_START_WAITING_FOR_LOOP" /\ loop'.target = 1
        /\ loop'.phase = "WAITING_EXTERNAL" /\ node'.pending = node.pending

LEMMA LegEffect ==
  ASSUME Types, PointsInv, Pressed \/ OperatorDiag
  PROVE  /\ loop' \in LoopRecord /\ node' \in NodeRecord
         /\ UNCHANGED <<goals, operator, clicks>>
         /\ loop'.points = loop.points /\ loop'.laps = loop.laps
         /\ node'.handle = node.handle
         /\ NoLeg \/ LegBegins
<1>0. /\ loop \in LoopRecord /\ ResetHold \in Nat /\ MaxClicks \in Nat
      /\ loop.phase \in Asking => Len(loop.points) = 2
  BY Constants DEF Types, PointsInv, LoopInv, Asking
<1>1. CASE Pressed /\ ~HoldTriggers
  <2>1. /\ loop' = loop
        /\ node' = [node EXCEPT !.held = IF node.held = Up THEN 0 ELSE node.held]
    BY <1>1 DEF Pressed
  <2>2. hist' = hist
    BY <1>1, <2>1 DEF Pressed, LegHist, LegStarts, Asking, Navigating
  <2>3. /\ node' \in NodeRecord /\ node'.handle = node.handle
        /\ node'.pending = node.pending /\ node'.triggered = node.triggered
        /\ node'.held = node.held \/ node'.held = 0
    BY <1>0, <2>1 DEF Types, NodeRecord
  <2>4. QED
    BY <1>0, <1>1, <2>1, <2>2, <2>3 DEF Pressed, NoLeg
<1>2. ASSUME NEW l \in LoopRecord, l.phase = loop.phase, l.points = loop.points,
             l.target = loop.target, l.laps = loop.laps,
             loop' = OperatorArm(l).loop,
             node' \in NodeRecord, node'.handle = node.handle,
             node'.held = node.held,
             OperatorArm(l).goal = 0 =>
               /\ node'.pending = node.pending
               /\ node'.triggered \/ node'.triggered = node.triggered,
             OperatorArm(l).goal # 0 =>
               /\ node'.triggered
               /\ \/ node'.pending = node.pending
                  \/ node'.pending = OperatorArm(l).goal,
             UNCHANGED <<goals, operator, clicks>>, hist' = LegHist
      PROVE  /\ loop' \in LoopRecord
             /\ loop'.points = loop.points /\ loop'.laps = loop.laps
             /\ NoLeg \/ LegBegins
  <2> DEFINE a == OperatorArm(l)
  <2>1. /\ a.loop \in LoopRecord
        /\ a.loop.points = l.points /\ a.loop.laps = l.laps
        /\ l.phase \notin Asking =>
             a.goal = 0 /\ a.loop.phase = l.phase /\ a.loop.target = l.target
        /\ a.goal # 0 => TargetGoal(a.loop) = a.goal
        /\ l.phase = "READY_FOR_START" =>
             /\ a.loop.phase = "NAVIGATING_TO_START" /\ a.loop.target = 0
             /\ a.goal # 0
        /\ l.phase = "AT_START_WAITING_FOR_LOOP" =>
             /\ a.loop.target = 1
             /\ \/ a.loop.phase = "NAVIGATING" /\ a.goal # 0
                \/ a.loop.phase = "WAITING_EXTERNAL" /\ a.goal = 0
    BY <1>0, <1>2, ArmEffect
  <2> HIDE DEF a
  <2>2. CASE l.phase \notin Asking
    <3>1. hist' = hist
      BY <1>2, <2>2 DEF LegHist, LegStarts
    <3>2. QED
      BY <1>2, <2>1, <2>2, <3>1 DEF NoLeg, a
  <2>3. CASE l.phase \in Asking
    <3>1. LegStarts
      BY <1>2, <2>1, <2>3 DEF LegStarts, Asking, Navigating, a
    <3>2. hist' = [hist EXCEPT !.hold = 0, !.stray = hist.stray \/ Stray # {}]
      BY <1>2, <3>1 DEF LegHist
    <3>3. QED
      BY <1>2, <2>1, <2>3, <3>2 DEF LegBegins, Asking, a
  <2>4. QED
    BY <2>2, <2>3
<1>3. CASE Pressed /\ HoldTriggers
  <2> DEFINE a == OperatorArm(loop)
  <2>1. /\ loop' = a.loop
        /\ node' = [node EXCEPT !.triggered = TRUE,
                       !.pending = IF a.goal # 0 THEN a.goal ELSE node.pending]
        /\ UNCHANGED <<goals, operator, clicks>> /\ hist' = LegHist
    BY <1>3 DEF Pressed
  <2>2. a.goal \in 0 .. MaxClicks
    BY <1>0, ArmEffect
  <2>3. /\ node' \in NodeRecord /\ node'.handle = node.handle
        /\ node'.held = node.held /\ node'.triggered
        /\ node'.pending = IF a.goal # 0 THEN a.goal ELSE node.pending
    <3> HIDE DEF a
    <3>1. QED
      BY <2>1, <2>2 DEF Types, NodeRecord
  <2>4. QED
    BY <1>0, <1>2, <2>1, <2>3
<1>4. CASE OperatorDiag
  <2> DEFINE seen == [loop EXCEPT !.armed = operator = Waiting]
             a == OperatorArm(seen)
  <2>1. /\ seen \in LoopRecord /\ seen.phase = loop.phase
        /\ seen.points = loop.points /\ seen.target = loop.target
        /\ seen.laps = loop.laps
    BY <1>0 DEF LoopRecord
  <2> HIDE DEF seen
  <2>2. \/ OperatorPhase(loop, operator) = a
        \/ OperatorPhase(loop, operator) = [loop |-> seen, goal |-> 0]
    BY DEF OperatorPhase, seen
  <2>3. CASE OperatorPhase(loop, operator) = a
    <3> HIDE DEF a
    <3>1. /\ loop' = a.loop /\ UNCHANGED <<goals, operator, clicks>>
          /\ hist' = LegHist
          /\ node' = IF a.goal # 0 /\ ~node.triggered
                     THEN [node EXCEPT !.triggered = TRUE, !.pending = a.goal]
                     ELSE node
      BY <1>4, <2>3 DEF OperatorDiag
    <3>2. a.goal \in 0 .. MaxClicks
      BY <1>0, <2>1, ArmEffect DEF a
    <3>3. /\ node' \in NodeRecord /\ node'.handle = node.handle
          /\ node'.held = node.held
          /\ a.goal = 0 => node' = node
          /\ a.goal # 0 => node'.triggered /\ (node'.pending = node.pending
                                               \/ node'.pending = a.goal)
      BY <3>1, <3>2 DEF Types, NodeRecord
    <3>4. QED
      BY <1>2, <2>1, <3>1, <3>3 DEF a
  <2>4. CASE OperatorPhase(loop, operator) = [loop |-> seen, goal |-> 0]
    <3>1. loop' = seen /\ node' = node /\ hist' = LegHist
          /\ UNCHANGED <<goals, operator, clicks>>
      BY <1>4, <2>4 DEF OperatorDiag
    <3>2. hist' = hist
      BY <2>1, <3>1 DEF LegHist, LegStarts, Asking, Navigating
    <3>3. QED
      BY <2>1, <3>1, <3>2 DEF NoLeg, Types
  <2>5. QED
    BY <2>2, <2>3, <2>4
<1>5. QED
  BY <1>1, <1>3, <1>4

\* A goal that ended, and one that is sent.
LEMMA EndedEffect ==
  ASSUME Types, NEW i \in GoalId
  PROVE  /\ Ended(i) \in [GoalId -> GoalRecord]
         /\ Ended(i)[i] = NoGoal
         /\ \A k \in GoalId : k # i => Ended(i)[k] = goals[k]
<1>1. NoGoal \in GoalRecord
  BY Constants DEF NoGoal, GoalRecord
<1>2. QED
  BY <1>1 DEF Ended, Types

LEMMA SentEffect ==
  ASSUME NEW g \in [GoalId -> GoalRecord], NEW j \in GoalId,
         NEW p \in 0 .. MaxClicks
  PROVE  LET h == [g EXCEPT ![j] = [NoGoal EXCEPT !.state = "requested",
                                                  !.point = p]]
         IN  /\ h \in [GoalId -> GoalRecord]
             /\ h[j].state = "requested" /\ h[j].point = p /\ h[j] # NoGoal
             /\ \A k \in GoalId : k # j => h[k] = g[k]
<1> DEFINE new == [NoGoal EXCEPT !.state = "requested", !.point = p]
<1>1. /\ new \in GoalRecord /\ new.state = "requested" /\ new.point = p
      /\ new # NoGoal
  BY DEF NoGoal, GoalRecord
<1> HIDE DEF new
<1>2. [g EXCEPT ![j] = new] \in [GoalId -> GoalRecord]
  BY <1>1
<1>3. QED
  BY <1>1, <1>2 DEF new

LEMMA ForgetEffect ==
  ASSUME Types, NEW i \in GoalId
  PROVE  /\ Forget(i) \in NodeRecord
         /\ Forget(i).held = node.held /\ Forget(i).triggered = node.triggered
         /\ Forget(i).pending = node.pending
         /\ Forget(i).handle = IF node.handle = i THEN 0 ELSE node.handle
BY DEF Forget, Types, NodeRecord

LEMMA VisitEffect ==
  ASSUME Types, NEW p \in 0 .. MaxClicks
  PROVE  /\ Visit(p) \in HistRecord
         /\ Visit(p).hold = hist.hold /\ Visit(p).stray = hist.stray
         /\ Visit(p).laps >= hist.laps
         /\ Len(loop.points) = 2 /\ p = loop.points[2] => Visit(p).end
         /\ Len(loop.points) = 2 /\ p # loop.points[2] /\ p = loop.points[1]
              /\ hist.end =>
              Visit(p).laps > hist.laps \/ Visit(p).laps = LoopCount
<1> DEFINE atEnd   == Len(loop.points) = 2 /\ p = loop.points[2]
           atStart == Len(loop.points) = 2 /\ p = loop.points[1]
<1>0. /\ LoopCount \in Nat /\ hist \in HistRecord
      /\ hist.laps \in 0 .. LoopCount
  BY Constants DEF Types, HistRecord
<1>1. CASE atEnd
  <2>1. Visit(p) = [hist EXCEPT !.end = TRUE]
    BY <1>1 DEF Visit
  <2>2. /\ Visit(p) \in HistRecord /\ Visit(p).laps = hist.laps /\ Visit(p).end
        /\ Visit(p).hold = hist.hold /\ Visit(p).stray = hist.stray
    BY <1>0, <2>1 DEF HistRecord
  <2>3. QED
    BY <1>0, <1>1, <2>2
<1>2. CASE ~atEnd /\ atStart /\ hist.end /\ hist.laps < LoopCount
  <2>1. Visit(p) = [hist EXCEPT !.end = FALSE, !.laps = hist.laps + 1]
    BY <1>2 DEF Visit
  <2>2. hist.laps + 1 \in 0 .. LoopCount
    BY <1>0, <1>2
  <2>3. /\ Visit(p) \in HistRecord /\ Visit(p).laps = hist.laps + 1
        /\ Visit(p).hold = hist.hold /\ Visit(p).stray = hist.stray
    BY <1>0, <2>1, <2>2 DEF HistRecord
  <2>4. QED
    BY <1>0, <1>2, <2>3
<1>3. CASE ~atEnd /\ ~(atStart /\ hist.end /\ hist.laps < LoopCount)
  <2>1. Visit(p) = hist
    BY <1>3 DEF Visit
  <2>2. QED
    BY <1>0, <1>3, <2>1
<1>4. QED
  BY <1>1, <1>2, <1>3

-----------------------------------------------------------------------------
(* The invariant is inductive: one lemma per action *)

LEMMA InvInit == Init => Inv
<1> SUFFICES ASSUME Init PROVE Inv
  OBVIOUS
<1>1. /\ loop.phase = "COLLECTING" /\ loop.points = <<>> /\ loop.target = 0
      /\ loop.laps = 0 /\ loop.armed = FALSE
      /\ node.handle = 0 /\ node.held = Up /\ node.pending = 0
      /\ hist.stray = FALSE /\ hist.laps = 0
  BY DEF Init, Fresh
<1>2. Live = {} /\ NoGoal \in GoalRecord
  BY Constants DEF Init, Live, NoGoal, GoalRecord
<1>3. <<>> \in Seq(Points) /\ Len(<<>>) = 0 /\ "COLLECTING" \in LoopPhases
  BY DEF LoopPhases
<1>4. Types
  <2>1. loop \in LoopRecord
    BY <1>3 DEF Init, LoopRecord
  <2>2. node \in NodeRecord
    BY Constants DEF Init, NodeRecord
  <2>3. hist \in HistRecord
    BY Constants DEF Init, HistRecord, Fresh
  <2>4. goals \in [GoalId -> GoalRecord]
    BY <1>2 DEF Init
  <2>5. QED
    BY Constants, <2>1, <2>2, <2>3, <2>4 DEF Init, Types
<1>5. PointsInv
  BY Constants, <1>1, <1>2, <1>3 DEF PointsInv, LoopInv, GoalsInv, Init
<1>6. CourseInv
  BY <1>1, <1>2 DEF CourseInv, Navigating
<1>7. HoldInv
  BY <1>1 DEF HoldInv
<1>8. QED
  BY <1>4, <1>5, <1>6, <1>7 DEF Inv

LEMMA ClickKeeps ==
  ASSUME Inv, Click
  PROVE  Inv'
<1>0. Types /\ PointsInv /\ CourseInv /\ LoopInv /\ GoalsInv
  BY DEF Inv, PointsInv
<1>1. /\ loop' \in LoopRecord /\ node' \in NodeRecord
      /\ goals' \in [GoalId -> GoalRecord]
      /\ clicks' = clicks + 1 /\ clicks' \in 1 .. MaxClicks
      /\ operator' = operator /\ Live' = Live /\ node'.held = Up
      /\ \A i \in GoalId : goals'[i].point = goals[i].point
                           /\ goals'[i].state = goals[i].state
      /\ \/ loop.phase \in Navigating /\ node'.pending = 0 /\ node'.handle = 0
         \/ loop.phase \notin Navigating /\ node'.pending = node.pending
            /\ node'.handle = node.handle
  BY <1>0, ClickEffect
<1>2. \/ /\ loop'.phase = "COLLECTING" /\ loop'.points = <<clicks'>>
         /\ loop'.target = 0 /\ loop'.laps = 0
         /\ hist' = [Fresh EXCEPT !.stray = hist.stray]
      \/ /\ loop.phase = "COLLECTING" /\ Len(loop.points) = 1
         /\ loop'.phase = "READY_FOR_START" /\ loop'.target = 0
         /\ Len(loop'.points) = 2 /\ loop'.points[2] = clicks'
         /\ loop'.points[1] = loop.points[1]
         /\ loop'.laps = loop.laps
         /\ hist' = [hist EXCEPT !.hold = 0]
  <2>1. loop.phase = "COLLECTING" => loop.laps = 0
    BY <1>0 DEF LoopInv
  <2>2. QED
    BY <1>0, <2>1, ClickEffect
<1>3. /\ clicks \in Nat /\ clicks' \in Nat /\ LoopCount \in Nat /\ LoopCount > 0
      /\ ResetHold \in Nat
      /\ hist'.stray = hist.stray /\ hist' \in HistRecord
  <2>1. /\ LoopCount \in Nat /\ LoopCount > 0 /\ ResetHold \in Nat
        /\ MaxClicks \in Nat /\ hist \in HistRecord
    BY <1>0, Constants DEF Types
  <2>2. \/ hist' = [Fresh EXCEPT !.stray = hist.stray]
        \/ hist' = [hist EXCEPT !.hold = 0]
    BY <1>2
  <2>3. 0 \in 0 .. ResetHold /\ 0 \in 0 .. LoopCount /\ hist.stray \in BOOLEAN
    BY <2>1 DEF HistRecord
  <2>4. hist'.stray = hist.stray /\ hist' \in HistRecord
    <3>1. CASE hist' = [Fresh EXCEPT !.stray = hist.stray]
      BY <2>3, <3>1 DEF HistRecord, Fresh
    <3>2. CASE hist' = [hist EXCEPT !.hold = 0]
      BY <2>1, <2>3, <3>2 DEF HistRecord
    <3>3. QED
      BY <2>2, <3>1, <3>2
  <2>5. QED
    BY <1>0, <1>1, <2>1, <2>4 DEF Types
<1>4. Types'
  BY <1>0, <1>1, <1>3 DEF Types
<1>5. GoalsInv' /\ HoldInv' /\ (~hist.stray => node'.pending = 0)
  <2>1. Len(loop'.points) >= 1
    <3>1. Len(<<clicks'>>) = 1
      OBVIOUS
    <3>2. loop'.points = <<clicks'>> => Len(loop'.points) = 1
      BY <3>1, Zenon
    <3>3. Len(loop'.points) = 1 \/ Len(loop'.points) = 2
      BY <1>2, <3>2, Zenon
    <3>4. QED
      BY <3>3
  <2>2. \A i \in Live' : goals'[i].point <= clicks'
    <3>1. \A i \in Live : goals[i].point <= clicks /\ goals[i].point \in Nat
      BY <1>0 DEF GoalsInv, Types, GoalRecord, Live
    <3>2. QED
      BY <1>1, <1>3, <3>1 DEF Live
  <2>3. node'.pending <= clicks'
    BY <1>0, <1>1, <1>3 DEF GoalsInv, Types, NodeRecord
  <2>4. node'.handle # 0 => goals'[node'.handle].state = "executing"
    <3>1. node'.handle # 0 => node'.handle = node.handle /\ node.handle \in GoalId
      BY <1>0, <1>1 DEF Types, NodeRecord
    <3>2. QED
      BY <1>0, <1>1, <3>1 DEF GoalsInv
  <2>5. ~hist.stray => node'.pending = 0
    BY <1>0, <1>1 DEF CourseInv
  <2>6. QED
    BY <1>1, <2>1, <2>2, <2>3, <2>4, <2>5 DEF GoalsInv, HoldInv
<1>6. \A i \in Live : goals[i].point <= clicks /\ goals[i].point \in Nat
  BY <1>0 DEF GoalsInv, Types, GoalRecord, Live
<1>7. CASE loop'.phase = "COLLECTING"
  <2>1. /\ loop'.points = <<clicks'>> /\ loop'.target = 0 /\ loop'.laps = 0
        /\ hist'.laps = 0
    BY <1>2, <1>7 DEF Fresh
  <2>2. Len(loop'.points) = 1 /\ loop'.points[1] = clicks'
    BY <2>1
  <2>3. LoopInv'
    BY <1>3, <1>7, <2>1, <2>2 DEF LoopInv
  <2>4. CourseInv'
    <3>1. \A i \in Live : goals'[i].point # clicks'
      BY <1>1, <1>3, <1>6 DEF Live
    <3>2. (\A i \in Live : ~Current(goals[i].point))'
      BY <1>1, <2>2, <3>1 DEF Current
    <3>3. QED
      BY <1>0, <1>1, <1>3, <1>5, <1>7, <2>1, <3>2 DEF CourseInv, Navigating
  <2>5. QED
    BY <1>4, <1>5, <2>3, <2>4 DEF Inv, PointsInv
<1>8. CASE loop'.phase = "READY_FOR_START"
  <2>1. /\ loop.phase = "COLLECTING" /\ Len(loop.points) = 1
        /\ loop'.target = 0 /\ loop'.laps = loop.laps
        /\ Len(loop'.points) = 2 /\ loop'.points[2] = clicks'
        /\ loop'.points[1] = loop.points[1]
        /\ hist'.laps = hist.laps
    BY <1>0, <1>2, <1>8 DEF Types, HistRecord
  <2>2. loop.points[1] \in Nat /\ loop.points[1] <= clicks
    <3>1. loop.points \in Seq(Points)
      BY <1>0 DEF Types, LoopRecord
    <3>2. loop.points[1] \in Points /\ 1 \in 1 .. Len(loop.points)
      BY <2>1, <3>1
    <3>3. \A k \in 1 .. Len(loop.points) : loop.points[k] <= clicks
      BY <1>0 DEF LoopInv
    <3>4. loop.points[1] <= clicks
      BY <3>2, <3>3, Zenon
    <3>5. QED
      BY <3>2, <3>4 DEF Points
  <2>3. LoopInv'
    <3>1. loop.laps < LoopCount /\ loop.laps \in Nat
      BY <1>0, <1>3, <2>1 DEF LoopInv, Types, LoopRecord
    <3>2. \A k \in 1 .. 2 : loop'.points[k] <= clicks'
      BY <1>1, <1>3, <2>1, <2>2
    <3>3. loop'.points[1] # loop'.points[2]
      BY <1>1, <1>3, <2>1, <2>2
    <3>4. QED
      BY <1>3, <1>8, <2>1, <3>1, <3>2, <3>3 DEF LoopInv
  <2>4. CourseInv'
    <3>1. ASSUME NEW i \in Live, ~hist.stray
          PROVE  goals'[i].point # clicks' /\ goals'[i].point # loop.points[1]
      <4>1. ~Current(goals[i].point)
        BY <1>0, <2>1, <3>1 DEF CourseInv
      <4>2. QED
        BY <1>1, <1>3, <1>6, <2>1, <4>1 DEF Live, Current
    <3>2. ~hist.stray => (\A i \in Live : ~Current(goals[i].point))'
      BY <1>1, <2>1, <3>1 DEF Current
    <3>3. QED
      BY <1>0, <1>1, <1>3, <1>5, <1>8, <2>1, <3>2 DEF CourseInv, Navigating
  <2>5. QED
    BY <1>4, <1>5, <2>3, <2>4 DEF Inv, PointsInv
<1>9. QED
  BY <1>2, <1>7, <1>8

LEMMA LegKeeps ==
  ASSUME Inv, Pressed \/ OperatorDiag
  PROVE  Inv'
<1>0. /\ Types /\ PointsInv /\ LoopInv /\ GoalsInv /\ CourseInv /\ HoldInv
      /\ hist \in HistRecord /\ hist.hold \in 0 .. ResetHold /\ ResetHold \in Nat
      /\ hist.stray \in BOOLEAN /\ LoopCount \in Nat
  BY Constants DEF Inv, PointsInv, Types, HistRecord
<1>1. /\ loop' \in LoopRecord /\ node' \in NodeRecord
      /\ goals' = goals /\ operator' = operator /\ clicks' = clicks
      /\ loop'.points = loop.points /\ loop'.laps = loop.laps
      /\ node'.handle = node.handle
      /\ NoLeg \/ LegBegins
  BY <1>0, LegEffect
<1>2. Live' = Live
  BY <1>1 DEF Live
<1>3. CASE NoLeg
  <2>1. Types' /\ PointsInv'
    BY <1>0, <1>1, <1>2, <1>3
    DEF NoLeg, Types, PointsInv, LoopInv, GoalsInv
  <2>2. CourseInv'
    <3>1. TargetGoal(loop') = TargetGoal(loop)
      BY <1>1, <1>3 DEF NoLeg, TargetGoal
    <3>2. \A p : Current(p)' <=> Current(p)
      BY <1>1 DEF Current
    <3>3. QED
      BY <1>0, <1>1, <1>2, <1>3, <3>1, <3>2 DEF NoLeg, CourseInv, Current
  <2>3. HoldInv'
    BY <1>0, <1>3 DEF NoLeg, HoldInv
  <2>4. QED
    BY <2>1, <2>2, <2>3 DEF Inv
<1>4. CASE LegBegins
  <2>1. /\ hist' \in HistRecord /\ hist'.laps = hist.laps
        /\ hist'.stray = (hist.stray \/ Stray # {})
    <3>1. hist' = [hist EXCEPT !.hold = 0, !.stray = hist.stray \/ Stray # {}]
      BY <1>4 DEF LegBegins
    <3>2. 0 \in 0 .. ResetHold /\ (hist.stray \/ Stray # {}) \in BOOLEAN
      BY <1>0
    <3>3. QED
      BY <1>0, <3>1, <3>2 DEF HistRecord
  <2>2. /\ loop.phase \in Asking /\ Len(loop.points) = 2
        /\ loop.laps < LoopCount
    BY <1>0, <1>4 DEF LegBegins, Asking, LoopInv
  <2>3. /\ loop'.phase \in {"NAVIGATING_TO_START", "NAVIGATING", "WAITING_EXTERNAL"}
        /\ loop'.phase = "WAITING_EXTERNAL" => node'.pending = node.pending
        /\ loop'.phase = "WAITING_EXTERNAL" \/ node'.triggered
        /\ loop'.phase = "NAVIGATING" => loop'.target # 0
    BY <1>4 DEF LegBegins
  <2>4. Types'
    BY <1>0, <1>1, <2>1 DEF Types
  <2>5. TargetGoal(loop') \in Points /\ TargetGoal(loop') <= clicks
    <3>1. /\ Len(loop'.points) = 2 /\ loop'.target \in {0, 1}
          /\ TargetGoal(loop') = loop'.points[loop'.target + 1]
          /\ TargetGoal(loop') \in Points
      BY <1>1, <2>2, TargetGoalEffect DEF LoopRecord
    <3>2. \A k \in 1 .. Len(loop.points) : loop.points[k] <= clicks
      BY <1>0 DEF LoopInv
    <3>3. loop'.target + 1 \in 1 .. Len(loop.points)
      BY <2>2, <3>1
    <3>4. QED
      BY <1>1, <3>1, <3>2, <3>3
  <2>6. LoopInv'
    BY <1>0, <1>1, <2>2, <2>3 DEF LoopInv, LoopRecord
  <2>7. GoalsInv'
    <3>1. node'.pending <= clicks'
      BY <1>0, <1>1, <1>4, <2>5 DEF LegBegins, GoalsInv
    <3>2. QED
      BY <1>0, <1>1, <1>2, <2>2, <3>1 DEF GoalsInv
  <2>8. CourseInv'
    <3>1. SUFFICES ASSUME ~hist'.stray PROVE CourseInv'
      BY DEF CourseInv
    <3>2. ~hist.stray /\ Stray = {}
      BY <1>0, <2>1, <3>1
    <3>3. \A i \in Live : Current(goals[i].point)
      <4>1. loop.points \in Seq(Points)
        BY <1>0 DEF Types, LoopRecord
      <4>2. DOMAIN loop.points = 1 .. Len(loop.points)
        BY <4>1
      <4>3. \A i \in Live : \E k \in DOMAIN loop.points :
              goals[i].point = loop.points[k]
        BY <3>2 DEF Stray
      <4>4. QED
        BY <4>2, <4>3 DEF Current
    <3>4. Live = {}
      BY <1>0, <2>2, <3>2, <3>3 DEF CourseInv, Asking
    <3>5. node.pending = 0
      BY <1>0, <2>2, <3>2 DEF CourseInv, Asking, Navigating
    <3>6. node'.pending # 0 => /\ loop'.phase \in Navigating
                               /\ node'.pending = TargetGoal(loop')
      BY <1>4, <2>3, <3>5 DEF LegBegins, Navigating
    <3>7. loop'.laps <= hist'.laps
      BY <1>0, <1>1, <2>1, <3>2 DEF CourseInv
    <3>8. loop'.phase \notin {"COLLECTING", "READY_FOR_START"}
          /\ ~(loop'.phase = "NAVIGATING" /\ loop'.target = 0)
      BY <2>3
    <3>9. Live' = {}
      BY <1>2, <3>4
    <3>10. QED
      BY <3>6, <3>7, <3>8, <3>9 DEF CourseInv
  <2>9. HoldInv'
    BY <2>3 DEF HoldInv
  <2>10. QED
    BY <2>4, <2>6, <2>7, <2>8, <2>9 DEF Inv, PointsInv
<1>5. QED
  BY <1>1, <1>3, <1>4

LEMMA ButtonKeeps ==
  ASSUME Inv, Released \/ TimeElapses
  PROVE  Inv'
<1>0. /\ Types /\ PointsInv /\ CourseInv /\ HoldInv
      /\ hist \in HistRecord /\ hist.hold \in 0 .. ResetHold /\ ResetHold \in Nat
      /\ node \in NodeRecord /\ node.held \in {Up} \cup 0 .. ResetHold
  BY Constants DEF Inv, Types, HistRecord, NodeRecord
<1>1. /\ loop' = loop /\ goals' = goals /\ operator' = operator /\ clicks' = clicks
  BY DEF Released, TimeElapses
<1>2. /\ node' \in NodeRecord /\ node'.handle = node.handle
      /\ node'.pending = node.pending
      /\ hist' \in HistRecord /\ hist'.end = hist.end /\ hist'.laps = hist.laps
      /\ hist'.stray = hist.stray
      /\ \/ node'.held = Up
         \/ /\ node.held # Up /\ node'.triggered = node.triggered
            /\ \/ node'.held = ResetHold /\ node.held = ResetHold
               \/ node'.held = node.held + 1
            /\ \/ hist'.hold = ResetHold /\ hist.hold = ResetHold
               \/ hist'.hold = hist.hold + 1
  <2>1. CASE Released
    <3>1. /\ node' = [node EXCEPT !.held = Up, !.triggered = FALSE]
          /\ hist' = [hist EXCEPT !.hold = 0]
      BY <2>1 DEF Released
    <3>2. 0 \in 0 .. ResetHold /\ Up \in {Up} \cup 0 .. ResetHold
      BY <1>0
    <3>3. QED
      BY <1>0, <3>1, <3>2 DEF NodeRecord, HistRecord
  <2>2. CASE TimeElapses
    <3> DEFINE held == IF node.held \in {Up, ResetHold} THEN node.held
                       ELSE node.held + 1
               hold == IF node.held = Up \/ hist.hold = ResetHold THEN hist.hold
                       ELSE hist.hold + 1
    <3>1. node' = [node EXCEPT !.held = held] /\ hist' = [hist EXCEPT !.hold = hold]
      BY <2>2 DEF TimeElapses
    <3>2. held \in {Up} \cup 0 .. ResetHold /\ hold \in 0 .. ResetHold
      BY <1>0 DEF Up
    <3> HIDE DEF held, hold
    <3>3. /\ node' \in NodeRecord /\ node'.handle = node.handle
          /\ node'.pending = node.pending /\ node'.held = held
          /\ node'.triggered = node.triggered
          /\ hist' \in HistRecord /\ hist'.end = hist.end /\ hist'.laps = hist.laps
          /\ hist'.stray = hist.stray /\ hist'.hold = hold
      BY <1>0, <3>1, <3>2 DEF NodeRecord, HistRecord
    <3>4. QED
      BY <1>0, <3>3 DEF held, hold
  <2>3. QED
    BY <2>1, <2>2
<1>3. Live' = Live
  BY <1>1 DEF Live
<1>4. Types' /\ PointsInv'
  BY <1>0, <1>1, <1>2, <1>3 DEF Types, PointsInv, LoopInv, GoalsInv
<1>5. CourseInv'
  BY <1>0, <1>1, <1>2, <1>3 DEF CourseInv, Current
<1>6. HoldInv'
  <2>1. SUFFICES ASSUME /\ loop.phase \notin {"WAITING_EXTERNAL", "COMPLETED", "ERROR"}
                        /\ node'.held # Up /\ ~node'.triggered
                 PROVE  hist'.hold >= node'.held
    BY <1>1 DEF HoldInv
  <2>2. /\ hist.hold >= node.held
        /\ \/ node'.held = ResetHold /\ node.held = ResetHold
           \/ node'.held = node.held + 1
        /\ \/ hist'.hold = ResetHold /\ hist.hold = ResetHold
           \/ hist'.hold = hist.hold + 1
    BY <1>0, <1>2, <2>1 DEF HoldInv
  <2>3. node'.held \in {Up} \cup 0 .. ResetHold /\ node.held \in Int
    BY <1>0, <1>2 DEF NodeRecord, Up
  <2>4. QED
    BY <1>0, <2>1, <2>2, <2>3
<1>7. QED
  BY <1>4, <1>5, <1>6 DEF Inv

LEMMA OperatorKeeps ==
  ASSUME Inv, OperatorStep
  PROVE  Inv'
<1>1. /\ UNCHANGED <<loop, node, goals, clicks, hist>>
      /\ operator' \in {"STOPPED", Waiting, "RUNNING"}
  BY DEF OperatorStep
<1>2. Live' = Live
  BY <1>1 DEF Live
<1>3. QED
  BY <1>1, <1>2
  DEF Inv, Types, PointsInv, LoopInv, GoalsInv, CourseInv, HoldInv, Current

\* A goal that ended without success, or was rejected: the phase goes back to
\* the one that asks for the leg, or to ERROR.
LEMMA EndKeeps ==
  ASSUME Inv, NEW i \in GoalId, goals[i].state # "none",
         goals' = Ended(i),
         loop' \in LoopRecord, loop'.points = loop.points,
         loop'.target = loop.target, loop'.laps = loop.laps,
         \/ loop'.phase = "ERROR"
         \/ loop.phase = "COLLECTING" /\ loop'.phase = "COLLECTING"
         \/ loop.phase = "NAVIGATING_TO_START" /\ loop'.phase = "READY_FOR_START"
         \/ loop.phase = "NAVIGATING" /\ loop'.phase = "AT_START_WAITING_FOR_LOOP",
         node' \in NodeRecord, node'.pending = node.pending,
         node'.held = node.held, node'.triggered = node.triggered,
         node'.handle = 0 \/ (node'.handle = node.handle /\ node.handle # i),
         UNCHANGED <<operator, clicks, hist>>
  PROVE  Inv'
<1>0. /\ Types /\ PointsInv /\ LoopInv /\ GoalsInv /\ CourseInv /\ HoldInv
      /\ i \in Live
  BY NoGoalFacts DEF Inv, PointsInv
<1>1. /\ goals' \in [GoalId -> GoalRecord] /\ goals'[i] = NoGoal
      /\ \A k \in GoalId : k # i => goals'[k] = goals[k]
  BY <1>0, EndedEffect
<1>2. Live' = Live \ {i} /\ \A k \in Live' : goals'[k] = goals[k]
  BY <1>1 DEF Live
<1>3. Types'
  BY <1>0, <1>1 DEF Types
<1>4. LoopInv'
  BY <1>0 DEF LoopInv
<1>5. GoalsInv'
  <2>1. node'.handle # 0 => /\ node'.handle = node.handle /\ node.handle \in GoalId
                            /\ node.handle # i
    BY <1>0 DEF Types, NodeRecord
  <2>2. QED
    BY <1>0, <1>1, <1>2, <2>1 DEF GoalsInv
<1>6. CourseInv'
  <2>1. SUFFICES ASSUME ~hist.stray PROVE CourseInv'
    BY DEF CourseInv
  <2>2. node'.pending = 0
    BY <1>0, <2>1 DEF CourseInv
  <2>3. \A k \in Live : k = i
    BY <1>0, <2>1 DEF CourseInv
  <2>4. Live' = {}
    BY <1>2, <2>3
  <2>5. /\ loop'.laps <= hist'.laps
        /\ loop'.phase # "NAVIGATING"
    BY <1>0, <2>1 DEF CourseInv
  <2>6. QED
    BY <2>2, <2>4, <2>5 DEF CourseInv
<1>7. HoldInv'
  BY <1>0 DEF HoldInv
<1>8. QED
  BY <1>3, <1>4, <1>5, <1>6, <1>7 DEF Inv, PointsInv

LEMMA FailedKeeps ==
  ASSUME Inv, NEW i \in GoalId, NEW outcome, Failed(i, outcome)
  PROVE  Inv'
<1>0. Types /\ loop \in LoopRecord
  BY DEF Inv, Types
<1>1. /\ goals[i].state # "none" /\ goals' = Ended(i)
      /\ UNCHANGED <<operator, clicks, hist>>
      /\ node' = Forget(i)
      /\ loop' = GoalFailed(loop) \/ loop' = Interrupted(loop)
  BY DEF Failed
<1>2. /\ node' \in NodeRecord /\ node'.pending = node.pending
      /\ node'.held = node.held /\ node'.triggered = node.triggered
      /\ node'.handle = 0 \/ (node'.handle = node.handle /\ node.handle # i)
  BY <1>0, <1>1, ForgetEffect
<1>3. /\ loop' \in LoopRecord /\ loop'.points = loop.points
      /\ loop'.target = loop.target /\ loop'.laps = loop.laps
      /\ \/ loop'.phase = "ERROR"
         \/ loop.phase = "COLLECTING" /\ loop'.phase = "COLLECTING"
         \/ loop.phase = "NAVIGATING_TO_START" /\ loop'.phase = "READY_FOR_START"
         \/ loop.phase = "NAVIGATING" /\ loop'.phase = "AT_START_WAITING_FOR_LOOP"
  BY <1>0, <1>1, FailedEffect
<1>4. QED
  BY <1>1, <1>2, <1>3, EndKeeps

LEMMA RejectedKeeps ==
  ASSUME Inv, NEW i \in GoalId, Rejected(i)
  PROVE  Inv'
<1>0. Types /\ loop \in LoopRecord /\ node \in NodeRecord
  BY DEF Inv, Types
<1>1. /\ goals[i].state # "none" /\ goals' = Ended(i)
      /\ UNCHANGED <<operator, clicks, hist>>
      /\ node' = [node EXCEPT !.handle = 0]
      /\ loop' = GoalFailed(loop)
  BY DEF Rejected, Ended
<1>2. /\ node' \in NodeRecord /\ node'.pending = node.pending
      /\ node'.held = node.held /\ node'.triggered = node.triggered
      /\ node'.handle = 0
  BY <1>0, <1>1 DEF NodeRecord
<1>3. /\ loop' \in LoopRecord /\ loop'.points = loop.points
      /\ loop'.target = loop.target /\ loop'.laps = loop.laps
      /\ loop'.phase = "ERROR"
  BY <1>0, <1>1, FailedEffect
<1>4. QED
  BY <1>1, <1>2, <1>3, EndKeeps

LEMMA AcceptedKeeps ==
  ASSUME Inv, NEW i \in GoalId, Accepted(i)
  PROVE  Inv'
<1>0. Types /\ PointsInv /\ LoopInv /\ GoalsInv /\ CourseInv /\ HoldInv
  BY DEF Inv, PointsInv
<1>1. /\ goals[i].state = "requested"
      /\ goals' = [goals EXCEPT ![i].state = "executing"]
      /\ node' = [node EXCEPT !.handle = i]
      /\ UNCHANGED <<loop, operator, clicks, hist>>
  BY DEF Accepted
<1>2. /\ goals' \in [GoalId -> GoalRecord] /\ goals'[i].state = "executing"
      /\ \A k \in GoalId : goals'[k].point = goals[k].point
      /\ \A k \in GoalId : k # i => goals'[k] = goals[k]
  BY <1>0, <1>1 DEF Types, GoalRecord
<1>3. Live' = Live
  BY <1>1, <1>2, NoGoalFacts DEF Live
<1>4. /\ node' \in NodeRecord /\ node'.handle = i /\ node'.pending = node.pending
      /\ node'.held = node.held /\ node'.triggered = node.triggered
  BY <1>0, <1>1 DEF Types, NodeRecord
<1>5. Types'
  BY <1>0, <1>1, <1>2, <1>4 DEF Types
<1>6. \A k \in Live : goals'[k].point = goals[k].point
  BY <1>2 DEF Live
<1>7. PointsInv'
  BY <1>0, <1>1, <1>2, <1>3, <1>4, <1>6 DEF PointsInv, LoopInv, GoalsInv
<1>8. CourseInv' /\ HoldInv'
  BY <1>0, <1>1, <1>3, <1>4, <1>6 DEF CourseInv, HoldInv, Current
<1>9. QED
  BY <1>5, <1>7, <1>8 DEF Inv

LEMMA DispatchKeeps ==
  ASSUME Inv, Dispatch
  PROVE  Inv'
<1>0. /\ Types /\ PointsInv /\ LoopInv /\ GoalsInv /\ CourseInv /\ HoldInv
      /\ node.pending \in 0 .. MaxClicks
  BY DEF Inv, PointsInv, Types, NodeRecord
<1>1. /\ node.pending # 0 /\ node' = [node EXCEPT !.pending = 0]
      /\ UNCHANGED <<operator, clicks, hist>>
  BY DEF Dispatch
<1>2. /\ node' \in NodeRecord /\ node'.handle = node.handle /\ node'.pending = 0
      /\ node'.held = node.held /\ node'.triggered = node.triggered
      /\ 0 <= clicks
  <2>1. 0 \in 0 .. MaxClicks /\ 0 <= clicks
    BY <1>0, Constants DEF Types
  <2>2. QED
    BY <1>0, <1>1, <2>1 DEF Types, NodeRecord
<1>3. ASSUME NEW i \in GoalId \ Live, Send(i, node.pending), loop' = loop
      PROVE  Inv'
  <2>1. /\ goals' \in [GoalId -> GoalRecord] /\ goals'[i].point = node.pending
        /\ goals'[i] # NoGoal
        /\ \A k \in GoalId : k # i => goals'[k] = goals[k]
    <3>1. goals' = [goals EXCEPT ![i] = [NoGoal EXCEPT !.state = "requested",
                                                       !.point = node.pending]]
      BY <1>3 DEF Send
    <3>2. QED
      BY <1>0, <1>3, <3>1, SentEffect DEF Types
  <2>2. Live' = Live \cup {i} /\ goals[i] = NoGoal
    BY <1>3, <2>1 DEF Live
  <2>3. Types'
    BY <1>0, <1>1, <1>2, <1>3, <2>1 DEF Types
  <2>4. LoopInv' /\ HoldInv'
    BY <1>0, <1>1, <1>2, <1>3 DEF LoopInv, HoldInv
  <2>5. GoalsInv'
    <3>1. \A k \in Live' : goals'[k].point <= clicks' /\ Len(loop'.points) >= 1
      BY <1>0, <1>1, <1>3, <2>1, <2>2 DEF GoalsInv, Live
    <3>2. node'.handle # 0 => goals'[node'.handle].state = "executing"
      <4>1. node.handle # 0 => /\ node.handle \in GoalId
                               /\ goals[node.handle].state = "executing"
        BY <1>0 DEF GoalsInv, Types, NodeRecord
      <4>2. node.handle # 0 => node.handle # i
        BY <2>2, <4>1, NoGoalFacts
      <4>3. QED
        BY <1>2, <2>1, <4>1, <4>2
    <3>3. QED
      BY <1>1, <1>2, <3>1, <3>2 DEF GoalsInv
  <2>6. CourseInv'
    <3>1. SUFFICES ASSUME ~hist.stray PROVE CourseInv'
      BY <1>1 DEF CourseInv
    <3>2. /\ Live = {} /\ loop.phase \in Navigating
          /\ node.pending = TargetGoal(loop)
      BY <1>0, <1>1, <3>1 DEF CourseInv
    <3>3. Live' = {i}
      BY <2>2, <3>2
    <3>4. loop'.phase \notin {"COLLECTING", "READY_FOR_START",
                              "AT_START_WAITING_FOR_LOOP", "WAITING_EXTERNAL"}
      BY <1>3, <3>2 DEF Navigating
    <3>5. goals'[i].point = TargetGoal(loop')
      BY <1>3, <2>1, <3>2
    <3>6. /\ loop'.laps <= hist'.laps
          /\ loop'.phase = "NAVIGATING" /\ loop'.target = 0 => hist'.end
      BY <1>0, <1>1, <1>3, <3>1 DEF CourseInv
    <3>7. QED
      BY <1>2, <3>3, <3>4, <3>5, <3>6 DEF CourseInv
  <2>7. QED
    BY <2>3, <2>4, <2>5, <2>6 DEF Inv, PointsInv
<1>4. CASE Unavailable
  <2>1. goals' = goals /\ loop' = GoalFailed(loop) /\ Live' = Live
    BY <1>4 DEF Unavailable, Live
  <2>2. /\ loop' \in LoopRecord /\ loop'.phase = "ERROR"
        /\ loop'.points = loop.points /\ loop'.target = loop.target
        /\ loop'.laps = loop.laps
    BY <1>0, <2>1, FailedEffect DEF Types
  <2>3. Types' /\ PointsInv' /\ HoldInv'
    BY <1>0, <1>1, <1>2, <2>1, <2>2
    DEF Types, PointsInv, LoopInv, GoalsInv, HoldInv
  <2>4. CourseInv'
    BY <1>0, <1>1, <1>2, <2>1, <2>2 DEF CourseInv, Navigating
  <2>5. QED
    BY <2>3, <2>4 DEF Inv
<1>5. QED
  BY <1>3, <1>4 DEF Dispatch

LEMMA SucceededKeeps ==
  ASSUME Inv, NEW i \in GoalId, Succeeded(i)
  PROVE  Inv'
<1> DEFINE r == GoalSucceeded(loop)
           laps == IF loop.target = 0 THEN loop.laps + 1 ELSE loop.laps
           p == goals[i].point
<1>0. /\ Types /\ PointsInv /\ LoopInv /\ GoalsInv /\ CourseInv /\ HoldInv
      /\ i \in Live /\ goals[i].state = "executing" /\ p \in 0 .. MaxClicks
      /\ loop \in LoopRecord /\ LoopCount \in Nat
      /\ loop.laps \in Nat /\ loop.target \in {0, 1}
  BY NoGoalFacts, Constants DEF Inv, PointsInv, Types, Succeeded, GoalRecord, LoopRecord
<1>1. /\ r.loop \in LoopRecord /\ r.loop.points = loop.points
      /\ r.goal \in 0 .. MaxClicks
      /\ r.goal # 0 => TargetGoal(r.loop) = r.goal
      /\ loop.phase \notin {"NAVIGATING_TO_START", "NAVIGATING", "WAITING_EXTERNAL"}
           => r.loop = loop /\ r.goal = 0
      /\ loop.phase = "NAVIGATING_TO_START" =>
           /\ r.loop.phase = "AT_START_WAITING_FOR_LOOP"
           /\ r.loop.target = 0 /\ r.loop.laps = loop.laps /\ r.goal = 0
      /\ loop.phase \in {"NAVIGATING", "WAITING_EXTERNAL"} =>
           /\ r.loop.laps = laps /\ laps <= LoopCount
           /\ \/ r.loop.phase = "COMPLETED" /\ r.goal = 0
                 /\ r.loop.target = loop.target
              \/ /\ r.loop.target = 1 - loop.target /\ laps < LoopCount
                 /\ \/ r.loop.phase = loop.phase /\ r.goal # 0
                    \/ r.loop.phase = "WAITING_EXTERNAL" /\ r.goal = 0
  <2>1. loop.phase \in {"NAVIGATING", "WAITING_EXTERNAL"} =>
          Len(loop.points) = 2 /\ loop.laps < LoopCount
    BY <1>0 DEF LoopInv
  <2>2. QED
    BY <1>0, <2>1, SucceededEffect
<1> HIDE DEF r
<1>2. /\ UNCHANGED <<operator, clicks>> /\ hist' = Visit(p)
      /\ \/ /\ goals' = Ended(i) /\ loop' = GoalFailed(r.loop) /\ node' = Forget(i)
         \/ /\ goals' = Ended(i) /\ loop' = r.loop /\ r.goal = 0
            /\ node' = [Forget(i) EXCEPT !.triggered =
                          Forget(i).triggered \/ r.loop.phase = "AT_START_WAITING_FOR_LOOP"]
         \/ /\ r.goal # 0 /\ loop' = r.loop /\ node' = Forget(i)
            /\ \E j \in (GoalId \ Live) \cup {i} :
                 goals' = [Ended(i) EXCEPT ![j] = [NoGoal EXCEPT
                             !.state = "requested", !.point = r.goal]]
  BY DEF Succeeded, r
<1>3. /\ hist' \in HistRecord
      /\ hist'.hold = hist.hold /\ hist'.stray = hist.stray
      /\ hist'.laps >= hist.laps /\ hist'.laps \in Nat /\ hist.laps \in Nat
      /\ Len(loop.points) = 2 /\ p = loop.points[2] => hist'.end
      /\ Len(loop.points) = 2 /\ p # loop.points[2] /\ p = loop.points[1]
           /\ hist.end =>
           hist'.laps > hist.laps \/ hist'.laps = LoopCount
  BY <1>0, <1>2, VisitEffect DEF HistRecord, Types
<1>4. /\ node' \in NodeRecord /\ node'.held = node.held
      /\ node'.pending = node.pending
      /\ node'.handle = IF node.handle = i THEN 0 ELSE node.handle
      /\ node'.triggered = node.triggered \/ node'.triggered
  <2>1. /\ Forget(i) \in NodeRecord
        /\ Forget(i).held = node.held /\ Forget(i).triggered = node.triggered
        /\ Forget(i).pending = node.pending
        /\ Forget(i).handle = IF node.handle = i THEN 0 ELSE node.handle
    BY <1>0, ForgetEffect
  <2>2. CASE node' = Forget(i)
    BY <2>1, <2>2
  <2>3. CASE node' = [Forget(i) EXCEPT !.triggered =
                 Forget(i).triggered \/ r.loop.phase = "AT_START_WAITING_FOR_LOOP"]
    <3> DEFINE f == Forget(i)
               t == f.triggered \/ r.loop.phase = "AT_START_WAITING_FOR_LOOP"
    <3>1. f.triggered \in BOOLEAN
      BY <2>1 DEF NodeRecord
    <3>2. t \in BOOLEAN /\ (t = f.triggered \/ t)
      BY <3>1
    <3>3. f \in NodeRecord
      BY <2>1
    <3>4. node' = [f EXCEPT !.triggered = t]
      BY <2>3
    <3> HIDE DEF t, f
    <3>5. /\ node' \in NodeRecord /\ node'.held = f.held /\ node'.pending = f.pending
          /\ node'.handle = f.handle /\ node'.triggered = t
      BY <3>2, <3>3, <3>4 DEF NodeRecord
    <3>6. QED
      BY <2>1, <3>2, <3>5 DEF f
  <2>4. QED
    BY <1>2, <2>2, <2>3
<1>5. /\ loop' \in LoopRecord /\ loop'.points = loop.points
      /\ loop'.target = r.loop.target /\ loop'.laps = r.loop.laps
      /\ loop'.phase = "ERROR" \/ loop' = r.loop
  BY <1>1, <1>2, FailedEffect
<1>6. /\ goals' \in [GoalId -> GoalRecord]
      /\ \A k \in Live \ {i} : goals'[k] = goals[k]
      /\ \/ Live' = Live \ {i} /\ (loop'.phase = "ERROR" \/ r.goal = 0)
         \/ /\ r.goal # 0 /\ loop' = r.loop
            /\ \E j \in GoalId : /\ Live' = (Live \ {i}) \cup {j}
                                 /\ j \notin Live \ {i}
                                 /\ goals'[j].point = r.goal
  <2>1. /\ Ended(i) \in [GoalId -> GoalRecord]
        /\ Ended(i)[i] = NoGoal
        /\ \A k \in GoalId : k # i => Ended(i)[k] = goals[k]
    BY <1>0, EndedEffect
  <2>2. CASE goals' = Ended(i) /\ (loop' = GoalFailed(r.loop) \/ r.goal = 0)
    <3>1. Live' = Live \ {i} /\ \A k \in Live \ {i} : goals'[k] = goals[k]
      BY <2>1, <2>2 DEF Live
    <3>2. loop'.phase = "ERROR" \/ r.goal = 0
      BY <1>1, <2>2, FailedEffect
    <3>3. goals' \in [GoalId -> GoalRecord]
      BY <2>1, <2>2
    <3>4. QED
      BY <3>1, <3>2, <3>3, Zenon
  <2>3. ASSUME r.goal # 0, loop' = r.loop, NEW j \in (GoalId \ Live) \cup {i},
               goals' = [Ended(i) EXCEPT ![j] = [NoGoal EXCEPT
                           !.state = "requested", !.point = r.goal]]
        PROVE  /\ goals' \in [GoalId -> GoalRecord]
               /\ \A k \in Live \ {i} : goals'[k] = goals[k]
               /\ \E k \in GoalId : /\ Live' = (Live \ {i}) \cup {k}
                                    /\ k \notin Live \ {i}
                                    /\ goals'[k].point = r.goal
    <3>1. /\ goals' \in [GoalId -> GoalRecord] /\ goals'[j].point = r.goal
          /\ goals'[j] # NoGoal
          /\ \A k \in GoalId : k # j => goals'[k] = Ended(i)[k]
      <4> DEFINE e == Ended(i)
                 q == r.goal
      <4>1. /\ j \in GoalId /\ q \in 0 .. MaxClicks /\ e \in [GoalId -> GoalRecord]
            /\ goals' = [e EXCEPT ![j] = [NoGoal EXCEPT !.state = "requested",
                                                       !.point = q]]
        BY <1>0, <1>1, <2>1, <2>3
      <4> HIDE DEF e, q
      <4>2. /\ goals' \in [GoalId -> GoalRecord] /\ goals'[j].point = q
            /\ goals'[j] # NoGoal
            /\ \A k \in GoalId : k # j => goals'[k] = e[k]
        BY <4>1, SentEffect
      <4>3. QED
        BY <4>2 DEF e, q
    <3>2. j \in GoalId /\ j \notin Live \ {i}
      BY <2>3
    <3>3. /\ Live' = (Live \ {i}) \cup {j}
          /\ \A k \in Live \ {i} : goals'[k] = goals[k]
      BY <2>1, <3>1, <3>2 DEF Live
    <3>4. QED
      BY <2>3, <3>1, <3>2, <3>3
  <2>4. QED
    BY <1>2, <2>2, <2>3
<1>7. Types'
  BY <1>0, <1>2, <1>3, <1>4, <1>5, <1>6 DEF Types
<1>8. LoopInv'
  <2>1. loop.phase \in {"NAVIGATING_TO_START", "NAVIGATING", "WAITING_EXTERNAL"} =>
          Len(loop.points) = 2 /\ loop.laps < LoopCount
    BY <1>0 DEF LoopInv
  <2>2. CASE loop.phase \notin {"NAVIGATING_TO_START", "NAVIGATING", "WAITING_EXTERNAL"}
    <3>1. /\ loop'.target = loop.target /\ loop'.laps = loop.laps
          /\ loop'.phase = "ERROR" \/ loop'.phase = loop.phase
      BY <1>1, <1>5, <2>2
    <3>2. QED
      BY <1>0, <1>2, <1>5, <3>1 DEF LoopInv
  <2>3. CASE loop.phase \in {"NAVIGATING_TO_START", "NAVIGATING", "WAITING_EXTERNAL"}
    <3>1. /\ Len(loop'.points) = 2 /\ loop'.laps <= LoopCount
          /\ loop'.phase # "COLLECTING"
          /\ loop'.phase \notin {"COMPLETED", "ERROR"} => loop'.laps < LoopCount
      BY <1>0, <1>1, <1>5, <2>1, <2>3
    <3>2. QED
      BY <1>0, <1>2, <1>5, <3>1 DEF LoopInv
  <2>4. QED
    BY <2>2, <2>3
<1>9. GoalsInv'
  <2>1. Len(loop.points) >= 1 /\ \A k \in Live : goals[k].point <= clicks
    BY <1>0 DEF GoalsInv
  <2>2. r.goal # 0 => r.goal <= clicks
    <3>1. SUFFICES ASSUME r.goal # 0 PROVE r.goal <= clicks
      OBVIOUS
    <3>2. Len(r.loop.points) = 2
      BY <1>0, <1>1, <3>1 DEF LoopInv
    <3>3. /\ r.goal = r.loop.points[r.loop.target + 1]
          /\ r.loop.target \in {0, 1}
      BY <1>1, <3>1, <3>2, TargetGoalEffect DEF LoopRecord
    <3>4. r.loop.target + 1 \in 1 .. Len(loop.points)
      BY <1>1, <3>2, <3>3
    <3>5. \A k \in 1 .. Len(loop.points) : loop.points[k] <= clicks
      BY <1>0 DEF LoopInv
    <3>6. QED
      BY <1>1, <3>3, <3>4, <3>5
  <2>3. \A k \in Live' : goals'[k].point <= clicks'
    BY <1>2, <1>6, <2>1, <2>2
  <2>4. node'.handle # 0 => goals'[node'.handle].state = "executing"
    <3>1. SUFFICES ASSUME node'.handle # 0
                   PROVE  goals'[node'.handle].state = "executing"
      OBVIOUS
    <3>2. /\ node'.handle = node.handle /\ node.handle \in GoalId
          /\ node.handle # i /\ goals[node.handle].state = "executing"
      BY <1>0, <1>4, <3>1 DEF GoalsInv, Types, NodeRecord
    <3>3. node.handle \in Live \ {i}
      BY <3>2, NoGoalFacts
    <3>4. QED
      BY <1>6, <3>2, <3>3
  <2>5. QED
    BY <1>0, <1>2, <1>4, <1>5, <2>1, <2>3, <2>4 DEF GoalsInv
<1>10. CourseInv'
  <2>1. SUFFICES ASSUME ~hist.stray PROVE CourseInv'
    BY <1>3 DEF CourseInv
  <2>2. /\ \A k \in Live : k = i
        /\ node'.pending = 0
        /\ loop.phase # "WAITING_EXTERNAL"
        /\ loop.phase = "NAVIGATING" => p = TargetGoal(loop)
        /\ loop.laps <= hist.laps
        /\ loop.phase = "NAVIGATING" /\ loop.target = 0 => hist.end
    BY <1>0, <1>4, <2>1 DEF CourseInv, Navigating
  <2>3. /\ \A j, k \in Live' : j = k
        /\ \/ Live' = {}
           \/ /\ loop'.phase = "NAVIGATING"
              /\ \A k \in Live' : goals'[k].point = TargetGoal(loop')
    <3>1. Live \ {i} = {}
      BY <2>2
    <3>2. CASE r.goal = 0 \/ loop'.phase = "ERROR"
      <4>1. r.goal = 0 => Live' = {}
        BY <1>6, <3>1
      <4>2. loop'.phase = "ERROR" /\ r.goal # 0 => Live' = {}
        <5>1. r.goal # 0 => r.loop.phase # "ERROR"
          BY <1>1, <2>2
        <5>2. QED
          BY <1>6, <3>1, <5>1
      <4>3. QED
        BY <3>2, <4>1, <4>2
    <3>3. CASE r.goal # 0 /\ loop' = r.loop
      <4>1. loop'.phase = "NAVIGATING" /\ TargetGoal(loop') = r.goal
        BY <1>1, <2>2, <3>3
      <4>2. \/ Live' = {}
            \/ \E j \in GoalId : Live' = {j} /\ goals'[j].point = r.goal
        BY <1>6, <3>1
      <4>3. QED
        BY <4>1, <4>2
    <3>4. QED
      BY <1>5, <3>2, <3>3
  <2>4. loop.phase = "NAVIGATING" =>
          /\ Len(loop.points) = 2 /\ loop.points[1] # loop.points[2]
          /\ TargetGoal(loop) = loop.points[loop.target + 1]
    BY <1>0, TargetGoalEffect DEF LoopInv
  <2>5. loop'.laps <= hist'.laps
    <3>1. CASE loop.phase = "NAVIGATING" /\ loop.target = 0
      <4>1. p = loop.points[1] /\ p # loop.points[2] /\ hist.end
        BY <2>2, <2>4, <3>1
      <4>2. hist'.laps > hist.laps \/ hist'.laps = LoopCount
        BY <1>3, <2>4, <3>1, <4>1
      <4>3. loop'.laps = loop.laps + 1 /\ loop'.laps <= LoopCount
        BY <1>1, <1>5, <3>1
      <4>4. QED
        BY <1>0, <1>3, <2>2, <4>2, <4>3
    <3>2. CASE ~(loop.phase = "NAVIGATING" /\ loop.target = 0)
      <4>1. loop'.laps = loop.laps
        BY <1>1, <1>5, <2>2, <3>2
      <4>2. QED
        BY <1>0, <1>3, <2>2, <4>1
    <3>3. QED
      BY <3>1, <3>2
  <2>6. loop'.phase = "NAVIGATING" /\ loop'.target = 0 => hist'.end
    <3>1. SUFFICES ASSUME loop'.phase = "NAVIGATING", loop'.target = 0
                   PROVE  hist'.end
      OBVIOUS
    <3>2. loop.phase = "NAVIGATING" /\ loop.target = 1
      BY <1>0, <1>1, <1>5, <2>2, <3>1
    <3>3. p = loop.points[2] /\ Len(loop.points) = 2
      BY <2>2, <2>4, <3>2
    <3>4. QED
      BY <1>3, <3>3
  <2>7. QED
    BY <2>2, <2>3, <2>5, <2>6 DEF CourseInv
<1>11. HoldInv'
  <2>1. loop'.phase \notin {"WAITING_EXTERNAL", "COMPLETED", "ERROR"} =>
          loop.phase \notin {"WAITING_EXTERNAL", "COMPLETED", "ERROR"}
    BY <1>1, <1>5
  <2>2. QED
    BY <1>0, <1>3, <1>4, <2>1 DEF HoldInv
<1>12. QED
  BY <1>7, <1>8, <1>9, <1>10, <1>11 DEF Inv, PointsInv

LEMMA InvStep == Inv /\ [Next]_vars => Inv'
<1> SUFFICES ASSUME Inv, [Next]_vars PROVE Inv'
  OBVIOUS
<1>1. CASE Click
  BY <1>1, ClickKeeps
<1>2. CASE Pressed \/ OperatorDiag
  BY <1>2, LegKeeps
<1>3. CASE Released \/ TimeElapses
  BY <1>3, ButtonKeeps
<1>4. CASE OperatorStep
  BY <1>4, OperatorKeeps
<1>5. CASE Dispatch
  BY <1>5, DispatchKeeps
<1>6. ASSUME NEW i \in GoalId, Accepted(i) \/ Rejected(i) \/ Result(i)
      PROVE  Inv'
  <2>1. CASE Accepted(i)
    BY <2>1, AcceptedKeeps
  <2>2. CASE Rejected(i)
    BY <2>2, RejectedKeeps
  <2>3. CASE Succeeded(i)
    BY <2>3, SucceededKeeps
  <2>4. ASSUME NEW outcome \in Outcomes, Failed(i, outcome)
        PROVE  Inv'
    BY <2>4, FailedKeeps
  <2>5. QED
    BY <1>6, <2>1, <2>2, <2>3, <2>4 DEF Result
<1>7. CASE UNCHANGED vars
  <2>1. Live' = Live
    BY <1>7 DEF vars, Live
  <2>2. QED
    BY <1>7, <2>1
    DEF vars, Inv, Types, PointsInv, LoopInv, GoalsInv, CourseInv, HoldInv, Current
<1>8. QED
  BY <1>1, <1>2, <1>3, <1>4, <1>5, <1>6, <1>7 DEF Next

LEMMA Invariant == Spec => []Inv
<1>1. Init => Inv
  BY InvInit
<1>2. Inv /\ [Next]_vars => Inv'
  BY InvStep
<1>3. QED
  BY <1>1, <1>2, PTL DEF Spec

-----------------------------------------------------------------------------
(* What it gives *)

\* Every variable stays in its type: two points at most, no lap beyond the
\* count, for any number of clicks (waypoint_loop_core.py).
THEOREM TypeCorrect == Spec => []TypeOK
<1>1. Inv => TypeOK
  <2> SUFFICES ASSUME Inv PROVE TypeOK
    OBVIOUS
  <2>1. Types /\ LoopInv /\ LoopCount \in Nat
    BY Constants DEF Inv, PointsInv
  <2>2. loop.points \in UNION {[1 .. n -> 1 .. MaxClicks] : n \in 0 .. 2}
    <3>1. loop.points \in Seq(Points)
      BY <2>1 DEF Types, LoopRecord
    <3>2. Len(loop.points) \in Nat /\ loop.points \in [1 .. Len(loop.points) -> Points]
      BY <3>1, LenProperties
    <3>3. Len(loop.points) \in 0 .. 2
      <4>1. Len(loop.points) <= 2 /\ Len(loop.points) \in Nat
        BY <2>1, <3>2 DEF LoopInv
      <4>2. \A n \in Nat : n <= 2 => n \in 0 .. 2
        OBVIOUS
      <4>3. QED
        BY <4>1, <4>2, Zenon
    <3>4. QED
      BY <3>2, <3>3 DEF Points
  <2>3. loop.laps \in 0 .. LoopCount
    BY <2>1 DEF LoopInv, Types, LoopRecord
  <2>4. loop \in [phase : LoopPhases,
                  points : UNION {[1 .. n -> 1 .. MaxClicks] : n \in 0 .. 2},
                  target : {0, 1}, laps : 0 .. LoopCount, armed : BOOLEAN]
    <3> DEFINE P == UNION {[1 .. n -> 1 .. MaxClicks] : n \in 0 .. 2}
    <3>1. loop \in LoopRecord /\ loop.points \in P
      BY <2>1, <2>2 DEF Types
    <3> HIDE DEF P
    <3>2. loop \in [phase : LoopPhases, points : P, target : {0, 1},
                    laps : 0 .. LoopCount, armed : BOOLEAN]
      BY <2>3, <3>1 DEF LoopRecord
    <3>3. QED
      BY <3>2 DEF P
  <2>5. QED
    BY <2>1, <2>4 DEF TypeOK, Types, NodeRecord, GoalRecord, HistRecord
<1>2. QED
  BY <1>1, Invariant, PTL

\* However late a result arrives, the callback finds the current target among
\* the points (_goal_result_cb indexes the waypoints with it).
THEOREM ResultIndexIsSafe == Spec => []ResultFindsTarget
<1>1. Inv => ResultFindsTarget
  <2> SUFFICES ASSUME Inv, Executing # {}
               PROVE  loop.target + 1 <= Len(loop.points)
    BY DEF ResultFindsTarget
  <2>1. Len(loop.points) >= 1
    BY NoGoalFacts DEF Executing, Inv, PointsInv, GoalsInv
  <2>2. /\ loop.target \in {0, 1} /\ Len(loop.points) \in Nat
        /\ loop.target = 1 => Len(loop.points) = 2
    BY DEF Inv, PointsInv, LoopInv, Types, LoopRecord
  <2>3. QED
    BY <2>1, <2>2
<1>2. QED
  BY <1>1, Invariant, PTL

\* No lap is counted that was not driven, unless a leg started while a goal to
\* an earlier point was still live.
THEOREM NoLapIsInvented == Spec => []LapsAreReal
<1>1. Inv => LapsAreReal
  BY DEF Inv, CourseInv, LapsAreReal
<1>2. QED
  BY <1>1, Invariant, PTL

\* The node has one goal under way at most, on the same condition.
THEOREM OneGoalOnly == Spec => []OneGoalAtATime
<1>1. Inv => OneGoalAtATime
  <2> SUFFICES ASSUME Inv, ~hist.stray
               PROVE  Cardinality(Live) + (IF node.pending # 0 THEN 1 ELSE 0) <= 1
    BY DEF OneGoalAtATime
  <2>1. /\ \A i, j \in Live : i = j
        /\ node.pending # 0 => Live = {}
    BY DEF Inv, CourseInv
  <2>2. CASE Live = {}
    BY <2>2, FS_EmptySet
  <2>3. CASE Live # {}
    <3>1. PICK i : i \in Live
      BY <2>3
    <3>2. Live = {i}
      BY <2>1, <3>1
    <3>3. Cardinality(Live) = 1
      BY <3>2, FS_Singleton
    <3>4. QED
      BY <2>1, <2>3, <3>3
  <2>4. QED
    BY <2>2, <2>3
<1>2. QED
  BY <1>1, Invariant, PTL

\* A leg that asks for a hold of the button is started only by a full one, or
\* by the operator stop that waits for a goal.
THEOREM LegsAreAskedFor == Spec => HoldStartsLeg
<1>1. Inv /\ [Next]_vars
        => [LegStarts => hist.hold >= ResetHold \/ operator = Waiting]_vars
  <2> SUFFICES ASSUME Inv, Next, LegStarts
               PROVE  hist.hold >= ResetHold \/ operator = Waiting
    OBVIOUS
  <2>1. /\ loop.phase \in Asking
        /\ loop'.phase \in Navigating \cup {"WAITING_EXTERNAL"}
        /\ loop' # loop
    BY DEF LegStarts, Asking, Navigating
  <2>2. Types /\ HoldInv /\ PointsInv
    BY DEF Inv
  <2>3. CASE Pressed
    <3>1. HoldTriggers
      BY <2>1, <2>3 DEF Pressed
    <3>2. hist.hold >= node.held /\ node.held >= ResetHold
      BY <2>1, <2>2, <3>1 DEF HoldTriggers, HoldInv, Asking
    <3>3. /\ hist.hold \in Int /\ node.held \in Int /\ ResetHold \in Int
      BY <2>2, Constants DEF Types, HistRecord, NodeRecord, Up
    <3>4. QED
      BY <3>2, <3>3
  <2>4. CASE OperatorDiag
    <3>1. loop' = OperatorPhase(loop, operator).loop
      BY <2>4 DEF OperatorDiag
    <3>2. ASSUME operator # Waiting PROVE FALSE
      <4>1. loop' = [loop EXCEPT !.armed = operator = Waiting]
        BY <3>1, <3>2 DEF OperatorPhase
      <4>2. loop'.phase = loop.phase
        BY <2>2, <4>1 DEF Types, LoopRecord
      <4>3. QED
        BY <2>1, <4>2 DEF Asking, Navigating
    <3>3. QED
      BY <3>2
  <2>5. CASE Click
    <3>1. loop'.phase \in {"COLLECTING", "READY_FOR_START"}
      <4>1. \/ loop'.phase = "COLLECTING"
            \/ loop'.phase = "READY_FOR_START"
        BY <2>2, <2>5, ClickEffect
      <4>2. QED
        BY <4>1
    <3>2. QED
      BY <2>1, <3>1 DEF Navigating
  <2>6. CASE Dispatch
    BY <2>1, <2>2, <2>6, FailedEffect
    DEF Dispatch, Unavailable, Navigating, Types
  <2>7. ASSUME NEW i \in GoalId, Accepted(i) \/ Rejected(i) \/ Result(i)
        PROVE  FALSE
    <3>1. loop'.phase \notin Navigating \cup {"WAITING_EXTERNAL"}
      <4>1. ASSUME NEW outcome, Failed(i, outcome)
            PROVE  loop'.phase \notin Navigating \cup {"WAITING_EXTERNAL"}
        BY <2>2, <4>1, FailedEffect DEF Failed, Types, Navigating
      <4>2. CASE Rejected(i)
        BY <2>2, <4>2, FailedEffect DEF Rejected, Types, Navigating
      <4>3. CASE Accepted(i)
        BY <2>1, <4>3 DEF Accepted
      <4>4. CASE Succeeded(i)
        <5>1. GoalSucceeded(loop) = [loop |-> loop, goal |-> 0]
          BY <2>1 DEF GoalSucceeded, Asking
        <5>2. loop' = loop \/ loop' = GoalFailed(loop)
          BY <4>4, <5>1 DEF Succeeded
        <5>3. QED
          BY <2>1, <2>2, <5>2, FailedEffect DEF Types, Navigating
      <4>5. QED
        BY <2>7, <4>1, <4>2, <4>3, <4>4 DEF Result
    <3>2. QED
      BY <2>1, <3>1
  <2>8. CASE Released \/ OperatorStep \/ TimeElapses
    BY <2>1, <2>8 DEF Released, OperatorStep, TimeElapses
  <2>9. QED
    BY <2>3, <2>4, <2>5, <2>6, <2>7, <2>8 DEF Next
<1>2. QED
  BY <1>1, Invariant, PTL DEF Spec, HoldStartsLeg
=============================================================================
