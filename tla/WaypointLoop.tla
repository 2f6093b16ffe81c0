---------------------------- MODULE WaypointLoop ----------------------------
(***************************************************************************)
(* The two-point shuttle: LoopState of scripts/waypoint_loop_core.py and   *)
(* its node scripts/waypoint_loop_node.py (one executor, one action per    *)
(* callback), with the NavigateToPose server it drives, the operator's     *)
(* clicks and button, and the phases the operator stop reports.            *)
(*                                                                         *)
(* A point is the number of the click that set it; 0 is None.  The yaw of  *)
(* a goal, markers and diagnostics are left out.                           *)
(***************************************************************************)
EXTENDS Integers, Sequences, FiniteSets

CONSTANTS
  LoopCount,       \* parameter loop_count
  Policy,          \* parameter driving_policy: "nav2" or "other"
  ResetHold,       \* 2.0 s, how long the button is held
  OperatorRuns,    \* operator_stop.py is launched and reports its phase
  Outcomes,        \* how goals may end
  Rejects,         \* may the server reject a goal or be unavailable
  MaxClicks,       \* bound on clicks
  MaxLive          \* bound on goals outstanding at once

ASSUME LoopAssumption ==
  /\ LoopCount \in Nat \ {0}
  /\ Policy \in {"nav2", "other"}
  /\ ResetHold \in Nat
  /\ OperatorRuns \in BOOLEAN /\ Rejects \in BOOLEAN
  /\ Outcomes \subseteq {"succeeded", "canceled", "aborted", "unknown"}
  /\ MaxClicks \in Nat /\ MaxLive \in Nat \ {0}

VARIABLES
  loop,      \* LoopState
  node,      \* [handle, held, triggered, pending]
  goals,     \* the action server's goals: [state, point, canceling]
  operator,  \* phase of the operator stop
  clicks,    \* clicks so far
  hist       \* history: [hold, end, laps], see below

vars == <<loop, node, goals, operator, clicks, hist>>

GoalId == 1 .. MaxLive
NoGoal == [state |-> "none", point |-> 0, canceling |-> FALSE]
Live == {i \in GoalId : goals[i] # NoGoal}
Up == -1   \* _btn_pressed_since is None

Navigating == {"NAVIGATING_TO_START", "NAVIGATING"}
Asking     == {"READY_FOR_START", "AT_START_WAITING_FOR_LOOP"}
LoopPhases == Navigating \cup Asking
              \cup {"COLLECTING", "WAITING_EXTERNAL", "COMPLETED", "ERROR"}
Waiting == "WAITING FOR NEW GOAL"

-----------------------------------------------------------------------------
(* LoopState *)

\* Mutant of FirstPoint: the target of the run before is kept.
FirstPointKeepsTarget(l, p) ==
  [l EXCEPT !.points = <<p>>, !.phase = "COLLECTING", !.laps = 0,
            !.armed = FALSE]
FirstPoint(l, p) ==
  [l EXCEPT !.points = <<p>>, !.phase = "COLLECTING", !.target = 0,
            !.laps = 0, !.armed = FALSE]

\* Mutant of AddWaypoint: a third point is added to the first two.
AppendAlways(l, p) ==
  [l EXCEPT !.points = Append(@, p), !.phase = "READY_FOR_START"]
AddWaypoint(l, p) ==
  IF Len(l.points) >= 2 \/ l.phase # "COLLECTING" THEN FirstPoint(l, p)
  ELSE [l EXCEPT !.points = Append(@, p),
                 !.phase = IF l.points = <<>> THEN @ ELSE "READY_FOR_START"]

\* get_target_goal(), without the yaw.
TargetGoal(l) == IF Len(l.points) < 2 THEN 0 ELSE l.points[l.target + 1]

\* _next_goal(): with the policy `other' no goal is sent.
NextGoal(l) ==
  IF Policy = "nav2" THEN [loop |-> l, goal |-> TargetGoal(l)]
  ELSE [loop |-> [l EXCEPT !.phase = "WAITING_EXTERNAL"], goal |-> 0]

\* Mutant of OperatorArm: the phase is left to the goal response.
ArmKeepsPhase(l) ==
  IF l.phase = "READY_FOR_START"
  THEN [loop |-> [l EXCEPT !.target = 0], goal |-> TargetGoal([l EXCEPT !.target = 0])]
  ELSE [loop |-> l, goal |-> 0]
OperatorArm(l) ==
  CASE l.phase = "READY_FOR_START" ->
         LET a == [l EXCEPT !.phase = "NAVIGATING_TO_START", !.target = 0]
         IN  [loop |-> a, goal |-> TargetGoal(a)]
    [] l.phase = "AT_START_WAITING_FOR_LOOP" ->
         NextGoal([l EXCEPT !.phase = "NAVIGATING", !.target = 1])
    [] OTHER -> [loop |-> l, goal |-> 0]

\* operator_phase(phase_str): only the rising edge arms.
OperatorPhase(l, phase) ==
  LET seen == [l EXCEPT !.armed = phase = Waiting]
  IN  IF phase = Waiting /\ ~l.armed THEN OperatorArm(seen)
      ELSE [loop |-> seen, goal |-> 0]

\* Mutant of ReachedStart: reaching either end counts a lap.
EitherEndIsALap(l) == TRUE
\* Arriving at the start point ends a lap.
ReachedStart(l) == l.target = 0

GoalSucceeded(l) ==
  LET laps == IF ReachedStart(l) THEN l.laps + 1 ELSE l.laps
  IN  CASE l.phase = "NAVIGATING_TO_START" ->
             [loop |-> [l EXCEPT !.phase = "AT_START_WAITING_FOR_LOOP",
                                 !.target = 0],
              goal |-> 0]
        [] l.phase \in {"NAVIGATING", "WAITING_EXTERNAL"} ->
             IF ReachedStart(l) /\ laps >= LoopCount
             THEN [loop |-> [l EXCEPT !.laps = laps, !.phase = "COMPLETED"],
                   goal |-> 0]
             ELSE NextGoal([l EXCEPT !.laps = laps, !.target = 1 - @])
        [] OTHER -> [loop |-> l, goal |-> 0]

GoalFailed(l) == [l EXCEPT !.phase = "ERROR"]

\* What _goal_result_cb does with a goal that was canceled or aborted.
Interrupted(l) ==
  CASE l.phase = "COLLECTING" -> l
    [] l.phase = "NAVIGATING_TO_START" -> [l EXCEPT !.phase = "READY_FOR_START"]
    [] l.phase = "NAVIGATING" -> [l EXCEPT !.phase = "AT_START_WAITING_FOR_LOOP"]
    [] OTHER -> GoalFailed(l)

-----------------------------------------------------------------------------
(***************************************************************************)
(* History of what happened, for the properties only.                      *)
(*   hold : how long the button has been down, since it was last seen up,  *)
(*          a leg was last started or a point was clicked                  *)
(*   end  : the robot has reached the current end point since the last lap *)
(*   laps : how often it went from the current end to the current start    *)
(*   stray: a leg started while a goal to an earlier point was still live   *)
(***************************************************************************)
Fresh == [hold |-> 0, end |-> FALSE, laps |-> 0, stray |-> FALSE]

Init ==
  /\ loop = [phase |-> "COLLECTING", points |-> <<>>, target |-> 0, laps |-> 0,
             armed |-> FALSE]
  /\ node = [handle |-> 0, held |-> Up, triggered |-> FALSE, pending |-> 0]
  /\ goals = [i \in GoalId |-> NoGoal]
  /\ operator = "STOPPED"
  /\ clicks = 0
  /\ hist = Fresh

\* _cancel_active_goal(): forgets the goal waiting for its dispatch and asks to
\* cancel the one whose handle is known.
Canceled == [i \in GoalId |-> IF i = node.handle
                              THEN [goals[i] EXCEPT !.canceling = TRUE]
                              ELSE goals[i]]

\* _on_clicked_point(msg)
Click ==
  /\ clicks < MaxClicks
  /\ clicks' = clicks + 1
  /\ loop' = AddWaypoint(loop, clicks')
  /\ IF loop.phase \in Navigating
     THEN /\ goals' = Canceled
          /\ node' = [node EXCEPT !.handle = 0, !.pending = 0, !.held = Up,
                                  !.triggered = FALSE]
     ELSE /\ node' = [node EXCEPT !.held = Up, !.triggered = FALSE]
          /\ UNCHANGED goals
  /\ hist' = IF Len(loop'.points) = 1 THEN [Fresh EXCEPT !.stray = hist.stray]
                                      ELSE [hist EXCEPT !.hold = 0]
  /\ UNCHANGED operator

LegStarts == /\ loop.phase \in Asking
             /\ loop'.phase \in Navigating \cup {"WAITING_EXTERNAL"}

Stray == {i \in Live : goals[i].point \notin {loop.points[k] : k \in DOMAIN loop.points}}
LegHist == IF LegStarts
           THEN [hist EXCEPT !.hold = 0, !.stray = @ \/ Stray # {}]
           ELSE hist

\* Mutant of HoldTriggers: one hold keeps arming.
HoldRetriggers == node.held # Up /\ node.held >= ResetHold
HoldTriggers == node.held # Up /\ node.held >= ResetHold /\ ~node.triggered

\* _on_joy(msg)
Pressed ==
  /\ IF HoldTriggers
     THEN LET a == OperatorArm(loop)
          IN  /\ loop' = a.loop
              /\ node' = [node EXCEPT !.triggered = TRUE,
                            !.pending = IF a.goal # 0 THEN a.goal ELSE @]
     ELSE /\ node' = [node EXCEPT !.held = IF @ = Up THEN 0 ELSE @]
          /\ UNCHANGED loop
  /\ hist' = LegHist
  /\ UNCHANGED <<goals, operator, clicks>>

\* Mutant of Released: the latch of the button stays.
ReleasedLatched ==
  /\ node' = [node EXCEPT !.held = Up]
  /\ hist' = [hist EXCEPT !.hold = 0]
  /\ UNCHANGED <<loop, goals, operator, clicks>>
Released ==
  /\ node' = [node EXCEPT !.held = Up, !.triggered = FALSE]
  /\ hist' = [hist EXCEPT !.hold = 0]
  /\ UNCHANGED <<loop, goals, operator, clicks>>

\* _on_operator_diag(msg): with the button latched the goal is dropped.
OperatorDiag ==
  LET a == OperatorPhase(loop, operator)
  IN  /\ OperatorRuns
      /\ loop' = a.loop
      /\ node' = IF a.goal # 0 /\ ~node.triggered
                 THEN [node EXCEPT !.triggered = TRUE, !.pending = a.goal]
                 ELSE node
      /\ hist' = LegHist
      /\ UNCHANGED <<goals, operator, clicks>>

\* _send_nav_goal(goal): the request is on its way to the server.
Send(i, p) == goals' = [goals EXCEPT ![i] = [NoGoal EXCEPT !.state = "requested",
                                                           !.point = p]]

Unavailable ==
  /\ Rejects
  /\ loop' = GoalFailed(loop)
  /\ UNCHANGED goals

\* The timer of _schedule_goal_dispatch.
Dispatch ==
  /\ node.pending # 0
  /\ node' = [node EXCEPT !.pending = 0]
  /\ \/ \E i \in GoalId \ Live : Send(i, node.pending) /\ UNCHANGED loop
     \/ Unavailable
  /\ UNCHANGED <<operator, clicks, hist>>

\* _goal_response_cb(future)
Accepted(i) ==
  /\ goals[i].state = "requested"
  /\ goals' = [goals EXCEPT ![i].state = "executing"]
  /\ node' = [node EXCEPT !.handle = i]
  /\ UNCHANGED <<loop, operator, clicks, hist>>

Rejected(i) ==
  /\ Rejects
  /\ goals[i].state = "requested"
  /\ goals' = [goals EXCEPT ![i] = NoGoal]
  /\ node' = [node EXCEPT !.handle = 0]
  /\ loop' = GoalFailed(loop)
  /\ UNCHANGED <<operator, clicks, hist>>

\* The robot reached the point of a goal.
Visit(p) ==
  LET current == Len(loop.points) = 2
  IN  IF current /\ p = loop.points[2] THEN [hist EXCEPT !.end = TRUE]
      ELSE IF current /\ p = loop.points[1] /\ hist.end /\ hist.laps < LoopCount
           THEN [hist EXCEPT !.end = FALSE, !.laps = @ + 1]
      ELSE hist

\* _goal_result_cb(future); a handle to a goal that ended is as good as none.
Ended(i) == [goals EXCEPT ![i] = NoGoal]
Forget(i) == [node EXCEPT !.handle = IF @ = i THEN 0 ELSE @]

Succeeded(i) ==
  LET r == GoalSucceeded(loop)
  IN  /\ goals[i].state = "executing"
      /\ \/ /\ r.goal # 0
            /\ \E j \in (GoalId \ Live) \cup {i} :
                 goals' = [Ended(i) EXCEPT ![j] = [NoGoal EXCEPT
                             !.state = "requested", !.point = r.goal]]
            /\ loop' = r.loop
            /\ node' = Forget(i)
         \/ /\ r.goal # 0
            /\ Rejects
            /\ goals' = Ended(i)
            /\ loop' = GoalFailed(r.loop)
            /\ node' = Forget(i)
         \/ /\ r.goal = 0
            /\ goals' = Ended(i)
            /\ loop' = r.loop
            /\ node' = [Forget(i) EXCEPT !.triggered =
                          @ \/ r.loop.phase = "AT_START_WAITING_FOR_LOOP"]
      /\ hist' = Visit(goals[i].point)
      /\ UNCHANGED <<operator, clicks>>

Failed(i, outcome) ==
  /\ goals[i].state = "executing"
  /\ goals' = Ended(i)
  /\ node' = Forget(i)
  /\ loop' = IF outcome = "unknown" THEN GoalFailed(loop) ELSE Interrupted(loop)
  /\ UNCHANGED <<operator, clicks, hist>>

Result(i) ==
  \/ "succeeded" \in Outcomes /\ Succeeded(i)
  \/ \E outcome \in Outcomes \ {"succeeded"} : Failed(i, outcome)

-----------------------------------------------------------------------------
(* The operator stop, as OperatorStop specifies it: a full hold of the same  *)
(* button re-arms, a goal runs, its end waits for the next, anything may stop.*)

Executing == {i \in GoalId : goals[i].state = "executing"}

OperatorStep ==
  /\ OperatorRuns
  /\ \/ /\ operator = "STOPPED"
        /\ node.held # Up /\ node.held >= ResetHold
        /\ operator' = Waiting
     \/ operator = Waiting /\ Executing # {} /\ operator' = "RUNNING"
     \/ operator = "RUNNING" /\ Executing = {} /\ operator' = Waiting
     \/ operator # "STOPPED" /\ operator' = "STOPPED"
  /\ UNCHANGED <<loop, node, goals, clicks, hist>>

\* One unit of monotonic time.
TimeElapses ==
  /\ node' = [node EXCEPT !.held = IF @ \in {Up, ResetHold} THEN @ ELSE @ + 1]
  /\ hist' = [hist EXCEPT !.hold = IF node.held = Up \/ @ = ResetHold THEN @
                                   ELSE @ + 1]
  /\ UNCHANGED <<loop, goals, operator, clicks>>

Next ==
  \/ Click
  \/ Pressed
  \/ Released
  \/ OperatorDiag
  \/ Dispatch
  \/ \E i \in GoalId : Accepted(i) \/ Rejected(i) \/ Result(i)
  \/ OperatorStep
  \/ TimeElapses

Spec == Init /\ [][Next]_vars

(* Fairness: the executor runs its timer, time passes, the server answers    *)
(* and a goal to a point that is sent again and again succeeds some time; a   *)
(* button held long enough again and again is seen held in a Joy message.    *)
FullHold == Pressed /\ node.held = ResetHold
FairSpec ==
  /\ Spec
  /\ WF_vars(TimeElapses) /\ WF_vars(Dispatch)
  /\ \A i \in GoalId :
       /\ WF_vars(Accepted(i))
       /\ \A p \in 1 .. MaxClicks :
            SF_vars(goals[i].point = p /\ Succeeded(i))
  /\ SF_vars(FullHold)

-----------------------------------------------------------------------------
(* Properties *)

\* Every variable stays in its type.
TypeOK ==
  /\ loop \in [phase : LoopPhases,
               points : UNION {[1 .. n -> 1 .. MaxClicks] : n \in 0 .. 2},
               target : {0, 1}, laps : 0 .. LoopCount, armed : BOOLEAN]
  /\ node \in [handle : GoalId \cup {0}, held : {Up} \cup 0 .. ResetHold,
               triggered : BOOLEAN, pending : 0 .. MaxClicks]
  /\ goals \in [GoalId -> [state : {"none", "requested", "executing"},
                           point : 0 .. MaxClicks, canceling : BOOLEAN]]
  /\ operator \in {"STOPPED", Waiting, "RUNNING"}
  /\ clicks \in 0 .. MaxClicks
  /\ hist \in [hold : 0 .. ResetHold, end : BOOLEAN, laps : 0 .. LoopCount,
              stray : BOOLEAN]

\* The callback of a result indexes the waypoints with the current target: a
\* click that left one point must not leave the target at the second, however
\* late the result of the run before arrives.
ResultFindsTarget ==
  Executing # {} => loop.target + 1 <= Len(loop.points)

\* A lap is counted only when the robot has really been at the end point and
\* then at the start point since the lap before (no goal to an earlier point
\* still being live when its leg started, see ClickCancels).
LapsAreReal == ~hist.stray => loop.laps <= hist.laps

\* The node never has two goals under way, through clicks, retries and stops,
\* unless a leg was started while a goal to an earlier point was still live.
OneGoalAtATime ==
  ~hist.stray => Cardinality(Live) + (IF node.pending # 0 THEN 1 ELSE 0) <= 1

\* A leg that asks for a hold of the button is started only by one: the button
\* has been down for the whole time since it was last up or last used.
HoldStartsLeg ==
  [][LegStarts => hist.hold >= ResetHold \/ operator = Waiting]_vars

\* With an operator who keeps releasing and holding the button for the full
\* time, both points set, no operator stop running and no goal refused for good,
\* all laps are completed.
LoopCompletes ==
  (/\ []<>(node.held = ResetHold) /\ []<>(node.held = Up)
   /\ <>[](clicks = 2 /\ loop.phase # "ERROR") /\ [](operator = "STOPPED"))
    => <>(loop.phase = "COMPLETED")

-----------------------------------------------------------------------------
(* What the code says and does not do *)

\* `Cancel current Nav2 goal if one is in flight': a click while the robot is
\* navigating leaves no goal that nobody asked to cancel.
ClickCancels ==
  [][clicks' # clicks /\ loop.phase \in Navigating
       => \A i \in GoalId : goals'[i].state # "none" => goals'[i].canceling]_vars

\* `Hold Triangle button for 2s to begin loop navigation': a phase
\* that says the robot is navigating has a goal under way.
NavigatingHasGoal ==
  loop.phase \in Navigating => Live # {} \/ node.pending # 0
=============================================================================
