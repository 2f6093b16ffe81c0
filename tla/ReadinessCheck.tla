--------------------------- MODULE ReadinessCheck ---------------------------
(***************************************************************************)
(* scripts/check_navigation_ready.py: services are asked by bounded        *)
(* asynchronous queries, measurements are collected, and the check exits   *)
(* ready once every report of a settle window was ready.                   *)
(***************************************************************************)
EXTENDS RosClock

CONSTANTS
  Asked,        \* the lifecycle nodes asked
  QueryRetry,   \* the 1 s between two calls
  QueryLimit,   \* the 2 s a call may take
  ValueAge,     \* the 2.5 s an answer counts
  SampleAge,    \* the 0.3 s of fresh(), or the 2.5 s it is given
  SettleTime,   \* --settle
  CheckTimeout, \* --timeout
  CheckMaxRos   \* bound on the ROS clock here

ASSUME CheckAssumption ==
  /\ {QueryRetry, QueryLimit, ValueAge, SampleAge, SettleTime, CheckTimeout,
      CheckMaxRos} \subseteq Nat
  /\ QueryRetry # 0 /\ SettleTime < CheckTimeout

\* an age past every age and limit that occurs
Never == CheckTimeout + QueryRetry + QueryLimit + ValueAge + SampleAge + 1

VARIABLES
  queries, \* of each node: future, sent, received and value
  sample,  \* the measurement last taken: scan, odometry or diagnostic
  check,   \* last_ros, ready_since (its age), the exit code and the time gone
  polled,  \* the timer has run since the clock last moved
  nodes    \* the nodes and history: active, idle: time since it last was;
           \* unready: time since a report was not ready

\* future: "none", or the state of the call: "pending", on its way back with the
\* node found "up" or "down", or done: "active", "inactive" or "failed".
NoQuery == [future |-> "none", sent |-> Never, received |-> Never, value |-> FALSE]
NoMeasurement == [stamp |-> 0, receipt |-> Never]

CheckInit ==
  /\ RosInit
  /\ queries = [n \in Asked |-> NoQuery]
  /\ sample = NoMeasurement
  /\ check = [last |-> 0, since |-> Never, code |-> "running", elapsed |-> 0]
  /\ polled = TRUE
  /\ nodes = [active |-> [n \in Asked |-> FALSE], idle |-> [n \in Asked |-> Never],
              unready |-> 0]

Running == check.code = "running"

\* Mutant of Overdue: a call is waited for without limit.
NeverOverdue(q) == FALSE
Overdue(q) == q.future \in {"pending", "up", "down"} /\ q.sent > QueryLimit

\* One query in poll_queries; ready: service_is_ready().
Settled(q) ==
  CASE q.future \in {"active", "inactive"} ->
         [q EXCEPT !.future = "none", !.value = (q.future = "active"), !.received = 0]
    [] q.future = "failed" \/ Overdue(q) -> [q EXCEPT !.future = "none", !.value = FALSE]
    [] OTHER -> q
Sent(q, ready) ==
  IF q.future = "none" /\ q.sent >= QueryRetry /\ ready
  THEN [q EXCEPT !.future = "pending", !.sent = 0] ELSE q

PollQueries ==
  /\ Running
  /\ \E ready \in SUBSET Asked :
       queries' = [n \in Asked |-> Sent(Settled(queries[n]), n \in ready)]
  /\ polled' = TRUE
  /\ UNCHANGED <<ros, sample, check, nodes>>

\* External: a node answers by what it is now, and the answer or a refusal takes
\* its time to arrive; one to a call given up reaches no future.
Answer(n) ==
  /\ Running
  /\ \E next \in
       CASE queries[n].future = "pending" ->
              {IF nodes.active[n] THEN "up" ELSE "down", "failed"}
         [] queries[n].future = "up"   -> {"active"}
         [] queries[n].future = "down" -> {"inactive"}
         [] OTHER -> {} :
       queries' = [queries EXCEPT ![n].future = next]
  /\ UNCHANGED <<ros, sample, check, polled, nodes>>

\* value(node, monotonic) and its current_state.id == 3
ValueActive(n) == queries[n].received <= ValueAge /\ queries[n].value

\* on_sample and on_safety; one refused by message_error is as one without a
\* stamp.  What on_operator and on_stability keep outlasts a step of the clock
\* and is among the inputs of Report.
OnSample(stamp) ==
  /\ Running
  /\ sample' = [stamp |-> stamp, receipt |-> 0]
  /\ UNCHANGED <<ros, queries, check, polled, nodes>>

\* fresh() of readiness_core.py, with no tolerance for the future
Fresh(m) == m.stamp > 0 /\ Timely(m.stamp, 0, SampleAge) /\ m.receipt <= SampleAge

\* safety_ready, and the operator stop at rest which Report allows besides
SafetyReady(reason, goal, operator) ==
  \/ reason \in {"motion_disabled", "passing_collision_checked_command"}
  \/ ~goal /\ reason \in {"command_missing_or_invalid", "monitor_command_timeout"}
  \/ ~goal /\ reason = "operator_stop" /\ operator

\* Mutant of Cleared: the ready window outlasts a report that is not ready.
ClearedNever(since) == since
Cleared(since) == Never

\* What the other checks of a report may come to: the safety one, and rest, the
\* stability, the map, the transforms, the writers and the parameters.
OtherChecks == {rest /\ SafetyReady(reason, goal, operator) :
                  reason \in {"motion_disabled", "monitor_command_timeout", "operator_stop",
                             "scan_stale"},
                  goal \in BOOLEAN, operator \in BOOLEAN, rest \in BOOLEAN}

\* One turn of main's loop after spin_once, report() with it.
Report(others) ==
  LET measured == IF check.last > 0 /\ ros < check.last THEN NoMeasurement ELSE sample
      ready == /\ Fresh(measured) /\ others
               /\ \A n \in Asked : ValueActive(n)
      since == CASE ~ready -> Cleared(check.since)
                 [] ready /\ check.since = Never -> 0
                 [] OTHER -> check.since
  IN  /\ Running /\ check.elapsed < CheckTimeout
      /\ sample' = measured
      /\ check' = [check EXCEPT !.last = ros, !.since = since,
                     !.code = IF ready /\ since >= SettleTime THEN "ready" ELSE @]
      /\ nodes' = [nodes EXCEPT !.unready = IF ready THEN @ ELSE 0]
      /\ UNCHANGED <<ros, queries, polled>>

TimedOut ==
  /\ Running /\ check.elapsed >= CheckTimeout
  /\ check' = [check EXCEPT !.code = "timed_out"]
  /\ UNCHANGED <<ros, queries, sample, polled, nodes>>

\* External: a lifecycle node is activated or deactivated.
NodeTurns(n) ==
  /\ nodes' = [nodes EXCEPT !.active[n] = ~@, !.idle[n] = 0]
  /\ UNCHANGED <<ros, queries, sample, check, polled>>

\* An answer counts so long, after it took as long and waited for the timer.
MostIdle == ValueAge + QueryLimit + 1

\* Ages past a limit nothing tells apart, nor a measurement past it from none.
Aged(age, limit) == IF age < limit THEN age + 1 ELSE Never

\* The executor runs a timer that is due before the time moves on again.
CheckClock ==
  /\ Running /\ polled /\ check.elapsed < CheckTimeout
  /\ polled' = FALSE
  /\ RosMoves /\ ros' <= CheckMaxRos
  /\ queries' = [n \in Asked |-> [queries[n] EXCEPT
                                  !.sent = Aged(@, QueryLimit + QueryRetry),
                                  !.received = Aged(@, ValueAge)]]
  /\ sample' = IF sample.receipt < SampleAge THEN [sample EXCEPT !.receipt = @ + 1]
               ELSE NoMeasurement
  /\ check' = [check EXCEPT !.since = Aged(@, CheckTimeout), !.elapsed = @ + 1]
  /\ nodes' = [nodes EXCEPT
                 !.idle = [n \in Asked |-> IF nodes.active[n] THEN 0 ELSE Aged(@[n], MostIdle)],
                 !.unready = Aged(@, SettleTime)]

CheckNext ==
  \/ PollQueries
  \/ \E n \in Asked : Answer(n) \/ (Running /\ NodeTurns(n))
  \/ \E stamp \in 0 .. CheckMaxRos : OnSample(stamp)
  \/ \E others \in OtherChecks : Report(others)
  \/ TimedOut
  \/ CheckClock

CheckVars == <<queries, sample, check, polled, nodes>>

CheckTypeOK ==
  /\ \A n \in Asked :
       /\ queries[n].future \in {"none", "pending", "up", "down", "active", "inactive",
                                 "failed"}
       /\ {queries[n].sent, queries[n].received, nodes.idle[n]} \subseteq 0 .. Never
       /\ queries[n].future # "none" => queries[n].sent <= QueryLimit + 1
  /\ sample.stamp \in 0 .. CheckMaxRos /\ sample.receipt \in 0 .. Never
  /\ check.code \in {"running", "ready", "timed_out"} /\ check.elapsed \in 0 .. CheckTimeout

\* The check exits ready only after a whole settle window in which no report
\* was not ready, and only when every node was active within the time an answer
\* counts and a call may take, though answers come late and nodes go down.
CheckIsEarned ==
  check.code = "ready" =>
    /\ nodes.unready >= SettleTime
    /\ \A n \in Asked : nodes.idle[n] <= MostIdle
=============================================================================
