--------------------------- MODULE ReadinessGate ----------------------------
(***************************************************************************)
(* The readiness gate of the staged launch, scripts/topic_ready_gate.py:   *)
(* one FreshWindow (scripts/readiness_core.py) per input, the lifecycle    *)
(* states it polls, and the timer that lets the launch go on or fails it.  *)
(*                                                                         *)
(* A window stores two clocks.  Receipt times are monotonic and are ages   *)
(* here; a stamp is measured on the ROS clock, which runs on its own, and  *)
(* is its lag behind that clock.  Every input is an odometry, the type     *)
(* with the most checks.                                                   *)
(***************************************************************************)
EXTENDS Ages

CONSTANTS
  Topic,            \* the inputs
  Node,             \* the lifecycle nodes asked
  Required,         \* those of them that localization needs
  InputSettle,      \* settle
  MaxAge, MaxGap, FutureTolerance, MinMessages,
  GateTimeout,      \* timeout
  AskAgain,         \* 1 s between two questions
  QueryLimit,       \* 2 s for an answer
  ActiveLimit,      \* 2 s that an answer counts
  KnownLimit,       \* 5 s that it counts for the stability monitor
  PastLimit,        \* bound on the ages in the history `past'
  ClockSteps        \* may the ROS clock be stepped back

ASSUME InputAssumption ==
  /\ Required \subseteq Node
  /\ InputSettle \in Nat \ {0} /\ MaxAge \in Nat /\ MaxGap \in Nat \ {0}
  /\ FutureTolerance \in Nat /\ MinMessages \in Nat \ {0, 1}
  /\ GateTimeout \in Nat /\ InputSettle < GateTimeout
  /\ AskAgain \in Nat /\ QueryLimit \in Nat
  /\ ActiveLimit \in Nat /\ KnownLimit \in Nat /\ ActiveLimit <= KnownLimit
  /\ PastLimit \in Nat /\ ClockSteps \in BOOLEAN
  /\ InputSettle + MaxGap <= PastLimit   \* the history is as long as a window

VARIABLES
  win,        \* FreshWindow per topic: [count, span, age, lag]
  resets,     \* the windows reset since the last tick
  previous,   \* previous_poses: [known, lag]
  life,       \* lifecycle: [future, sent, active]
  exit,       \* "running", or how the process ended
  started,    \* age of the process
  up,         \* environment: the lifecycle nodes that are active
  past        \* history: [calm, silent] per topic, age of `active' per node

inputs  == <<win, resets, previous>>
gateVars == <<inputs, life, exit, started, up, past>>

MaxLag == MaxAge + MaxGap + 1
MinLag == -FutureTolerance - 1
SentLimit == IF AskAgain > QueryLimit THEN AskAgain ELSE QueryLimit

Least(a, b) == IF a <= b THEN a ELSE b

-----------------------------------------------------------------------------
(* FreshWindow *)

Fresh(lag) == -FutureTolerance <= lag /\ lag <= MaxAge
NoPose == [known |-> FALSE, lag |-> 0]
Empty == [count |-> 0, span |-> 0, age |-> 0, lag |-> 0]

\* Mutant of Breaks: a gap is left to the poll, a repeated stamp is accepted.
GapLeftToPoll(w, lag) == w.count > 0 /\ w.lag - lag > MaxGap
\* A message that does not continue the window.
Breaks(w, lag) ==
  w.count > 0 /\ (w.age > MaxGap \/ w.lag - lag <= 0 \/ w.lag - lag > MaxGap)

\* observe() of a valid and fresh message.
Extended(w, lag) ==
  LET base == IF Breaks(w, lag) THEN Empty ELSE w
  IN  [count |-> Least(base.count + 1, MinMessages),
       span  |-> IF base.count = 0 THEN 0
                 ELSE Least(base.span + base.age, InputSettle),
       age   |-> 0,
       lag   |-> lag]

\* ready(): a window that was silent or is stale starts again.
Stale(w) == w.count > 0 /\ (w.age > MaxGap \/ ~Fresh(w.lag))
Polled(w) == IF Stale(w) THEN Empty ELSE w
Settled(w) == ~Stale(w) /\ w.count >= MinMessages /\ w.span >= InputSettle

-----------------------------------------------------------------------------
GateInit ==
  /\ win = [t \in Topic |-> Empty]
  /\ resets = {}
  /\ previous = [t \in Topic |-> NoPose]
  /\ life = [n \in Node |->
               [future |-> "none", sent |-> Expired(SentLimit), active |-> Absent]]
  /\ exit = "running"
  /\ started = 0
  /\ up = {}
  /\ past = [calm   |-> [t \in Topic |-> Absent],
             silent |-> [t \in Topic |-> 0],
             away   |-> [n \in Node |-> Expired(PastLimit)]]

(***************************************************************************)
(* History of the environment, for the properties only.                    *)
(*   calm   : age of the first message since the last disturbance, that is *)
(*            a silence longer than MaxGap or a message that is invalid,   *)
(*            stale or of the future, or does not follow the one before in *)
(*            time and place; Absent if there is none                      *)
(*   silent : age of the last message, while calm is not Absent            *)
(*   away   : time since a node was last active                            *)
(***************************************************************************)
Follows(t, lag) == previous[t].known /\ previous[t].lag - lag \in 1 .. MaxGap

Track(t, valid, follows) ==
  past' = [past EXCEPT
    !.silent[t] = 0,
    !.calm[t] = IF ~valid THEN Absent ELSE IF @ = Absent \/ ~follows THEN 0 ELSE @]

\* _receive() of an odometry with a pose: `outside' the origin bound, or a `jump'
\* away from the pose before.
Odometry(t, outside, jump, lag) ==
  LET jumps == jump /\ Follows(t, lag)
      bad   == outside \/ jumps \/ ~Fresh(lag)
  IN  /\ win' = [win EXCEPT ![t] = IF bad THEN Empty ELSE Extended(win[t], lag)]
      /\ resets' = IF bad \/ Breaks(win[t], lag) THEN resets \cup {t} ELSE resets
      /\ previous' = [previous EXCEPT ![t] = [known |-> TRUE, lag |-> lag]]
      /\ Track(t, ~outside /\ ~jumps /\ -FutureTolerance <= lag /\ lag <= MaxAge,
               Follows(t, lag))

\* _receive() of a message without a valid pose, or without a stamp: its pose is
\* not compared with another.
Invalid(t, unstamped) ==
  /\ win' = [win EXCEPT ![t] = Empty]
  /\ resets' = resets \cup {t}
  /\ previous' = IF unstamped THEN [previous EXCEPT ![t] = NoPose] ELSE previous
  /\ Track(t, FALSE, FALSE)

AnyReceive ==
  /\ \E t \in Topic :
       \/ \E unstamped \in BOOLEAN : Invalid(t, unstamped)
       \/ \E outside, jump \in BOOLEAN, lag \in MinLag .. MaxAge + 1 :
            Odometry(t, outside, jump, lag)
  /\ UNCHANGED <<life, exit, started, up>>

-----------------------------------------------------------------------------
(* The lifecycle poll *)

\* What has been answered; a response may arrive later still.
Responses == {n \in Node : life[n].future \in {"active", "other"}}

\* A response that is `here' is taken, and counts from now on whenever the state was
\* read; one that is not and is overdue is cancelled.
Answered(l, here) ==
  IF here
  THEN [l EXCEPT !.future = "none",
                 !.active = IF l.future = "active" THEN 0 ELSE Absent]
  ELSE IF l.future # "none" /\ l.sent > QueryLimit
       THEN [l EXCEPT !.future = "none", !.active = Absent]
  ELSE l

\* The first part of _localization_ready(); `reachable' are the services there,
\* `arrived' the nodes whose response has come.
Poll(reachable, arrived) ==
  [n \in Node |->
     LET l == Answered(life[n], n \in arrived)
     IN  IF l.future = "none" /\ l.sent >= AskAgain /\ n \in reachable
         THEN [l EXCEPT !.future = "sent", !.sent = 0] ELSE l]

\* Mutant of ActiveWithin: an answer counts for ever.
EverActive(l, limit) == l.active # Absent
ActiveWithin(l, limit) == l.active # Absent /\ l.active <= limit

\* _localization_ready(): `tf' stands for the last map received and the
\* transforms of a recent scan header.
Localized(polled, tf) ==
  /\ \A n \in Required : ActiveWithin(polled[n], ActiveLimit)
  /\ tf

\* The service reads the state of its node, or fails.  Its response is on the way
\* until some later tick finds the future done.
Answer(n) ==
  /\ life[n].future = "sent"
  /\ \/ life' = [life EXCEPT ![n].future = IF n \in up THEN "active" ELSE "other"]
     \/ life' = [life EXCEPT ![n].future = "other"]
  /\ UNCHANGED <<inputs, exit, started, up, past>>

\* A lifecycle node is activated or leaves the active state.
NodeChanges(n) ==
  /\ up' = IF n \in up THEN up \ {n} ELSE up \cup {n}
  /\ past' = [past EXCEPT !.away[n] = 0]
  /\ UNCHANGED <<inputs, life, exit, started>>

-----------------------------------------------------------------------------
(* _tick() *)

GateTick(reachable, arrived, tf) ==
  LET polled == Poll(reachable, arrived)
      passes == (\A t \in Topic : Settled(win[t])) /\ Localized(polled, tf)
  IN  /\ exit = "running"
      /\ life' = polled
      /\ win' = [t \in Topic |-> Polled(win[t])]
      /\ exit' = IF passes THEN "passed"
                 ELSE IF started >= GateTimeout THEN "timeout" ELSE exit
      /\ UNCHANGED <<resets, previous, started, up, past>>

AnyGateTick ==
  \E reachable \in SUBSET Node, arrived \in SUBSET Responses, tf \in BOOLEAN :
    GateTick(reachable, arrived, tf)

\* SIGINT or SIGTERM: exit code 130, which does not advance the launch.
Interrupted ==
  /\ exit = "running" /\ exit' = "interrupted"
  /\ UNCHANGED <<inputs, life, started, up, past>>

\* One unit of monotonic time.
GateTime ==
  /\ win' = [t \in Topic |-> IF win[t].count = 0 THEN win[t]
                             ELSE [win[t] EXCEPT !.age = Older(@, MaxGap)]]
  /\ life' = [n \in Node |-> [life[n] EXCEPT
       !.sent = Older(@, SentLimit),
       !.active = Aged(@, KnownLimit)]]
  /\ past' =
       [calm   |-> [t \in Topic |-> IF past.silent[t] >= MaxGap THEN Absent
                                    ELSE Aged(past.calm[t], PastLimit)],
        silent |-> [t \in Topic |-> IF past.silent[t] >= MaxGap \/ past.calm[t] = Absent
                                    THEN 0 ELSE past.silent[t] + 1],
        away   |-> [n \in Node |-> IF n \in up THEN 0
                                   ELSE Older(past.away[n], PastLimit)]]
  /\ UNCHANGED <<resets, previous, exit, up>>

Moved(by) ==
  LET To(lag) == Least(lag + by, MaxLag)
  IN  /\ win' = [t \in Topic |-> IF win[t].count = 0 THEN win[t]
                                 ELSE [win[t] EXCEPT !.lag = To(@)]]
      /\ previous' = [t \in Topic |-> IF ~previous[t].known THEN previous[t]
                                      ELSE [previous[t] EXCEPT !.lag = To(@)]]
      /\ UNCHANGED <<resets, life, exit, started, up, past>>

\* The ROS clock.  A lag of MaxLag stands for all above; the clock steps back
\* only when every lag is known and stays above MinLag.
RosAdvance == Moved(1)
RosStepBack ==
  /\ ClockSteps
  /\ \A t \in Topic : MinLag < previous[t].lag /\ previous[t].lag < MaxLag
  /\ Moved(-1)
=============================================================================
