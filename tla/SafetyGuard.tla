---------------------------- MODULE SafetyGuard -----------------------------
(***************************************************************************)
(* The independent stop of scripts/nav2_safety_core.py (GuardState) and    *)
(* its node scripts/nav2_safety_guard.py: the only writer of the velocity  *)
(* command.  One single-threaded executor, so every callback is an action. *)
(*                                                                         *)
(* `ros' is the ROS clock, which stamps measurements and may stop or step  *)
(* back; ages are monotonic and grow in TimeElapses.  The two clocks are   *)
(* independent of each other and of the callbacks, which may be late.      *)
(***************************************************************************)
EXTENDS Ages

CONSTANTS
  SensorTimeout,     \* 0.30 s, for the stamp and for the receipt of a cloud
  FutureTolerance,   \* 0.05 s, how far ahead of the ROS clock a stamp may be
  CommandTimeout,    \* 0.25 s
  HeartbeatLimit,    \* 0.25 s, in StopHeartbeat.required
  EnableMotion,      \* parameter enable_motion
  RequireStability,  \* parameter require_stability
  ClockSteps,        \* may the ROS clock be stepped back
  MaxRos             \* bound on the ROS clock

ASSUME GuardAssumption ==
  /\ SensorTimeout \in Nat /\ FutureTolerance \in Nat
  /\ CommandTimeout \in Nat /\ HeartbeatLimit \in Nat
  /\ EnableMotion \in BOOLEAN /\ RequireStability \in BOOLEAN
  /\ ClockSteps \in BOOLEAN
  /\ MaxRos \in Nat \ {0}

VARIABLES
  guard,      \* GuardState and the pending cloud
  operator,   \* StopHeartbeat of /nav2/operator_stop: [blocked, age]
  stability,  \* StopHeartbeat of /nav2/stack_ready: [blocked, age]
  output,     \* the last command published: "zero" or "move"
  ros,        \* the ROS clock
  hist        \* history: [fresh, obstacle], see below

vars == <<guard, operator, stability, output, ros, hist>>

Stamps == 1 .. MaxRos + FutureTolerance + 1
\* What a look at a cloud gives: it is transformed, its transform is not there
\* yet, or it (or the transform) is malformed.
Outcomes == {"ok", "missing", "malformed"}
Commands == {"none", "invalid", "zero", "move"}

\* A stamp of 0 is invalid in the code and stands for None here.
NoSensor  == [stamp |-> 0, age |-> 0]
NoCloud   == [stamp |-> 0, obstacle |-> FALSE, age |-> 0]
NoCommand == [kind |-> "none", age |-> 0]

Unheard == [blocked |-> TRUE, age |-> Expired(HeartbeatLimit)]
Required(h) == h.blocked \/ h.age > HeartbeatLimit
\* Neither heartbeat keeps the guard from moving.
Permitted == ~Required(operator) /\ (RequireStability => ~Required(stability))

-----------------------------------------------------------------------------
(* GuardState, on the record guard *)

ClockOK(g) == ros >= g.lastRos
Invalidate(g) == [g EXCEPT !.sensor = NoSensor, !.command = NoCommand]

\* clock(now): a ROS clock that went back invalidates the observation.
Clock(g) ==
  LET c == IF ClockOK(g) THEN g ELSE Invalidate(g)
  IN  [c EXCEPT !.lastRos = ros]

StampFresh(stamp) ==
  ros - stamp >= -FutureTolerance /\ ros - stamp <= SensorTimeout

\* observe(stamp, now, received, points)
Observe(g, c) ==
  IF ~ClockOK(g) THEN Clock(g)
  ELSE IF ~StampFresh(c.stamp) \/ c.stamp <= g.sensor.stamp
       THEN Invalidate(Clock(g))
  ELSE [Clock(g) EXCEPT !.obstacle = c.obstacle,
                        !.sensor = [stamp |-> c.stamp, age |-> c.age]]

\* Mutant of MissingTransform: the observation before is kept meanwhile.
MissingKeepsSensor(g) == g
\* The cloud stays pending until its transform is known; until then there is
\* no observation.
MissingTransform(g) == Invalidate(g)

\* process_cloud()
Process(g, outcome) ==
  LET taken == [g EXCEPT !.pending = NoCloud]
  IN  IF g.pending = NoCloud THEN g
      ELSE IF g.pending.age > SensorTimeout \/ outcome = "malformed"
           THEN Invalidate(taken)
      ELSE IF outcome = "missing" THEN MissingTransform(g)
      ELSE Observe(taken, g.pending)

\* Mutant of SensorBlocks: an observation ages by the ROS clock only.
SilenceByRosClock(g, tfOk) ==
  \/ ~ClockOK(g)
  \/ ~tfOk
  \/ g.sensor = NoSensor
  \/ ~StampFresh(g.sensor.stamp)
  \/ g.obstacle
SensorBlocks(g, tfOk) ==
  \/ ~ClockOK(g)
  \/ ~tfOk
  \/ g.sensor = NoSensor
  \/ ~StampFresh(g.sensor.stamp)
  \/ g.sensor.age > SensorTimeout
  \/ g.obstacle

CommandLapses(g) == g.command.age > CommandTimeout

\* decision(now, monotonic_now, tf_reason): what it forgets and whether it
\* passes the cached command.
Decided(g, tfOk) ==
  IF ~ClockOK(g) THEN Clock(g)
  ELSE IF SensorBlocks(g, tfOk) \/ (EnableMotion /\ CommandLapses(g))
       THEN [Clock(g) EXCEPT !.command = NoCommand]
  ELSE Clock(g)

Passes(g, tfOk) ==
  /\ ~SensorBlocks(g, tfOk)
  /\ EnableMotion
  /\ g.command.kind = "move"
  /\ ~CommandLapses(g)

-----------------------------------------------------------------------------
Init ==
  /\ guard = [sensor |-> NoSensor, obstacle |-> FALSE, command |-> NoCommand,
              pending |-> NoCloud, lastRos |-> 0]
  /\ operator = Unheard
  /\ stability = Unheard
  /\ output = "zero"
  /\ ros = 1
  /\ hist = [fresh |-> FALSE, obstacle |-> FALSE]

(***************************************************************************)
(* History of what happened, for the properties only.                      *)
(*   fresh    : a command arrived and since then neither heartbeat blocked *)
(*              and no tick found the sensor, the transforms, the clock or *)
(*              the stop zone against it                                   *)
(*   obstacle : the newest cloud received showed an obstacle               *)
(***************************************************************************)
Track(fresh) == hist' = [hist EXCEPT !.fresh = fresh /\ Permitted']

\* command(message): `kind' is what receive_command makes of it.
Command(kind) ==
  /\ guard' = IF ~ClockOK(guard) THEN Clock(guard)
              ELSE IF kind = "invalid"
                   THEN [Clock(guard) EXCEPT !.command = NoCommand]
              ELSE [Clock(guard) EXCEPT !.command = [kind |-> kind, age |-> 0]]
  /\ UNCHANGED <<operator, stability, output, ros>>
  /\ Track(ClockOK(guard) /\ kind # "invalid")

\* Mutant of BlockEdge: a heartbeat that ends a block leaves the command cached.
BlockOnly(h, blocked) == blocked
\* Both edges of a block clear the cached command: the heartbeat says stop, or
\* it follows one that said so or had lapsed.
BlockEdge(h, blocked) == blocked \/ Required(h)

PublishZeroIf(edge) ==
  /\ guard' = IF edge THEN [guard EXCEPT !.command = NoCommand] ELSE guard
  /\ output' = IF edge THEN "zero" ELSE output

OperatorCommand(blocked) ==
  /\ operator' = [blocked |-> blocked, age |-> 0]
  /\ PublishZeroIf(BlockEdge(operator, blocked))
  /\ UNCHANGED <<stability, ros>>
  /\ Track(hist.fresh)

StackReady(isReady) ==
  /\ stability' = [blocked |-> ~isReady, age |-> 0]
  /\ PublishZeroIf(BlockEdge(stability, ~isReady))
  /\ UNCHANGED <<operator, ros>>
  /\ Track(hist.fresh)

Cloud(stamp, obstacle, outcome) ==
  LET cloud == [stamp |-> stamp, obstacle |-> obstacle, age |-> 0]
  IN  /\ guard' = Process([guard EXCEPT !.pending = cloud], outcome)
      /\ hist' = [hist EXCEPT !.obstacle = obstacle]
      /\ UNCHANGED <<operator, stability, output, ros>>

\* Mutant of Overridden: the operator stop is left to its own callback.
OnlyStackOverrides == RequireStability /\ Required(stability)
Overridden ==
  \/ EnableMotion /\ Required(operator)
  \/ RequireStability /\ Required(stability)

\* The 20 Hz timer.
Tick(outcome, tfOk) ==
  LET seen == Process(guard, outcome)
      done == Decided(seen, tfOk)
  IN  /\ guard' = IF Overridden THEN [done EXCEPT !.command = NoCommand]
                  ELSE done
      /\ output' = IF Passes(seen, tfOk) /\ ~Overridden THEN "move" ELSE "zero"
      /\ UNCHANGED <<operator, stability, ros>>
      /\ Track(hist.fresh /\ ~SensorBlocks(seen, tfOk))

RosAdvance ==
  /\ ros < MaxRos
  /\ ros' = ros + 1
  /\ UNCHANGED <<guard, operator, stability, output, hist>>

RosStepBack ==
  /\ ClockSteps
  /\ ros > 1
  /\ ros' = ros - 1
  /\ UNCHANGED <<guard, operator, stability, output, hist>>

\* One unit of monotonic time; what is absent does not age.
TimeElapses ==
  LET sensor  == guard.sensor
      pending == guard.pending
      command == guard.command
  IN  /\ guard' = [guard EXCEPT
           !.sensor = IF sensor = NoSensor THEN NoSensor
                      ELSE [sensor EXCEPT !.age = Older(@, SensorTimeout)],
           !.pending = IF pending = NoCloud THEN NoCloud
                       ELSE [pending EXCEPT !.age = Older(@, SensorTimeout)],
           !.command = IF command = NoCommand THEN NoCommand
                       ELSE [command EXCEPT !.age = Older(@, CommandTimeout)]]
      /\ operator' = [operator EXCEPT !.age = Older(@, HeartbeatLimit)]
      /\ stability' = [stability EXCEPT !.age = Older(@, HeartbeatLimit)]
      /\ UNCHANGED <<output, ros>>
      /\ Track(hist.fresh)

AnyCommand == \E kind \in Commands \ {"none"} : Command(kind)
AnyCloud == \E stamp \in Stamps, obstacle \in BOOLEAN, outcome \in Outcomes :
              Cloud(stamp, obstacle, outcome)
AnyTick == \E outcome \in Outcomes, tfOk \in BOOLEAN : Tick(outcome, tfOk)
Go == OperatorCommand(FALSE)

Next ==
  \/ AnyCommand
  \/ AnyCloud
  \/ AnyTick
  \/ Go
  \/ OperatorCommand(TRUE)
  \/ \E isReady \in BOOLEAN : StackReady(isReady)
  \/ RosAdvance
  \/ RosStepBack
  \/ TimeElapses

Spec == Init /\ [][Next]_vars

-----------------------------------------------------------------------------
(* Properties *)

HeartbeatType == [blocked : BOOLEAN, age : Age(HeartbeatLimit)]
GuardType ==
  [sensor   : [stamp : Stamps \cup {0}, age : Age(SensorTimeout)],
   obstacle : BOOLEAN,
   command  : [kind : {"none", "zero", "move"}, age : Age(CommandTimeout)],
   pending  : [stamp : Stamps \cup {0}, obstacle : BOOLEAN,
               age : Age(SensorTimeout)],
   lastRos  : 0 .. MaxRos]

\* Every variable stays in its type; ages saturate.
TypeOK ==
  /\ guard \in GuardType
  /\ operator \in HeartbeatType
  /\ stability \in HeartbeatType
  /\ output \in {"zero", "move"}
  /\ ros \in 1 .. MaxRos
  /\ hist \in [fresh : BOOLEAN, obstacle : BOOLEAN]

\* `Fresh command required after recovery': a tick executes only a command
\* received while nothing blocked, and only if nothing has blocked since.  A
\* command cached during a stop, or before a gap in either heartbeat that no
\* tick saw, is never executed.
FreshCommandsOnly == [][AnyTick /\ output' = "move" => hist.fresh]_vars

\* While the last heartbeat of the operator stop (or, if required, of the
\* stability monitor) says stop, the last command sent is zero: it is sent at
\* once and nothing sent later replaces it.
StopHolds ==
  operator.blocked \/ (RequireStability /\ stability.blocked) => output = "zero"

\* A tick moves only on the newest cloud received: not on an older one while
\* the newest waits for its transform or was rejected.
NewestCloudDecides == [][AnyTick /\ output' = "move" => ~hist.obstacle]_vars
=============================================================================
