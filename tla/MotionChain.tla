---------------------------- MODULE MotionChain -----------------------------
(***************************************************************************)
(* The last link to the wheels: scripts/cmd_vel_safety_bridge.py, fed by   *)
(* the guard (SafetyGuard) through a reliable topic that keeps the newest  *)
(* messages.  The launch starts the bridge with forward_cmd_vel and the    *)
(* guard with enable_motion from the same argument.                        *)
(*                                                                         *)
(* A cached zero and no cached command are both published as zero, so the  *)
(* bridge's cache is the age of a cached command that moves.  Clamping is  *)
(* left out.                                                               *)
(***************************************************************************)
EXTENDS SafetyGuard, Sequences

CONSTANTS
  BridgeTimeout,  \* timeout_sec, 0.5 s
  Depth           \* messages the topic keeps, 10

ASSUME BridgeAssumption == BridgeTimeout \in Nat /\ Depth \in Nat \ {0}

VARIABLES
  topic,   \* the guard's commands on their way, oldest first
  cached,  \* age of _last_command if it moves, else expired
  wheels,  \* the last command published to the platform
  lease    \* history: age of the newest command the bridge received, if that
           \* command moves, else expired

chain == <<topic, cached, wheels, lease>>
allVars == <<vars, chain>>

NoneCached == Expired(BridgeTimeout)

ChainInit ==
  /\ Init
  /\ topic = <<>>
  /\ cached = NoneCached
  /\ wheels = "zero"
  /\ lease = NoneCached

-----------------------------------------------------------------------------
\* Mutant of Kept: the topic holds every message.
KeptAll(queue, message) == Append(queue, message)
\* The topic drops its oldest message when it is full.
Kept(queue, message) ==
  LET longer == Append(queue, message)
  IN  IF Len(longer) > Depth THEN Tail(longer) ELSE longer

\* Which guard callbacks publish: every tick, and both edges of a block.
Edge ==
  \E blocked \in BOOLEAN :
    \/ OperatorCommand(blocked) /\ BlockEdge(operator, blocked)
    \/ StackReady(~blocked) /\ BlockEdge(stability, blocked)
NoEdge ==
  \E blocked \in BOOLEAN :
    \/ OperatorCommand(blocked) /\ ~BlockEdge(operator, blocked)
    \/ StackReady(~blocked) /\ ~BlockEdge(stability, blocked)

GuardPublishes ==
  /\ AnyTick \/ Edge
  /\ topic' = Kept(topic, output')
  /\ UNCHANGED <<cached, wheels, lease>>

GuardSilent ==
  /\ AnyCommand \/ AnyCloud \/ NoEdge \/ RosAdvance \/ RosStepBack
  /\ UNCHANGED chain

-----------------------------------------------------------------------------
(* The bridge: _command_callback() and the 20 Hz _publish_watchdog_output() *)

\* Mutant of Received: a zero does not replace the command cached before.
ReceivedSticky(kind) == IF kind = "move" THEN 0 ELSE cached
Received(kind) == IF kind = "move" THEN 0 ELSE NoneCached

BridgeCommand ==
  /\ topic # <<>>
  /\ cached' = Received(Head(topic))
  /\ lease' = IF Head(topic) = "move" THEN 0 ELSE NoneCached
  /\ topic' = Tail(topic)
  /\ UNCHANGED <<vars, wheels>>

\* A command with NaN or infinity, from whoever publishes one.
BridgeRejects ==
  /\ cached' = NoneCached
  /\ wheels' = IF EnableMotion THEN "zero" ELSE wheels
  /\ lease' = NoneCached
  /\ UNCHANGED <<vars, topic>>

BridgeFresh == cached <= BridgeTimeout

BridgeTick ==
  /\ EnableMotion
  /\ wheels' = IF BridgeFresh THEN "move" ELSE "zero"
  /\ UNCHANGED <<vars, topic, cached, lease>>

\* One unit of time, for guard and bridge.
ChainTime ==
  /\ TimeElapses
  /\ cached' = Older(cached, BridgeTimeout)
  /\ lease' = Older(lease, BridgeTimeout)
  /\ UNCHANGED <<topic, wheels>>

ChainNext ==
  \/ GuardPublishes
  \/ GuardSilent
  \/ BridgeCommand
  \/ BridgeRejects
  \/ BridgeTick
  \/ ChainTime

ChainSpec == ChainInit /\ [][ChainNext]_allVars

(* Fairness: the bridge runs and time passes.  The guard may hang or die,   *)
(* and nothing is assumed of its inputs.                                    *)
FairChain ==
  /\ ChainSpec
  /\ WF_allVars(BridgeCommand) /\ WF_allVars(BridgeTick) /\ WF_allVars(ChainTime)

-----------------------------------------------------------------------------
(* Properties *)

\* The topic is bounded and the age saturates.
ChainTypeOK ==
  /\ topic \in Seq({"zero", "move"}) /\ Len(topic) <= Depth
  /\ cached \in Age(BridgeTimeout) /\ lease \in Age(BridgeTimeout)
  /\ wheels \in {"zero", "move"}

\* A grant is under way in the topic, or the newest command the bridge received
\* moves and is not older than the timeout.
Granted == (\E i \in 1 .. Len(topic) : topic[i] = "move") \/ lease <= BridgeTimeout

\* Guard and bridge together are the gate: a motion the bridge sends was granted
\* by the guard after a fresh command with nothing blocking since, and a command
\* from before a block, a rejection or the timeout is never sent again.
Gate == INSTANCE MotionGate WITH
  blocked <- ~Permitted, armed <- hist.fresh, granted <- Granted
ImplementsGate == Gate!Spec

\* The robot moves on only while clouds and `go' heartbeats keep arriving: any
\* stream that dries up ends it, also when the guard itself hangs, dies or
\* sees a ROS clock that stands still.
WheelsNeedStreams ==
  []<>(wheels = "move") =>
    /\ []<><<AnyCloud>>_vars
    /\ []<><<AnyCommand>>_vars
    /\ []<><<Go>>_vars
    /\ RequireStability => []<><<StackReady(TRUE)>>_vars
=============================================================================
