------------------------- MODULE MotionChainProofs --------------------------
(***************************************************************************)
(* Guard and bridge together implement MotionGate, for all limits, every   *)
(* depth of the topic, and every interleaving.  A grant is a motion on the *)
(* topic or the lease of the newest command received; the guard's part of  *)
(* the argument is Inv of SafetyGuardProofs.                               *)
(***************************************************************************)
EXTENDS MotionChain, SafetyGuardProofs

USE DEF Permitted, Required

-----------------------------------------------------------------------------
(* The chain's inductive invariant *)

\* The cache is exactly the lease, and what is fresh is permitted.
ChainInv ==
  /\ Inv
  /\ ChainTypeOK
  /\ cached = lease
  /\ hist.fresh => Permitted

LEMMA GuardStep == ChainNext => [Next]_vars
  BY DEF ChainNext, GuardPublishes, GuardSilent, BridgeCommand, BridgeRejects,
     BridgeTick, ChainTime, Edge, NoEdge, Next, Go, vars

\* The topic stays bounded, and a message that is put on it adds no motion that
\* was not there, unless it is one.
LEMMA KeptEffect ==
  ASSUME NEW queue \in Seq({"zero", "move"}), Len(queue) <= Depth,
         NEW message \in {"zero", "move"}
  PROVE  /\ Kept(queue, message) \in Seq({"zero", "move"})
         /\ Len(Kept(queue, message)) <= Depth
         /\ \A i \in 1 .. Len(Kept(queue, message)) :
              \/ Kept(queue, message)[i] = message
              \/ \E j \in 1 .. Len(queue) : Kept(queue, message)[i] = queue[j]
         /\ \E i \in 1 .. Len(Kept(queue, message)) :
              Kept(queue, message)[i] = message
<1> DEFINE longer == Append(queue, message)
<1>0. Depth \in Nat \ {0} /\ Len(queue) \in Nat
  BY BridgeAssumption DEF BridgeAssumption
<1>1. /\ longer \in Seq({"zero", "move"}) /\ Len(longer) = Len(queue) + 1
      /\ \A i \in 1 .. Len(queue) : longer[i] = queue[i]
      /\ longer[Len(queue) + 1] = message
  OBVIOUS
<1>2. CASE Len(longer) > Depth
  <2>1. Kept(queue, message) = Tail(longer)
    BY <1>2 DEF Kept
  <2>2. /\ Tail(longer) \in Seq({"zero", "move"})
        /\ Len(Tail(longer)) = Len(queue)
        /\ \A i \in 1 .. Len(queue) : Tail(longer)[i] = longer[i + 1]
    BY <1>0, <1>1
  <2>3. Tail(longer)[Len(queue)] = message /\ Len(queue) \in 1 .. Len(queue)
    BY <1>0, <1>1, <1>2, <2>2
  <2>4. \A i \in 1 .. Len(queue) :
          \/ Tail(longer)[i] = message
          \/ i + 1 \in 1 .. Len(queue) /\ Tail(longer)[i] = queue[i + 1]
    BY <1>0, <1>1, <2>2
  <2> QED
    BY <2>1, <2>2, <2>3, <2>4
<1>3. CASE ~(Len(longer) > Depth)
  <2>1. Kept(queue, message) = longer
    BY <1>3 DEF Kept
  <2>2. \A i \in 1 .. Len(longer) :
          longer[i] = message \/ (i \in 1 .. Len(queue) /\ longer[i] = queue[i])
    BY <1>0, <1>1
  <2> QED
    BY <1>0, <1>1, <1>3, <2>1, <2>2
<1> QED
  BY <1>2, <1>3

LEMMA AgesOfBridge ==
  /\ 0 \in Age(BridgeTimeout) /\ NoneCached \in Age(BridgeTimeout)
  /\ ~(NoneCached <= BridgeTimeout)
  /\ \A age \in Age(BridgeTimeout) :
       /\ Older(age, BridgeTimeout) \in Age(BridgeTimeout)
       /\ Older(age, BridgeTimeout) <= BridgeTimeout => age <= BridgeTimeout
  BY BridgeAssumption DEF BridgeAssumption, Age, Older, Expired, NoneCached

LEMMA FreshStep ==
  ASSUME ChainInv, ChainNext
  PROVE  (hist.fresh => Permitted)'
<1>1. CASE AnyTick \/ Edge \/ NoEdge \/ AnyCommand \/ TimeElapses
  <2>1. PICK f : Track(f)
    BY <1>1 DEF AnyTick, Tick, Edge, NoEdge, OperatorCommand, StackReady,
       AnyCommand, Command, TimeElapses
  <2>2. hist'.fresh = (f /\ Permitted')
    BY <2>1 DEF Track, ChainInv, Inv, TypeOK
  <2> QED
    BY <2>2
<1>2. CASE AnyCloud
  <2>1. PICK obstacle : /\ hist' = [hist EXCEPT !.obstacle = obstacle]
                        /\ UNCHANGED <<operator, stability>>
    BY <1>2 DEF AnyCloud, Cloud
  <2>2. hist'.fresh = hist.fresh
    BY <2>1 DEF ChainInv, Inv, TypeOK
  <2> QED
    BY <2>1, <2>2 DEF ChainInv
<1>3. CASE RosAdvance \/ RosStepBack
  BY <1>3 DEF RosAdvance, RosStepBack, ChainInv
<1>4. CASE UNCHANGED vars
  BY <1>4 DEF vars, ChainInv
<1> QED
  BY <1>1, <1>2, <1>3, <1>4 DEF ChainNext, GuardPublishes, GuardSilent,
     BridgeCommand, BridgeRejects, BridgeTick, ChainTime

LEMMA BridgeType ==
  ASSUME ChainInv, ChainNext, TypeOK'
  PROVE  ChainTypeOK' /\ (cached = lease)'
<1> USE DEF ChainInv, ChainTypeOK
<1>1. CASE GuardPublishes
  <2>1. output' \in {"zero", "move"}
    BY DEF TypeOK
  <2> QED
    BY <1>1, <2>1, KeptEffect DEF GuardPublishes
<1>2. CASE GuardSilent
  BY <1>2 DEF GuardSilent, chain
<1>3. CASE BridgeCommand
  <2>1. /\ topic' \in Seq({"zero", "move"}) /\ Len(topic') <= Depth
    BY <1>3, BridgeAssumption DEF BridgeCommand, BridgeAssumption
  <2> QED
    BY <1>3, <2>1, AgesOfBridge DEF BridgeCommand, Received
<1>4. CASE BridgeRejects
  BY <1>4, AgesOfBridge DEF BridgeRejects
<1>5. CASE BridgeTick
  BY <1>5 DEF BridgeTick
<1>6. CASE ChainTime
  BY <1>6, AgesOfBridge DEF ChainTime
<1> QED
  BY <1>1, <1>2, <1>3, <1>4, <1>5, <1>6 DEF ChainNext

LEMMA ChainInvStep == ChainInv /\ [ChainNext]_allVars => ChainInv'
<1> SUFFICES ASSUME ChainInv, [ChainNext]_allVars PROVE ChainInv'
  OBVIOUS
<1>1. CASE ChainNext
  <2>1. Inv'
    BY <1>1, GuardStep, InvStep DEF ChainInv
  <2>2. TypeOK'
    BY <2>1 DEF Inv
  <2> QED
    BY <1>1, <2>1, <2>2, FreshStep, BridgeType DEF ChainInv
<1>2. CASE UNCHANGED allVars
  <2>1. UNCHANGED vars /\ UNCHANGED chain
    BY <1>2 DEF allVars
  <2>2. Inv'
    BY <2>1, InvStep DEF ChainInv
  <2> QED
    BY <2>1, <2>2 DEF ChainInv, ChainTypeOK, vars, chain
<1> QED
  BY <1>1, <1>2

LEMMA ChainInvInit == ChainInit => ChainInv
  BY InvInit, AgesOfBridge, BridgeAssumption DEF ChainInit, ChainInv, ChainTypeOK,
     Init, BridgeAssumption

LEMMA ChainInvHolds == ChainSpec => []ChainInv
  BY ChainInvInit, ChainInvStep, PTL DEF ChainSpec

\* The topic keeps its depth and the bridge its type, for every value of the
\* limits.
THEOREM ChainTypeCorrect == ChainSpec => []ChainTypeOK
<1>1. ChainInv => ChainTypeOK
  BY DEF ChainInv
<1>2. QED
  BY <1>1, ChainInvHolds, PTL

-----------------------------------------------------------------------------
(* The refinement *)

LEMMA GateInit == ChainInit => Gate!Init
  BY AgesOfBridge DEF ChainInit, Init, Gate!Init, Granted, Unheard, Expired

\* A guard callback that publishes nothing, or zero, and after which the newest
\* command is fresh only if it was.
LEMMA Quiet ==
  ASSUME ChainInv, (hist.fresh => Permitted)', hist'.fresh \in BOOLEAN,
         hist'.fresh => hist.fresh, Granted' => Granted, UNCHANGED wheels
  PROVE  Gate!Next
<1>1. hist.fresh \in BOOLEAN
  BY DEF ChainInv, Inv, TypeOK
<1>2. CASE ~Permitted'
  BY <1>1, <1>2 DEF Gate!Next, Gate!Block, Gate!KeepGrant
<1>3. CASE Permitted' /\ Permitted
  BY <1>1, <1>3 DEF Gate!Next, Gate!Withdraw, Gate!KeepGrant
<1>4. CASE Permitted' /\ ~Permitted
  BY <1>1, <1>4 DEF Gate!Next, Gate!Unblock, Gate!KeepGrant, ChainInv
<1> QED
  BY <1>2, <1>3, <1>4

LEMMA ZeroPublished ==
  ASSUME ChainInv, topic' = Kept(topic, "zero"), UNCHANGED lease
  PROVE  Granted' => Granted
<1>1. topic' = Kept(topic, "zero") /\ topic \in Seq({"zero", "move"}) /\ Len(topic) <= Depth
  BY DEF ChainInv, ChainTypeOK
<1>2. \A i \in 1 .. Len(topic') :
        topic'[i] = "zero" \/ \E j \in 1 .. Len(topic) : topic'[i] = topic[j]
  BY <1>1, KeptEffect
<1> QED
  BY <1>2 DEF Granted

LEMMA TickGate ==
  ASSUME ChainInv, ChainInv', AnyTick, GuardPublishes
  PROVE  Gate!Next
<1> PICK outcome \in Outcomes, tfOk \in BOOLEAN : Tick(outcome, tfOk)
  BY DEF AnyTick
<1>1. UNCHANGED <<operator, stability, lease, wheels>> /\ topic' = Kept(topic, output')
  BY DEF Tick, GuardPublishes
<1>2. output' \in {"zero", "move"} /\ hist'.fresh \in BOOLEAN /\ hist.fresh \in BOOLEAN
  BY DEF ChainInv, Inv, TypeOK
<1>3. hist'.fresh =
        (hist.fresh /\ ~SensorBlocks(Process(guard, outcome), tfOk) /\ Permitted')
  BY DEF Tick, Track, ChainInv, Inv, TypeOK
<1>4. CASE output' = "move"
  <2>1. hist.fresh
    BY <1>4, TickEffect DEF ChainInv
  <2>2. ~SensorBlocks(Process(guard, outcome), tfOk)
    BY <1>4 DEF Tick, Passes
  <2>3. Permitted /\ Permitted' /\ hist'.fresh
    BY <1>1, <1>3, <2>1, <2>2 DEF ChainInv
  <2>4. \E i \in 1 .. Len(topic') : topic'[i] = "move"
    BY <1>1, <1>4, KeptEffect DEF ChainInv, ChainTypeOK
  <2>5. Granted'
    BY <2>4 DEF Granted
  <2> QED
    BY <1>1, <1>2, <2>1, <2>3, <2>5 DEF Gate!Next, Gate!Grant
<1>5. CASE output' = "zero"
  <2>1. Granted' => Granted
    BY <1>1, <1>5, ZeroPublished
  <2> QED
    BY <1>1, <1>2, <1>3, <2>1, Quiet DEF ChainInv
<1> QED
  BY <1>2, <1>4, <1>5

LEMMA EdgeGate ==
  ASSUME ChainInv, ChainInv', Edge, GuardPublishes
  PROVE  Gate!Next
<1>1. output' = "zero" /\ hist'.fresh = (hist.fresh /\ Permitted')
  BY DEF Edge, OperatorCommand, StackReady, PublishZeroIf, Track, ChainInv, Inv, TypeOK
<1>2. UNCHANGED <<lease, wheels>> /\ topic' = Kept(topic, "zero")
  BY <1>1 DEF GuardPublishes
<1>3. Granted' => Granted
  BY <1>2, ZeroPublished
<1>4. hist'.fresh \in BOOLEAN
  BY DEF ChainInv, Inv, TypeOK
<1> QED
  BY <1>1, <1>2, <1>3, <1>4, Quiet DEF ChainInv

LEMMA SilentGate ==
  ASSUME ChainInv, ChainInv', GuardSilent
  PROVE  Gate!Next
<1>1. UNCHANGED <<topic, lease, wheels>>
  BY DEF GuardSilent, chain
<1>2. hist.fresh \in BOOLEAN /\ hist'.fresh \in BOOLEAN
  BY DEF ChainInv, Inv, TypeOK
<1>3. Granted' <=> Granted
  BY <1>1 DEF Granted
<1>4. CASE AnyCommand
  <2>1. UNCHANGED <<operator, stability>>
    BY <1>4 DEF AnyCommand, Command
  <2>2. CASE hist'.fresh
    <3>1. Permitted /\ Permitted'
      BY <2>1, <2>2 DEF ChainInv
    <3>2. (Granted <=> Granted') /\ Granted \in BOOLEAN /\ Granted' \in BOOLEAN
      BY <1>3 DEF Granted
    <3> QED
      BY <1>1, <1>2, <2>2, <3>1, <3>2 DEF Gate!Next, Gate!Arm
  <2>3. CASE ~hist'.fresh
    BY <1>1, <1>2, <1>3, <2>3, Quiet DEF ChainInv
  <2> QED
    BY <2>2, <2>3
<1>5. CASE NoEdge
  <2>1. hist'.fresh = (hist.fresh /\ Permitted')
    BY <1>5 DEF NoEdge, OperatorCommand, StackReady, Track, ChainInv, Inv, TypeOK
  <2> QED
    BY <1>1, <1>2, <1>3, <2>1, Quiet DEF ChainInv
<1>6. CASE AnyCloud
  <2>1. PICK obstacle : hist' = [hist EXCEPT !.obstacle = obstacle]
    BY <1>6 DEF AnyCloud, Cloud
  <2>2. hist'.fresh = hist.fresh
    BY <2>1 DEF ChainInv, Inv, TypeOK
  <2> QED
    BY <1>1, <1>2, <1>3, <2>2, Quiet DEF ChainInv
<1>7. CASE RosAdvance \/ RosStepBack
  BY <1>1, <1>2, <1>3, <1>7, Quiet DEF RosAdvance, RosStepBack, ChainInv
<1> QED
  BY <1>4, <1>5, <1>6, <1>7 DEF GuardSilent

LEMMA CommandGate ==
  ASSUME ChainInv, ChainInv', BridgeCommand
  PROVE  Gate!Next
<1>1. /\ topic # <<>> /\ topic' = Tail(topic)
      /\ lease' = IF Head(topic) = "move" THEN 0 ELSE NoneCached
      /\ UNCHANGED <<hist, operator, stability, wheels>>
  BY DEF BridgeCommand, vars
<1>2. topic \in Seq({"zero", "move"})
  BY DEF ChainInv, ChainTypeOK
<1>3. ASSUME Granted' PROVE Granted
  <2>1. CASE \E i \in 1 .. Len(topic') : topic'[i] = "move"
    <3>1. PICK i \in 1 .. Len(topic') : topic'[i] = "move"
      BY <2>1
    <3>2. i + 1 \in 1 .. Len(topic) /\ topic[i + 1] = "move"
      BY <1>1, <1>2, <3>1
    <3> QED
      BY <3>2 DEF Granted
  <2>2. CASE lease' <= BridgeTimeout
    <3>1. Head(topic) = "move"
      BY <1>1, <2>2, AgesOfBridge
    <3>2. 1 \in 1 .. Len(topic) /\ topic[1] = "move"
      BY <1>1, <1>2, <3>1
    <3> QED
      BY <3>2 DEF Granted
  <2> QED
    BY <1>3, <2>1, <2>2 DEF Granted
<1>4. hist'.fresh \in BOOLEAN
  BY DEF ChainInv, Inv, TypeOK
<1> QED
  BY <1>1, <1>3, <1>4, Quiet DEF ChainInv

LEMMA RestGate ==
  ASSUME ChainInv, ChainInv', BridgeRejects \/ BridgeTick \/ ChainTime
  PROVE  Gate!Next
<1>1. hist.fresh \in BOOLEAN /\ hist'.fresh \in BOOLEAN
  BY DEF ChainInv, Inv, TypeOK
<1>2. CASE BridgeRejects
  <2>1. UNCHANGED <<hist, operator, stability, topic>> /\ lease' = NoneCached
    BY <1>2 DEF BridgeRejects, vars
  <2>2. Granted' => Granted
    BY <2>1, AgesOfBridge DEF Granted
  <2>3. CASE EnableMotion
    BY <1>2, <2>1, <2>2, <2>3 DEF BridgeRejects, Gate!Next, Gate!Halt, Gate!KeepGrant
  <2>4. CASE ~EnableMotion
    BY <1>1, <1>2, <2>1, <2>2, <2>4, Quiet DEF BridgeRejects, ChainInv
  <2> QED
    BY <2>3, <2>4
<1>3. CASE BridgeTick
  <2>1. UNCHANGED <<hist, operator, stability, topic, lease>>
    BY <1>3 DEF BridgeTick, vars
  <2>2. (Granted' <=> Granted) /\ Granted \in BOOLEAN /\ Granted' \in BOOLEAN
    BY <2>1 DEF Granted
  <2>3. CASE BridgeFresh
    <3>1. Granted
      BY <2>3 DEF BridgeFresh, Granted, ChainInv
    <3> QED
      BY <1>3, <2>1, <2>2, <2>3, <3>1 DEF BridgeTick, Gate!Next, Gate!Drive
  <2>4. CASE ~BridgeFresh
    BY <1>3, <2>1, <2>2, <2>4 DEF BridgeTick, Gate!Next, Gate!Halt, Gate!KeepGrant
  <2> QED
    BY <2>3, <2>4
<1>4. CASE ChainTime
  <2>1. hist'.fresh = (hist.fresh /\ Permitted') /\ UNCHANGED <<topic, wheels>>
    BY <1>4 DEF ChainTime, TimeElapses, Track, ChainInv, Inv, TypeOK
  <2>2. Granted' => Granted
    BY <1>4, <2>1, AgesOfBridge DEF ChainTime, Granted, ChainInv, ChainTypeOK
  <2> QED
    BY <1>1, <2>1, <2>2, Quiet DEF ChainInv
<1> QED
  BY <1>2, <1>3, <1>4

LEMMA GateStep == ChainInv /\ [ChainNext]_allVars => [Gate!Next]_(Gate!vars)
<1> SUFFICES ASSUME ChainInv, [ChainNext]_allVars PROVE [Gate!Next]_(Gate!vars)
  OBVIOUS
<1>1. ChainInv'
  BY ChainInvStep
<1>2. CASE GuardPublishes
  BY <1>1, <1>2, TickGate, EdgeGate DEF GuardPublishes
<1>3. CASE GuardSilent \/ BridgeCommand
  BY <1>1, <1>3, SilentGate, CommandGate
<1>4. CASE BridgeRejects \/ BridgeTick \/ ChainTime
  BY <1>1, <1>4, RestGate
<1>5. CASE UNCHANGED allVars
  BY <1>5 DEF allVars, vars, chain, Gate!vars, Granted
<1> QED
  BY <1>2, <1>3, <1>4, <1>5 DEF ChainNext

\* Whatever the inputs, the clocks and the topic do, the bridge moves the
\* platform only by a grant that the guard gave after a fresh command.
THEOREM ChainImplementsGate == ChainSpec => ImplementsGate
  BY GateInit, GateStep, ChainInvHolds, PTL DEF ChainSpec, ImplementsGate, Gate!Spec

\* What is proved of the guard alone holds of it in the chain.
THEOREM ChainKeepsGuard == ChainSpec => Spec
<1>1. ChainInit => Init
  BY DEF ChainInit
<1>2. [ChainNext]_allVars => [Next]_vars
  BY GuardStep DEF allVars
<1>3. QED
  BY <1>1, <1>2, PTL DEF ChainSpec, Spec
=============================================================================
