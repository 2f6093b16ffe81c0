------------------------- MODULE SafetyGuardProofs --------------------------
(***************************************************************************)
(* Proofs about SafetyGuard, for all limits, for both clocks running in    *)
(* any way, and for every order, loss and repetition of the inputs.        *)
(***************************************************************************)
EXTENDS SafetyGuard, TLAPS

USE DEF Permitted, Required

-----------------------------------------------------------------------------
(* Type correctness *)

LEMMA OlderType ==
  ASSUME NEW limit \in Nat, NEW age \in Age(limit)
  PROVE  Older(age, limit) \in Age(limit)
  BY DEF Age, Older

LEMMA NothingTypes ==
  /\ NoSensor \in [stamp : Stamps \cup {0}, age : Age(SensorTimeout)]
  /\ NoCommand \in [kind : {"none", "zero", "move"}, age : Age(CommandTimeout)]
  /\ NoCloud \in [stamp : Stamps \cup {0}, obstacle : BOOLEAN,
                  age : Age(SensorTimeout)]
  /\ Unheard \in HeartbeatType
  BY GuardAssumption DEF NoSensor, NoCommand, NoCloud, Unheard, HeartbeatType,
     Age, Expired, GuardAssumption

\* What the guard forgets leaves it in its type.
LEMMA InvalidateType ==
  ASSUME NEW g \in GuardType
  PROVE  Invalidate(g) \in GuardType
  BY NothingTypes DEF Invalidate, GuardType

LEMMA ClockType ==
  ASSUME NEW g \in GuardType, ros \in 1 .. MaxRos
  PROVE  Clock(g) \in GuardType
<1>1. ros \in 0 .. MaxRos
  BY GuardAssumption DEF GuardAssumption
<1>2. QED
  BY <1>1, InvalidateType DEF Clock, GuardType

LEMMA ProcessType ==
  ASSUME NEW g \in GuardType, NEW outcome \in Outcomes, ros \in 1 .. MaxRos
  PROVE  Process(g, outcome) \in GuardType
<1> DEFINE taken == [g EXCEPT !.pending = NoCloud]
<1>1. taken \in GuardType
  BY NothingTypes DEF GuardType
<1>2. ASSUME g.pending # NoCloud
      PROVE  Observe(taken, g.pending) \in GuardType
  <2>1. Clock(taken) \in GuardType
    BY <1>1, ClockType
  <2>2. Invalidate(Clock(taken)) \in GuardType
    BY <2>1, InvalidateType
  <2>3. /\ g.pending.obstacle \in BOOLEAN
        /\ [stamp |-> g.pending.stamp, age |-> g.pending.age] \in
             [stamp : Stamps \cup {0}, age : Age(SensorTimeout)]
    BY DEF GuardType
  <2>4. [Clock(taken) EXCEPT !.obstacle = g.pending.obstacle,
           !.sensor = [stamp |-> g.pending.stamp, age |-> g.pending.age]]
          \in GuardType
    BY <2>1, <2>3 DEF GuardType
  <2>5. QED
    BY <2>1, <2>2, <2>4 DEF Observe
<1>3. Invalidate(taken) \in GuardType /\ Invalidate(g) \in GuardType
  BY <1>1, InvalidateType
<1>4. QED
  BY <1>1, <1>2, <1>3 DEF Process, MissingTransform

LEMMA DropCommandType ==
  ASSUME NEW g \in GuardType
  PROVE  [g EXCEPT !.command = NoCommand] \in GuardType
  BY NothingTypes DEF GuardType

LEMMA DecidedType ==
  ASSUME NEW g \in GuardType, NEW tfOk \in BOOLEAN, ros \in 1 .. MaxRos
  PROVE  Decided(g, tfOk) \in GuardType
<1>1. Clock(g) \in GuardType
  BY ClockType
<1>2. [Clock(g) EXCEPT !.command = NoCommand] \in GuardType
  BY <1>1, DropCommandType
<1>3. QED
  BY <1>1, <1>2 DEF Decided

LEMMA InitType == Init => TypeOK
<1> SUFFICES ASSUME Init PROVE TypeOK
  OBVIOUS
<1>1. guard \in GuardType
  BY NothingTypes, GuardAssumption DEF Init, GuardType, GuardAssumption
<1>2. ros \in 1 .. MaxRos
  BY GuardAssumption DEF Init, GuardAssumption
<1>3. QED
  BY <1>1, <1>2, NothingTypes DEF Init, TypeOK

LEMMA TrackType ==
  ASSUME TypeOK, NEW fresh \in BOOLEAN, Track(fresh)
  PROVE  hist' \in [fresh : BOOLEAN, obstacle : BOOLEAN]
  BY DEF Track, TypeOK

LEMMA CommandTypeStep ==
  ASSUME TypeOK, NEW kind \in Commands \ {"none"}, Command(kind)
  PROVE  TypeOK'
<1>1. Clock(guard) \in GuardType
  BY ClockType DEF TypeOK
<1>2. [Clock(guard) EXCEPT !.command = NoCommand] \in GuardType
  BY <1>1, DropCommandType
<1>3. ASSUME kind # "invalid"
      PROVE  [Clock(guard) EXCEPT !.command = [kind |-> kind, age |-> 0]]
               \in GuardType
  <2>1. kind \in {"none", "zero", "move"} /\ 0 \in Age(CommandTimeout)
    BY <1>3, GuardAssumption DEF Commands, Age, GuardAssumption
  <2>2. [kind |-> kind, age |-> 0] \in
          [kind : {"none", "zero", "move"}, age : Age(CommandTimeout)]
    BY <2>1
  <2>3. QED
    BY <1>1, <2>2 DEF GuardType
<1>4. guard' \in GuardType
  BY <1>1, <1>2, <1>3 DEF Command
<1>5. (ClockOK(guard) /\ kind # "invalid") \in BOOLEAN
  BY DEF ClockOK
<1>6. Track(ClockOK(guard) /\ kind # "invalid")
  BY DEF Command
<1>7. hist' \in [fresh : BOOLEAN, obstacle : BOOLEAN]
  BY <1>5, <1>6, TrackType
<1>8. QED
  BY <1>4, <1>7 DEF Command, TypeOK

LEMMA PublishType ==
  ASSUME TypeOK, NEW edge \in BOOLEAN, PublishZeroIf(edge)
  PROVE  guard' \in GuardType /\ output' \in {"zero", "move"}
  BY DropCommandType DEF PublishZeroIf, TypeOK

LEMMA HeartbeatStep ==
  ASSUME NEW blocked \in BOOLEAN
  PROVE  [blocked |-> blocked, age |-> 0] \in HeartbeatType
  BY GuardAssumption DEF HeartbeatType, Age, GuardAssumption

LEMMA ElapseType ==
  ASSUME TypeOK, TimeElapses
  PROVE  TypeOK'
<1> USE DEF TypeOK
<1>0. SensorTimeout \in Nat /\ CommandTimeout \in Nat /\ HeartbeatLimit \in Nat
  BY GuardAssumption DEF GuardAssumption
<1> DEFINE s == IF guard.sensor = NoSensor THEN NoSensor
                ELSE [guard.sensor EXCEPT !.age = Older(@, SensorTimeout)]
           p == IF guard.pending = NoCloud THEN NoCloud
                ELSE [guard.pending EXCEPT !.age = Older(@, SensorTimeout)]
           c == IF guard.command = NoCommand THEN NoCommand
                ELSE [guard.command EXCEPT !.age = Older(@, CommandTimeout)]
<1>1. s \in [stamp : Stamps \cup {0}, age : Age(SensorTimeout)]
  BY <1>0, OlderType, NothingTypes DEF GuardType
<1>2. p \in [stamp : Stamps \cup {0}, obstacle : BOOLEAN,
             age : Age(SensorTimeout)]
  BY <1>0, OlderType, NothingTypes DEF GuardType
<1>3. c \in [kind : {"none", "zero", "move"}, age : Age(CommandTimeout)]
  BY <1>0, OlderType, NothingTypes DEF GuardType
<1>4. guard' = [guard EXCEPT !.sensor = s, !.pending = p, !.command = c]
  BY DEF TimeElapses
<1>5. guard' \in GuardType
  <2> HIDE DEF s, p, c
  <2> QED
    BY <1>1, <1>2, <1>3, <1>4 DEF GuardType
<1>6. operator' \in HeartbeatType /\ stability' \in HeartbeatType
  BY <1>0, OlderType DEF TimeElapses, HeartbeatType
<1>7. hist' \in [fresh : BOOLEAN, obstacle : BOOLEAN]
  BY TrackType DEF TimeElapses
<1>8. QED
  BY <1>5, <1>6, <1>7 DEF TimeElapses

LEMMA TickTypeStep ==
  ASSUME TypeOK, NEW outcome \in Outcomes, NEW tfOk \in BOOLEAN,
         Tick(outcome, tfOk)
  PROVE  TypeOK'
<1> DEFINE seen == Process(guard, outcome)
           done == Decided(seen, tfOk)
<1>1. seen \in GuardType
  BY ProcessType DEF TypeOK
<1>2. done \in GuardType
  BY <1>1, DecidedType DEF TypeOK
<1>3. [done EXCEPT !.command = NoCommand] \in GuardType
  BY <1>2, DropCommandType
<1>4. guard' \in GuardType /\ output' \in {"zero", "move"}
  BY <1>2, <1>3 DEF Tick
<1>5. Track(hist.fresh /\ ~SensorBlocks(seen, tfOk))
  BY DEF Tick
<1>6. (hist.fresh /\ ~SensorBlocks(seen, tfOk)) \in BOOLEAN
  BY DEF TypeOK
<1>7. hist' \in [fresh : BOOLEAN, obstacle : BOOLEAN]
  BY <1>5, <1>6, TrackType
<1>8. QED
  BY <1>4, <1>7 DEF Tick, TypeOK

LEMMA TypeStep == TypeOK /\ [Next]_vars => TypeOK'
<1> SUFFICES ASSUME TypeOK, [Next]_vars PROVE TypeOK'
  OBVIOUS
<1>1. CASE AnyCommand
  BY <1>1, CommandTypeStep DEF AnyCommand
<1>2. CASE AnyCloud
  <2> PICK stamp \in Stamps, obstacle \in BOOLEAN, outcome \in Outcomes :
        Cloud(stamp, obstacle, outcome)
    BY <1>2 DEF AnyCloud
  <2> DEFINE cloud == [stamp |-> stamp, obstacle |-> obstacle, age |-> 0]
  <2>1. cloud \in [stamp : Stamps \cup {0}, obstacle : BOOLEAN,
                   age : Age(SensorTimeout)]
    BY GuardAssumption DEF Age, GuardAssumption
  <2>2. [guard EXCEPT !.pending = cloud] \in GuardType
    BY <2>1 DEF TypeOK, GuardType
  <2>3. guard' \in GuardType
    BY <2>2, ProcessType DEF Cloud, TypeOK
  <2>4. QED
    BY <2>3 DEF Cloud, TypeOK
<1>3. CASE AnyTick
  BY <1>3, TickTypeStep DEF AnyTick
<1>4. CASE Go \/ OperatorCommand(TRUE)
  <2> PICK blocked \in BOOLEAN : OperatorCommand(blocked)
    BY <1>4 DEF Go
  <2>1. BlockEdge(operator, blocked) \in BOOLEAN
    BY DEF BlockEdge
  <2>2. guard' \in GuardType /\ output' \in {"zero", "move"}
    BY <2>1, PublishType DEF OperatorCommand
  <2>3. hist' \in [fresh : BOOLEAN, obstacle : BOOLEAN]
    BY TrackType DEF OperatorCommand, TypeOK
  <2>4. QED
    BY <2>2, <2>3, HeartbeatStep DEF OperatorCommand, TypeOK
<1>5. CASE \E isReady \in BOOLEAN : StackReady(isReady)
  <2> PICK isReady \in BOOLEAN : StackReady(isReady)
    BY <1>5
  <2>1. BlockEdge(stability, ~isReady) \in BOOLEAN
    BY DEF BlockEdge
  <2>2. guard' \in GuardType /\ output' \in {"zero", "move"}
    BY <2>1, PublishType DEF StackReady
  <2>3. hist' \in [fresh : BOOLEAN, obstacle : BOOLEAN]
    BY TrackType DEF StackReady, TypeOK
  <2>4. QED
    BY <2>2, <2>3, HeartbeatStep DEF StackReady, TypeOK
<1>6. CASE RosAdvance \/ RosStepBack
  <2>1. ros' \in 1 .. MaxRos
    BY <1>6, GuardAssumption DEF RosAdvance, RosStepBack, TypeOK, GuardAssumption
  <2>2. QED
    BY <1>6, <2>1 DEF RosAdvance, RosStepBack, TypeOK
<1>7. CASE TimeElapses
  BY <1>7, ElapseType
<1>8. CASE UNCHANGED vars
  BY <1>8 DEF vars, TypeOK
<1>9. QED
  BY <1>1, <1>2, <1>3, <1>4, <1>5, <1>6, <1>7, <1>8 DEF Next

\* Type correctness of the guard, for every value of its limits.
THEOREM TypeCorrect == Spec => []TypeOK
  BY InitType, TypeStep, PTL DEF Spec

-----------------------------------------------------------------------------
(* The safety invariant.  StopHolds alone is inductive; the two action      *)
(* properties need to know what the cached command and the observation are. *)

\* A cached command was received after the last block, or it arrived during one
\* that still lasts.
CommandInv(g) == g.command # NoCommand => hist.fresh \/ ~Permitted

\* The observation and the pending cloud are the newest cloud received, and the
\* guard never has both.
CloudInv(g, obstacle) ==
  /\ g.pending # NoCloud => /\ g.sensor = NoSensor
                            /\ g.pending.obstacle = obstacle
  /\ g.sensor # NoSensor => g.obstacle = obstacle

Inv ==
  /\ TypeOK
  /\ StopHolds
  /\ CommandInv(guard)
  /\ CloudInv(guard, hist.obstacle)

LEMMA InvalidateCloud ==
  ASSUME NEW g \in GuardType, NEW obstacle \in BOOLEAN, CloudInv(g, obstacle)
  PROVE  CloudInv(Invalidate(g), obstacle)
  BY DEF Invalidate, CloudInv, GuardType

LEMMA ClockEffect ==
  ASSUME NEW g \in GuardType, NEW obstacle \in BOOLEAN, CloudInv(g, obstacle)
  PROVE  /\ CloudInv(Clock(g), obstacle)
         /\ Clock(g).pending = g.pending
         /\ Clock(g).command \in {g.command, NoCommand}
<1>1. CloudInv(Invalidate(g), obstacle)
  BY InvalidateCloud
<1>2. CASE ClockOK(g)
  BY <1>2 DEF Clock, CloudInv, GuardType
<1>3. CASE ~ClockOK(g)
  BY <1>1, <1>3 DEF Clock, CloudInv, Invalidate, GuardType
<1>4. QED
  BY <1>2, <1>3

LEMMA ProcessEffect ==
  ASSUME NEW g \in GuardType, NEW outcome \in Outcomes,
         NEW obstacle \in BOOLEAN, g.pending # NoCloud => g.pending.obstacle = obstacle,
         g.pending = NoCloud => CloudInv(g, obstacle)
  PROVE  /\ CloudInv(Process(g, outcome), obstacle)
         /\ Process(g, outcome).command \in {g.command, NoCommand}
<1> DEFINE taken == [g EXCEPT !.pending = NoCloud]
<1>1. CASE g.pending = NoCloud
  BY <1>1 DEF Process
<1>2. CASE g.pending # NoCloud /\ (g.pending.age > SensorTimeout \/ outcome = "malformed")
  <2>1. Process(g, outcome) = Invalidate(taken)
    BY <1>2 DEF Process
  <2>2. QED
    BY <2>1 DEF Invalidate, CloudInv, GuardType
<1>3. CASE /\ g.pending # NoCloud
           /\ ~(g.pending.age > SensorTimeout \/ outcome = "malformed")
           /\ outcome = "missing"
  <2>1. Process(g, outcome) = Invalidate(g)
    BY <1>3 DEF Process, MissingTransform
  <2>2. QED
    BY <2>1, <1>3 DEF Invalidate, CloudInv, GuardType
<1>4. CASE /\ g.pending # NoCloud
           /\ ~(g.pending.age > SensorTimeout \/ outcome = "malformed")
           /\ outcome # "missing"
  <2>1. Process(g, outcome) = Observe(taken, g.pending)
    BY <1>4 DEF Process
  <2>2. taken \in GuardType /\ taken.pending = NoCloud /\ taken.command = g.command
    BY NothingTypes DEF GuardType
  <2>3. CASE ~ClockOK(taken)
    BY <2>1, <2>2, <2>3 DEF Observe, Clock, Invalidate, CloudInv, GuardType
  <2>4. CASE ClockOK(taken) /\ (~StampFresh(g.pending.stamp)
                                \/ g.pending.stamp <= taken.sensor.stamp)
    BY <2>1, <2>2, <2>4 DEF Observe, Clock, Invalidate, CloudInv, GuardType
  <2>5. CASE ClockOK(taken) /\ ~(~StampFresh(g.pending.stamp)
                                 \/ g.pending.stamp <= taken.sensor.stamp)
    BY <2>1, <2>2, <2>5, <1>4 DEF Observe, Clock, CloudInv, GuardType
  <2>6. QED
    BY <2>3, <2>4, <2>5
<1>5. QED
  BY <1>1, <1>2, <1>3, <1>4

LEMMA DropCommandCloud ==
  ASSUME NEW g \in GuardType, NEW obstacle \in BOOLEAN, CloudInv(g, obstacle)
  PROVE  CloudInv([g EXCEPT !.command = NoCommand], obstacle)
  BY DEF CloudInv, GuardType

LEMMA DecidedEffect ==
  ASSUME NEW g \in GuardType, NEW tfOk \in BOOLEAN, NEW obstacle \in BOOLEAN,
         CloudInv(g, obstacle), ros \in 1 .. MaxRos
  PROVE  /\ CloudInv(Decided(g, tfOk), obstacle)
         /\ Decided(g, tfOk).command \in {g.command, NoCommand}
         /\ SensorBlocks(g, tfOk) => Decided(g, tfOk).command = NoCommand
<1>1. Clock(g) \in GuardType
  BY ClockType
<1>2. CASE ~ClockOK(g)
  <2>1. Decided(g, tfOk) = Clock(g) /\ Clock(g).command = NoCommand
    BY <1>2 DEF Decided, Clock, Invalidate, GuardType
  <2>2. QED
    BY <2>1, ClockEffect
<1>3. CASE ClockOK(g) /\ (SensorBlocks(g, tfOk) \/ (EnableMotion /\ CommandLapses(g)))
  <2>1. Decided(g, tfOk) = [Clock(g) EXCEPT !.command = NoCommand]
    BY <1>3 DEF Decided
  <2>2. QED
    BY <2>1, <1>1, ClockEffect, DropCommandCloud DEF GuardType
<1>4. CASE ClockOK(g) /\ ~(SensorBlocks(g, tfOk) \/ (EnableMotion /\ CommandLapses(g)))
  <2>1. Decided(g, tfOk) = Clock(g)
    BY <1>4 DEF Decided
  <2>2. QED
    BY <2>1, <1>4, ClockEffect
<1>5. QED
  BY <1>2, <1>3, <1>4

\* What a tick does, from a state that satisfies the invariant.
LEMMA TickEffect ==
  ASSUME Inv, NEW outcome \in Outcomes, NEW tfOk \in BOOLEAN,
         Tick(outcome, tfOk)
  PROVE  /\ Inv'
         /\ output' = "move" => hist.fresh /\ ~hist.obstacle
<1> DEFINE seen == Process(guard, outcome)
           done == Decided(seen, tfOk)
<1>1. seen \in GuardType
  BY ProcessType DEF Inv, TypeOK
<1>2. CloudInv(seen, hist.obstacle) /\ seen.command \in {guard.command, NoCommand}
  BY ProcessEffect DEF Inv, TypeOK, CloudInv
<1>3. /\ CloudInv(done, hist.obstacle)
      /\ done.command \in {guard.command, NoCommand}
      /\ SensorBlocks(seen, tfOk) => done.command = NoCommand
  BY <1>1, <1>2, DecidedEffect DEF Inv, TypeOK
<1>4. done \in GuardType
  BY <1>1, DecidedType DEF Inv, TypeOK
<1>5. /\ CloudInv(guard', hist.obstacle)
      /\ guard'.command \in {guard.command, NoCommand}
      /\ SensorBlocks(seen, tfOk) => guard'.command = NoCommand
  BY <1>3, <1>4, DropCommandCloud DEF Tick, GuardType, Inv, TypeOK
<1>6. UNCHANGED <<operator, stability, ros>>
  BY DEF Tick
<1>7. /\ hist'.obstacle = hist.obstacle
      /\ hist'.fresh = (hist.fresh /\ ~SensorBlocks(seen, tfOk) /\ Permitted')
  BY DEF Tick, Track, Inv, TypeOK
<1>8. output' = "move" => Passes(seen, tfOk) /\ ~Overridden
  BY DEF Tick
<1>9. output' \in {"zero", "move"}
  BY DEF Tick
<1>10. output' = "move" => Permitted
  BY <1>8 DEF Passes, Overridden
<1>11. ASSUME output' = "move"
       PROVE  hist.fresh /\ ~hist.obstacle
  <2>1. seen.command # NoCommand
    BY <1>8, <1>11 DEF Passes, NoCommand
  <2>2. hist.fresh
    BY <2>1, <1>2, <1>10, <1>11 DEF Inv, CommandInv
  <2>3. seen.sensor # NoSensor /\ ~seen.obstacle
    BY <1>8, <1>11 DEF Passes, SensorBlocks
  <2>4. QED
    BY <1>2, <2>2, <2>3 DEF CloudInv
<1>12. CommandInv(guard)'
  BY <1>5, <1>6, <1>7 DEF Inv, CommandInv
<1>13. StopHolds'
  BY <1>6, <1>9, <1>10 DEF StopHolds
<1>14. TypeOK'
  BY TickTypeStep DEF Inv
<1>15. QED
  BY <1>5, <1>7, <1>11, <1>12, <1>13, <1>14 DEF Inv

\* A heartbeat that opens the way clears the command; one that blocks also sends
\* zero.
LEMMA HeartbeatEffect ==
  ASSUME Inv, NEW edge \in BOOLEAN, PublishZeroIf(edge)
  PROVE  /\ CloudInv(guard', hist.obstacle)
         /\ guard'.command = IF edge THEN NoCommand ELSE guard.command
         /\ output' = IF edge THEN "zero" ELSE output
<1>1. CASE edge
  BY <1>1, DropCommandCloud DEF PublishZeroIf, Inv, TypeOK, GuardType
<1>2. CASE ~edge
  BY <1>2 DEF PublishZeroIf, Inv
<1>3. QED
  BY <1>1, <1>2

LEMMA CommandStep ==
  ASSUME Inv, NEW kind \in Commands \ {"none"}, Command(kind)
  PROVE  Inv'
<1>1. Clock(guard) \in GuardType
  BY ClockType DEF Inv, TypeOK
<1>2. CloudInv(Clock(guard), hist.obstacle)
  BY ClockEffect DEF Inv, TypeOK
<1>3. CASE ~ClockOK(guard)
  <2>1. guard' = Clock(guard) /\ guard'.command = NoCommand
    BY <1>3 DEF Command, Clock, Invalidate, Inv, TypeOK, GuardType
  <2>2. QED
    BY <2>1, <1>2, CommandTypeStep DEF Inv, Command, Track, StopHolds, CommandInv,
       TypeOK
<1>4. CASE ClockOK(guard)
  <2>1. /\ guard'.sensor = Clock(guard).sensor
        /\ guard'.pending = Clock(guard).pending
        /\ guard'.obstacle = Clock(guard).obstacle
    BY <1>1, <1>4 DEF Command, GuardType
  <2>2. CloudInv(guard', hist.obstacle)
    BY <1>2, <2>1 DEF CloudInv
  <2>3. kind = "invalid" => guard'.command = NoCommand
    BY <1>1, <1>4 DEF Command, GuardType
  <2>4. hist'.fresh = (kind # "invalid" /\ Permitted') /\ hist'.obstacle = hist.obstacle
    BY <1>4 DEF Command, Track, Inv, TypeOK
  <2>5. CommandInv(guard)'
    BY <2>3, <2>4 DEF CommandInv
  <2>6. StopHolds' /\ TypeOK'
    BY CommandTypeStep DEF Inv, Command, StopHolds
  <2>7. QED
    BY <2>2, <2>4, <2>5, <2>6 DEF Inv
<1>5. QED
  BY <1>3, <1>4

LEMMA ElapseStep ==
  ASSUME Inv, TimeElapses
  PROVE  Inv'
<1>1. /\ guard'.pending # NoCloud =>
           guard.pending # NoCloud /\ guard'.pending.obstacle = guard.pending.obstacle
      /\ guard'.sensor # NoSensor => guard.sensor # NoSensor
      /\ guard.sensor = NoSensor => guard'.sensor = NoSensor
      /\ guard'.obstacle = guard.obstacle
      /\ guard'.command # NoCommand => guard.command # NoCommand
  BY DEF TimeElapses, Inv, TypeOK, GuardType
<1>2. hist'.fresh = (hist.fresh /\ Permitted') /\ hist'.obstacle = hist.obstacle
  BY DEF TimeElapses, Track, Inv, TypeOK
<1>3. /\ operator'.blocked = operator.blocked /\ stability'.blocked = stability.blocked
      /\ Required(operator) => Required(operator')
      /\ Required(stability) => Required(stability')
  BY GuardAssumption DEF TimeElapses, Inv, TypeOK, HeartbeatType, Age, Older,
     GuardAssumption
<1>4. Permitted' => Permitted
  BY <1>3
<1>5. CommandInv(guard)'
  BY <1>1, <1>2, <1>4 DEF Inv, CommandInv
<1>6. CloudInv(guard, hist.obstacle)'
  BY <1>1, <1>2 DEF Inv, CloudInv
<1>7. StopHolds' /\ TypeOK'
  BY <1>3, ElapseType DEF Inv, StopHolds, TimeElapses
<1>8. QED
  BY <1>5, <1>6, <1>7 DEF Inv

LEMMA OperatorStep ==
  ASSUME Inv, NEW blocked \in BOOLEAN, OperatorCommand(blocked), TypeOK'
  PROVE  Inv'
<1> DEFINE edge == BlockEdge(operator, blocked)
<1>1. edge \in BOOLEAN
  BY DEF BlockEdge
<1>2. /\ CloudInv(guard', hist.obstacle)
      /\ guard'.command = IF edge THEN NoCommand ELSE guard.command
      /\ output' = IF edge THEN "zero" ELSE output
  BY <1>1, HeartbeatEffect DEF OperatorCommand
<1>3. /\ operator' = [blocked |-> blocked, age |-> 0]
      /\ UNCHANGED stability
      /\ hist'.obstacle = hist.obstacle
      /\ hist'.fresh = (hist.fresh /\ Permitted')
  BY DEF OperatorCommand, Track, Inv, TypeOK
<1>4. ~edge => ~Required(operator)
  BY DEF BlockEdge
<1>5. CommandInv(guard)'
  BY <1>2, <1>3, <1>4 DEF Inv, CommandInv
<1>6. StopHolds'
  BY <1>2, <1>3 DEF Inv, StopHolds, BlockEdge
<1>7. QED
  BY <1>2, <1>3, <1>5, <1>6 DEF Inv

LEMMA StackStep ==
  ASSUME Inv, NEW isReady \in BOOLEAN, StackReady(isReady), TypeOK'
  PROVE  Inv'
<1> DEFINE edge == BlockEdge(stability, ~isReady)
<1>1. edge \in BOOLEAN
  BY DEF BlockEdge
<1>2. /\ CloudInv(guard', hist.obstacle)
      /\ guard'.command = IF edge THEN NoCommand ELSE guard.command
      /\ output' = IF edge THEN "zero" ELSE output
  BY <1>1, HeartbeatEffect DEF StackReady
<1>3. /\ stability' = [blocked |-> ~isReady, age |-> 0]
      /\ UNCHANGED operator
      /\ hist'.obstacle = hist.obstacle
      /\ hist'.fresh = (hist.fresh /\ Permitted')
  BY DEF StackReady, Track, Inv, TypeOK
<1>4. ~edge => ~Required(stability)
  BY DEF BlockEdge
<1>5. CommandInv(guard)'
  BY <1>2, <1>3, <1>4 DEF Inv, CommandInv
<1>6. StopHolds'
  BY <1>2, <1>3 DEF Inv, StopHolds, BlockEdge
<1>7. QED
  BY <1>2, <1>3, <1>5, <1>6 DEF Inv

LEMMA InvStep == Inv /\ [Next]_vars => Inv'
<1> SUFFICES ASSUME Inv, [Next]_vars PROVE Inv'
  OBVIOUS
<1>1. TypeOK'
  BY TypeStep DEF Inv
<1>2. CASE AnyCommand
  BY <1>2, CommandStep DEF AnyCommand
<1>3. CASE AnyCloud
  <2> PICK stamp \in Stamps, obstacle \in BOOLEAN, outcome \in Outcomes :
        Cloud(stamp, obstacle, outcome)
    BY <1>3 DEF AnyCloud
  <2> DEFINE cloud == [stamp |-> stamp, obstacle |-> obstacle, age |-> 0]
             given == [guard EXCEPT !.pending = cloud]
  <2>1. cloud \in [stamp : Stamps \cup {0}, obstacle : BOOLEAN,
                   age : Age(SensorTimeout)] /\ cloud # NoCloud
    BY GuardAssumption DEF Age, GuardAssumption, NoCloud, Stamps
  <2>2. given \in GuardType /\ given.pending = cloud /\ given.command = guard.command
    BY <2>1 DEF Inv, TypeOK, GuardType
  <2>3. /\ CloudInv(guard', obstacle)
        /\ guard'.command \in {guard.command, NoCommand}
    BY <2>1, <2>2, ProcessEffect DEF Cloud
  <2>4. /\ hist'.obstacle = obstacle /\ hist'.fresh = hist.fresh
        /\ UNCHANGED <<operator, stability, output>>
    BY DEF Cloud, Inv, TypeOK
  <2>5. QED
    BY <1>1, <2>3, <2>4 DEF Inv, CommandInv, StopHolds
<1>4. CASE AnyTick
  BY <1>4, TickEffect DEF AnyTick
<1>5. CASE Go \/ OperatorCommand(TRUE)
  BY <1>1, <1>5, OperatorStep DEF Go
<1>6. CASE \E isReady \in BOOLEAN : StackReady(isReady)
  BY <1>1, <1>6, StackStep
<1>7. CASE RosAdvance \/ RosStepBack
  BY <1>1, <1>7 DEF RosAdvance, RosStepBack, Inv, CommandInv, CloudInv, StopHolds
<1>8. CASE TimeElapses
  BY <1>8, ElapseStep
<1>9. CASE UNCHANGED vars
  BY <1>1, <1>9 DEF vars, Inv, CommandInv, CloudInv, StopHolds
<1>10. QED
  BY <1>2, <1>3, <1>4, <1>5, <1>6, <1>7, <1>8, <1>9 DEF Next

LEMMA InvInit == Init => Inv
  BY InitType DEF Init, Inv, StopHolds, CommandInv, CloudInv, NoCommand, NoCloud,
     NoSensor

LEMMA InvHolds == Spec => []Inv
  BY InvInit, InvStep, PTL DEF Spec

\* A stop heartbeat keeps the last command sent at zero, however the two
\* heartbeats, the clouds, the commands and the clocks interleave.
THEOREM StopsHold == Spec => []StopHolds
<1>1. Inv => StopHolds
  BY DEF Inv
<1>2. QED
  BY <1>1, InvHolds, PTL

\* Only a command received after the last block of any kind is executed.
THEOREM OnlyFreshCommandsMove == Spec => FreshCommandsOnly
<1>1. Inv /\ [Next]_vars => [AnyTick /\ output' = "move" => hist.fresh]_vars
  BY TickEffect DEF AnyTick
<1>2. QED
  BY <1>1, InvHolds, PTL DEF Spec, FreshCommandsOnly

\* Motion is decided on the newest cloud received.
THEOREM OnlyNewestCloudMoves == Spec => NewestCloudDecides
<1>1. Inv /\ [Next]_vars => [AnyTick /\ output' = "move" => ~hist.obstacle]_vars
  BY TickEffect DEF AnyTick
<1>2. QED
  BY <1>1, InvHolds, PTL DEF Spec, NewestCloudDecides
=============================================================================
