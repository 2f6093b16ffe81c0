------------------------- MODULE StackMonitorProofs -------------------------
(***************************************************************************)
(* Proofs about StackStability, for every timeout, settling time and gap,  *)
(* and about the two programs StackMonitor composes with the inputs: the   *)
(* monitor implements StackStability, and what it and the gate conclude of *)
(* their windows is true of the messages and of the nodes.                 *)
(***************************************************************************)
EXTENDS StackMonitor, TLAPS

WindowType ==
  [phase : Phases, started : {Absent} \cup Age(Timeout),
   since : {Absent} \cup Age(Settle), last : {Absent} \cup Age(Gap),
   settled : BOOLEAN, poseSeen : BOOLEAN]

\* ReadyIsEarned is not inductive: the heartbeat says nothing of how long the
\* hold of the window has lasted.  The hold is never longer than the time
\* without a fault (in FAILED nothing counts any more), and what is derived
\* from it is derived in order.
Earned(w, quiet) ==
  /\ w.since # Absent /\ w.phase # "FAILED" => w.since <= quiet
  /\ w.phase = "FAILED" => ~w.settled
  /\ w.settled => w.since # Absent /\ w.since >= Settle
  /\ w.poseSeen => w.settled
  /\ w.phase = "READY" => w.poseSeen
  /\ w.last = Absent => w.since = Absent

Inv ==
  /\ window \in WindowType
  /\ hist \in Age(Settle)
  /\ heartbeat = (window.phase = "READY")
  /\ Earned(window, hist)

USE DEF Absent, Age

LEMMA FirstWindow ==
  ASSUME NEW w,
         w = [phase |-> "INPUT_WAITING", started |-> Absent, since |-> Absent,
              last |-> Absent, settled |-> FALSE, poseSeen |-> FALSE]
  PROVE  w \in WindowType /\ Earned(w, 0) /\ w.phase # "READY"
<1>1. w \in WindowType
  BY WindowAssumption DEF WindowType, Phases, WindowAssumption
<1>2. /\ w.phase = "INPUT_WAITING" /\ w.since = Absent
      /\ w.settled = FALSE /\ w.poseSeen = FALSE
  OBVIOUS
<1>3. QED
  BY <1>1, <1>2 DEF Earned

LEMMA OlderFacts ==
  ASSUME NEW limit \in Nat, NEW age \in Age(limit)
  PROVE  /\ Older(age, limit) \in Age(limit)
         /\ age <= Older(age, limit)
         /\ \A other \in Age(limit) :
              other <= age => Older(other, limit) <= Older(age, limit)
  BY DEF Older

LEMMA AgedType ==
  ASSUME NEW limit \in Nat, NEW age \in {Absent} \cup Age(limit)
  PROVE  Aged(age, limit) \in {Absent} \cup Age(limit)
  BY OlderFacts DEF Aged

LEMMA InitInv == Init => Inv
<1> SUFFICES ASSUME Init PROVE Inv
  OBVIOUS
<1>1. hist \in Age(Settle)
  BY WindowAssumption DEF Init, WindowAssumption
<1>2. QED
  BY <1>1, FirstWindow DEF Init, Inv

-----------------------------------------------------------------------------
(* What an update makes of a window, by whether it found a fault. *)

LEMMA FaultyInv ==
  ASSUME NEW w \in WindowType, NEW quiet
  PROVE  /\ Faulty(w) \in WindowType
         /\ Faulty(w).last = w.last
         /\ Faulty(w).phase = "INPUT_WAITING"
         /\ Faulty(w).since = Absent
         /\ Earned(Faulty(w), quiet)
<1>1. Timeout \in Nat
  BY WindowAssumption DEF WindowAssumption
<1>2. (IF Recovering(w) THEN 0 ELSE w.started) \in {Absent} \cup Age(Timeout)
  BY <1>1 DEF WindowType
<1>3. Faulty(w) \in WindowType
  BY <1>2 DEF Faulty, WindowType, Phases
<1>4. /\ Faulty(w).last = w.last /\ Faulty(w).phase = "INPUT_WAITING"
      /\ Faulty(w).since = Absent
      /\ Faulty(w).settled = FALSE /\ Faulty(w).poseSeen = FALSE
  BY DEF Faulty, WindowType
<1>5. QED
  BY <1>3, <1>4 DEF Earned

LEMMA SoundInv ==
  ASSUME NEW w \in WindowType, NEW poseReady \in BOOLEAN,
         NEW quiet \in Age(Settle), Earned(w, quiet), w.last # Absent,
         w.phase # "FAILED"
  PROVE  /\ Sound(w, poseReady) \in WindowType
         /\ Earned(Sound(w, poseReady), quiet)
<1> DEFINE since == IF w.since = Absent THEN 0 ELSE w.since
           settled == w.settled \/ since >= Settle
<1>1. since \in Age(Settle) /\ since <= quiet
  BY WindowAssumption DEF WindowType, Earned, WindowAssumption
<1>2. settled => since >= Settle
  BY DEF Earned
<1>3. settled \in BOOLEAN
  BY DEF WindowType
<1>4. Sound(w, poseReady) =
        [w EXCEPT !.since = since, !.settled = settled,
                  !.poseSeen = settled /\ poseReady,
                  !.phase = IF settled /\ poseReady THEN "READY"
                            ELSE IF settled THEN "INITIAL_POSE_REQUIRED"
                            ELSE "STABILIZING"]
  BY DEF Sound
<1> HIDE DEF since, settled
<1>5. Sound(w, poseReady) \in WindowType
  BY <1>1, <1>3, <1>4 DEF WindowType, Phases
<1>6. Earned(Sound(w, poseReady), quiet)
  BY <1>1, <1>2, <1>3, <1>4 DEF WindowType, Earned
<1>7. QED
  BY <1>5, <1>6

-----------------------------------------------------------------------------
(* The actions *)

LEMMA TickStep ==
  ASSUME Inv, NEW healthy \in BOOLEAN, NEW poseReady \in BOOLEAN,
         Tick(healthy, poseReady)
  PROVE  Inv'
<1> DEFINE w    == window
           next == Update(w, healthy, poseReady)
<1>1. hist' \in Age(Settle)
  BY WindowAssumption DEF Tick, Inv, WindowAssumption
<1>2. CASE w.phase = "FAILED"
  <2>1. next = w
    BY <1>2 DEF Update
  <2>2. window' = [w EXCEPT !.started = 0] /\ heartbeat' = FALSE
    BY <2>1, <1>2 DEF Tick
  <2>3. window' \in WindowType
    BY <2>2, WindowAssumption DEF Inv, WindowType, WindowAssumption
  <2>4. Earned(window', hist')
    BY <2>2, <1>2 DEF Inv, WindowType, Earned
  <2>5. QED
    BY <1>1, <1>2, <2>2, <2>3, <2>4 DEF Inv, WindowType
<1>3. CASE w.phase # "FAILED"
  <2> DEFINE seen == [w EXCEPT !.last = 0,
                               !.started = IF @ = Absent THEN 0 ELSE @]
             fault == ~healthy \/ Stalled(w) \/ PoseLost(w, poseReady)
             result == IF fault THEN Faulty(seen) ELSE Sound(seen, poseReady)
  <2>1. /\ seen \in WindowType
        /\ seen.last = 0
        /\ seen.phase # "FAILED"
        /\ Earned(seen, hist)
    <3>1. Timeout \in Nat /\ Gap \in Nat
      BY WindowAssumption DEF WindowAssumption
    <3>2. (IF w.started = Absent THEN 0 ELSE w.started)
            \in {Absent} \cup Age(Timeout)
      BY <3>1 DEF Inv, WindowType
    <3>3. seen \in WindowType
      <4> DEFINE start == IF w.started = Absent THEN 0 ELSE w.started
      <4>1. seen = [w EXCEPT !.last = 0, !.started = start]
        BY DEF Inv, WindowType
      <4>2. start \in {Absent} \cup Age(Timeout)
        BY <3>2
      <4>3. w \in WindowType /\ 0 \in {Absent} \cup Age(Gap)
        BY <3>1 DEF Inv
      <4> HIDE DEF start, seen, w
      <4>4. QED
        BY <4>1, <4>2, <4>3 DEF WindowType
    <3>4. /\ seen.last = 0 /\ seen.phase = w.phase /\ seen.since = w.since
          /\ seen.settled = w.settled /\ seen.poseSeen = w.poseSeen
      BY DEF Inv, WindowType
    <3>5. QED
      BY <1>3, <3>3, <3>4 DEF Inv, Earned
  <2>2. result \in WindowType /\ Earned(result, hist')
    <3>1. CASE fault
      BY <2>1, <3>1, FaultyInv
    <3>2. CASE ~fault
      <4>1. healthy /\ (w.last = Absent \/ w.last <= Gap)
        BY <3>2, WindowAssumption DEF Stalled, Inv, WindowType, WindowAssumption
      <4>2. w.phase = "READY" => poseReady
        BY <3>2 DEF PoseLost, Inv, Earned
      \* The history starts over without a fault only at the first update.
      <4>3. hist' = hist \/ (w.last = Absent /\ hist' = 0)
        BY <4>1, <4>2, WindowAssumption
           DEF Tick, Inv, WindowType, WindowAssumption
      <4>4. Earned(seen, hist')
        BY <4>3, <2>1 DEF Inv, WindowType, Earned
      <4>5. QED
        <5> HIDE DEF seen
        <5>1. /\ Sound(seen, poseReady) \in WindowType
              /\ Earned(Sound(seen, poseReady), hist')
          BY <1>1, <2>1, <4>4, SoundInv
        <5>2. QED
          BY <3>2, <5>1
    <3>3. QED
      BY <3>1, <3>2
  <2>3. next = IF ~result.settled /\ result.started >= Timeout
               THEN [result EXCEPT !.phase = "FAILED"] ELSE result
    BY <1>3 DEF Update
  <2> HIDE DEF result
  <2>4. next \in WindowType /\ Earned(next, hist')
    BY <2>2, <2>3 DEF WindowType, Phases, Earned
  <2> HIDE DEF next
  <2>5. /\ window' = IF next.phase = "FAILED" THEN [next EXCEPT !.started = 0]
                     ELSE next
        /\ heartbeat' = (next.phase = "READY")
    BY DEF Tick, next
  <2>6. window' \in WindowType /\ window'.phase = next.phase
    BY <2>4, <2>5, WindowAssumption DEF WindowType, WindowAssumption
  <2>7. Earned(window', hist')
    BY <2>4, <2>5 DEF WindowType, Earned
  <2>8. QED
    BY <1>1, <2>5, <2>6, <2>7 DEF Inv
<1>4. QED
  BY <1>2, <1>3

LEMMA ElapseStep == Inv /\ TimeElapses => Inv'
<1> SUFFICES ASSUME Inv, TimeElapses PROVE Inv'
  OBVIOUS
<1>1. /\ Timeout \in Nat /\ Settle \in Nat /\ Gap \in Nat
      /\ window.started \in {Absent} \cup Age(Timeout)
      /\ window.since \in {Absent} \cup Age(Settle)
      /\ window.last \in {Absent} \cup Age(Gap)
      /\ hist \in Age(Settle)
  BY WindowAssumption DEF Inv, WindowType, WindowAssumption
<1>2. window' = [window EXCEPT !.started = Aged(@, Timeout),
                               !.since = Aged(@, Settle),
                               !.last = Aged(@, Gap)]
  BY DEF TimeElapses
<1>3. window' \in WindowType
  <2>1. /\ Aged(window.started, Timeout) \in {Absent} \cup Age(Timeout)
        /\ Aged(window.since, Settle) \in {Absent} \cup Age(Settle)
        /\ Aged(window.last, Gap) \in {Absent} \cup Age(Gap)
    BY <1>1, AgedType
  <2>2. QED
    BY <1>2, <2>1 DEF Inv, WindowType
<1>4. hist' \in Age(Settle)
  BY <1>1, OlderFacts DEF TimeElapses
<1>5. /\ window.since = Absent => window'.since = Absent
      /\ window.since # Absent =>
           /\ window'.since \in Age(Settle)
           /\ window.since <= window'.since
           /\ window.since <= hist => window'.since <= hist'
  <2>1. window'.since = Aged(window.since, Settle) /\ hist' = Older(hist, Settle)
    BY <1>2 DEF TimeElapses, Inv, WindowType
  <2>2. QED
    BY <1>1, <2>1, OlderFacts DEF Aged
<1>6. window.last # Absent => window'.last # Absent
  BY <1>1, <1>2, OlderFacts DEF Aged, Inv, WindowType
<1>7. /\ window'.phase = window.phase
      /\ window'.settled = window.settled
      /\ window'.poseSeen = window.poseSeen
      /\ heartbeat' = heartbeat
  BY <1>2 DEF TimeElapses, Inv, WindowType
<1>8. Earned(window', hist')
  BY <1>1, <1>5, <1>6, <1>7 DEF Inv, Earned
<1>9. QED
  BY <1>3, <1>4, <1>7, <1>8 DEF Inv

LEMMA RestartStep == Restart => Inv'
<1> SUFFICES ASSUME Restart PROVE Inv'
  OBVIOUS
<1>1. hist' \in Age(Settle)
  BY WindowAssumption DEF Restart, WindowAssumption
<1>2. window' \in WindowType /\ Earned(window', 0) /\ window'.phase # "READY"
  BY FirstWindow DEF Restart
<1>3. QED
  BY <1>1, <1>2 DEF Restart, Inv

LEMMA NextStep == Inv /\ [Next]_vars => Inv'
<1> SUFFICES ASSUME Inv, [Next]_vars PROVE Inv'
  OBVIOUS
<1>1. CASE AnyTick
  BY <1>1, TickStep DEF AnyTick
<1>2. CASE TimeElapses
  BY <1>2, ElapseStep
<1>3. CASE Restart
  BY <1>3, RestartStep
<1>4. CASE UNCHANGED vars
  BY <1>4 DEF vars, Inv, Earned
<1>5. QED
  BY <1>1, <1>2, <1>3, <1>4 DEF Next

-----------------------------------------------------------------------------
\* Type correctness of the monitor, for every timeout, settling time and gap.
THEOREM TypeCorrect == Spec => []TypeOK
<1>1. Inv => TypeOK
  BY DEF Inv, WindowType, TypeOK
<1>2. QED
  BY <1>1, InitInv, NextStep, PTL DEF Spec

\* However ticks are late, the health flaps, the pose comes and goes and the
\* process restarts, `ready' is sent only after a whole settling time without
\* a fault.
THEOREM ReadyNeedsSettling == Spec => []ReadyIsEarned
<1>1. Inv => ReadyIsEarned
  BY WindowAssumption DEF Inv, Earned, ReadyIsEarned, WindowType, WindowAssumption
<1>2. QED
  BY <1>1, InitInv, NextStep, PTL DEF Spec

-----------------------------------------------------------------------------
(***************************************************************************)
(* The composition: first, what it does to the monitor's own variables is  *)
(* a step of StackStability.                                               *)
(***************************************************************************)

LEMMA MonitorStep == [StackNext]_allVars => [Next]_vars
<1> SUFFICES ASSUME [StackNext]_allVars PROVE [Next]_vars
  OBVIOUS
<1>1. CASE GateOnly
  BY <1>1 DEF GateOnly, monitor
<1>2. CASE AnyMonitorTick
  <2>1. PICK reachable \in SUBSET Node, arrived \in SUBSET Responses,
             sound \in BOOLEAN, pose \in BOOLEAN :
          MonitorTick(reachable, arrived, sound, pose)
    BY <1>2 DEF AnyMonitorTick
  <2>2. \E healthy, poseReady \in BOOLEAN : Tick(healthy, poseReady)
    BY <2>1 DEF MonitorTick
  <2>3. QED
    BY <2>2 DEF Next, AnyTick
<1>3. CASE MonitorRestart
  BY <1>3 DEF MonitorRestart, Next
<1>4. CASE World
  BY <1>4 DEF World, monitor
<1>5. CASE StackTime
  BY <1>5 DEF StackTime, Next
<1>6. CASE UNCHANGED allVars
  BY <1>6 DEF allVars
<1>7. QED
  BY <1>1, <1>2, <1>3, <1>4, <1>5, <1>6 DEF StackNext

\* The monitor, on the windows and the lifecycle poll it inherits from the gate,
\* implements StackStability: all that is proved of StackStability is true of it.
THEOREM MonitorIsStability == StackSpec => Spec
<1>1. StackInit => Init
  BY DEF StackInit
<1>2. QED
  BY <1>1, MonitorStep, PTL DEF StackSpec, Spec

-----------------------------------------------------------------------------
(***************************************************************************)
(* What the programs know of the inputs and of the nodes, and what is true *)
(* of them.                                                                *)
(***************************************************************************)

FreshType == [count : 0 .. MinMessages, span : 0 .. InputSettle,
              age : Age(MaxGap), lag : Int]
PoseType == [known : BOOLEAN, lag : Int]
LifeType == [future : {"none", "sent", "active", "other"},
             sent : Age(SentLimit), active : {Absent} \cup Age(KnownLimit)]

InputType ==
  /\ win \in [Topic -> FreshType]
  /\ previous \in [Topic -> PoseType]
  /\ life \in [Node -> LifeType]
  /\ past \in [calm : [Topic -> {Absent} \cup Age(PastLimit)],
               silent : [Topic -> Int], away : [Node -> Age(PastLimit)]]

\* A window that is not empty and was not silent began when the input was already
\* calm, and ends with the last message and the pose before.
Honest(w, pose, calm, silent) ==
  w.count > 0 /\ w.age <= MaxGap =>
    /\ calm # Absent /\ silent = w.age /\ w.span + w.age <= calm
    /\ pose.known /\ pose.lag = w.lag

\* The hold of the monitor is not longer than the calm of an input, unless the
\* next tick finds that the window was reset, or silent.
Held(w, reset, since, calm) ==
  since # Absent => reset \/ (w.count > 0 /\ (w.age > MaxGap \/ since <= calm))

\* A state was read after the question was sent, and at the last tick the question
\* was not overdue; an answer that counts was taken then, unless a tick came late
\* since, or that very tick did.
Asked(l, away, w, time) ==
  /\ l.future # "none" => w.last # Absent
  /\ l.future = "active" /\ l.sent <= QueryLimit => away <= l.sent
  /\ l.future = "active" => w.last > Gap \/ away <= QueryLimit + w.last
  /\ l.active # Absent =>
       l.active > KnownLimit \/ time <= l.active \/ away <= l.active + QueryLimit + Gap

Watching == kind = "monitor" /\ window.phase # "FAILED"

StackInv ==
  /\ Inv
  /\ InputType
  /\ \A t \in Topic : Honest(win[t], previous[t], past.calm[t], past.silent[t])
  /\ \A n \in Node : n \in up => past.away[n] = 0
  /\ late \in Age(KnownLimit)
  /\ PassIsEarned
  /\ Watching =>
       /\ \A t \in Topic : Held(win[t], t \in resets, window.since, past.calm[t])
       /\ \A n \in Node : Asked(life[n], past.away[n], window, late)

USE InputAssumption DEF InputAssumption

LEMMA SentLimitType == SentLimit \in Nat
  BY DEF SentLimit

LEMMA FirstInputs ==
  /\ Empty \in FreshType /\ NoPose \in PoseType
  /\ [future |-> "none", sent |-> Expired(SentLimit), active |-> Absent] \in LifeType
  BY SentLimitType DEF Empty, NoPose, FreshType, PoseType, LifeType, Expired

LEMMA StackInitInv == StackInit => StackInv
<1> SUFFICES ASSUME StackInit PROVE StackInv
  OBVIOUS
<1>1. Inv
  BY InitInv DEF StackInit
<1>2. InputType
  <2>1. past \in [calm : [Topic -> {Absent} \cup Age(PastLimit)],
                  silent : [Topic -> Int], away : [Node -> Age(PastLimit)]]
    BY DEF StackInit, GateInit, Expired
  <2>2. QED
    BY <2>1, FirstInputs DEF StackInit, GateInit, InputType
<1>3. \A t \in Topic : Honest(win[t], previous[t], past.calm[t], past.silent[t])
  BY DEF StackInit, GateInit, Honest, Empty
<1>4. PassIsEarned /\ up = {} /\ late \in Age(KnownLimit)
  BY DEF StackInit, GateInit, PassIsEarned, Expired
<1>5. /\ window.since = Absent
      /\ \A n \in Node : life[n].future = "none" /\ life[n].active = Absent
  BY DEF StackInit, GateInit, Init
<1>6. \A t \in Topic : Held(win[t], t \in resets, window.since, past.calm[t])
  BY <1>5 DEF Held
<1>7. \A n \in Node : Asked(life[n], past.away[n], window, late)
  BY <1>5 DEF Asked
<1>8. QED
  BY <1>1, <1>2, <1>3, <1>4, <1>6, <1>7 DEF StackInv

-----------------------------------------------------------------------------
(* Messages *)

LEMMA ExtendedFacts ==
  ASSUME NEW w \in FreshType, NEW pose \in PoseType, NEW lag \in Int,
         NEW calm \in {Absent} \cup Age(PastLimit), NEW silent \in Int,
         Honest(w, pose, calm, silent), NEW follows \in BOOLEAN,
         follows <=> pose.known /\ pose.lag - lag \in 1 .. MaxGap,
         NEW after, after = IF calm = Absent \/ ~follows THEN 0 ELSE calm
  PROVE  /\ Extended(w, lag) \in FreshType
         /\ Extended(w, lag).count > 0
         /\ Extended(w, lag).age = 0 /\ Extended(w, lag).lag = lag
         /\ after \in Age(PastLimit)
         /\ Extended(w, lag).span <= after
         /\ w.count > 0 /\ ~Breaks(w, lag) => after = calm /\ w.age <= MaxGap
<1>1. CASE w.count > 0 /\ ~Breaks(w, lag)
  <2>1. w.age <= MaxGap /\ w.lag - lag \in 1 .. MaxGap
    BY <1>1 DEF Breaks, FreshType
  <2>2. calm # Absent /\ w.span + w.age <= calm /\ pose.known /\ pose.lag = w.lag
    BY <1>1, <2>1 DEF Honest
  <2>3. after = calm
    BY <2>1, <2>2
  <2>4. Extended(w, lag) =
          [count |-> Least(w.count + 1, MinMessages),
           span |-> Least(w.span + w.age, InputSettle), age |-> 0, lag |-> lag]
    BY <1>1 DEF Extended, FreshType
  <2>5. /\ Least(w.count + 1, MinMessages) \in 1 .. MinMessages
        /\ Least(w.span + w.age, InputSettle) \in 0 .. InputSettle
        /\ Least(w.span + w.age, InputSettle) <= w.span + w.age
    BY DEF Least, FreshType
  <2>6. Extended(w, lag) \in FreshType
    BY <2>4, <2>5 DEF FreshType
  <2>7. /\ Extended(w, lag).count > 0
        /\ Extended(w, lag).age = 0 /\ Extended(w, lag).lag = lag
        /\ Extended(w, lag).span <= w.span + w.age
    BY <2>4, <2>5
  <2>8. after \in Age(PastLimit) /\ w.span + w.age <= after
    BY <2>2, <2>3
  <2>9. w.span + w.age \in Int /\ Extended(w, lag).span \in Int
    BY <2>6 DEF FreshType
  <2>10. Extended(w, lag).span <= after
    BY <2>7, <2>8, <2>9
  <2>11. QED
    BY <2>1, <2>3, <2>6, <2>7, <2>8, <2>10
<1>2. CASE ~(w.count > 0 /\ ~Breaks(w, lag))
  <2>1. Extended(w, lag) = [count |-> 1, span |-> 0, age |-> 0, lag |-> lag]
    BY <1>2 DEF Extended, Empty, Least, FreshType
  <2>2. Extended(w, lag) \in FreshType
    BY <2>1 DEF FreshType
  <2>3. QED
    BY <1>2, <2>1, <2>2
<1>3. QED
  BY <1>1, <1>2

LEMMA ReceiveStep == StackInv /\ AnyReceive /\ exit = "running" /\
                     UNCHANGED <<monitor, kind>> => StackInv'
<1> SUFFICES ASSUME StackInv, AnyReceive, exit = "running",
                    UNCHANGED <<monitor, kind>>
             PROVE  StackInv'
  OBVIOUS
<1>0. /\ life' = life /\ exit' = exit /\ up' = up /\ window' = window
      /\ hist' = hist /\ heartbeat' = heartbeat /\ kind' = kind /\ late' = late
  BY DEF AnyReceive, monitor, vars
\* One input changes; its window is broken, or goes on with a calm input.
<1>1. PICK t \in Topic, w \in FreshType, pose \in PoseType,
           calm \in {Absent} \cup Age(PastLimit) :
        /\ win' = [win EXCEPT ![t] = w]
        /\ previous' = [previous EXCEPT ![t] = pose]
        /\ past' = [calm |-> [past.calm EXCEPT ![t] = calm],
                    silent |-> [past.silent EXCEPT ![t] = 0],
                    away |-> past.away]
        /\ Honest(w, pose, calm, 0)
        /\ resets \subseteq resets'
        /\ \/ t \in resets'
           \/ win[t].count = 0
           \/ w.count > 0 /\ calm = past.calm[t] /\ win[t].age <= MaxGap
  <2>1. CASE \E t \in Topic, unstamped \in BOOLEAN : Invalid(t, unstamped)
    <3>1. PICK t \in Topic, unstamped \in BOOLEAN : Invalid(t, unstamped)
      BY <2>1
    <3>2. /\ win' = [win EXCEPT ![t] = Empty]
          /\ resets' = resets \cup {t}
          /\ past' = [calm |-> [past.calm EXCEPT ![t] = Absent],
                      silent |-> [past.silent EXCEPT ![t] = 0],
                      away |-> past.away]
      BY <3>1 DEF Invalid, Track, StackInv, InputType
    <3>3. PICK pose \in PoseType : previous' = [previous EXCEPT ![t] = pose]
      <4>1. previous' = [previous EXCEPT ![t] = IF unstamped THEN NoPose ELSE previous[t]]
        BY <3>1 DEF Invalid, StackInv, InputType
      <4>2. (IF unstamped THEN NoPose ELSE previous[t]) \in PoseType
        BY FirstInputs DEF StackInv, InputType
      <4>3. QED
        BY <4>1, <4>2
    <3>4. Honest(Empty, pose, Absent, 0)
      BY DEF Honest, Empty
    <3>5. QED
      BY <3>2, <3>3, <3>4, FirstInputs
  <2>2. CASE \E t \in Topic : \E outside, jump \in BOOLEAN, lag \in MinLag .. MaxAge + 1 :
               Odometry(t, outside, jump, lag)
    <3>1. PICK t \in Topic, outside \in BOOLEAN, jump \in BOOLEAN,
               lag \in MinLag .. MaxAge + 1 : Odometry(t, outside, jump, lag)
      BY <2>2
    <3> DEFINE follows == Follows(t, lag)
               bad     == outside \/ (jump /\ follows) \/ ~Fresh(lag)
               first   == IF past.calm[t] = Absent \/ ~follows THEN 0 ELSE past.calm[t]
               pose    == [known |-> TRUE, lag |-> lag]
    <3>2. /\ lag \in Int /\ follows \in BOOLEAN
          /\ follows <=> previous[t].known /\ previous[t].lag - lag \in 1 .. MaxGap
      BY DEF MinLag, Follows, StackInv, InputType, PoseType
    <3>3. /\ win[t] \in FreshType /\ previous[t] \in PoseType
          /\ past.calm[t] \in {Absent} \cup Age(PastLimit) /\ past.silent[t] \in Int
          /\ Honest(win[t], previous[t], past.calm[t], past.silent[t])
      BY DEF StackInv, InputType
    <3>4. /\ win' = [win EXCEPT ![t] = IF bad THEN Empty ELSE Extended(win[t], lag)]
          /\ resets' = IF bad \/ Breaks(win[t], lag) THEN resets \cup {t} ELSE resets
          /\ previous' = [previous EXCEPT ![t] = pose]
          /\ past' = [calm |-> [past.calm EXCEPT ![t] = IF bad THEN Absent ELSE first],
                      silent |-> [past.silent EXCEPT ![t] = 0],
                      away |-> past.away]
      <4>1. ~bad <=> ~outside /\ ~(jump /\ follows) /\ -FutureTolerance <= lag /\ lag <= MaxAge
        BY <3>2 DEF Fresh
      <4>2. /\ win' = [win EXCEPT ![t] = IF bad THEN Empty ELSE Extended(win[t], lag)]
            /\ resets' = IF bad \/ Breaks(win[t], lag) THEN resets \cup {t} ELSE resets
            /\ previous' = [previous EXCEPT ![t] = pose]
        BY <3>1 DEF Odometry
      <4>3. Track(t, ~bad, follows)
        BY <3>1, <4>1 DEF Odometry, Track
      <4>4. QED
        BY <4>2, <4>3 DEF Track, StackInv, InputType
    <3>5. pose \in PoseType
      BY <3>2 DEF PoseType
    <3> HIDE DEF bad, pose, follows
    <3>6. CASE bad
      <4>1. Honest(Empty, pose, Absent, 0)
        BY DEF Honest, Empty
      <4>2. QED
        BY <3>4, <3>5, <3>6, <4>1, FirstInputs
    <3>7. CASE ~bad
      <4>1. /\ Extended(win[t], lag) \in FreshType
            /\ Extended(win[t], lag).count > 0
            /\ Extended(win[t], lag).age = 0 /\ Extended(win[t], lag).lag = lag
            /\ first \in Age(PastLimit)
            /\ Extended(win[t], lag).span <= first
            /\ win[t].count > 0 /\ ~Breaks(win[t], lag) =>
                 first = past.calm[t] /\ win[t].age <= MaxGap
        BY <3>2, <3>3, ExtendedFacts
      <4>2. Honest(Extended(win[t], lag), pose, first, 0)
        BY <4>1 DEF Honest, FreshType, pose
      <4>3. /\ win' = [win EXCEPT ![t] = Extended(win[t], lag)]
            /\ past' = [calm |-> [past.calm EXCEPT ![t] = first],
                        silent |-> [past.silent EXCEPT ![t] = 0],
                        away |-> past.away]
            /\ resets' = IF Breaks(win[t], lag) THEN resets \cup {t} ELSE resets
        BY <3>4, <3>7
      <4>4. win[t].count \in Nat
        BY <3>3 DEF FreshType
      <4>5. /\ resets \subseteq resets'
            /\ \/ t \in resets'
               \/ win[t].count = 0
               \/ /\ Extended(win[t], lag).count > 0 /\ first = past.calm[t]
                  /\ win[t].age <= MaxGap
        BY <4>1, <4>3, <4>4
      <4>6. first \in {Absent} \cup Age(PastLimit)
        BY <4>1
      <4> HIDE DEF first
      <4>7. QED
        BY <3>4, <3>5, <4>1, <4>2, <4>3, <4>5, <4>6
    <3>8. QED
      BY <3>6, <3>7
  <2>3. QED
    BY <2>1, <2>2 DEF AnyReceive
<1>2. /\ \A other \in Topic :
           /\ other = t => /\ win'[other] = w /\ previous'[other] = pose
                           /\ past'.calm[other] = calm /\ past'.silent[other] = 0
           /\ other # t => /\ win'[other] = win[other]
                           /\ previous'[other] = previous[other]
                           /\ past'.calm[other] = past.calm[other]
                           /\ past'.silent[other] = past.silent[other]
      /\ past'.away = past.away
  BY <1>1 DEF StackInv, InputType
<1>3. InputType'
  BY <1>0, <1>1 DEF StackInv, InputType
<1>4. \A other \in Topic : Honest(win'[other], previous'[other],
                                  past'.calm[other], past'.silent[other])
  BY <1>1, <1>2 DEF StackInv
<1>5. Inv'
  BY <1>0 DEF StackInv, Inv, Earned
<1>6. PassIsEarned' /\ \A n \in Node : n \in up' => past'.away[n] = 0
  BY <1>0, <1>2 DEF StackInv, PassIsEarned
<1>7. Watching' => \A other \in Topic :
        Held(win'[other], other \in resets', window'.since, past'.calm[other])
  <2> SUFFICES ASSUME Watching, NEW other \in Topic, window.since # Absent
               PROVE  Held(win'[other], other \in resets', window.since, past'.calm[other])
    BY <1>0 DEF Watching, Held
  <2>1. Held(win[other], other \in resets, window.since, past.calm[other])
    BY DEF StackInv
  <2>2. win[other] \in FreshType
    BY DEF StackInv, InputType
  <2>3. CASE other = t
    BY <1>1, <1>2, <2>1, <2>2, <2>3 DEF Held, FreshType
  <2>4. CASE other # t
    BY <1>1, <1>2, <2>1, <2>4 DEF Held
  <2>5. QED
    BY <2>3, <2>4
<1>8. Watching' => \A n \in Node : Asked(life'[n], past'.away[n], window', late')
  BY <1>0, <1>2 DEF StackInv, Watching
<1>9. QED
  BY <1>0, <1>3, <1>4, <1>5, <1>6, <1>7, <1>8 DEF StackInv

-----------------------------------------------------------------------------
(* The ROS clock, the lifecycle nodes and their answers *)

LEMMA MovedStep ==
  ASSUME StackInv, NEW by \in Int, Moved(by), UNCHANGED <<monitor, kind>>
  PROVE  StackInv'
<1>1. /\ resets' = resets /\ life' = life /\ exit' = exit /\ up' = up
      /\ past' = past /\ window' = window /\ hist' = hist
      /\ heartbeat' = heartbeat /\ kind' = kind /\ late' = late
  BY DEF Moved, monitor, vars
<1>2. \A t \in Topic :
        /\ win'[t] \in FreshType
        /\ win'[t].count = win[t].count /\ win'[t].age = win[t].age
        /\ win'[t].span = win[t].span
        /\ previous'[t] \in PoseType /\ previous'[t].known = previous[t].known
        /\ win[t].count > 0 /\ previous[t].known /\ previous[t].lag = win[t].lag =>
             previous'[t].lag = win'[t].lag
  <2> TAKE t \in Topic
  <2> DEFINE To(lag) == Least(lag + by, MaxLag)
  <2>1. win[t] \in FreshType /\ previous[t] \in PoseType
    BY DEF StackInv, InputType
  <2>2. \A lag \in Int : To(lag) \in Int
    BY DEF Least, MaxLag
  <2>3. /\ win'[t] = IF win[t].count = 0 THEN win[t]
                     ELSE [win[t] EXCEPT !.lag = To(@)]
        /\ previous'[t] = IF ~previous[t].known THEN previous[t]
                          ELSE [previous[t] EXCEPT !.lag = To(@)]
    BY DEF Moved
  <2> HIDE DEF To
  <2>4. QED
    BY <2>1, <2>2, <2>3 DEF FreshType, PoseType
<1>3. InputType'
  <2>1. win' = [t \in Topic |-> win'[t]] /\ previous' = [t \in Topic |-> previous'[t]]
    BY DEF Moved
  <2>2. QED
    BY <1>1, <1>2, <2>1 DEF StackInv, InputType
<1>4. \A t \in Topic : Honest(win'[t], previous'[t], past'.calm[t], past'.silent[t])
  BY <1>1, <1>2 DEF StackInv, Honest
<1>5. Inv'
  BY <1>1 DEF StackInv, Inv, Earned
<1>6. Watching' => \A t \in Topic :
        Held(win'[t], t \in resets', window'.since, past'.calm[t])
  BY <1>1, <1>2 DEF StackInv, Watching, Held
<1>7. QED
  BY <1>1, <1>3, <1>4, <1>5, <1>6 DEF StackInv, Watching, PassIsEarned

LEMMA AnswerStep ==
  ASSUME StackInv, NEW n \in Node, Answer(n), UNCHANGED <<monitor, kind>>
  PROVE  StackInv'
<1>1. /\ win' = win /\ resets' = resets /\ previous' = previous /\ exit' = exit
      /\ up' = up /\ past' = past /\ window' = window /\ hist' = hist
      /\ heartbeat' = heartbeat /\ kind' = kind /\ late' = late
  BY DEF Answer, inputs, monitor, vars
<1>2. PICK future \in {"active", "other"} :
        /\ life' = [life EXCEPT ![n].future = future]
        /\ future = "active" => n \in up
  BY DEF Answer
<1>3. InputType'
  <2>1. life' \in [Node -> LifeType]
    BY <1>2 DEF StackInv, InputType, LifeType
  <2>2. QED
    BY <1>1, <2>1 DEF StackInv, InputType
<1>4. Inv'
  BY <1>1 DEF StackInv, Inv, Earned
<1>5. Watching' => \A m \in Node : Asked(life'[m], past'.away[m], window', late')
  <2> SUFFICES ASSUME Watching, NEW m \in Node
               PROVE  Asked(life'[m], past.away[m], window, late)
    BY <1>1 DEF Watching
  <2>1. Asked(life[m], past.away[m], window, late) /\ life[m] \in LifeType
    BY DEF StackInv, InputType
  <2>2. CASE m = n
    <3>1. /\ life'[m] = [life[m] EXCEPT !.future = future]
          /\ life[m].future = "sent"
      BY <1>2, <2>2 DEF Answer, StackInv, InputType
    <3>2. /\ life'[m].future = future /\ life'[m].active = life[m].active
          /\ life'[m].sent = life[m].sent /\ life[m].sent \in Age(SentLimit)
      BY <2>1, <3>1 DEF LifeType
    <3>3. window.last # Absent /\ window.last \in {Absent} \cup Age(Gap)
      BY <2>1, <3>1 DEF Asked, StackInv, Inv, WindowType
    <3>4. future = "active" => past.away[m] = 0
      BY <1>2, <2>2 DEF StackInv
    <3>5. QED
      BY <2>1, <3>2, <3>3, <3>4, SentLimitType, WindowAssumption
         DEF Asked, WindowAssumption
  <2>3. CASE m # n
    BY <1>2, <2>1, <2>3 DEF StackInv, InputType
  <2>4. QED
    BY <2>2, <2>3
<1>6. QED
  BY <1>1, <1>3, <1>4, <1>5 DEF StackInv, Watching, PassIsEarned

LEMMA NodeStep ==
  ASSUME StackInv, NEW n \in Node, NodeChanges(n), UNCHANGED <<monitor, kind>>
  PROVE  StackInv'
<1>1. /\ win' = win /\ resets' = resets /\ previous' = previous /\ exit' = exit
      /\ life' = life /\ window' = window /\ hist' = hist
      /\ heartbeat' = heartbeat /\ kind' = kind /\ late' = late
  BY DEF NodeChanges, inputs, monitor, vars
<1>2. /\ past'.calm = past.calm /\ past'.silent = past.silent
      /\ past'.away = [past.away EXCEPT ![n] = 0]
      /\ past' \in [calm : [Topic -> {Absent} \cup Age(PastLimit)],
                    silent : [Topic -> Int], away : [Node -> Age(PastLimit)]]
  BY DEF NodeChanges, StackInv, InputType
<1>3. up' \subseteq up \cup {n}
  BY DEF NodeChanges
<1>4. InputType'
  BY <1>1, <1>2 DEF StackInv, InputType
<1>5. Inv'
  BY <1>1 DEF StackInv, Inv, Earned
<1>6. \A m \in Node : m \in up' => past'.away[m] = 0
  BY <1>2, <1>3 DEF StackInv, InputType
<1>7. Watching' => \A m \in Node : Asked(life'[m], past'.away[m], window', late')
  <2> SUFFICES ASSUME Watching, NEW m \in Node
               PROVE  Asked(life[m], past'.away[m], window, late)
    BY <1>1 DEF Watching
  <2>1. /\ Asked(life[m], past.away[m], window, late) /\ life[m] \in LifeType
        /\ past.away[m] \in Age(PastLimit)
        /\ window.last \in {Absent} \cup Age(Gap)
    BY DEF StackInv, InputType, Inv, WindowType
  <2>2. past'.away[m] \in {0, past.away[m]}
    BY <1>2 DEF StackInv, InputType
  <2>3. past'.away[m] = 0 => Asked(life[m], past'.away[m], window, late)
    BY <2>1, SentLimitType, WindowAssumption DEF Asked, LifeType, WindowAssumption
  <2>4. QED
    BY <2>1, <2>2, <2>3
<1>8. QED
  BY <1>1, <1>2, <1>4, <1>5, <1>6, <1>7 DEF StackInv, Watching, PassIsEarned

LEMMA WorldStep == StackInv /\ World => StackInv'
<1> SUFFICES ASSUME StackInv, World PROVE StackInv'
  OBVIOUS
<1>1. CASE AnyReceive
  BY <1>1, ReceiveStep DEF World
<1>2. CASE RosAdvance
  BY <1>2, MovedStep DEF World, RosAdvance
<1>3. CASE RosStepBack
  BY <1>3, MovedStep DEF World, RosStepBack
<1>4. CASE \E n \in Node : Answer(n)
  BY <1>4, AnswerStep DEF World
<1>5. CASE \E n \in Node : NodeChanges(n)
  BY <1>5, NodeStep DEF World
<1>6. QED
  BY <1>1, <1>2, <1>3, <1>4, <1>5 DEF World

-----------------------------------------------------------------------------
(* The two timers *)

\* What a tick makes of a question: it takes the answer, leaves one that is not
\* overdue, or forgets; it may ask again.
LEMMA PollFacts ==
  ASSUME InputType, NEW reachable \in SUBSET Node, NEW arrived \in SUBSET Responses
  PROVE  /\ Poll(reachable, arrived) \in [Node -> LifeType]
         /\ \A n \in Node :
              /\ Poll(reachable, arrived)[n].future = "active" =>
                   /\ life[n].future = "active" /\ life[n].sent <= QueryLimit
                   /\ Poll(reachable, arrived)[n].sent = life[n].sent
              /\ \/ life[n].future = "active" /\ Poll(reachable, arrived)[n].active = 0
                 \/ Poll(reachable, arrived)[n].active \in {Absent, life[n].active}
<1> DEFINE polled == Poll(reachable, arrived)
<1> SUFFICES ASSUME NEW n \in Node
             PROVE  /\ polled[n] \in LifeType
                    /\ polled[n].future = "active" =>
                         /\ life[n].future = "active" /\ life[n].sent <= QueryLimit
                         /\ polled[n].sent = life[n].sent
                    /\ \/ life[n].future = "active" /\ polled[n].active = 0
                       \/ polled[n].active \in {Absent, life[n].active}
  BY DEF Poll
<1> DEFINE l == Answered(life[n], n \in arrived)
<1>1. life[n] \in LifeType
  BY DEF InputType
<1>2. /\ l \in LifeType
      /\ l.future = "active" =>
           /\ life[n].future = "active" /\ life[n].sent <= QueryLimit
           /\ l.sent = life[n].sent
      /\ \/ life[n].future = "active" /\ l.active = 0
         \/ l.active \in {Absent, life[n].active}
  <2>1. CASE n \in arrived
    <3> DEFINE active == IF life[n].future = "active" THEN 0 ELSE Absent
    <3>1. l = [life[n] EXCEPT !.future = "none", !.active = active]
      BY <2>1 DEF Answered
    <3>2. /\ active \in {Absent} \cup Age(KnownLimit)
          /\ \/ active = 0 /\ life[n].future = "active"
             \/ active = Absent
      OBVIOUS
    <3> HIDE DEF l, active
    <3>3. l.future = "none" /\ l.active = active /\ l \in LifeType
      BY <1>1, <3>1, <3>2 DEF LifeType
    <3>4. QED
      BY <3>2, <3>3
  <2>2. CASE n \notin arrived
    <3>1. l = IF life[n].future # "none" /\ life[n].sent > QueryLimit
              THEN [life[n] EXCEPT !.future = "none", !.active = Absent]
              ELSE life[n]
      BY <2>2 DEF Answered
    <3>2. life[n].sent \in Int
      BY <1>1, SentLimitType DEF LifeType
    <3> HIDE DEF l
    <3>3. CASE l = [life[n] EXCEPT !.future = "none", !.active = Absent]
      BY <1>1, <3>3 DEF LifeType
    <3>4. CASE l = life[n] /\ (life[n].future = "active" => life[n].sent <= QueryLimit)
      BY <1>1, <3>4 DEF LifeType
    <3>5. QED
      BY <3>1, <3>2, <3>3, <3>4
  <2>3. QED
    BY <2>1, <2>2
<1>3. polled[n] = IF l.future = "none" /\ l.sent >= AskAgain /\ n \in reachable
                  THEN [l EXCEPT !.future = "sent", !.sent = 0] ELSE l
  BY DEF Poll
<1> HIDE DEF l, polled
<1>4. polled[n] \in {l, [l EXCEPT !.future = "sent", !.sent = 0]}
  BY <1>3
<1>5. 0 \in Age(SentLimit)
  BY SentLimitType
<1>6. CASE polled[n] = l
  BY <1>2, <1>6
<1>7. CASE polled[n] = [l EXCEPT !.future = "sent", !.sent = 0]
  BY <1>2, <1>5, <1>7 DEF LifeType
<1>8. QED
  BY <1>4, <1>6, <1>7

LEMMA PolledFacts ==
  ASSUME NEW w \in FreshType, NEW pose, NEW calm, NEW silent,
         Honest(w, pose, calm, silent)
  PROVE  /\ Polled(w) \in FreshType
         /\ Honest(Polled(w), pose, calm, silent)
         /\ Settled(w) => Polled(w) = w /\ w.count > 0 /\ w.age <= MaxGap
  BY FirstInputs DEF Polled, Settled, Stale, Honest, Empty, FreshType

LEMMA GateOnlyStep == StackInv /\ GateOnly => StackInv'
<1> SUFFICES ASSUME StackInv, GateOnly PROVE StackInv'
  OBVIOUS
<1>1. CASE Interrupted
  BY <1>1 DEF Interrupted, GateOnly, monitor, vars, inputs, StackInv, Inv, Earned,
              InputType, PassIsEarned, Watching
<1>2. CASE AnyGateTick
  <2>1. PICK reachable \in SUBSET Node, arrived \in SUBSET Responses, tf \in BOOLEAN :
          GateTick(reachable, arrived, tf)
    BY <1>2 DEF AnyGateTick
  <2>2. /\ life' = Poll(reachable, arrived)
        /\ win' = [t \in Topic |-> Polled(win[t])]
        /\ resets' = resets /\ previous' = previous /\ up' = up /\ past' = past
        /\ window' = window /\ hist' = hist /\ heartbeat' = heartbeat
        /\ kind' = kind /\ late' = late /\ ~Watching
    BY <2>1 DEF GateTick, GateOnly, monitor, vars, Watching
  <2>3. \A t \in Topic :
          /\ win[t] \in FreshType
          /\ Honest(win[t], previous[t], past.calm[t], past.silent[t])
    BY DEF StackInv, InputType
  <2>4. \A t \in Topic :
          /\ Polled(win[t]) \in FreshType
          /\ Honest(Polled(win[t]), previous[t], past.calm[t], past.silent[t])
          /\ Settled(win[t]) => win[t].count > 0 /\ win[t].age <= MaxGap
    BY <2>3, PolledFacts
  <2>5. InputType'
    BY <2>2, <2>4, PollFacts DEF StackInv, InputType
  <2>6. Inv'
    BY <2>2 DEF StackInv, Inv, Earned
  <2>7. PassIsEarned'
    <3>1. CASE exit' = "passed"
      <4>1. \A t \in Topic : Settled(win[t])
        BY <2>1, <3>1 DEF GateTick
      <4>2. \A t \in Topic : past.calm[t] >= InputSettle
        <5> TAKE t \in Topic
        <5>1. win[t] \in FreshType /\ win[t].span >= InputSettle
          BY <2>3, <4>1 DEF Settled
        <5>2. past.calm[t] \in {Absent} \cup Age(PastLimit)
          BY DEF StackInv, InputType
        <5>3. win[t].span + win[t].age <= past.calm[t]
          BY <2>3, <2>4, <4>1 DEF Honest
        <5>4. QED
          BY <5>1, <5>2, <5>3 DEF FreshType
      <4>3. QED
        BY <2>2, <4>2 DEF PassIsEarned
    <3>2. QED
      BY <3>1 DEF PassIsEarned
  <2>8. QED
    BY <2>2, <2>4, <2>5, <2>6, <2>7 DEF StackInv, Watching
<1>3. QED
  BY <1>1, <1>2 DEF GateOnly

\* What an update that counts as free of faults needs, and what it makes of the
\* window.
LEMMA TickFacts ==
  ASSUME Inv, NEW healthy \in BOOLEAN, NEW poseReady \in BOOLEAN,
         Tick(healthy, poseReady), window'.phase # "FAILED"
  PROVE  /\ window.phase # "FAILED" /\ window'.last = 0
         /\ window'.since # Absent =>
              /\ healthy
              /\ window.last = Absent \/ window.last <= Gap
              /\ window'.since = IF window.since = Absent THEN 0 ELSE window.since
         /\ window'.phase = "READY" => poseReady /\ window'.since # Absent
<1> DEFINE start  == IF window.started = Absent THEN 0 ELSE window.started
           seen   == [window EXCEPT !.last = 0,
                                    !.started = IF @ = Absent THEN 0 ELSE @]
           fault  == ~healthy \/ Stalled(window) \/ PoseLost(window, poseReady)
           result == IF fault THEN Faulty(seen) ELSE Sound(seen, poseReady)
           next   == Update(window, healthy, poseReady)
<1>1. window \in WindowType /\ Timeout \in Nat /\ Gap \in Nat
  BY WindowAssumption DEF Inv, WindowAssumption
<1>2. window' = IF next.phase = "FAILED" THEN [next EXCEPT !.started = 0] ELSE next
  BY DEF Tick
<1>3. window.phase # "FAILED"
  <2>1. SUFFICES ASSUME window.phase = "FAILED" PROVE FALSE
    OBVIOUS
  <2>2. next = window
    BY <2>1 DEF Update
  <2>3. window' = [window EXCEPT !.started = 0]
    BY <1>2, <2>1, <2>2
  <2>4. QED
    BY <1>1, <2>1, <2>3 DEF WindowType
<1>4. /\ seen \in WindowType /\ seen.last = 0 /\ seen.since = window.since
  <2>1. seen = [window EXCEPT !.last = 0, !.started = start]
    BY <1>1 DEF WindowType
  <2>2. start \in {Absent} \cup Age(Timeout)
    BY <1>1 DEF WindowType
  <2>3. window \in WindowType /\ 0 \in {Absent} \cup Age(Gap)
    BY <1>1
  <2> HIDE DEF seen, start
  <2>4. QED
    BY <2>1, <2>2, <2>3 DEF WindowType
<1>5. next = IF ~result.settled /\ result.started >= Timeout
             THEN [result EXCEPT !.phase = "FAILED"] ELSE result
  BY <1>3 DEF Update
<1> HIDE DEF seen, start
<1>6. CASE fault
  <2>1. /\ result \in WindowType /\ result.last = 0 /\ result.since = Absent
        /\ result.phase = "INPUT_WAITING"
    BY <1>4, <1>6, FaultyInv
  <2> HIDE DEF result
  <2>2. next \in {result, [result EXCEPT !.phase = "FAILED"]}
    BY <1>5
  <2> HIDE DEF next
  <2>3. window' = result
    BY <1>2, <2>1, <2>2 DEF WindowType
  <2>4. QED
    BY <1>3, <2>1, <2>3
<1>7. CASE ~fault
  <2> DEFINE since   == IF window.since = Absent THEN 0 ELSE window.since
             settled == seen.settled \/ since >= Settle
  <2>0. since \in Age(Settle) /\ settled \in BOOLEAN
    BY <1>1, <1>4, WindowAssumption DEF WindowType, WindowAssumption
  <2>1. /\ result.last = 0 /\ result.since = since
        /\ result.phase = "READY" => poseReady
        /\ window' \in {result, [result EXCEPT !.phase = "FAILED"],
                        [[result EXCEPT !.phase = "FAILED"] EXCEPT !.started = 0]}
           => window' = result
    <3>1. result = [seen EXCEPT !.since = since, !.settled = settled,
                       !.poseSeen = settled /\ poseReady,
                       !.phase = IF settled /\ poseReady THEN "READY"
                                 ELSE IF settled THEN "INITIAL_POSE_REQUIRED"
                                 ELSE "STABILIZING"]
      BY <1>4, <1>7 DEF Sound
    <3> HIDE DEF result, since, settled
    <3>2. result.last = 0 /\ result.since = since /\ (result.phase = "READY" => poseReady)
      BY <1>4, <3>1 DEF WindowType
    <3>3. result \in WindowType
      BY <1>4, <2>0, <3>1 DEF WindowType, Phases
    <3>4. /\ [result EXCEPT !.phase = "FAILED"].phase = "FAILED"
          /\ [[result EXCEPT !.phase = "FAILED"] EXCEPT !.started = 0].phase = "FAILED"
      BY <3>3 DEF WindowType
    <3>5. QED
      BY <3>2, <3>4
  <2>2. /\ healthy /\ (window.last = Absent \/ window.last <= Gap)
        /\ result.since # Absent
    BY <1>1, <1>7, <2>0, <2>1 DEF Stalled, WindowType
  <2> HIDE DEF result
  <2>3. next \in {result, [result EXCEPT !.phase = "FAILED"]}
    BY <1>5
  <2> HIDE DEF next
  <2>4. window' = result
    BY <1>2, <2>1, <2>3
  <2>5. QED
    BY <1>3, <2>1, <2>2, <2>4
<1>8. QED
  BY <1>6, <1>7

\* What the monitor derives from the inputs and the nodes at a tick, which READY
\* and the hold rest on.
LEMMA MonitorTickStep ==
  ASSUME StackInv, AnyMonitorTick
  PROVE  /\ StackInv'
         /\ heartbeat' =>
              /\ \A t \in Topic : past.calm[t] >= Settle
              /\ \A n \in Node :
                   late' > Counts(n) => past.away[n] <= Counts(n) + QueryLimit + Gap
<1>1. PICK reachable \in SUBSET Node, arrived \in SUBSET Responses,
           sound \in BOOLEAN, pose \in BOOLEAN :
        MonitorTick(reachable, arrived, sound, pose)
  BY DEF AnyMonitorTick
<1> DEFINE polled == Poll(reachable, arrived)
           known  == {n \in Node : ActiveWithin(polled[n], KnownLimit)}
           navigation == known = Node
           healthy ==
             /\ \A t \in Topic : Settled(win[t])
             /\ Localized(polled, sound)
             /\ ~Changed(known)
             /\ pose => navigation
           poseReady == pose /\ navigation
<1>2. /\ life' = polled /\ resets' = {} /\ kind = "monitor" /\ kind' = kind
      /\ win' = [t \in Topic |-> Polled(win[t])]
      /\ previous' = previous /\ exit' = exit /\ up' = up /\ past' = past
      /\ late' = IF window.last > Gap THEN 0 ELSE late
  BY <1>1 DEF AnyMonitorTick, MonitorTick
<1>3. Tick(healthy, poseReady) /\ healthy \in BOOLEAN /\ poseReady \in BOOLEAN
  BY <1>1 DEF MonitorTick
<1>4. Inv'
  <2>1. Inv
    BY DEF StackInv
  <2> HIDE DEF healthy, poseReady
  <2>2. QED
    BY <1>3, <2>1, TickStep
<1>5. \A t \in Topic :
        /\ win[t] \in FreshType
        /\ Honest(win[t], previous[t], past.calm[t], past.silent[t])
        /\ past.calm[t] \in {Absent} \cup Age(PastLimit)
  BY DEF StackInv, InputType
<1>6. \A t \in Topic :
        /\ Polled(win[t]) \in FreshType
        /\ Honest(Polled(win[t]), previous[t], past.calm[t], past.silent[t])
        /\ Settled(win[t]) =>
             Polled(win[t]) = win[t] /\ win[t].count > 0 /\ win[t].age <= MaxGap
  BY <1>5, PolledFacts
<1>7. /\ polled \in [Node -> LifeType]
      /\ \A n \in Node :
           /\ polled[n].future = "active" =>
                /\ life[n].future = "active" /\ life[n].sent <= QueryLimit
                /\ polled[n].sent = life[n].sent
           /\ \/ life[n].future = "active" /\ polled[n].active = 0
              \/ polled[n].active \in {Absent, life[n].active}
  BY PollFacts DEF StackInv
<1>8. InputType'
  BY <1>2, <1>6, <1>7 DEF StackInv, InputType
<1>9. window.last = Absent => window.since = Absent
  BY DEF StackInv, Inv, Earned
<1>10. /\ window.since \in {Absent} \cup Age(Settle)
       /\ window.last \in {Absent} \cup Age(Gap)
       /\ Settle \in Nat /\ Gap \in Nat
  BY WindowAssumption DEF StackInv, Inv, WindowType, WindowAssumption
<1>11. window'.phase # "FAILED" =>
         /\ window.phase # "FAILED" /\ window'.last = 0
         /\ window'.since # Absent =>
              /\ healthy
              /\ window.last = Absent \/ window.last <= Gap
              /\ window'.since = IF window.since = Absent THEN 0 ELSE window.since
         /\ window'.phase = "READY" => poseReady /\ window'.since # Absent
  <2>1. Inv
    BY DEF StackInv
  <2> HIDE DEF healthy, poseReady
  <2>2. QED
    BY <1>3, <2>1, TickFacts
<1>12. ASSUME window'.phase # "FAILED", window'.since # Absent, NEW t \in Topic
       PROVE  /\ Polled(win[t]) = win[t] /\ win[t].count > 0
              /\ window'.since <= past.calm[t]
  <2>1. /\ Settled(win[t]) /\ ~Stale(win[t]) /\ ~Changed(known)
        /\ window.phase # "FAILED"
        /\ window'.since = IF window.since = Absent THEN 0 ELSE window.since
    BY <1>11, <1>12 DEF Settled
  <2>2. /\ Polled(win[t]) = win[t] /\ win[t].count > 0 /\ win[t].age <= MaxGap
        /\ past.calm[t] \in Age(PastLimit)
    BY <1>5, <1>6, <2>1 DEF Honest
  <2>3. CASE window.since = Absent
    BY <2>1, <2>2, <2>3
  <2>4. CASE window.since # Absent
    <3>1. resets = {}
      BY <1>9, <2>1, <2>4 DEF Changed
    <3>2. Held(win[t], t \in resets, window.since, past.calm[t])
      BY <1>2, <2>1 DEF StackInv, Watching
    <3>3. window.since <= past.calm[t]
      BY <1>5, <2>2, <2>4, <3>1, <3>2 DEF Held, FreshType
    <3>4. QED
      BY <2>1, <2>2, <2>4, <3>3
  <2>5. QED
    BY <2>3, <2>4
<1>13. ASSUME window'.phase # "FAILED", NEW n \in Node
       PROVE  Asked(polled[n], past.away[n], window', late')
  <2>1. /\ window'.last = 0 /\ window.phase # "FAILED"
        /\ polled[n].active \in {Absent} \cup Age(KnownLimit)
        /\ past.away[n] \in Age(PastLimit)
        /\ late \in Age(KnownLimit) /\ life[n].sent \in Age(SentLimit)
    BY <1>7, <1>11, <1>13 DEF LifeType, StackInv, InputType
  <2>2. Asked(life[n], past.away[n], window, late)
    BY <1>2, <2>1 DEF StackInv, Watching
  \* A question that stays open was sent at most QueryLimit ago.
  <2>3. ASSUME polled[n].future = "active"
        PROVE  /\ past.away[n] <= polled[n].sent
               /\ past.away[n] <= QueryLimit + window'.last
    BY <1>7, <2>1, <2>2, <2>3, SentLimitType DEF Asked
  <2>4. ASSUME polled[n].active # Absent
        PROVE  \/ polled[n].active > KnownLimit
               \/ late' <= polled[n].active
               \/ past.away[n] <= polled[n].active + QueryLimit + Gap
    <3>1. CASE window.last > Gap
      BY <1>2, <2>1, <2>4, <3>1
    <3>2. CASE ~(window.last > Gap) /\ life[n].future = "active" /\ polled[n].active = 0
      BY <1>10, <2>1, <2>2, <3>2 DEF Asked
    <3>3. CASE ~(window.last > Gap) /\ polled[n].active = life[n].active
      BY <1>2, <2>2, <2>4, <3>3 DEF Asked
    <3>4. QED
      BY <1>7, <2>4, <3>1, <3>2, <3>3
  <2>5. QED
    BY <2>1, <2>3, <2>4 DEF Asked
<1>14. StackInv'
  <2>1. \A t \in Topic : Honest(win'[t], previous'[t], past'.calm[t], past'.silent[t])
    BY <1>2, <1>6
  <2>2. /\ PassIsEarned'
        /\ \A n \in Node : n \in up' => past'.away[n] = 0
    BY <1>2 DEF StackInv, PassIsEarned
  <2>3. Watching' => \A t \in Topic :
          Held(win'[t], t \in resets', window'.since, past'.calm[t])
    BY <1>2, <1>12 DEF Watching, Held
  <2>4. Watching' => \A n \in Node : Asked(life'[n], past'.away[n], window', late')
    BY <1>2, <1>13 DEF Watching
  <2> HIDE DEF polled, known, healthy, poseReady
  <2>5. late' \in Age(KnownLimit)
    <3>1. late \in Age(KnownLimit) /\ late' \in {0, late}
      BY <1>2 DEF StackInv
    <3>2. QED
      BY <3>1
  <2>6. QED
    BY <1>4, <1>8, <2>1, <2>2, <2>3, <2>4, <2>5 DEF StackInv
<1>15. ASSUME heartbeat'
       PROVE  /\ \A t \in Topic : past.calm[t] >= Settle
              /\ \A n \in Node :
                   late' > Counts(n) => past.away[n] <= Counts(n) + QueryLimit + Gap
  <2>1. window'.phase = "READY" /\ window'.since >= Settle
    BY <1>4, <1>15 DEF Inv, Earned
  <2>2. poseReady /\ window'.since # Absent
    BY <1>11, <2>1
  <2>3. window'.since \in Age(Settle)
    BY <1>4, <2>2 DEF Inv, WindowType
  <2>4. ASSUME NEW t \in Topic PROVE past.calm[t] >= Settle
    <3>1. window'.since <= past.calm[t]
      BY <1>12, <2>1, <2>2
    <3>2. past.calm[t] \in Int
      BY <1>5
    <3>3. QED
      BY <1>10, <2>1, <2>3, <3>1, <3>2
  <2>5. ASSUME NEW n \in Node, late' > Counts(n)
        PROVE  past.away[n] <= Counts(n) + QueryLimit + Gap
    <3>1. healthy /\ n \in known
      BY <1>11, <2>1, <2>2
    <3>2. /\ polled[n].active # Absent /\ polled[n].active <= KnownLimit
          /\ n \in Required => polled[n].active <= ActiveLimit
          /\ polled[n].active \in Int
      BY <1>7, <3>1 DEF ActiveWithin, Localized, LifeType
    <3>3. polled[n].active <= Counts(n) /\ Counts(n) \in Nat /\ late' \in Int
      BY <1>14, <3>2 DEF Counts, StackInv
    <3>4. Asked(polled[n], past.away[n], window', late')
      BY <1>13, <2>1
    <3> HIDE DEF polled
    <3>5. past.away[n] <= polled[n].active + QueryLimit + Gap
      BY <1>10, <2>5, <3>2, <3>3, <3>4 DEF Asked
    <3>6. past.away[n] \in Int
      BY DEF StackInv, InputType
    <3>7. QED
      BY <1>10, <3>2, <3>3, <3>5, <3>6
  <2>6. QED
    BY <2>4, <2>5
<1>16. QED
  BY <1>14, <1>15

LEMMA RestartedStep == StackInv /\ MonitorRestart => StackInv'
<1> SUFFICES ASSUME StackInv, MonitorRestart PROVE StackInv'
  OBVIOUS
<1>1. Inv'
  BY RestartStep DEF MonitorRestart
<1>2. /\ win' = [t \in Topic |-> Empty] /\ resets' = {}
      /\ previous' = [t \in Topic |-> NoPose]
      /\ \A n \in Node : life'[n].future = "none" /\ life'[n].active = Absent
      /\ life' \in [Node -> LifeType]
      /\ up' = up /\ past' = past /\ exit' = exit
      /\ window'.since = Absent /\ late' \in Age(KnownLimit)
  BY FirstInputs DEF MonitorRestart, Restart, Expired
<1>3. InputType'
  BY <1>2, FirstInputs DEF StackInv, InputType
<1>4. \A t \in Topic : Honest(win'[t], previous'[t], past'.calm[t], past'.silent[t])
  BY <1>2 DEF Honest, Empty
<1>5. \A t \in Topic : Held(win'[t], t \in resets', window'.since, past'.calm[t])
  BY <1>2 DEF Held
<1>6. \A n \in Node : Asked(life'[n], past'.away[n], window', late')
  BY <1>2 DEF Asked
<1>7. PassIsEarned' /\ \A n \in Node : n \in up' => past'.away[n] = 0
  BY <1>2 DEF StackInv, PassIsEarned
<1>8. QED
  BY <1>1, <1>2, <1>3, <1>4, <1>5, <1>6, <1>7 DEF StackInv

-----------------------------------------------------------------------------
(* Time *)

\* What a unit of time makes of a window and of the history of its input.
Later(w) == IF w.count = 0 THEN w ELSE [w EXCEPT !.age = Older(@, MaxGap)]
Calmer(calm, silent) == IF silent >= MaxGap THEN Absent ELSE Aged(calm, PastLimit)
Longer(calm, silent) == IF silent >= MaxGap \/ calm = Absent THEN 0 ELSE silent + 1

LEMMA WindowAges ==
  ASSUME NEW w \in FreshType, NEW pose \in PoseType,
         NEW calm \in {Absent} \cup Age(PastLimit), NEW silent \in Int,
         Honest(w, pose, calm, silent)
  PROVE  /\ Later(w) \in FreshType
         /\ Calmer(calm, silent) \in {Absent} \cup Age(PastLimit)
         /\ Longer(calm, silent) \in Int
         /\ Honest(Later(w), pose, Calmer(calm, silent), Longer(calm, silent))
         /\ w.count > 0 =>
              /\ Later(w).count > 0
              /\ \/ Later(w).age > MaxGap
                 \/ w.age <= MaxGap /\ Calmer(calm, silent) = Older(calm, PastLimit)
<1> DEFINE v == Later(w)
           calmer == Calmer(calm, silent)
           longer == Longer(calm, silent)
<1>1. calmer \in {Absent} \cup Age(PastLimit) /\ longer \in Int
  <2>1. Aged(calm, PastLimit) \in {Absent} \cup Age(PastLimit)
    BY AgedType
  <2>2. QED
    BY <2>1 DEF Calmer, Longer
<1>2. CASE w.count = 0
  BY <1>1, <1>2 DEF Honest, Later
<1>3. CASE w.count # 0
  <2>1. Older(w.age, MaxGap) \in Age(MaxGap)
    BY OlderFacts DEF FreshType
  <2>2. /\ v \in FreshType /\ v.count = w.count /\ v.span = w.span
        /\ v.lag = w.lag /\ v.age = Older(w.age, MaxGap) /\ v.count > 0
    BY <1>3, <2>1 DEF FreshType, Later
  <2> HIDE DEF v, calmer, longer
  <2>3. CASE v.age > MaxGap
    BY <1>1, <2>2, <2>3 DEF Honest, FreshType, v, calmer, longer
  <2>4. CASE ~(v.age > MaxGap)
    <3>1. w.age < MaxGap /\ v.age = w.age + 1
      BY <2>2, <2>4 DEF Older, FreshType
    <3>2. /\ calm # Absent /\ silent = w.age /\ w.span + w.age <= calm
          /\ pose.known /\ pose.lag = w.lag
      BY <2>2, <3>1 DEF Honest, FreshType
    <3>3. longer = silent + 1 /\ calmer = Older(calm, PastLimit)
      BY <3>1, <3>2 DEF Aged, FreshType, Calmer, Longer, calmer, longer
    <3>4. v.span + v.age <= calmer /\ calmer # Absent
      BY <2>2, <3>1, <3>2, <3>3 DEF Older, FreshType
    <3>5. Honest(v, pose, calmer, longer)
      BY <2>2, <3>1, <3>2, <3>3, <3>4 DEF Honest
    <3>6. QED
      BY <1>1, <2>2, <3>1, <3>3, <3>5 DEF FreshType, v, calmer, longer
  <2>5. QED
    BY <2>3, <2>4
<1>4. QED
  BY <1>2, <1>3 DEF FreshType

LEMMA TimeFacts ==
  ASSUME StackInv, GateTime
  PROVE  /\ InputType'
         /\ \A t \in Topic :
              /\ Honest(win'[t], previous'[t], past'.calm[t], past'.silent[t])
              /\ win[t].count > 0 =>
                   /\ win'[t].count > 0
                   /\ \/ win'[t].age > MaxGap
                      \/ /\ win[t].age <= MaxGap
                         /\ past'.calm[t] = Older(past.calm[t], PastLimit)
         /\ \A n \in Node :
              /\ n \in up => past'.away[n] = 0
              /\ past'.away[n] = IF n \in up THEN 0 ELSE Older(past.away[n], PastLimit)
              /\ life'[n].future = life[n].future
              /\ life'[n].sent = Older(life[n].sent, SentLimit)
              /\ life'[n].active = Aged(life[n].active, KnownLimit)
<1>1. \A t \in Topic :
        /\ win[t] \in FreshType /\ previous[t] \in PoseType
        /\ past.calm[t] \in {Absent} \cup Age(PastLimit) /\ past.silent[t] \in Int
        /\ Honest(win[t], previous[t], past.calm[t], past.silent[t])
  BY DEF StackInv, InputType
<1>2. \A t \in Topic :
        /\ win'[t] = IF win[t].count = 0 THEN win[t]
                     ELSE [win[t] EXCEPT !.age = Older(@, MaxGap)]
        /\ past'.calm[t] = IF past.silent[t] >= MaxGap THEN Absent
                           ELSE Aged(past.calm[t], PastLimit)
        /\ past'.silent[t] =
             IF past.silent[t] >= MaxGap \/ past.calm[t] = Absent THEN 0
             ELSE past.silent[t] + 1
        /\ previous'[t] = previous[t]
  BY DEF GateTime
<1>3. \A n \in Node :
        /\ past'.away[n] = IF n \in up THEN 0 ELSE Older(past.away[n], PastLimit)
        /\ life'[n] = [life[n] EXCEPT !.sent = Older(@, SentLimit),
                                      !.active = Aged(@, KnownLimit)]
        /\ life[n] \in LifeType /\ past.away[n] \in Age(PastLimit)
  BY DEF GateTime, StackInv, InputType
<1>4. ASSUME NEW t \in Topic
      PROVE  /\ win'[t] \in FreshType
             /\ past'.calm[t] \in {Absent} \cup Age(PastLimit)
             /\ past'.silent[t] \in Int
             /\ Honest(win'[t], previous'[t], past'.calm[t], past'.silent[t])
             /\ win[t].count > 0 =>
                  /\ win'[t].count > 0
                  /\ \/ win'[t].age > MaxGap
                     \/ /\ win[t].age <= MaxGap
                        /\ past'.calm[t] = Older(past.calm[t], PastLimit)
  <2> DEFINE w == win[t]
             pose == previous[t]
             calm == past.calm[t]
             silent == past.silent[t]
  <2>1. /\ w \in FreshType /\ pose \in PoseType /\ calm \in {Absent} \cup Age(PastLimit)
        /\ silent \in Int /\ Honest(w, pose, calm, silent)
    BY <1>1
  <2>2. /\ win'[t] = Later(w) /\ previous'[t] = pose
        /\ past'.calm[t] = Calmer(calm, silent)
        /\ past'.silent[t] = Longer(calm, silent)
    BY <1>2 DEF Later, Calmer, Longer
  <2> HIDE DEF w, pose, calm, silent
  <2>3. /\ Later(w) \in FreshType
        /\ Calmer(calm, silent) \in {Absent} \cup Age(PastLimit)
        /\ Longer(calm, silent) \in Int
        /\ Honest(Later(w), pose, Calmer(calm, silent), Longer(calm, silent))
        /\ w.count > 0 =>
             /\ Later(w).count > 0
             /\ \/ Later(w).age > MaxGap
                \/ w.age <= MaxGap /\ Calmer(calm, silent) = Older(calm, PastLimit)
    BY <2>1, WindowAges
  <2>4. QED
    BY <2>2, <2>3 DEF w, calm
<1>5. ASSUME NEW n \in Node
      PROVE  /\ life'[n] \in LifeType /\ past'.away[n] \in Age(PastLimit)
             /\ life'[n].future = life[n].future
             /\ life'[n].sent = Older(life[n].sent, SentLimit)
             /\ life'[n].active = Aged(life[n].active, KnownLimit)
  <2>1. /\ Older(life[n].sent, SentLimit) \in Age(SentLimit)
        /\ Aged(life[n].active, KnownLimit) \in {Absent} \cup Age(KnownLimit)
        /\ Older(past.away[n], PastLimit) \in Age(PastLimit)
    BY <1>3, OlderFacts, AgedType, SentLimitType DEF LifeType
  <2>2. past'.away[n] \in Age(PastLimit)
    <3>1. past'.away[n] \in {0, Older(past.away[n], PastLimit)}
      BY <1>3
    <3>2. QED
      BY <2>1, <3>1
  <2>3. QED
    BY <1>3, <2>1, <2>2 DEF LifeType
<1>6. InputType'
  <2>1. win' \in [Topic -> FreshType] /\ life' \in [Node -> LifeType]
    BY <1>4, <1>5 DEF GateTime
  <2>2. past' \in [calm : [Topic -> {Absent} \cup Age(PastLimit)],
                   silent : [Topic -> Int], away : [Node -> Age(PastLimit)]]
    <3>1. past' = [calm |-> past'.calm, silent |-> past'.silent, away |-> past'.away]
      BY DEF GateTime
    <3>2. /\ past'.calm \in [Topic -> {Absent} \cup Age(PastLimit)]
          /\ past'.silent \in [Topic -> Int]
          /\ past'.away \in [Node -> Age(PastLimit)]
      BY <1>4, <1>5 DEF GateTime
    <3>3. QED
      BY <3>1, <3>2
  <2>3. previous' \in [Topic -> PoseType]
    BY DEF GateTime, StackInv, InputType
  <2>4. QED
    BY <2>1, <2>2, <2>3 DEF InputType
<1>7. QED
  BY <1>3, <1>4, <1>5, <1>6

LEMMA StackTimeStep == StackInv /\ StackTime => StackInv'
<1> SUFFICES ASSUME StackInv, StackTime PROVE StackInv'
  OBVIOUS
<1>1. /\ GateTime /\ exit = "running" /\ exit' = exit /\ up' = up
      /\ resets' = resets /\ kind' = kind
      /\ kind = "monitor" => TimeElapses
      /\ late' = IF kind = "monitor" THEN Older(late, KnownLimit) ELSE late
      /\ late \in Age(KnownLimit)
  BY DEF StackTime, GateTime, StackInv
<1>2. Inv'
  BY MonitorStep, NextStep DEF StackInv, StackNext
<1>3. ASSUME Watching', NEW t \in Topic
      PROVE  Held(win'[t], t \in resets', window'.since, past'.calm[t])
  <2>1. /\ Watching /\ TimeElapses
        /\ window'.since = Aged(window.since, Settle)
        /\ window.since \in {Absent} \cup Age(Settle)
        /\ Settle \in Nat /\ Settle <= PastLimit
    BY <1>1, <1>3, WindowAssumption, StackAssumption
       DEF Watching, TimeElapses, StackInv, Inv, WindowType, WindowAssumption,
           StackAssumption
  <2>2. Held(win[t], t \in resets, window.since, past.calm[t])
    BY <2>1 DEF StackInv
  <2>3. /\ past.calm[t] \in {Absent} \cup Age(PastLimit) /\ win[t] \in FreshType
        /\ Honest(win[t], previous[t], past.calm[t], past.silent[t])
    BY DEF StackInv, InputType
  <2>4. win[t].count > 0 =>
          /\ win'[t].count > 0
          /\ \/ win'[t].age > MaxGap
             \/ /\ win[t].age <= MaxGap
                /\ past'.calm[t] = Older(past.calm[t], PastLimit)
    BY <1>1, TimeFacts
  <2>5. CASE window.since = Absent \/ t \in resets
    BY <1>1, <2>1, <2>5 DEF Held, Aged
  <2>6. CASE window.since # Absent /\ t \notin resets
    <3>1. CASE win'[t].age > MaxGap
      BY <2>2, <2>4, <2>6, <3>1 DEF Held
    <3>2. CASE ~(win'[t].age > MaxGap)
      <4>1. /\ win[t].age <= MaxGap /\ past'.calm[t] = Older(past.calm[t], PastLimit)
            /\ win[t].count > 0 /\ win'[t].count > 0
        BY <2>2, <2>4, <2>6, <3>2 DEF Held
      <4>2. window.since <= past.calm[t] /\ past.calm[t] \in Age(PastLimit)
        BY <2>2, <2>3, <2>6, <4>1 DEF Held, Honest, FreshType
      <4>3. window'.since = Older(window.since, Settle)
        BY <2>1, <2>6 DEF Aged
      <4>4. window'.since <= past'.calm[t]
        BY <2>1, <2>6, <4>1, <4>2, <4>3 DEF Older
      <4>5. QED
        BY <4>1, <4>4 DEF Held
    <3>3. QED
      BY <3>1, <3>2
  <2>7. QED
    BY <2>5, <2>6
<1>4. ASSUME Watching', NEW n \in Node
      PROVE  Asked(life'[n], past'.away[n], window', late')
  <2>1. /\ Watching /\ TimeElapses
        /\ window'.last = Aged(window.last, Gap)
        /\ window.last \in {Absent} \cup Age(Gap)
        /\ late' = Older(late, KnownLimit) /\ Gap \in Nat
    BY <1>1, <1>4, WindowAssumption
       DEF Watching, TimeElapses, StackInv, Inv, WindowType, WindowAssumption
  <2>2. /\ Asked(life[n], past.away[n], window, late)
        /\ life[n].active \in {Absent} \cup Age(KnownLimit)
        /\ life[n].sent \in Age(SentLimit)
        /\ past.away[n] \in Age(PastLimit)
        /\ n \in up => past.away[n] = 0
    BY <2>1 DEF StackInv, InputType, LifeType
  <2>3. /\ past'.away[n] = IF n \in up THEN 0 ELSE Older(past.away[n], PastLimit)
        /\ life'[n].future = life[n].future
        /\ life'[n].sent = Older(life[n].sent, SentLimit)
        /\ life'[n].active = Aged(life[n].active, KnownLimit)
    BY <1>1, TimeFacts
  <2>4. /\ past'.away[n] \in Int /\ past'.away[n] <= past.away[n] + 1
        /\ late' \in Int /\ late' <= late + 1
    BY <1>1, <2>1, <2>2, <2>3 DEF Older
  <2>5. life'[n].future # "none" => window'.last # Absent
    BY <2>1, <2>2, <2>3 DEF Asked, Aged, Older
  <2>6. life'[n].future = "active" /\ life'[n].sent <= QueryLimit =>
          past'.away[n] <= life'[n].sent
    <3>1. SentLimit \in Nat /\ QueryLimit <= SentLimit
      BY DEF SentLimit
    <3>2. QED
      BY <2>2, <2>3, <2>4, <3>1 DEF Asked, Older
  <2>7. life'[n].future = "active" =>
          window'.last > Gap \/ past'.away[n] <= QueryLimit + window'.last
    BY <2>1, <2>2, <2>3, <2>4 DEF Asked, Aged, Older
  <2>8. life'[n].active # Absent =>
          \/ life'[n].active > KnownLimit
          \/ late' <= life'[n].active
          \/ past'.away[n] <= life'[n].active + QueryLimit + Gap
    BY <1>1, <2>1, <2>2, <2>3, <2>4 DEF Asked, Aged, Older
  <2>9. QED
    BY <2>5, <2>6, <2>7, <2>8 DEF Asked
<1>5. PassIsEarned'
  BY <1>1 DEF PassIsEarned
<1>6. late' \in Age(KnownLimit)
  BY <1>1, OlderFacts
<1>7. QED
  BY <1>1, <1>2, <1>3, <1>4, <1>5, <1>6, TimeFacts DEF StackInv

-----------------------------------------------------------------------------
LEMMA StackStep == StackInv /\ [StackNext]_allVars => StackInv'
<1> SUFFICES ASSUME StackInv, [StackNext]_allVars PROVE StackInv'
  OBVIOUS
<1>1. CASE UNCHANGED allVars
  BY <1>1 DEF allVars, gateVars, inputs, vars, StackInv, Inv, Earned, InputType,
              PassIsEarned, Watching
<1>2. CASE StackNext
  BY <1>2, GateOnlyStep, MonitorTickStep, RestartedStep, WorldStep, StackTimeStep
     DEF StackNext
<1>3. QED
  BY <1>1, <1>2

\* However messages jump, come late, out of order or not at all, the ROS clock
\* steps and answers are lost, the launch goes on only when every input has been
\* calm for the settling time: for every number of inputs and nodes and every limit.
THEOREM LaunchIsEarned == StackSpec => []PassIsEarned
<1>1. StackInv => PassIsEarned
  BY DEF StackInv
<1>2. QED
  BY <1>1, StackInitInv, StackStep, PTL DEF StackSpec

\* Whatever the settling time, with answers read and delivered at any two moments,
\* `ready' is sent only over inputs calm for the whole settling time; and where no
\* tick came late while an answer counts, over nodes active not longer ago than an
\* answer counts, is under way and waits for a tick.
THEOREM ReadyMeansLive == StackSpec => ReadyIsLive
<1>1. StackInv =>
        [heartbeat' /\ AnyMonitorTick =>
           /\ \A t \in Topic : past.calm[t] >= Settle
           /\ \A n \in Node :
                late' > Counts(n) => past.away[n] <= Counts(n) + QueryLimit + Gap]_allVars
  BY MonitorTickStep
<1>2. QED
  BY <1>1, StackInitInv, StackStep, PTL DEF StackSpec, ReadyIsLive
=============================================================================
