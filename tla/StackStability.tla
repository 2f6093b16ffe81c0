--------------------------- MODULE StackStability ---------------------------
(***************************************************************************)
(* The full-stack readiness of scripts/stack_stability.py: its 10 Hz timer *)
(* feeds StabilityWindow (scripts/readiness_core.py) with what it finds of *)
(* the inputs, the lifecycle, the graph and the guard (`healthy') and of   *)
(* the initial pose, and sends /nav2/stack_ready.                          *)
(***************************************************************************)
EXTENDS Ages

CONSTANTS
  Timeout,   \* stability_timeout, 600 s
  Settle,    \* stability_settle, 180 s
  Gap        \* 0.3 s, the longest time between two updates that counts

ASSUME WindowAssumption ==
  /\ Timeout \in Nat /\ Settle \in Nat /\ Gap \in Nat
  /\ 0 < Settle /\ Settle < Timeout

VARIABLES
  window,    \* StabilityWindow; `last' and `started' are ages
  heartbeat, \* the last Bool sent on /nav2/stack_ready
  hist       \* history: time since the last tick that was late, found a fault,
             \* or lost the pose while READY

vars == <<window, heartbeat, hist>>

Phases == {"INPUT_WAITING", "STABILIZING", "INITIAL_POSE_REQUIRED", "READY",
           "FAILED"}

Init ==
  /\ window = [phase |-> "INPUT_WAITING", started |-> Absent, since |-> Absent,
               last |-> Absent, settled |-> FALSE, poseSeen |-> FALSE]
  /\ heartbeat = FALSE
  /\ hist = 0

\* Mutant of Recovering: every fault starts a new period.
AlwaysRecovering(w) == TRUE
\* Only a fault of a settled stack starts a new bounded recovery period.
Recovering(w) == w.settled

Faulty(w) ==
  [w EXCEPT !.started = IF Recovering(w) THEN 0 ELSE @,
            !.since = Absent, !.settled = FALSE, !.poseSeen = FALSE,
            !.phase = "INPUT_WAITING"]

Sound(w, poseReady) ==
  LET since   == IF w.since = Absent THEN 0 ELSE w.since
      settled == w.settled \/ since >= Settle
  IN  [w EXCEPT !.since = since, !.settled = settled,
                !.poseSeen = settled /\ poseReady,
                !.phase = IF settled /\ poseReady THEN "READY"
                          ELSE IF settled THEN "INITIAL_POSE_REQUIRED"
                          ELSE "STABILIZING"]

\* Mutant of Stalled: a late update is credited.
NeverStalled(w) == FALSE
\* A stalled monitor cannot credit time it did not observe.
Stalled(w) == w.last # Absent /\ w.last > Gap

\* Mutant of PoseLost: a lost pose does not interrupt the hold.
PoseIgnored(w, poseReady) == FALSE
PoseLost(w, poseReady) == w.poseSeen /\ ~poseReady

\* update(healthy, pose_ready, now)
Update(w, healthy, poseReady) ==
  LET fault  == ~healthy \/ Stalled(w) \/ PoseLost(w, poseReady)
      seen   == [w EXCEPT !.last = 0,
                          !.started = IF @ = Absent THEN 0 ELSE @]
      result == IF fault THEN Faulty(seen) ELSE Sound(seen, poseReady)
  IN  IF w.phase = "FAILED" THEN w
      ELSE IF ~result.settled /\ result.started >= Timeout
           THEN [result EXCEPT !.phase = "FAILED"]
      ELSE result

\* _tick(): after FAILED the node moves the start of the period, and writes the
\* phase to an attribute of its own that nothing reads.
Tick(healthy, poseReady) ==
  LET w == Update(window, healthy, poseReady)
  IN  /\ window' = IF w.phase = "FAILED" THEN [w EXCEPT !.started = 0] ELSE w
      /\ heartbeat' = (w.phase = "READY")
      /\ hist' = IF \/ ~healthy
                    \/ window.last > Gap
                    \/ window.phase = "READY" /\ ~poseReady
                    \/ window.last = Absent
                 THEN 0 ELSE hist

AnyTick == \E healthy, poseReady \in BOOLEAN : Tick(healthy, poseReady)

\* One unit of monotonic time.
TimeElapses ==
  /\ window' = [window EXCEPT !.started = Aged(@, Timeout),
                              !.since = Aged(@, Settle),
                              !.last = Aged(@, Gap)]
  /\ hist' = Older(hist, Settle)
  /\ UNCHANGED heartbeat

\* The process ends (its `finally' sends False) and a new one is started.
Restart ==
  /\ window' = [phase |-> "INPUT_WAITING", started |-> Absent, since |-> Absent,
                last |-> Absent, settled |-> FALSE, poseSeen |-> FALSE]
  /\ heartbeat' = FALSE
  /\ hist' = 0

Next == AnyTick \/ TimeElapses \/ Restart

Spec == Init /\ [][Next]_vars

(* Fairness: the timer fires and time passes. *)
FairSpec == Spec /\ WF_vars(AnyTick) /\ WF_vars(TimeElapses)

(* A process that is not restarted, in a stack that is healthy again and again. *)
HealthyTick == Tick(TRUE, TRUE)
HealthySpec ==
  /\ Init /\ [][AnyTick \/ TimeElapses]_vars
  /\ WF_vars(AnyTick) /\ WF_vars(TimeElapses) /\ SF_vars(HealthyTick)

-----------------------------------------------------------------------------
(* Properties *)

\* Every variable stays in its type.
TypeOK ==
  /\ window \in [phase : Phases, started : {Absent} \cup Age(Timeout),
                 since : {Absent} \cup Age(Settle),
                 last : {Absent} \cup Age(Gap),
                 settled : BOOLEAN, poseSeen : BOOLEAN]
  /\ heartbeat \in BOOLEAN
  /\ hist \in Age(Settle)

\* `ready' is sent only after the whole settling time without a fault, a late
\* tick, or a pose lost after it was ready.
ReadyIsEarned == heartbeat => hist >= Settle

\* A start and every recovery are bounded: a monitor that is not restarted again
\* and again does not stay unsettled for ever without FAILED, however the
\* health of the stack flaps.
JustBorn == window.started = Absent
StartIsBounded == []<>(window.settled \/ window.phase = "FAILED" \/ JustBorn)

\* stack_stability.py: `waiting for initial pose; continuing to monitor'.  A
\* monitor that FAILED once becomes READY again when the stack is healthy.
FailureIsMonitored == window.phase = "FAILED" ~> window.phase # "FAILED"
=============================================================================
