--------------------------- MODULE OperatorState ---------------------------
(***************************************************************************)
(* The latched operator stop of scripts/operator_stop_core.py, as          *)
(* operators on a state record: the node (OperatorStop) calls several of   *)
(* them inside one callback, so each maps a state to the next one.         *)
(***************************************************************************)
EXTENDS Ages

CONSTANTS
  Goal,             \* action goal UUIDs
  None,             \* Python's None
  JoyLimit,         \* 1.0 s, the oldest Joy sample that counts
  LinkLimit,        \* 3.0 s, the oldest Bluetooth result that counts
  OdomLimit,        \* 1.0 s, the oldest odometry sample that counts
  ResetHold,        \* 2.0 s, how long the reset button is held
  MappingVerified   \* the button mapping passed OperatorState.__init__

ASSUME LimitsAssumption ==
  /\ JoyLimit \in Nat /\ LinkLimit \in Nat /\ OdomLimit \in Nat
  /\ ResetHold \in Nat
  /\ MappingVerified \in BOOLEAN

Stopped == "STOPPED"
Waiting == "WAITING FOR NEW GOAL"
Running == "RUNNING"
Phases  == {Stopped, Waiting, Running}

\* One Joy message, reduced to what OperatorState.joy computes from it.
JoyMsg == [valid : BOOLEAN, stop : BOOLEAN, reset : BOOLEAN,
           deadman : BOOLEAN, neutral : BOOLEAN]

StateType ==
  [phase    : Phases,
   joyAge   : Age(JoyLimit),
   linkAge  : Age(LinkLimit),
   odomAge  : Age(OdomLimit),
   link     : BOOLEAN,
   resting  : BOOLEAN,                  \* rest_since is not None
   resetAge : (0 .. ResetHold) \cup {None},
   released : BOOLEAN,                  \* reset_released
   stop     : BOOLEAN,                  \* stop_pressed
   reset    : BOOLEAN,                  \* reset_pressed
   deadman  : BOOLEAN,
   neutral  : BOOLEAN,
   active   : SUBSET Goal,              \* keys of the dict; stamps are the server's
   banned   : SUBSET Goal,
   armed    : Nat \cup {None},          \* armed_stamp
   lastRos  : Nat \cup {None}]

InitState ==
  [phase    |-> Stopped,
   joyAge   |-> Expired(JoyLimit),
   linkAge  |-> Expired(LinkLimit),
   odomAge  |-> Expired(OdomLimit),
   link     |-> FALSE,
   resting  |-> FALSE,
   resetAge |-> None,
   released |-> FALSE,
   stop     |-> FALSE,
   reset    |-> FALSE,
   deadman  |-> FALSE,
   neutral  |-> FALSE,
   active   |-> {},
   banned   |-> {},
   armed    |-> None,
   lastRos  |-> None]

\* stop(reason): a press by a person also forgets the reset sequence.
Stop(s) ==
  [s EXCEPT !.phase = Stopped, !.banned = @ \cup s.active, !.armed = None]

\* Mutant of ManualStop: the reset sequence survives the press.
ManualStopKeepsReset(s) == Stop(s)
ManualStop(s) ==
  [Stop(s) EXCEPT !.resetAge = None, !.released = FALSE]

\* joy(buttons, axes, now): an invalid message stops and leaves the cached
\* buttons and the time of the last valid message as they were.
Buttons(s, m) ==
  [s EXCEPT !.joyAge = 0, !.stop = m.stop, !.reset = m.reset,
            !.deadman = m.deadman, !.neutral = m.neutral]

JoyUpdate(s, m) ==
  IF ~(m.valid /\ MappingVerified) THEN Stop(s)
  ELSE IF m.stop \/ m.deadman      THEN ManualStop(Buttons(s, m))
  ELSE IF ~m.reset                 THEN [Buttons(s, m) EXCEPT !.released = TRUE,
                                                              !.resetAge = None]
  ELSE Buttons(s, m)

\* connection(connected, now), `age' being how long ago that result was taken.
Connection(s, connected, age) ==
  LET c == [s EXCEPT !.link = connected, !.linkAge = age]
  IN  IF connected THEN c ELSE Stop(c)

\* odometry(linear, angular, now)
Odometry(s, still) == [s EXCEPT !.odomAge = 0, !.resting = still]

\* goals(active)
Goals(s, active) ==
  [s EXCEPT !.active = active,
            !.banned = IF s.phase = Stopped THEN @ \cup active ELSE @]

\* tick(), first part: a ROS clock that went back stops.
ClockCheck(s, ros) ==
  LET c == IF s.lastRos # None /\ ros < s.lastRos THEN Stop(s) ELSE s
  IN  [c EXCEPT !.lastRos = ros]

CanReset(s) == s.released /\ s.reset /\ s.neutral

\* How long the reset button counts as held at a tick (reset_since is set by
\* the first tick that sees it held).
Held(s) == IF s.resetAge = None THEN 0 ELSE s.resetAge

CanArm(s) ==
  /\ CanReset(s)
  /\ Held(s) >= ResetHold
  /\ MappingVerified
  /\ s.joyAge <= JoyLimit
  /\ s.link

Arm(s, ros) ==
  [s EXCEPT !.phase = Waiting, !.armed = ros, !.resetAge = None,
            !.released = FALSE]

\* Mutant of HoldReset: the hold starts again at every tick.
HoldRestarts(s) == [s EXCEPT !.resetAge = IF CanReset(s) THEN 0 ELSE None]
HoldReset(s) == [s EXCEPT !.resetAge = IF CanReset(s) THEN Held(s) ELSE None]

Healthy(s, infrastructure) ==
  /\ MappingVerified
  /\ s.joyAge <= JoyLimit
  /\ s.link
  /\ s.linkAge <= LinkLimit
  /\ s.odomAge <= OdomLimit
  /\ infrastructure

\* Mutants of AllNew: one of its two tests is missing.
AllUnbanned(s, stamp) == \A g \in s.active : g \notin s.banned
AllNewer(s, stamp)    == \A g \in s.active : stamp[g] > s.armed

\* Every active goal is newer than the re-arm and was never banned.
AllNew(s, stamp) ==
  \A g \in s.active : g \notin s.banned /\ stamp[g] > s.armed

\* One unit of monotonic time.
Elapse(s) ==
  [s EXCEPT !.joyAge   = Older(@, JoyLimit),
            !.linkAge  = Older(@, LinkLimit),
            !.odomAge  = Older(@, OdomLimit),
            !.resetAge = IF @ = None \/ @ = ResetHold THEN @ ELSE @ + 1]
=============================================================================
