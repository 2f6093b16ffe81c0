---------------------------- MODULE OdomAdapter -----------------------------
(***************************************************************************)
(* scripts/fast_livo_odom_adapter.py: odometry without velocity is         *)
(* republished with a filtered twist.  A pose is a place on a line, far    *)
(* from another when a jump limit is passed; of a twist only the samples   *)
(* that went into it count.                                                *)
(***************************************************************************)
EXTENDS RosClock

CONSTANTS
  OdomPlaces,     \* poses, integers
  OdomJump,       \* max_translation_jump_m and max_yaw_jump_rad
  OdomMaxDt,      \* max_dt_sec
  OdomMaxAge,     \* max_message_age_sec
  OdomFuture      \* future_tolerance_sec

ASSUME OdomAssumption ==
  /\ OdomPlaces \subseteq Int
  /\ {OdomJump, OdomMaxDt, OdomMaxAge, OdomFuture} \subseteq Nat

VARIABLES
  odom,   \* the adapter: its clock reading and its estimator
  twists  \* history: the stretch of continuous motion, the last stamp published

NoSample == [stamp |-> 0, place |-> 0]

\* filter: the stretches with a share in filtered_twist, {} for None.
OdomInit ==
  /\ RosInit
  /\ odom = [last |-> 0, previous |-> NoSample, filter |-> {}]
  /\ twists = [stretch |-> 0, stamp |-> 0]

Distance(a, b) == IF a > b THEN a - b ELSE b - a
Apart(a, b) == \/ b.stamp - a.stamp > OdomMaxDt
               \/ Distance(a.place, b.place) > OdomJump

Stepped == ros < odom.last
\* A ROS clock reset starts a new epoch.
Baseline == IF Stepped THEN [odom EXCEPT !.previous = NoSample, !.filter = {}]
            ELSE odom

\* Mutant of Rejected: a late sample becomes the baseline.
Rebased(state, sample) == [state EXCEPT !.previous = sample]
\* A rejected sample retains the baseline.
Rejected(state, sample) == state

\* Mutant of Broken: the filter goes on after a jump.
BrokenKeeps(state, sample) == [state EXCEPT !.previous = sample]
Broken(state, sample) == [state EXCEPT !.previous = sample, !.filter = {}]

\* PlanarTwistEstimator.update(sample)
Update(state, sample, stretch) ==
  IF state.previous # NoSample /\ sample.stamp <= state.previous.stamp
  THEN Rejected(state, sample)
  ELSE IF state.previous = NoSample \/ Apart(state.previous, sample)
  THEN Broken(state, sample)
  ELSE [state EXCEPT !.previous = sample, !.filter = @ \cup {stretch}]

Current(sample) == sample.stamp > 0 /\ Timely(sample.stamp, OdomFuture, OdomMaxAge)

Accepts(sample) ==
  /\ Current(sample)
  /\ \/ Baseline.previous = NoSample
     \/ sample.stamp > Baseline.previous.stamp

\* A sample that does not continue the one before starts a new stretch.
NewStretch(sample) ==
  \/ Baseline.previous = NoSample
  \/ Accepts(sample) /\ Apart(Baseline.previous, sample)

\* _odometry_callback(incoming); usable: frames, position and quaternion.
OdomCallback(sample, usable) ==
  LET now == [Baseline EXCEPT !.last = ros]
      stretch == IF NewStretch(sample) THEN 1 - twists.stretch ELSE twists.stretch
  IN  /\ odom' = IF Current(sample) /\ usable THEN Update(now, sample, stretch) ELSE now
      /\ twists' = IF usable /\ Accepts(sample)
                   THEN [stretch |-> stretch, stamp |-> sample.stamp]
                   ELSE [twists EXCEPT !.stamp = IF Stepped THEN 0 ELSE @]
      /\ UNCHANGED ros

OdomClock == RosMoves /\ UNCHANGED <<odom, twists>>

OdomNext ==
  \/ \E stamp \in 0 .. MaxRos + 1, place \in OdomPlaces, usable \in BOOLEAN :
       OdomCallback([stamp |-> stamp, place |-> place], usable)
  \/ OdomClock

OdomVars == <<odom, twists>>

OdomTypeOK ==
  /\ odom.last \in 0 .. MaxRos /\ odom.filter \subseteq {0, 1}
  /\ odom.previous.stamp \in 0 .. MaxRos + 1
  /\ odom.previous.place \in OdomPlaces \cup {0}

\* Between two steps of the ROS clock the published stamps increase strictly,
\* however late, early or often a packet comes.
StampsIncrease ==
  [][twists'.stamp # twists.stamp /\ ~Stepped => twists'.stamp > twists.stamp]_OdomVars

\* No twist mixes motion from before a jump, a gap or a clock step with motion
\* from after it.
TwistIsOneStretch == odom.filter \subseteq {twists.stretch}
=============================================================================
