----------------------------- MODULE CloudRelay -----------------------------
(***************************************************************************)
(* src/pointcloud_relay_node.cpp with relay_health.hpp: every cloud is     *)
(* forwarded as it came, and a timer publishes a verdict on the last ones. *)
(***************************************************************************)
EXTENDS RosClock, Sequences

CONSTANTS
  RelaySilence,  \* the 0.30 s allowed between receipt or measurement and now
  RelayFuture    \* the 0.05 s a stamp may be ahead

ASSUME RelayAssumption == RelaySilence \in Nat /\ RelayFuture \in Nat

VARIABLES
  health,  \* RelayHealth
  verdict, \* status.message of the diagnostics last published
  clouds   \* history: the last clouds received, oldest first, at most two

\* receipt: the time since it on the monotonic clock, bounded just past the
\* timeout; last: last_ros, 0 for NaN.
RelayInit ==
  /\ RosInit
  /\ health = [count |-> 0, stamp |-> 0, receipt |-> 0, last |-> 0,
               valid |-> FALSE, stampBack |-> FALSE, clockBack |-> FALSE]
  /\ verdict = "none"
  /\ clouds = <<>>

\* Mutant of ClockWentBack: a regression is measured from the stamp.
ClockWentBackSinceStamp == health.count > 0 /\ ros < health.stamp - RelayFuture
ClockWentBack == health.last > 0 /\ ros < health.last

\* RelayHealth::observe; the counter counts up to one, what it is asked about.
Observe(stamp, header) ==
  health' = [count |-> 1, stamp |-> stamp, receipt |-> 0, last |-> ros,
             valid |-> header /\ stamp > 0,
             clockBack |-> ClockWentBack,
             stampBack |-> /\ health.count > 0 /\ header /\ health.valid
                           /\ stamp < health.stamp]

\* The subscription: the cloud is observed, then published unchanged.
RelayCallback(stamp, header) ==
  /\ Observe(stamp, header)
  /\ LET cloud == [stamp |-> stamp, ros |-> ros, header |-> header]
     IN  clouds' = Append(IF Len(clouds) = 2 THEN Tail(clouds) ELSE clouds, cloud)
  /\ UNCHANGED <<ros, verdict>>

\* RelayHealth::reason
Reason ==
  IF health.count = 0                              THEN "waiting_for_cloud"
  ELSE IF health.clockBack \/ ros < health.last    THEN "clock_regression"
  ELSE IF ~health.valid                            THEN "invalid_header"
  ELSE IF health.receipt > RelaySilence            THEN "receipt_timeout"
  ELSE IF ros - health.stamp > RelaySilence        THEN "measurement_stale"
  ELSE IF health.stamp - ros > RelayFuture         THEN "measurement_in_future"
  ELSE IF health.stampBack                         THEN "stamp_regression"
  ELSE "fresh"

RelayTimer == verdict' = Reason /\ UNCHANGED <<ros, health, clouds>>

RelayClock ==
  /\ RosMoves
  /\ health' = [health EXCEPT !.receipt = IF health.count > 0 /\ @ <= RelaySilence
                                          THEN @ + 1 ELSE @]
  /\ UNCHANGED <<verdict, clouds>>

RelayNext ==
  \/ \E stamp \in 0 .. MaxRos + 1, header \in BOOLEAN : RelayCallback(stamp, header)
  \/ RelayTimer
  \/ RelayClock

RelayVars == <<health, verdict, clouds>>

Reasons == {"waiting_for_cloud", "clock_regression", "invalid_header", "receipt_timeout",
            "measurement_stale", "measurement_in_future", "stamp_regression", "fresh"}

RelayTypeOK ==
  /\ health \in [count : {0, 1}, stamp : 0 .. MaxRos + 1, receipt : 0 .. RelaySilence + 1,
                 last : 0 .. MaxRos, valid : BOOLEAN, stampBack : BOOLEAN,
                 clockBack : BOOLEAN]
  /\ verdict \in Reasons \cup {"none"}

Usable(cloud) == cloud.header /\ cloud.stamp > 0

\* What the last clouds themselves tell: the newest is usable, recent, and in
\* the order of both clocks with the one before and with the time of asking.
CloudsInOrder ==
  /\ clouds # <<>> /\ health.receipt <= RelaySilence
  /\ LET new == clouds[Len(clouds)]
         old == clouds[1]
     IN  /\ Usable(new) /\ Timely(new.stamp, RelayFuture, RelaySilence)
         /\ old.ros <= new.ros /\ new.ros <= ros
         /\ Usable(old) => old.stamp <= new.stamp

\* The relay says fresh exactly when the clouds it forwarded last are in order,
\* though it keeps no cloud, both clocks may step between two of them, and the
\* verdict is asked at any time later.
FreshIsEarned == Reason = "fresh" <=> CloudsInOrder
=============================================================================
