------------------------------ MODULE RosClock ------------------------------
(***************************************************************************)
(* External: the ROS clock, which simulation or a time service may hold,   *)
(* step back or run on.                                                    *)
(***************************************************************************)
EXTENDS Integers

CONSTANT MaxRos   \* bound on the clock
ASSUME ClockAssumption == MaxRos \in Nat \ {0}

VARIABLE ros

RosInit == ros = 1
\* It is held, runs on by a unit, or steps back to any earlier reading.
RosMoves == ros' \in {now \in 1 .. MaxRos : now <= ros + 1}

\* A measurement stamped neither longer ago nor further ahead than allowed.
Timely(stamp, future, age) == ros - stamp \in -future .. age
=============================================================================
