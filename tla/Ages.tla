-------------------------------- MODULE Ages --------------------------------
(***************************************************************************)
(* Time as the nodes use it.  The code stores the monotonic time of an     *)
(* event and tests `now - stamp <= limit'.  The specifications store the   *)
(* age (time since the event) instead, saturated one unit above the limit: *)
(* `never' (-inf) and `too old' are the same value, and nothing the code   *)
(* tests is lost.                                                          *)
(***************************************************************************)
EXTENDS Integers

Absent == -1   \* Python's None, where the code uses it

Age(limit)     == 0 .. limit + 1
Expired(limit) == limit + 1

\* Mutant of Older: the age is not saturated.
OlderUnbounded(age, limit) == age + 1
Older(age, limit) == IF age <= limit THEN age + 1 ELSE age
\* What is absent does not age.
Aged(age, limit) == IF age = Absent THEN age ELSE Older(age, limit)
=============================================================================
