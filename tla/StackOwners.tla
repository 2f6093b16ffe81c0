---------------------------- MODULE StackOwners -----------------------------
(***************************************************************************)
(* What the sessions promise each other, without locks, records, signals   *)
(* and processes.  A session owns the robot for its role before it starts  *)
(* its stack, and starts it once.  A navigation comes to own it only when  *)
(* nobody owns anything and no stack can be seen any more, a perception    *)
(* only when this holds of the other perceptions; a rest of a stack that   *)
(* nobody recognises is in nobody's way.  And a perception depends, from   *)
(* before its stack starts until the last of it is gone, on one navigation *)
(* that was an owner.                                                      *)
(***************************************************************************)
CONSTANTS Navs, Perceptions, Nobody

VARIABLES
  owner,  \* a session "waits" for the role, "owns" it, "runs" its stack,
          \* "ends" (no longer starts anything), and is "gone"
  under,  \* the navigation a session depends on
  stack   \* of the stack of the session there is "none", it can be "seen",
          \* or there is a "rest" of it; it may outlive the session

vars == <<owner, under, stack>>

Members == Navs \cup Perceptions

Init ==
  /\ owner = [s \in Members |-> "waits"]
  /\ under = [s \in Members |-> Nobody]
  /\ stack = [s \in Members |-> "none"]

Owns(s) == owner[s] \in {"owns", "runs", "ends"}

\* A session in whose way another one is.
InTheWay(s, t) == t # s /\ (s \in Perceptions => t \in Perceptions)

\* Only its own supervision and its stack hold a session to its navigation.
Depends(s) == owner[s] \in {"owns", "runs"} \/ stack[s] # "none"
Turns(s, phase, visible) ==
  /\ owner' = [owner EXCEPT ![s] = phase]
  /\ stack' = [stack EXCEPT ![s] = visible]
  /\ under' = [under EXCEPT ![s] = IF Depends(s)' THEN @ ELSE Nobody]

Acquire(s) ==
  /\ owner[s] = "waits"
  /\ \A t \in Members : InTheWay(s, t) => ~Owns(t) /\ stack[t] # "seen"
  /\ Turns(s, "owns", stack[s])

Depend(p) ==
  /\ owner[p] = "owns" /\ under[p] = Nobody
  /\ \E n \in Navs : Owns(n) /\ under' = [under EXCEPT ![p] = n]
  /\ UNCHANGED <<owner, stack>>

\* Its supervision may fail as soon as the stack is there.
Start(s) ==
  /\ owner[s] = "owns" /\ stack[s] = "none"
  /\ s \in Perceptions => under[s] # Nobody
  /\ \E phase \in {"runs", "ends"} : Turns(s, phase, "seen")

Finish(s) ==
  /\ owner[s] \in {"owns", "runs"}
  /\ Turns(s, "ends", stack[s])

\* It was refused, is done or was killed.
Leave(s) ==
  /\ owner[s] # "gone"
  /\ Turns(s, "gone", stack[s])

StackEnds(s) ==
  /\ stack[s] # "none"
  /\ \E visible \in {"rest", "none"} : Turns(s, owner[s], visible)

Turn ==
  \/ \E s \in Members : \/ Acquire(s) \/ Start(s) \/ Finish(s) \/ Leave(s)
                        \/ StackEnds(s)
  \/ \E p \in Perceptions : Depend(p)

\* What changes nothing is a stutter; said first, it spares TLC the turns.
Next == UNCHANGED vars \/ Turn

Spec == Init /\ [][Next]_vars
=============================================================================
