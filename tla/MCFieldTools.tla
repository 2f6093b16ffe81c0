---------------------------- MODULE MCFieldTools ----------------------------
(* The TLC instance of FieldTools. *)
EXTENDS FieldTools, TLC

\* Costmaps as they lie, turned by a quarter with larger cells, and by a half.
MCSources == {[x |-> -2, y |-> 0, q |-> q, width |-> 3, height |-> 1,
               unit |-> IF q = 1 THEN 4 ELSE 2] : q \in 0 .. 2}
MCOutput == [x |-> -2, y |-> -4, q |-> 0, width |-> 2, height |-> 3, unit |-> 2]
MCPoses == [x : {0}, y : {0, -2}, q : 0 .. 3]

\* Scans are interchangeable.
MCSymmetry == Permutations(Scans)
=============================================================================
