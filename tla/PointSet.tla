------------------------------ MODULE PointSet ------------------------------
(***************************************************************************)
(* What the user of the debugger sees of watchpoints and breakpoints: a    *)
(* set of numbers.  A new point gets a number that is not taken, deleting  *)
(* one leaves the others alone.                                            *)
(***************************************************************************)
EXTENDS Integers

CONSTANT Numbers
VARIABLE points

Create == \E i \in Numbers \ points : points' = points \cup {i}
Delete == \E i \in points : points' = points \ {i}

PointSpec == points = {} /\ [][Create \/ Delete]_points
=============================================================================
