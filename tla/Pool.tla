-------------------------------- MODULE Pool --------------------------------
(***************************************************************************)
(* The pool behind watchpoint.cpp and breakpoint.cpp: an array of NR nodes *)
(* threaded by next into the list of the nodes in use (from head) and the  *)
(* list of the free ones (from free_).  Both files, and their twins in     *)
(* NEMU, have the same code.                                               *)
(***************************************************************************)
EXTENDS Integers

CONSTANT NR
VARIABLES next, head, free_

Nodes == 0 .. NR - 1
Null == -1
Pointers == Nodes \cup {Null}

\* The first NR nodes met from p on.
Walk(p) ==
    LET step[k \in 0 .. NR] == IF k = 0 THEN p
                               ELSE IF step[k - 1] = Null THEN Null ELSE next[step[k - 1]]
    IN  step
Listed(p) == LET w == Walk(p) IN {w[k] : k \in 0 .. NR - 1} \ {Null}
Before(x) == {q \in Listed(head) : next[q] = x}

InitPool ==
    /\ next = [i \in Nodes |-> IF i = NR - 1 THEN Null ELSE i + 1]
    /\ head = Null
    /\ free_ = 0

\* new_wp, new_bp: take the first free node, put it in front.
Available == free_ # Null
\* Mutant: the node does not take over the list.
NewAlone ==
    /\ free_' = next[free_]
    /\ next' = [next EXCEPT ![free_] = Null]
    /\ head' = free_
New ==
    /\ free_' = next[free_]
    /\ next' = [next EXCEPT ![free_] = head]
    /\ head' = free_

\* Mutant: the freed node is linked to the free list before its successor is
\* read.
UnlinkLate(x) == [next EXCEPT ![CHOOSE q \in Before(x) : TRUE] = free_, ![x] = free_]
\* The node before x is linked to the one behind it, x to the free list.
Unlink(x) == [next EXCEPT ![CHOOSE q \in Before(x) : TRUE] = next[x], ![x] = free_]

\* free_wp, free_bp; a pointer that is not in the list panics.
InList(x) == x = head \/ Before(x) # {}
Free(x) ==
    /\ free_' = x
    /\ \/ /\ x = head
          /\ head' = next[head]
          /\ next' = [next EXCEPT ![x] = free_]
       \/ /\ x # head
          /\ head' = head
          /\ next' = Unlink(x)

\* Both lists end, and every node is in exactly one of them.
Partition ==
    /\ Walk(head)[NR] = Null /\ Walk(free_)[NR] = Null
    /\ Listed(head) \cap Listed(free_) = {}
    /\ Listed(head) \cup Listed(free_) = Nodes
=============================================================================
