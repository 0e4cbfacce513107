------------------------------ MODULE MCSwprio ------------------------------
(* Small instances of Swprio for TLC. *)
EXTENDS SwprioInv, TLC

CONSTANTS t1, t2, t3, p1, p2

(* Two tasks of different urgency, two of the same. *)
TwoPrios == [t \in Tasks |-> IF t = t1 THEN 0 ELSE 1]

Symmetry == Permutations(Posters)

(* Bound: two threads post at the same time only until a task is destroyed *)
(* or has another priority; from then on one does.                         *)
TwoPostersAtFirst ==
    \/ destroyed = {} /\ prio = InitPrio
    \/ \E p \in Posters : stage[p] = "none"

=============================================================================
