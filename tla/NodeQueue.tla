----------------------------- MODULE NodeQueue ------------------------------
(***************************************************************************)
(* What a queue with one consumer promises: nodes come out in the order in *)
(* which they were pushed, unless they are taken out before their turn.    *)
(***************************************************************************)
EXTENDS Sequences

CONSTANTS Nodes, Null

VARIABLES q,      \* the nodes, oldest first
          first   \* what the consumer last found to be the oldest node

queueVars == <<q, first>>

Init == q = <<>> /\ first = Null

Push(n) ==
    /\ \A i \in DOMAIN q : q[i] # n
    /\ q' = Append(q, n)
    /\ UNCHANGED first

Begin ==
    /\ first' = IF q = <<>> THEN Null ELSE q[1]
    /\ UNCHANGED q

Remove(n) ==
    /\ \E i \in DOMAIN q : q[i] = n
    /\ q' = SelectSeq(q, LAMBDA m : m # n)
    /\ UNCHANGED first

Next == Begin \/ \E n \in Nodes : Push(n) \/ Remove(n)

Spec == Init /\ [][Next]_queueVars

=============================================================================
