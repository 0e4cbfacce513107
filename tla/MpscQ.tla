------------------------------- MODULE MpscQ --------------------------------
(***************************************************************************)
(* The multiple producer, single consumer queue that allocates its nodes   *)
(* (prs/lib/ds/mpscq.c).  Its links are those of prs/lib/ds/mpsciq.c and   *)
(* the walks over them are taken from MpscIq.  What differs: a node is     *)
(* allocated by push and freed by remove, so that the memory of a removed  *)
(* node may be pushed again, and its links are not cleared when it goes.   *)
(***************************************************************************)
EXTENDS Integers, FiniteSets, Functions

CONSTANTS Nodes, Producers, Null

VARIABLES
    head, reverse_tail, reverse_head,   \* the queue
    next, prev,                         \* the links of each node
    pushing,    \* per producer: the node it pushes
    removing,   \* the node the consumer removes
    seen,       \* the head it has loaded
    got,        \* what prs_mpscq_begin returned last
    allocated,  \* nodes whose memory is in use
    dying       \* prs_mpscq_destroy is under way, or done when "freed"

vars == <<head, reverse_tail, reverse_head, next, prev, pushing, removing, seen,
          got, allocated, dying>>

I == INSTANCE MpscIq

(* prs_mpscq_create; the memory of the nodes holds anything, here nothing. *)
Init ==
    /\ I!Init
    /\ allocated = {}
    /\ dying = "no"

(* prs_mpscq_push up to the first exchange: node->next is not read before  *)
(* it is set.  Without memory the call changes nothing.                    *)
Push(p, n) ==
    /\ dying = "no"
    /\ pushing[p] = Null
    /\ n \notin allocated
    /\ allocated' = allocated \cup {n}
    /\ prev' = [prev EXCEPT ![n] = Null]
    /\ next' = [next EXCEPT ![n] = head]
    /\ pushing' = [pushing EXCEPT ![p] = n]
    /\ UNCHANGED <<head, reverse_tail, reverse_head, removing, seen, got, dying>>

(* The exchange of the head, again until it succeeds. *)
PushCas(p) ==
    /\ I!PushCas(p)
    /\ UNCHANGED <<allocated, dying>>

(* prs_mpscq_build_reverse *)
BuildReverse(h) == I!Reversed(h)

(* prs_mpscq_begin *)
Begin ==
    /\ dying # "freed"
    /\ I!Begin
    /\ UNCHANGED <<allocated, dying>>

(* prs_mpscq_remove loads the head, ... *)
RemoveBegin(n) ==
    /\ n \in I!Queued
    /\ dying = "yes" => n = got
    /\ dying # "freed"
    /\ removing = Null
    /\ removing' = n
    /\ seen' = head
    /\ UNCHANGED <<head, reverse_tail, reverse_head, next, prev, pushing, got,
                   allocated, dying>>

(* Seeded fault: the way back is not completed first. *)
UnlinkShort ==
    LET n == removing
        first == seen = n /\ head = n
    IN  /\ n # Null
        /\ head' = IF first THEN next[n] ELSE head
        /\ prev' = [m \in Nodes |-> IF m = next[n] THEN prev[n] ELSE prev[m]]
        /\ next' = [m \in Nodes |-> IF m = prev[n] THEN next[n] ELSE next[m]]
        /\ reverse_head' = IF n = reverse_head THEN prev[n] ELSE reverse_head
        /\ reverse_tail' = IF n = reverse_tail THEN next[n] ELSE reverse_tail
        /\ allocated' = allocated \ {n}
        /\ removing' = Null
        /\ seen' = Null
        /\ UNCHANGED <<pushing, got, dying>>

(* ... moves it past the node if that is still the head and otherwise      *)
(* completes the way back, then unlinks the node and frees it.             *)
Unlink ==
    LET n == removing
        first == seen = n /\ head = n
        r == IF first THEN I!AsIs ELSE BuildReverse(IF seen = n THEN head ELSE seen)
        after == next[n]
        before == r.prev[n]
    IN  /\ n # Null
        /\ head' = IF first THEN after ELSE head
        /\ prev' = [m \in Nodes |-> IF m = after THEN before ELSE r.prev[m]]
        /\ next' = [m \in Nodes |-> IF m = before THEN after ELSE next[m]]
        /\ reverse_head' = IF n = r.head THEN before ELSE r.head
        /\ reverse_tail' = IF n = r.tail THEN after ELSE r.tail
        /\ allocated' = allocated \ {n}
        /\ removing' = Null
        /\ seen' = Null
        /\ UNCHANGED <<pushing, got, dying>>

(* prs_mpscq_destroy, called when nobody pushes any more: begin and remove *)
(* until the queue is empty.                                               *)
Destroy ==
    \/ /\ dying = "no"
       /\ pushing = [p \in Producers |-> Null]
       /\ dying' = "yes"
       /\ I!Begin
       /\ UNCHANGED allocated
    \/ /\ dying = "yes"
       /\ removing = Null
       /\ head = Null
       /\ dying' = "freed"
       /\ UNCHANGED <<head, reverse_tail, reverse_head, next, prev, pushing,
                      removing, seen, got, allocated>>

Next ==
    \/ \E p \in Producers : PushCas(p) \/ \E n \in Nodes : Push(p, n)
    \/ Begin \/ Unlink \/ Destroy
    \/ \E n \in Nodes : RemoveBegin(n)

Spec == Init /\ [][Next]_vars

(* Between two calls of the consumer every pointer a walk of the queue can *)
(* follow leads to a node that is in the queue and allocated: the head,    *)
(* both ends of the way back, and the links of the nodes met, however      *)
(* pushes and removals overlapped and though freed memory is pushed again  *)
(* (prs_mpscq_remove frees the node it unlinks).  What was pushed and not  *)
(* removed is in the queue, and destroy leaves no node behind.             *)
LinksAreLive ==
    removing = Null =>
       LET waiting == {pushing[p] : p \in Producers} \ {Null} IN
       /\ I!Queued = allocated \ waiting
       /\ {head, reverse_head, reverse_tail} \subseteq I!Queued \cup {Null}
       /\ \A n \in I!Queued : {next[n], prev[n]} \subseteq I!Queued \cup {Null}
       /\ reverse_tail # Null => prev[reverse_tail] = Null
       /\ reverse_head # Null => next[reverse_head] = Null
       /\ reverse_head = Null <=> reverse_tail = Null

=============================================================================
