------------------------------- MODULE MpscIq -------------------------------
(***************************************************************************)
(* The intrusive multi-producer single-consumer queue (lib/ds/mpsciq.c)    *)
(* behind the ready queues and the remove queue of the scheduler.          *)
(* Producers push on a list that links from the youngest node to the       *)
(* oldest; the one consumer builds the links back as it needs them, and    *)
(* can take out any node.                                                  *)
(*                                                                         *)
(* A producer touches head and the links of the node it pushes, nothing    *)
(* else.  What the consumer does between two accesses to head is therefore *)
(* one step.                                                               *)
(***************************************************************************)
EXTENDS Naturals, FiniteSets, SequencesExt

CONSTANTS Nodes, Producers,
          Null          \* the null pointer

VARIABLES
    head,           \* mpsciq->head, the youngest node
    reverse_tail,   \* mpsciq->reverse_tail, the youngest with a way back
    reverse_head,   \* mpsciq->reverse_head, the oldest node
    next, prev,     \* node->next and node->prev
    pushing,        \* per producer: the node it pushes
    removing,       \* the node the consumer removes
    seen,           \* the head it has loaded
    got             \* what prs_mpsciq_begin returned last

queue == <<head, reverse_tail, reverse_head, next, prev>>
vars == <<queue, pushing, removing, seen, got>>

(* prs_mpsciq_create *)
Init ==
    /\ head = Null
    /\ reverse_tail = Null
    /\ reverse_head = Null
    /\ next = [n \in Nodes |-> Null]
    /\ prev = [n \in Nodes |-> Null]
    /\ pushing = [p \in Producers |-> Null]
    /\ removing = Null
    /\ seen = Null
    /\ got = Null

(* The nodes from n down the next links to stop, stop left out. *)
Chain(n, stop) ==
    LET reached[k \in 0 .. Cardinality(Nodes)] ==
          IF k = 0 THEN n
          ELSE IF reached[k - 1] \in {stop, Null} THEN Null ELSE next[reached[k - 1]]
        len == CHOOSE k \in 0 .. Cardinality(Nodes) :
                 reached[k] = stop /\ \A j \in 0 .. k - 1 : reached[j] # stop
    IN  [k \in 1 .. len |-> reached[k - 1]]

Queued == Range(Chain(head, Null))
Oldest == Reverse(Chain(head, Null))    \* the queue, the oldest node first

(***************************************************************************)
(* Producers.                                                              *)
(***************************************************************************)

(* A node can be pushed when it is in no queue and nobody pushes it.       *)
Idle(n) == n \notin Queued /\ \A p \in Producers : pushing[p] # n

(* prs_mpsciq_push, up to the first exchange; a node with links is refused.*)
Push(p, n) ==
    /\ pushing[p] = Null
    /\ Idle(n)
    /\ next[n] = Null /\ prev[n] = Null
    /\ next' = [next EXCEPT ![n] = head]
    /\ pushing' = [pushing EXCEPT ![p] = n]
    /\ UNCHANGED <<head, reverse_tail, reverse_head, prev, removing, seen, got>>

(* Fault: the head is replaced whatever it has become. *)
PushBlind(p) ==
    /\ pushing[p] # Null
    /\ head' = pushing[p]
    /\ pushing' = [pushing EXCEPT ![p] = Null]
    /\ UNCHANGED <<reverse_tail, reverse_head, next, prev, removing, seen, got>>

(* The compare-and-exchange: a head that changed becomes the new next. *)
PushCas(p) ==
    LET n == pushing[p] IN
    /\ n # Null
    /\ \/ /\ head = next[n]
          /\ head' = n
          /\ pushing' = [pushing EXCEPT ![p] = Null]
          /\ UNCHANGED next
       \/ /\ head # next[n]
          /\ next' = [next EXCEPT ![n] = head]
          /\ UNCHANGED <<head, pushing>>
    /\ UNCHANGED <<reverse_tail, reverse_head, prev, removing, seen, got>>

(***************************************************************************)
(* The consumer.                                                           *)
(***************************************************************************)

AsIs == [prev |-> prev, head |-> reverse_head, tail |-> reverse_tail]

(* Fault: the way back begins at the youngest node. *)
ReversedFromYoungest(h) ==
    LET new == Chain(h, reverse_tail) IN
    IF h = reverse_tail THEN AsIs
    ELSE [prev |-> [n \in Nodes |->
                      IF \E k \in DOMAIN new : next[new[k]] = n
                      THEN new[CHOOSE k \in DOMAIN new : next[new[k]] = n] ELSE prev[n]],
          head |-> IF reverse_head = Null THEN h ELSE reverse_head,
          tail |-> h]

(* prs_mpsciq_build_reverse: the way back and its ends once it leads to h. *)
Reversed(h) ==
    LET new == Chain(h, reverse_tail) IN
    IF h = reverse_tail THEN AsIs
    ELSE [prev |-> [n \in Nodes |->
                      IF \E k \in DOMAIN new : next[new[k]] = n
                      THEN new[CHOOSE k \in DOMAIN new : next[new[k]] = n] ELSE prev[n]],
          head |-> IF reverse_head = Null THEN Last(new) ELSE reverse_head,
          tail |-> h]

(* prs_mpsciq_begin *)
Begin ==
    /\ removing = Null
    /\ LET r == Reversed(head) IN
       /\ prev' = r.prev
       /\ reverse_head' = r.head
       /\ reverse_tail' = r.tail
       /\ got' = r.head
    /\ UNCHANGED <<head, next, pushing, removing, seen>>

(* prs_mpsciq_remove loads the head, ... *)
RemoveBegin(n) ==
    /\ removing = Null
    /\ n \in Queued
    /\ removing' = n
    /\ seen' = head
    /\ UNCHANGED <<queue, pushing, got>>

(* ... moves it past the node if that is still the head, and otherwise     *)
(* makes sure there is a way back; then it unlinks the node.               *)
Unlink ==
    LET n == removing
        first == seen = n /\ head = n
        r == IF first THEN AsIs ELSE Reversed(IF seen = n THEN head ELSE seen)
        after == next[n]
        before == r.prev[n]
    IN  /\ n # Null
        /\ head' = IF first THEN after ELSE head
        /\ prev' = [m \in Nodes |-> IF m = n THEN Null
                                    ELSE IF m = after THEN before ELSE r.prev[m]]
        /\ next' = [m \in Nodes |-> IF m = n THEN Null
                                    ELSE IF m = before THEN after ELSE next[m]]
        /\ reverse_head' = IF n = r.head THEN before ELSE r.head
        /\ reverse_tail' = IF n = r.tail THEN after ELSE r.tail
        /\ removing' = Null
        /\ seen' = Null
        /\ UNCHANGED <<pushing, got>>

Next ==
    \/ \E p \in Producers : PushCas(p) \/ \E n \in Nodes : Push(p, n)
    \/ Begin
    \/ \E n \in Nodes : RemoveBegin(n)
    \/ Unlink

Spec == Init /\ [][Next]_vars

(***************************************************************************)
(* Properties.                                                             *)
(***************************************************************************)

(* The values the state can take. *)
TypeOK ==
    /\ {head, reverse_tail, reverse_head, removing, seen, got} \subseteq Nodes \cup {Null}
    /\ next \in [Nodes -> Nodes \cup {Null}]
    /\ prev \in [Nodes -> Nodes \cup {Null}]
    /\ pushing \in [Producers -> Nodes \cup {Null}]

(* What prs_mpsciq_check asserts when it is compiled in: from reverse_tail *)
(* on, the links back mirror the links forth, and they begin at the oldest *)
(* node.                                                                   *)
IntegrityCheck ==
    LET list == Chain(head, Null) IN
    /\ reverse_tail = Null <=> reverse_head = Null
    /\ reverse_head # Null => list # <<>> /\ reverse_head = Last(list)
    /\ head = Null => reverse_tail = Null
    /\ \A i \in DOMAIN list : list[i] = reverse_tail =>
         \A k \in i + 1 .. Len(list) : prev[list[k]] = list[k - 1]

(* prs_mpsciq_push never refuses a node that is in no queue. *)
IdleIsUnlinked ==
    \A n \in Nodes : Idle(n) /\ n # removing => next[n] = Null /\ prev[n] = Null

(* Nodes come out in the order in which they were pushed. *)
Fifo == INSTANCE NodeQueue WITH q <- Oldest, first <- got
FifoSpec == Fifo!Spec

=============================================================================
