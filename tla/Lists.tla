------------------------------- MODULE Lists --------------------------------
(***************************************************************************)
(* The doubly linked lists: prs/lib/ds/dllist.c, which allocates its nodes,*)
(* and prs/lib/ds/idllist.c, whose nodes are members of the caller's       *)
(* structures and go from one list to another.  Both are sequential: their *)
(* users serialise the calls.  The run-time checks are those of a DEBUG    *)
(* build; a call that one of them refuses changes nothing.                 *)
(***************************************************************************)
EXTENDS Integers, Sequences, SequencesExt

CONSTANTS DlLists,    \* lists of dllist.c
          IdlLists,   \* lists of idllist.c
          DlNodes,    \* memory that prs_dllist_insert_before may allocate
          IdlNodes,   \* nodes inside the caller's structures
          Null

ListIds == DlLists \cup IdlLists
Nodes == DlNodes \cup IdlNodes

VARIABLES
    list,       \* per list: its head, tail and size
    next, prev, \* the links of each node; those of freed memory stay
    owner,      \* node->list of an intrusive node
    dying,      \* lists that are being destroyed
    seq         \* ghost: per list, the nodes in the order callers asked for

vars == <<list, next, prev, owner, dying, seq>>

(* prs_dllist_create, prs_idllist_create *)
Empty == [head |-> Null, tail |-> Null, size |-> 0]

Init ==
    /\ list = [l \in ListIds |-> Empty]
    /\ next = [n \in Nodes |-> Null]
    /\ prev = [n \in Nodes |-> Null]
    /\ owner = [n \in IdlNodes |-> Null]
    /\ dying = {}
    /\ seq = [l \in ListIds |-> <<>>]

(* What callers ask for: the node goes before another, or last. *)
Inserted(s, before, node) ==
    IF before = Null THEN Append(s, node)
    ELSE LET i == CHOOSE i \in DOMAIN s : s[i] = before
         IN  SubSeq(s, 1, i - 1) \o <<node>> \o SubSeq(s, i, Len(s))

(* Seeded fault: the node before the new one is not told of it. *)
LinkOneWay(l, before, node) ==
    LET p == IF before = Null THEN list[l].tail ELSE prev[before] IN
    /\ next' = [next EXCEPT ![node] = before]
    /\ prev' = [n \in Nodes |-> IF n = node THEN p
                                ELSE IF n = before THEN node ELSE prev[n]]
    /\ list' = [list EXCEPT ![l] =
                  [head |-> IF before = @.head THEN node ELSE @.head,
                   tail |-> IF p = @.tail THEN node ELSE @.tail,
                   size |-> @.size + 1]]

(* The assignments the two insert_before functions have in common. *)
Link(l, before, node) ==
    LET p == IF before = Null THEN list[l].tail ELSE prev[before] IN
    /\ next' = [n \in Nodes |-> IF n = node THEN before
                                ELSE IF n = p THEN node ELSE next[n]]
    /\ prev' = [n \in Nodes |-> IF n = node THEN p
                                ELSE IF n = before THEN node ELSE prev[n]]
    /\ list' = [list EXCEPT ![l] =
                  [head |-> IF before = @.head THEN node ELSE @.head,
                   tail |-> IF p = @.tail THEN node ELSE @.tail,
                   size |-> @.size + 1]]

(* The assignments the two remove functions have in common; cleared holds  *)
(* the node when its own links are reset.                                  *)
Unlink(l, node, cleared) ==
    LET n == next[node]
        p == prev[node]
    IN  /\ next' = [m \in Nodes |-> IF m \in cleared THEN Null
                                    ELSE IF m = p THEN n ELSE next[m]]
        /\ prev' = [m \in Nodes |-> IF m \in cleared THEN Null
                                    ELSE IF m = n THEN p ELSE prev[m]]
        /\ list' = [list EXCEPT ![l] =
                      [head |-> IF node = @.head THEN n ELSE @.head,
                       tail |-> IF node = @.tail THEN p ELSE @.tail,
                       size |-> @.size - 1]]

(* Memory that prs_pal_malloc may return. *)
Free == {n \in DlNodes : \A l \in DlLists : n \notin Range(seq[l])}

(* prs_dllist_insert_before; without memory it changes nothing. *)
DlInsertBefore(l, before, node) ==
    /\ node \in Free
    /\ Link(l, before, node)
    /\ UNCHANGED owner

(* prs_dllist_remove *)
DlRemove(l, node) ==
    /\ Unlink(l, node, {})
    /\ UNCHANGED owner

(* prs_idllist_insert_before *)
IdlInsertBefore(l, before, node) ==
    /\ next[node] = Null
    /\ prev[node] = Null
    /\ before # Null => owner[before] = l
    /\ owner[node] = Null
    /\ Link(l, before, node)
    /\ owner' = [owner EXCEPT ![node] = l]

(* prs_idllist_remove *)
IdlRemove(l, node) ==
    /\ owner[node] = l
    /\ Unlink(l, node, {node})
    /\ owner' = [owner EXCEPT ![node] = Null]

Insert(l) ==
    \E before \in Range(seq[l]) \cup {Null}, node \in Nodes :
       /\ \/ l \in DlLists /\ node \in DlNodes /\ DlInsertBefore(l, before, node)
          \/ l \in IdlLists /\ node \in IdlNodes /\ IdlInsertBefore(l, before, node)
       /\ l \notin dying
       /\ seq' = [seq EXCEPT ![l] = Inserted(@, before, node)]
       /\ UNCHANGED dying

RemoveNode(l, node) ==
    /\ \/ l \in DlLists /\ DlRemove(l, node)
       \/ l \in IdlLists /\ IdlRemove(l, node)
    /\ seq' = [seq EXCEPT ![l] = Remove(@, node)]

RemoveAny(l) ==
    /\ l \notin dying
    /\ \E node \in Range(seq[l]) : RemoveNode(l, node)
    /\ UNCHANGED dying

(* prs_dllist_destroy and prs_idllist_destroy remove the first node until  *)
(* there is none; a list may then be created at the same address.          *)
Destroy(l) ==
    \/ /\ l \notin dying
       /\ dying' = dying \cup {l}
       /\ UNCHANGED <<list, next, prev, owner, seq>>
    \/ /\ l \in dying
       /\ list[l].head # Null
       /\ RemoveNode(l, list[l].head)
       /\ UNCHANGED dying
    \/ /\ l \in dying
       /\ list[l].head = Null
       /\ list' = [list EXCEPT ![l] = Empty]
       /\ dying' = dying \ {l}
       /\ UNCHANGED <<next, prev, owner, seq>>

Next == \E l \in ListIds : Insert(l) \/ RemoveAny(l) \/ Destroy(l)

Spec == Init /\ [][Next]_vars

(* After any sequence of insertions, removals and destructions, a walk     *)
(* along next from the head and one along prev from the tail both meet the *)
(* nodes in the order callers asked for, the size is their number, and an  *)
(* intrusive node in no list has no links left, so that the run-time       *)
(* checks of prs_idllist_insert_before do not refuse it.                   *)
ListsAreSequences ==
    /\ \A l \in ListIds :
         LET s == seq[l] IN
         /\ list[l].size = Len(s)
         /\ list[l].head = IF s = <<>> THEN Null ELSE Head(s)
         /\ list[l].tail = IF s = <<>> THEN Null ELSE Last(s)
         /\ \A i \in DOMAIN s :
              /\ next[s[i]] = IF i = Len(s) THEN Null ELSE s[i + 1]
              /\ prev[s[i]] = IF i = 1 THEN Null ELSE s[i - 1]
    /\ \A n \in IdlNodes :
         (\A l \in IdlLists : n \notin Range(seq[l]))
         => next[n] = Null /\ prev[n] = Null /\ owner[n] = Null

=============================================================================
