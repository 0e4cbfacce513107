------------------------------- MODULE MpmcQ -------------------------------
(***************************************************************************)
(* The multi-producer multi-consumer queue (lib/ds/mpmcq.c) that holds the *)
(* waiters of a semaphore, on the pointer directory (lib/ds/pd.c) that     *)
(* turns the identifier of a node into a counted reference to it.          *)
(*                                                                         *)
(* The queue keeps identifiers, never pointers: a thread that reads head,  *)
(* tail or next must still lock what it has read, and the node may be      *)
(* freed in between.  Every access to a shared word is a step of its own.  *)
(* An identifier is never used twice, as in pd.c, where it grows with each *)
(* allocation; the directory is taken to have room.                        *)
(***************************************************************************)
EXTENDS Integers, FiniteSets

CONSTANTS
    Threads,
    MaxNodes        \* bound: the elements pushed in a behaviour

Ids == 1 .. MaxNodes
NoId == 0                          \* PRS_PD_ID_INVALID

ASSUME MpmcQAssumption == MaxNodes \in Nat

VARIABLES
    head, tail,     \* mpmcq->head, mpmcq->tail
    node,           \* per identifier: references, next, consumed
    used,           \* the identifiers allocated so far
    q               \* per thread: the locals of prs_mpmcq_push and _pop

queueVars == <<head, tail, node, used, q>>

(* The locals: where the thread is, its new node, the node it works on     *)
(* (tail or test_node), whether that lock succeeded, the one after it, and *)
(* already_consumed.                                                       *)
Idle == [at |-> "idle", new |-> NoId, id |-> NoId, locked |-> FALSE,
         next |-> NoId, already |-> FALSE]

QInit ==
    /\ head = NoId
    /\ tail = NoId
    /\ node = [n \in Ids |-> [refcnt |-> 0, next |-> NoId, consumed |-> FALSE]]
    /\ used = 0
    /\ q = [t \in Threads |-> Idle]

At(t, step) == q[t].at = step
Goto(t, step) == q' = [q EXCEPT ![t].at = step]

(* The locals of a call that begins or has ended: only the new node and,   *)
(* from a pop, the node it found are still of use.                         *)
Fresh(t, step) == [Idle EXCEPT !.at = step, !.new = q[t].new]
Found(t) == [Fresh(t, "popped") EXCEPT !.id = q[t].id]

-----------------------------------------------------------------------------
(* The pointer directory *)

(* prs_pd_alloc_and_lock: a new identifier, with one reference. *)
PdAlloc ==
    /\ used < MaxNodes
    /\ used' = used + 1
    /\ node' = [node EXCEPT ![used + 1].refcnt = 1]

(* prs_pd_lock: fails when the last reference is gone. *)
PdLockable(n) == n # NoId /\ node[n].refcnt > 0

(* Fault: the lock is not counted. *)
PdLockUncounted(n) == node

PdLock(n) ==
    IF PdLockable(n) THEN [node EXCEPT ![n].refcnt = @ + 1] ELSE node

(* prs_pd_unlock; whoever takes the count to zero frees the node. *)
PdUnlock(n) == [node EXCEPT ![n].refcnt = @ - 1]

-----------------------------------------------------------------------------
(* prs_mpmcq_push *)

AllocNode(t) ==
    /\ PdAlloc
    /\ q' = [q EXCEPT ![t] = [Idle EXCEPT !.at = "loadTail", !.new = used + 1]]
    /\ UNCHANGED <<head, tail>>

(* prs_mpmcq_lock(&mpmcq->tail): the load, then the lock. *)
LoadTail(t) ==
    /\ At(t, "loadTail")
    /\ q' = [q EXCEPT ![t].id = tail, ![t].at = "lockTail"]
    /\ UNCHANGED <<head, tail, node, used>>

LockTail(t) ==
    LET ok == PdLockable(q[t].id) IN
    /\ At(t, "lockTail")
    /\ node' = PdLock(q[t].id)
    /\ q' = [q EXCEPT ![t].locked = ok,
                      ![t].at = IF ok THEN "loadNext" ELSE "swing"]
    /\ UNCHANGED <<head, tail, used>>

(* prs_mpmcq_lock(&tail.node->next) *)
LoadNext(t) ==
    /\ At(t, "loadNext")
    /\ q' = [q EXCEPT ![t].next = node[q[t].id].next, ![t].at = "lockNext"]
    /\ UNCHANGED <<head, tail, node, used>>

LockNext(t) ==
    /\ At(t, "lockNext")
    /\ node' = PdLock(q[t].next)
    /\ Goto(t, IF PdLockable(q[t].next) THEN "advance" ELSE "link")
    /\ UNCHANGED <<head, tail, used>>

(* There is a next node: help the tail on, and go on from that node. *)
AdvanceTail(t) ==
    /\ At(t, "advance")
    /\ tail' = IF tail = q[t].id THEN q[t].next ELSE tail
    /\ Goto(t, "leave")
    /\ UNCHANGED <<head, node, used>>

LeaveTail(t) ==
    /\ At(t, "leave")
    /\ node' = PdUnlock(q[t].id)
    /\ q' = [q EXCEPT ![t].id = q[t].next, ![t].at = "loadNext"]
    /\ UNCHANGED <<head, tail, used>>

(* There is none: link the new node, or start over from mpmcq->tail. *)
LinkNode(t) ==
    LET ok == node[q[t].id].next = q[t].next IN
    /\ At(t, "link")
    /\ node' = IF ok THEN [node EXCEPT ![q[t].id].next = q[t].new] ELSE node
    /\ Goto(t, IF ok THEN "linked" ELSE "retry")
    /\ UNCHANGED <<head, tail, used>>

UnlockTail(t) ==
    /\ At(t, "linked") \/ At(t, "retry")
    /\ node' = PdUnlock(q[t].id)
    /\ Goto(t, IF At(t, "linked") THEN "swing" ELSE "loadTail")
    /\ UNCHANGED <<head, tail, used>>

(* Move mpmcq->tail to the new node.  With no old tail to link to, failing *)
(* means that there is one now, and succeeding makes this the first node.  *)
SwingTail(t) ==
    LET ok == tail = q[t].id IN
    /\ At(t, "swing")
    /\ tail' = IF ok THEN q[t].new ELSE tail
    /\ IF q[t].locked THEN q' = [q EXCEPT ![t] = Fresh(t, "pushed")]
       ELSE Goto(t, IF ok THEN "setHead" ELSE "loadTail")
    /\ UNCHANGED <<head, node, used>>

SetHead(t) ==
    /\ At(t, "setHead")
    /\ head' = q[t].new
    /\ q' = [q EXCEPT ![t] = Fresh(t, "pushed")]
    /\ UNCHANGED <<tail, node, used>>

PushStep(t) ==
    \/ LoadTail(t) \/ LockTail(t) \/ LoadNext(t) \/ LockNext(t)
    \/ AdvanceTail(t) \/ LeaveTail(t) \/ LinkNode(t) \/ UnlockTail(t)
    \/ SwingTail(t) \/ SetHead(t)

-----------------------------------------------------------------------------
(* prs_mpmcq_pop *)

(* prs_mpmcq_lock(&mpmcq->head): the load, then the lock. *)
LoadHead(t) ==
    /\ At(t, "loadHead")
    /\ q' = [q EXCEPT ![t].id = head, ![t].at = "lockHead"]
    /\ UNCHANGED <<head, tail, node, used>>

LockHead(t) ==
    /\ At(t, "lockHead")
    /\ node' = PdLock(q[t].id)
    /\ Goto(t, IF PdLockable(q[t].id) THEN "consume" ELSE "reload")
    /\ UNCHANGED <<head, tail, used>>

(* The head could not be locked: PRS_UNKNOWN, unless it has moved. *)
ReloadHead(t) ==
    /\ At(t, "reload")
    /\ q' = [q EXCEPT ![t] = IF head = q[t].id THEN Fresh(t, "empty")
                             ELSE [@ EXCEPT !.id = head, !.at = "lockHead"]]
    /\ UNCHANGED <<head, tail, node, used>>

(* Fault: the flag is read and set in two steps that both succeed. *)
ConsumeAgain(t) ==
    /\ At(t, "consume")
    /\ node' = [node EXCEPT ![q[t].id].consumed = TRUE]
    /\ q' = [q EXCEPT ![t].already = FALSE, ![t].at = "loadAfter"]
    /\ UNCHANGED <<head, tail, used>>

(* The exchange that decides who gets the element. *)
Consume(t) ==
    /\ At(t, "consume")
    /\ node' = [node EXCEPT ![q[t].id].consumed = TRUE]
    /\ q' = [q EXCEPT ![t].already = node[q[t].id].consumed,
                      ![t].at = "loadAfter"]
    /\ UNCHANGED <<head, tail, used>>

(* prs_mpmcq_lock(&test_node.node->next) *)
LoadAfter(t) ==
    /\ At(t, "loadAfter")
    /\ q' = [q EXCEPT ![t].next = node[q[t].id].next, ![t].at = "lockAfter"]
    /\ UNCHANGED <<head, tail, node, used>>

LockAfter(t) ==
    /\ At(t, "lockAfter")
    /\ node' = PdLock(q[t].next)
    /\ Goto(t, IF PdLockable(q[t].next) THEN "moveHead" ELSE "put")
    /\ UNCHANGED <<head, tail, used>>

(* Move the head on.  Who succeeds gives back the reference of the queue.  *)
MoveHead(t) ==
    LET ok == head = q[t].id IN
    /\ At(t, "moveHead")
    /\ head' = IF ok THEN q[t].next ELSE head
    /\ Goto(t, IF ok THEN "drop" ELSE "passed")
    /\ UNCHANGED <<tail, node, used>>

DropHead(t) ==
    /\ At(t, "drop")
    /\ node' = PdUnlock(q[t].id)
    /\ Goto(t, "passed")
    /\ UNCHANGED <<head, tail, used>>

(* Somebody else consumed the element: go on to the next node. *)
SkipConsumed(t) ==
    /\ At(t, "passed") /\ q[t].already
    /\ node' = PdUnlock(q[t].id)
    /\ q' = [q EXCEPT ![t].id = q[t].next, ![t].at = "consume"]
    /\ UNCHANGED <<head, tail, used>>

PutNext(t) ==
    /\ At(t, "passed") /\ ~q[t].already
    /\ node' = PdUnlock(q[t].next)
    /\ Goto(t, "put")
    /\ UNCHANGED <<head, tail, used>>

(* PRS_OK with an element, or PRS_EMPTY. *)
PutNode(t) ==
    /\ At(t, "put")
    /\ node' = PdUnlock(q[t].id)
    /\ q' = [q EXCEPT ![t] = IF @.already THEN Fresh(t, "empty") ELSE Found(t)]
    /\ UNCHANGED <<head, tail, used>>

PopStep(t) ==
    \/ LoadHead(t) \/ LockHead(t) \/ ReloadHead(t) \/ Consume(t)
    \/ LoadAfter(t) \/ LockAfter(t) \/ MoveHead(t) \/ DropHead(t)
    \/ SkipConsumed(t) \/ PutNext(t) \/ PutNode(t)

-----------------------------------------------------------------------------
(* Where a thread holds a reference to a node. *)
HoldsNode(t, n) ==
    /\ q[t].id = n
    /\ q[t].at \in {"loadNext", "lockNext", "advance", "leave", "link",
                    "linked", "retry", "consume", "loadAfter", "lockAfter",
                    "moveHead", "drop", "passed", "put"}

HoldsNext(t, n) ==
    /\ q[t].next = n
    /\ q[t].at \in {"advance", "leave", "moveHead", "drop", "passed"}

(* The owners of a node that are threads. *)
Holds(n) ==
    Cardinality({ t \in Threads : HoldsNode(t, n) })
      + Cardinality({ t \in Threads : HoldsNext(t, n) })

=============================================================================
