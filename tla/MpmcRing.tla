------------------------------ MODULE MpmcRing ------------------------------
(***************************************************************************)
(* The multi-producer multi-consumer ring (lib/ds/mpmcring.c) the log is   *)
(* kept in.  It links pool entries by identifiers, so that a thread which  *)
(* has read head, tail or next must still lock what it has read.  Every    *)
(* access to a word another thread may write is a step of its own.         *)
(***************************************************************************)
EXTENDS Pool

CONSTANT Threads

VARIABLES
    head, tail,     \* mpmcring->head_id, mpmcring->tail_id
    entry,          \* per pool entry: next, consumed, and the data
    q,              \* per thread: its locals
    inRing          \* history: the identifiers the ring has a reference to

ringVars == <<head, tail, entry, inRing>>

(* The locals: where the thread is, the entry it pushes, the index or the  *)
(* identifier it works on, whether that is locked, the next one (or        *)
(* prev_head_id), the header read, already_consumed.                       *)
NoHeader == [id |-> NoId, alloc |-> FALSE, refcnt |-> 0]
Idle == [at |-> "idle", new |-> NoId, cur |-> NoId, locked |-> FALSE,
         next |-> NoId, seen |-> NoHeader, already |-> FALSE]

(* prs_mpmcring_create, and the first element, which is pushed by the      *)
(* thread that created the ring before others know it.                     *)
RingInit(first, none) ==
    /\ header = [PoolHeader EXCEPT ![1] =
                   [id |-> 1, alloc |-> TRUE, refcnt |-> 1]]
    /\ write_index = 2
    /\ head = 1 /\ tail = 1
    /\ entry = [e \in Entries |-> [next |-> NoId, consumed |-> FALSE,
                                  data |-> IF e = 1 THEN first ELSE none]]
    /\ q = [t \in Threads |-> Idle]
    /\ inRing = {1}

At(t, step) == q[t].at = step
Goto(t, step) == q' = [q EXCEPT ![t].at = step]
Cur(t) == entry[Index(q[t].cur)]

-----------------------------------------------------------------------------
(* prs_mpmcring_alloc *)

(* The scan of prs_pool_alloc looks at each entry once, from write_index.  *)
(* q.cur is the index, q.next the end.                                     *)
AllocBegin(t) ==
    /\ q' = [q EXCEPT ![t] = [Idle EXCEPT !.at = "scan", !.cur = write_index,
                                          !.next = write_index + MaxEntries]]
    /\ UNCHANGED <<poolVars, ringVars>>

AllocScan(t) ==
    /\ At(t, "scan") /\ q[t].cur < q[t].next
    /\ q' = [q EXCEPT ![t] =
               IF PoolSkips(q[t].cur) THEN [@ EXCEPT !.cur = @ + 1]
               ELSE [@ EXCEPT !.at = "take", !.seen = header[Index(q[t].cur)]]]
    /\ UNCHANGED <<poolVars, ringVars>>

AllocTake(t) ==
    LET i == q[t].cur IN
    /\ At(t, "take")
    /\ IF PoolTakes(i, q[t].seen)
       THEN PoolTake(i) /\ q' = [q EXCEPT ![t].at = "index"]
       ELSE /\ q' = [q EXCEPT ![t].at = "scan", ![t].cur = i + 1,
                              ![t].seen = NoHeader]
            /\ UNCHANGED header
    /\ UNCHANGED <<write_index, ringVars>>

(* The entry is the thread's; write_index may go back if it was slow. *)
AllocIndex(t) ==
    LET i == q[t].cur IN
    /\ At(t, "index")
    /\ write_index' = i + 1
    /\ PoolLockFirst(i)
    /\ entry' = [entry EXCEPT ![Index(i)].next = NoId,
                              ![Index(i)].consumed = FALSE]
    /\ q' = [q EXCEPT ![t] = [Idle EXCEPT !.at = "allocated", !.new = i]]
    /\ UNCHANGED <<head, tail, inRing>>

(* All entries are in use. *)
AllocFails(t) == At(t, "scan") /\ q[t].cur = q[t].next

AllocStep(t) == AllocScan(t) \/ AllocTake(t) \/ AllocIndex(t)

-----------------------------------------------------------------------------
(* prs_mpmcring_push *)

LoadTail(t) ==
    /\ At(t, "loadTail")
    /\ q' = [q EXCEPT ![t].cur = tail, ![t].locked = FALSE, ![t].next = NoId,
                      ![t].at = IF tail = NoId THEN "swing" ELSE "lockTail"]
    /\ UNCHANGED <<poolVars, ringVars>>

LockTail(t) ==
    /\ At(t, "lockTail")
    /\ PoolLock(q[t].cur)
    /\ q' = [q EXCEPT ![t].locked = PoolLockable(q[t].cur),
                      ![t].at = IF PoolLockable(q[t].cur) THEN "loadNext"
                                ELSE "swing"]
    /\ UNCHANGED <<write_index, ringVars>>

LoadNext(t) ==
    /\ At(t, "loadNext")
    /\ q' = [q EXCEPT ![t].next = Cur(t).next,
                      ![t].at = IF Cur(t).next = NoId THEN "link"
                                ELSE "lockNext"]
    /\ UNCHANGED <<poolVars, ringVars>>

LockNext(t) ==
    /\ At(t, "lockNext")
    /\ PoolLock(q[t].next)
    /\ Goto(t, IF PoolLockable(q[t].next) THEN "leave" ELSE "link")
    /\ UNCHANGED <<write_index, ringVars>>

(* There is a next entry: go on from it, and help the tail on. *)
LeaveTail(t) ==
    /\ At(t, "leave")
    /\ PoolUnlock(q[t].cur)
    /\ Goto(t, "advance")
    /\ UNCHANGED <<write_index, ringVars>>

AdvanceTail(t) ==
    /\ At(t, "advance")
    /\ tail' = IF tail = q[t].cur THEN q[t].next ELSE tail
    /\ q' = [q EXCEPT ![t].cur = q[t].next, ![t].at = "loadNext"]
    /\ UNCHANGED <<poolVars, head, entry, inRing>>

(* Link the new entry, unless another thread has linked one meanwhile. *)
LinkEntry(t) ==
    /\ At(t, "link")
    /\ IF Cur(t).next = q[t].next
       THEN /\ entry' = [entry EXCEPT ![Index(q[t].cur)].next = q[t].new]
            /\ inRing' = inRing \cup {q[t].new}
            /\ Goto(t, "unlockTail")
       ELSE Goto(t, "dropTail") /\ UNCHANGED <<entry, inRing>>
    /\ UNCHANGED <<poolVars, head, tail>>

UnlockTail(t) ==
    /\ At(t, "unlockTail") \/ At(t, "dropTail")
    /\ PoolUnlock(q[t].cur)
    /\ q' = [q EXCEPT ![t].next = NoId, ![t].at =
               IF At(t, "dropTail") THEN "loadTail" ELSE "swing"]
    /\ UNCHANGED <<write_index, ringVars>>

(* The tail moves to the new entry.  A thread that found no tail, or one   *)
(* that was freed, has linked nothing: it starts again if it is too late.  *)
SwingTail(t) ==
    LET set == tail = q[t].cur IN
    /\ At(t, "swing")
    /\ tail' = IF set THEN q[t].new ELSE tail
    /\ inRing' = IF set /\ ~q[t].locked THEN inRing \cup {q[t].new} ELSE inRing
    /\ q' = [q EXCEPT ![t] =
               IF q[t].locked THEN Idle
               ELSE [Idle EXCEPT !.new = q[t].new, !.at =
                       IF set THEN "setHead" ELSE "loadTail"]]
    /\ UNCHANGED <<poolVars, head, entry>>

SetHead(t) ==
    /\ At(t, "setHead")
    /\ head' = q[t].new
    /\ q' = [q EXCEPT ![t] = Idle]
    /\ UNCHANGED <<poolVars, tail, entry, inRing>>

PushStep(t) ==
    \/ LoadTail(t) \/ LockTail(t) \/ LoadNext(t) \/ LockNext(t)
    \/ LeaveTail(t) \/ AdvanceTail(t) \/ LinkEntry(t) \/ UnlockTail(t)
    \/ SwingTail(t) \/ SetHead(t)

-----------------------------------------------------------------------------
(* prs_mpmcring_pop *)

LoadHead(t) ==
    /\ At(t, "loadHead")
    /\ q' = [q EXCEPT ![t] = [Idle EXCEPT !.cur = head, !.at =
               IF head = NoId THEN "notFound" ELSE "lockHead"]]
    /\ UNCHANGED <<poolVars, ringVars>>

LockHead(t) ==
    /\ At(t, "lockHead")
    /\ PoolLock(q[t].cur)
    /\ Goto(t, IF PoolLockable(q[t].cur) THEN "consume" ELSE "notFound")
    /\ UNCHANGED <<write_index, ringVars>>

(* Not found: the ring is empty unless the head has moved. *)
ReloadHead(t) ==
    /\ At(t, "notFound")
    /\ q' = [q EXCEPT ![t] = IF head = q[t].cur
               THEN [Idle EXCEPT !.at = "empty"]
               ELSE [Idle EXCEPT !.cur = head, !.at = "lockHead"]]
    /\ UNCHANGED <<poolVars, ringVars>>

(* Fault: the entry is not marked. *)
ConsumeUnmarked(t) ==
    /\ At(t, "consume")
    /\ q' = [q EXCEPT ![t].already = Cur(t).consumed, ![t].at = "loadAfter"]
    /\ UNCHANGED <<poolVars, ringVars>>

Consume(t) ==
    /\ At(t, "consume")
    /\ entry' = [entry EXCEPT ![Index(q[t].cur)].consumed = TRUE]
    /\ q' = [q EXCEPT ![t].already = Cur(t).consumed, ![t].at = "loadAfter"]
    /\ UNCHANGED <<poolVars, head, tail, inRing>>

(* Where a pop goes that leaves the head where it is. *)
Popped(t, skip) == IF q[t].already THEN skip ELSE "popped"

(* The last entry stays in the ring, consumed. *)
LoadAfter(t) ==
    /\ At(t, "loadAfter")
    /\ q' = [q EXCEPT ![t].next = Cur(t).next,
                      ![t].at = IF Cur(t).next = NoId THEN Popped(t, "putLast")
                                ELSE "moveHead"]
    /\ UNCHANGED <<poolVars, ringVars>>

(* Move the head on.  prev_head_id is the head when that fails, but the    *)
(* old head when it succeeds.                                              *)
MoveHead(t) ==
    LET set == head = q[t].cur IN
    /\ At(t, "moveHead")
    /\ head' = IF set THEN q[t].next ELSE head
    /\ q' = [q EXCEPT ![t].next = head,
                      ![t].at = IF set THEN "dropHead" ELSE Popped(t, "skip")]
    /\ UNCHANGED <<poolVars, tail, entry, inRing>>

(* The reference of the ring goes with the head. *)
DropHead(t) ==
    /\ At(t, "dropHead")
    /\ PoolUnlock(q[t].cur)
    /\ inRing' = inRing \ {q[t].cur}
    /\ Goto(t, Popped(t, "skip"))
    /\ UNCHANGED <<write_index, head, tail, entry>>

(* Already consumed: try again from prev_head_id. *)
SkipConsumed(t) ==
    /\ At(t, "skip")
    /\ PoolUnlock(q[t].cur)
    /\ q' = [q EXCEPT ![t] = [Idle EXCEPT !.cur = q[t].next, !.at = "lockHead"]]
    /\ UNCHANGED <<write_index, ringVars>>

PutLast(t) ==
    /\ At(t, "putLast")
    /\ PoolUnlock(q[t].cur)
    /\ q' = [q EXCEPT ![t] = [Idle EXCEPT !.at = "empty"]]
    /\ UNCHANGED <<write_index, ringVars>>

PopStep(t) ==
    \/ LoadHead(t) \/ LockHead(t) \/ ReloadHead(t) \/ Consume(t)
    \/ LoadAfter(t) \/ MoveHead(t) \/ DropHead(t) \/ SkipConsumed(t)
    \/ PutLast(t)

(* prs_mpmcring_free *)
FreeEntry(t) ==
    /\ PoolUnlock(q[t].cur)
    /\ q' = [q EXCEPT ![t] = [Idle EXCEPT !.at = "loadHead"]]
    /\ UNCHANGED <<write_index, ringVars>>

-----------------------------------------------------------------------------
(* Where a thread has a reference to the entry it works on, to the next    *)
(* one, and to the entry it has allocated and not yet pushed.              *)
HoldsCur(t) ==
    q[t].at \in {"loadNext", "lockNext", "leave", "link", "unlockTail",
                 "dropTail", "consume", "loadAfter", "moveHead", "dropHead",
                 "skip", "putLast", "popped", "free"}
HoldsNext(t) == q[t].at \in {"leave", "advance"}
HoldsNew(t) ==
    \/ q[t].at \in {"allocated", "loadTail", "lockTail", "loadNext", "lockNext",
                    "leave", "advance", "link", "dropTail"}
    \/ At(t, "swing") /\ ~q[t].locked

(* The entries that can be reached from the head, or from the entry a push *)
(* is about to make the head.                                              *)
Reach ==
    LET Step(S) == S \cup { entry[Index(i)].next : i \in S }
        start == {head} \cup { q[t].new : t \in { u \in Threads :
                                                  At(u, "setHead") } }
    IN  LET Close[n \in 0 .. MaxEntries] ==
              IF n = 0 THEN start ELSE Step(Close[n - 1])
        IN  Close[MaxEntries] \ {NoId}

=============================================================================
