-------------------------------- MODULE Log ---------------------------------
(***************************************************************************)
(* The log (log.c) and the service that flushes it (svc/log.c).  Any       *)
(* thread prints: it takes an entry of the ring, or counts an overflow     *)
(* when there is none, writes the line into it and pushes it.  The service *)
(* and, at exit or in an exception handler, other threads flush: under a   *)
(* spinlock they pop the entries and write them to the file.               *)
(***************************************************************************)
EXTENDS MpmcRing, Sequences, FiniteSetsExt

CONSTANTS
    Writers,
    Flushers,
    Service,        \* the flusher that is prs_svc_log_task
    MaxPrints       \* bound: the lines printed in a behaviour

ASSUME LogAssumption ==
    /\ Writers \cup Flushers = Threads /\ Writers \cap Flushers = {}
    /\ Service \in Flushers /\ MaxPrints \in Nat

VARIABLES
    overflow_count,
    spinlock,       \* spinlock->lock
    count,          \* the entries the service's flush has written
    ticks_to_wait,  \* of the service
    file,           \* the lines written
    by,             \* history: per line printed, its writer
    dropped,        \* history: the lines that found the ring full
    overlap         \* history: two pushes were once under way together

logVars == <<overflow_count, spinlock, count, ticks_to_wait, file, by, dropped,
             overlap>>
vars == <<poolVars, ringVars, q, logVars>>

NoLine == [line |-> 0, ovf |-> 0]
MinWait == 100
MaxWait == 1000

(* prs_log_init, the line it prints included *)
Init ==
    /\ RingInit([line |-> 1, ovf |-> 0], NoLine)
    /\ overflow_count = 0
    /\ spinlock = FALSE
    /\ count = 0
    /\ ticks_to_wait = MinWait
    /\ file = <<>> /\ by = <<"init">> /\ dropped = {} /\ overlap = FALSE

-----------------------------------------------------------------------------
(* prs_log_vprint *)

Line(w) == Max({ l \in DOMAIN by : by[l] = w })

PrintBegin(w) ==
    /\ At(w, "idle") /\ Len(by) < MaxPrints
    /\ AllocBegin(w)
    /\ by' = Append(by, w)
    /\ UNCHANGED <<overflow_count, spinlock, count, ticks_to_wait, file,
                   dropped, overlap>>

(* No entry is free: the line is dropped, and counted. *)
Overflow(w) ==
    /\ AllocFails(w)
    /\ overflow_count' = overflow_count + 1
    /\ dropped' = dropped \cup {Line(w)}
    /\ q' = [q EXCEPT ![w] = Idle]
    /\ UNCHANGED <<poolVars, ringVars, spinlock, count, ticks_to_wait, file,
                   by, overlap>>

Pushing(w) == q[w].new # NoId /\ ~At(w, "allocated")

(* Fault: the overflows are reported and still counted. *)
FormatUnreset(w) ==
    /\ At(w, "allocated")
    /\ entry' = [entry EXCEPT ![Index(q[w].new)].data =
                   [line |-> Line(w), ovf |-> overflow_count]]
    /\ Goto(w, "loadTail")
    /\ overlap' = (overlap \/ \E u \in Writers : Pushing(u))
    /\ UNCHANGED <<poolVars, head, tail, inRing, overflow_count, spinlock,
                   count, ticks_to_wait, file, by, dropped>>

(* The first line that finds an entry reports the ones dropped so far. *)
Format(w) ==
    /\ At(w, "allocated")
    /\ entry' = [entry EXCEPT ![Index(q[w].new)].data =
                   [line |-> Line(w), ovf |-> overflow_count]]
    /\ overflow_count' = 0
    /\ Goto(w, "loadTail")
    /\ overlap' = (overlap \/ \E u \in Writers : Pushing(u))
    /\ UNCHANGED <<poolVars, head, tail, inRing, spinlock, count,
                   ticks_to_wait, file, by, dropped>>

WriterStep(w) ==
    \/ Overflow(w) \/ Format(w)
    \/ (AllocStep(w) \/ PushStep(w)) /\ UNCHANGED logVars

-----------------------------------------------------------------------------
(* prs_log_flush *)

(* prs_spinlock_lock: the exchange that finds the lock free. *)
SpinlockLock == ~spinlock /\ spinlock' = TRUE

SpinlockUnlock == spinlock' = FALSE

FlushBegin(f) ==
    /\ At(f, "idle")
    /\ SpinlockLock
    /\ count' = 0
    /\ Goto(f, "loadHead")
    /\ UNCHANGED <<poolVars, ringVars, overflow_count, ticks_to_wait, file, by,
                   dropped, overlap>>

WriteLine(f) ==
    /\ At(f, "popped")
    /\ file' = Append(file, Cur(f).data)
    /\ count' = IF f = Service THEN count + 1 ELSE 0
    /\ Goto(f, "free")
    /\ UNCHANGED <<poolVars, ringVars, overflow_count, spinlock, ticks_to_wait,
                   by, dropped, overlap>>

FreeLine(f) == At(f, "free") /\ FreeEntry(f) /\ UNCHANGED logVars

(* prs_svc_log_task: the more lines in a second, the sooner the next flush. *)
NextWait(wait, n) ==
    LET perSecond == (1000 * n) \div wait
        next == 1000 \div (IF perSecond = 0 THEN 1 ELSE perSecond)
    IN  IF next > MaxWait THEN MaxWait
        ELSE IF next < MinWait THEN MinWait ELSE next

FlushEnd(f) ==
    /\ At(f, "empty")
    /\ SpinlockUnlock
    /\ count' = 0
    /\ ticks_to_wait' = IF f = Service THEN NextWait(ticks_to_wait, count)
                        ELSE ticks_to_wait
    /\ q' = [q EXCEPT ![f] = Idle]
    /\ UNCHANGED <<poolVars, ringVars, overflow_count, file, by, dropped,
                   overlap>>

FlushStep(f) ==
    \/ WriteLine(f) \/ FreeLine(f) \/ FlushEnd(f)
    \/ PopStep(f) /\ UNCHANGED logVars

Next ==
    \/ \E w \in Writers : PrintBegin(w) \/ WriterStep(w)
    \/ \E f \in Flushers : FlushBegin(f) \/ FlushStep(f)

Spec == Init /\ [][Next]_vars

-----------------------------------------------------------------------------
(* Properties *)

(* The values the state can take; the service waits within its limits. *)
TypeOK ==
    /\ header \in [Entries -> [id : Nat, alloc : BOOLEAN, refcnt : Nat]]
    /\ entry \in [Entries -> [next : Nat, consumed : BOOLEAN,
                              data : [line : 0 .. MaxPrints,
                                      ovf : 0 .. MaxPrints]]]
    /\ head \in Nat /\ tail \in Nat
    /\ by \in Seq(Writers \cup {"init"}) /\ dropped \subseteq DOMAIN by
    /\ ticks_to_wait \in MinWait .. MaxWait

(* An entry has one reference for the ring and one for each thread that    *)
(* works on it, and whoever has one finds the entry it locked: no entry is *)
(* reused while it is read, linked or written.                             *)
EntryIsHeld ==
    \A e \in Entries \ {0} :
      LET i == header[e].id
          cur == { t \in Threads : HoldsCur(t) /\ Index(q[t].cur) = e }
          next == { t \in Threads : HoldsNext(t) /\ Index(q[t].next) = e }
          new == { t \in Threads : HoldsNew(t) /\ Index(q[t].new) = e }
          ring == { j \in inRing : Index(j) = e }
      IN  /\ header[e].refcnt = Cardinality(cur) + Cardinality(next)
                                  + Cardinality(new) + Cardinality(ring)
          /\ \A t \in cur : q[t].cur = i
          /\ \A t \in next : q[t].next = i
          /\ \A t \in new : q[t].new = i
          /\ ring \subseteq {i}

(* A line is written at most once, and the lines of a thread are written   *)
(* in the order in which it printed them, whoever flushes.                 *)
WrittenInOrder ==
    \A i, j \in DOMAIN file :
      (i < j /\ by[file[i].line] = by[file[j].line])
        => file[i].line < file[j].line

(* The entries whose line is still to be written. *)
Pending ==
    { q[w].new : w \in { u \in Writers : HoldsNew(u) /\ Pushing(u) } }
      \cup { i \in Reach : ~entry[Index(i)].consumed }
      \cup { q[f].cur : f \in { g \in Flushers : ~q[g].already /\ q[g].at \in
                {"loadAfter", "moveHead", "dropHead", "popped"} } }

(* As long as no two pushes overlap, no line is lost: it is dropped, being *)
(* printed, in the ring, or written; and each dropped line is reported by  *)
(* exactly one other, or still counted.  (When pushes overlap, one that    *)
(* finds a freed tail makes its entry the head, and cuts off the rest.)    *)
EveryLineIsAccounted ==
    ~overlap =>
      /\ \A l \in DOMAIN by :
           \/ l \in dropped
           \/ \E i \in Pending : entry[Index(i)].data.line = l
           \/ \E i \in DOMAIN file : file[i].line = l
           \/ \E w \in Writers : by[l] = w /\ l = Line(w)
                 /\ q[w].at \in {"scan", "take", "index", "allocated"}
      /\ Cardinality(dropped) =
           overflow_count
             + MapThenSumSet(LAMBDA i : entry[Index(i)].data.ovf, Pending)
             + MapThenSumSet(LAMBDA i : file[i].ovf, DOMAIN file)

=============================================================================
