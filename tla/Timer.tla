------------------------------- MODULE Timer -------------------------------
(***************************************************************************)
(* Timeouts: the clock (clock.c), the timer wheel (timer.c), the pool its  *)
(* entries come from (lib/ds/pool.c) and the events it signals (event.c).  *)
(* A task that waits with a timeout creates an event, queues an entry that *)
(* names it, and blocks.  The clock thread adds one to the clock and turns *)
(* the wheel.  Whatever wakes the task, the task then cancels the entry.   *)
(* The timer finds that out later, when the entry comes up in the wheel.   *)
(*                                                                         *)
(* The clock thread alone reads and writes the lists of the wheel, so the  *)
(* move of the due slots to tmp_list is one step.  What it shares with the *)
(* tasks (the clock, the queue of new entries, the reference counts of     *)
(* entries and events) is accessed in steps of its own.                    *)
(***************************************************************************)
EXTENDS Integers, FiniteSets, SequencesExt

CONSTANTS
    Tasks,
    Entries,        \* the entries of the pool
    Events,         \* the addresses of events
    Wheels,         \* PRS_MAX_TIMER_WHEELS
    Bits,           \* PRS_MAX_TIMER_BITS_PER_WHEEL
    Timeouts,       \* the timeouts tasks ask for
    MaxLag,         \* bound: a task is at most this late with its entry
    None

Range2 == 2 ^ (Wheels * Bits)      \* one more than the largest prs_ticks_t
Slots == 2 ^ Bits                  \* PRS_MAX_TIMER_SLOTS_PER_WHEEL
Wheel == 0 .. Wheels - 1
Slot == 0 .. Slots - 1
Ticks == 0 .. Range2 - 1

ASSUME TimerAssumption ==
    /\ Wheels \in Nat \ {0} /\ Bits \in Nat \ {0}
    /\ Timeouts \subseteq Ticks
    /\ MaxLag \in Nat
    /\ None \notin Entries \cup Events

VARIABLES
    wide,           \* prs_int_t is wider than prs_ticks_t (64-bit builds)
    ticks,          \* s_prs_ticks
    now,            \* timer->now
    lists,          \* timer->lists
    tmp_list,       \* timer->tmp_list
    queued,         \* timer->queued
    entry,          \* per entry: pool header, end, event and, as history, due,
                    \* the ticks left until its end (-MaxLag: or past it
                    \* by more)
    event,          \* per event: its task, references, and whether its
                    \* token still unblocks the task
    others,         \* the events another source can still signal
    blocked,        \* per task: prs_task_block has not been undone
    pc,             \* per task: what it does next
    mine,           \* per task: the entry it has queued
    phase,          \* where the clock thread is in prs_timer_tick
    busy            \* the entry prs_timer_queue_internal is not done with

wheel == <<lists, tmp_list, now>>
vars == <<wide, ticks, wheel, queued, entry, event, others, blocked, pc, mine,
          phase, busy>>

(* An entry that is in the pool, an event that is not allocated, and a     *)
(* clock thread that is outside prs_timer_queue_internal.                  *)
FreeEntry == [alloc |-> FALSE, refcnt |-> 0, end |-> 0, event |-> None,
              due |-> 0]
FreeEvent == [task |-> None, refcnt |-> 0, open |-> FALSE]
NoWork == [step |-> "none", e |-> None]

Init ==
    /\ wide \in BOOLEAN
    /\ ticks = 0
    /\ now = 0
    /\ lists = [w \in Wheel |-> [s \in Slot |-> <<>>]]
    /\ tmp_list = <<>>
    /\ queued = <<>>
    /\ entry = [e \in Entries |-> FreeEntry]
    /\ event = [v \in Events |-> FreeEvent]
    /\ others = {}
    /\ blocked = [t \in Tasks |-> FALSE]
    /\ pc = [t \in Tasks |-> "run"]
    /\ mine = [t \in Tasks |-> None]
    /\ phase = "idle"
    /\ busy = NoWork

-----------------------------------------------------------------------------
(* Events and pool entries *)

(* One reference to the event less; the last frees it. *)
Dereferenced(v) ==
    [event EXCEPT ![v] = IF event[v].refcnt = 1 THEN FreeEvent
                         ELSE [event[v] EXCEPT !.refcnt = @ - 1]]

(* prs_event_signal: the task unblocks if the token is still the one it    *)
(* blocked with.  The token is read before the reference is given back,    *)
(* so no step of another source or of the task between the two changes     *)
(* which wait it can end, and they are one step here.                      *)
Signal(v) ==
    /\ event' = [Dereferenced(v) EXCEPT ![v].open = FALSE]
    /\ blocked' = IF event[v].open
                  THEN [blocked EXCEPT ![event[v].task] = FALSE]
                  ELSE blocked

(* prs_event_unref *)
Unref(v) ==
    /\ event' = Dereferenced(v)
    /\ UNCHANGED blocked

(* Fault: the allocation flag outlives the last reference. *)
UnlockedKept(e) == [entry EXCEPT ![e].refcnt = @ - 1]

(* prs_pool_unlock: the last reference frees the entry. *)
Unlocked(e) ==
    [entry EXCEPT ![e] = IF entry[e].refcnt = 1 THEN FreeEntry
                         ELSE [entry[e] EXCEPT !.refcnt = @ - 1]]

-----------------------------------------------------------------------------
(* Tasks *)

(* prs_event_create: the task blocks, and the token that unblocks it again *)
(* is still good.                                                          *)
EventCreate(t, refcnt) == [task |-> t, refcnt |-> refcnt, open |-> TRUE]

(* An event is made, and the first half of prs_timer_queue: the clock is   *)
(* read here and the entry reaches the timer later.  The event has one     *)
(* source (prs_sched_sleep), or a second one besides the timer             *)
(* (prs_sem_wait_timeout).  Free entries are alike, and so are free        *)
(* addresses of events, so it is enough to take one of each.               *)
QueueBegin(t, timeout, sources) ==
    LET e == CHOOSE x \in Entries : ~entry[x].alloc
        v == CHOOSE x \in Events : event[x].refcnt = 0
    IN
    /\ pc[t] = "run"
    /\ \E x \in Entries : ~entry[x].alloc
    /\ \E x \in Events : event[x].refcnt = 0
    /\ event' = [event EXCEPT ![v] = EventCreate(t, sources)]
    /\ others' = IF sources = 2 THEN others \cup {v} ELSE others
    /\ entry' = [entry EXCEPT ![e] = [alloc |-> TRUE, refcnt |-> 0,
                                      end |-> (ticks + timeout) % Range2,
                                      event |-> v, due |-> timeout]]
    /\ mine' = [mine EXCEPT ![t] = e]
    /\ blocked' = [blocked EXCEPT ![t] = TRUE]
    /\ pc' = [pc EXCEPT ![t] = "push"]
    /\ UNCHANGED <<wide, ticks, wheel, queued, phase, busy>>

(* Fault: the reference of the timer is not taken. *)
QueuePushUnlocked(t) ==
    /\ pc[t] = "push"
    /\ entry' = [entry EXCEPT ![mine[t]].refcnt = 1]
    /\ queued' = Append(queued, mine[t])
    /\ pc' = [pc EXCEPT ![t] = "wait"]
    /\ UNCHANGED <<wide, ticks, wheel, event, others, blocked, mine, phase,
                   busy>>

(* The second half of prs_timer_queue: one reference for the caller, one   *)
(* for the timer, and the push.                                            *)
QueuePush(t) ==
    /\ pc[t] = "push"
    /\ entry' = [entry EXCEPT ![mine[t]].refcnt = 2]
    /\ queued' = Append(queued, mine[t])
    /\ pc' = [pc EXCEPT ![t] = "wait"]
    /\ UNCHANGED <<wide, ticks, wheel, event, others, blocked, mine, phase,
                   busy>>

(* The task is unblocked: prs_sched_schedule returns and the task calls    *)
(* prs_timer_cancel.                                                       *)
Cancel(t) ==
    /\ pc[t] = "wait"
    /\ ~blocked[t]
    /\ entry' = Unlocked(mine[t])
    /\ mine' = [mine EXCEPT ![t] = None]
    /\ pc' = [pc EXCEPT ![t] = "run"]
    /\ UNCHANGED <<wide, ticks, wheel, queued, event, others, blocked, phase,
                   busy>>

(* The other source signals the event. *)
OtherSignal(v) ==
    /\ v \in others
    /\ Signal(v)
    /\ others' = others \ {v}
    /\ UNCHANGED <<wide, ticks, wheel, queued, entry, pc, mine, phase, busy>>

-----------------------------------------------------------------------------
(* The clock thread *)

(* The wheel digit of a time. *)
Digit(time, w) == (time \div 2 ^ (w * Bits)) % Slots

(* Fault: only the fastest wheel turns. *)
TurnedLowest(from, to) == {0}

(* The wheels below max_wheel: the ones whose hand moves between the two   *)
(* times, and all below them.                                              *)
Turned(from, to) ==
    { w \in Wheel : from \div 2 ^ (w * Bits) # to \div 2 ^ (w * Bits) }

(* prs_clock_entry: the clock wraps around at its width. *)
NextTick == (ticks + 1) % Range2

(* prs_clock_entry, and the first loop of prs_timer_tick: the clock goes   *)
(* on, and the slot each turned wheel stood on is moved to tmp_list.  One  *)
(* slot a wheel, as the clock has gone on by one; the shift of elapsed by  *)
(* wheel * PRS_MAX_TIMER_SLOTS_PER_WHEEL exceeds its width and leaves it   *)
(* as it is in the builds (gcc for x86, with and without optimisation).    *)
(* Bound: a task that is in prs_timer_queue pushes its entry before the    *)
(* end is more than MaxLag ticks ago.                                      *)
ClockEntry ==
    LET turned == Turned(now, NextTick)
        stood == [w \in Wheel |-> Digit(now, w)]
    IN
    /\ phase = "idle"
    /\ \A t \in Tasks : pc[t] = "push" => entry[mine[t]].due > -MaxLag
    /\ ticks' = NextTick
    /\ entry' = [e \in Entries |->
                   IF entry[e].alloc /\ entry[e].due > -MaxLag
                   THEN [entry[e] EXCEPT !.due = @ - 1] ELSE entry[e]]
    /\ tmp_list' = FlattenSeq([i \in 1 .. Wheels |->
                     IF i - 1 \in turned THEN lists[i - 1][stood[i - 1]]
                     ELSE <<>>])
    /\ lists' = [w \in Wheel |->
                   IF w \in turned THEN [lists[w] EXCEPT ![stood[w]] = <<>>]
                   ELSE lists[w]]
    /\ phase' = "requeue"
    /\ UNCHANGED <<wide, now, queued, event, others, blocked, pc, mine, busy>>

(* delay: the difference of two prs_ticks_t, read as a prs_int_t. *)
Delay(e) ==
    LET d == (entry[e].end - now) % Range2
    IN  IF wide \/ d < Range2 \div 2 THEN d ELSE d - Range2

(* prs_timer_hsb, for a positive argument *)
Hsb(d) == CHOOSE h \in 0 .. Wheels * Bits - 1 : 2 ^ h <= d /\ d < 2 ^ (h + 1)

(* Fault: an entry fires in the tick before its end. *)
FireEarly(e) ==
    /\ Delay(e) <= 1
    /\ Signal(entry[e].event)
    /\ busy' = [step |-> "unlock", e |-> e]
    /\ UNCHANGED <<lists, entry>>

(* prs_timer_queue_internal: the entry is due. *)
Fire(e) ==
    /\ Delay(e) <= 0
    /\ Signal(entry[e].event)
    /\ busy' = [step |-> "unlock", e |-> e]
    /\ UNCHANGED <<lists, entry>>

(* ... it was cancelled: prs_pool_try_unlock_final_dest takes the last     *)
(* reference, and keeps the entry allocated until the destructor has run.  *)
Drop(e) ==
    /\ Delay(e) > 0
    /\ entry[e].refcnt = 1
    /\ entry' = [entry EXCEPT ![e].refcnt = 0]
    /\ busy' = [step |-> "destroy", e |-> e]
    /\ UNCHANGED <<lists, event, blocked>>

(* Fault: the slot of a slower wheel is not moved back by one. *)
LinkAhead(e) ==
    LET w == Hsb(Delay(e)) \div Bits
    IN
    /\ Delay(e) > 0
    /\ entry[e].refcnt > 1
    /\ lists' = [lists EXCEPT ![w][Digit(entry[e].end, w)] = Append(@, e)]
    /\ UNCHANGED <<entry, event, blocked, busy>>

(* ... it goes into the wheel, by the size of the delay: in the fastest    *)
(* wheel into the slot of its end, in a slower one into the slot before.   *)
Link(e) ==
    LET w == Hsb(Delay(e)) \div Bits
        back == IF w = 0 THEN 0 ELSE 1
        slot == (Digit(entry[e].end, w) - back) % Slots
    IN
    /\ Delay(e) > 0
    /\ entry[e].refcnt > 1
    /\ lists' = [lists EXCEPT ![w][slot] = Append(@, e)]
    /\ UNCHANGED <<entry, event, blocked, busy>>

(* prs_timer_queue_internal *)
QueueInternal(e) == Fire(e) \/ Drop(e) \/ Link(e)

(* The second loop of prs_timer_tick, with timer->now still at the last    *)
(* tick.                                                                   *)
Requeue ==
    /\ phase = "requeue" /\ busy = NoWork
    /\ tmp_list # <<>>
    /\ tmp_list' = Tail(tmp_list)
    /\ QueueInternal(Head(tmp_list))
    /\ UNCHANGED <<wide, ticks, now, queued, others, pc, mine, phase>>

(* timer->now catches up with the clock. *)
Advance ==
    /\ phase = "requeue" /\ busy = NoWork
    /\ tmp_list = <<>>
    /\ now' = ticks
    /\ phase' = "drain"
    /\ UNCHANGED <<wide, ticks, lists, tmp_list, queued, entry, event, others,
                   blocked, pc, mine, busy>>

(* The last loop of prs_timer_tick takes the new entries. *)
Drain ==
    /\ phase = "drain" /\ busy = NoWork
    /\ queued # <<>>
    /\ queued' = Tail(queued)
    /\ QueueInternal(Head(queued))
    /\ UNCHANGED <<wide, ticks, now, tmp_list, others, pc, mine, phase>>

DrainDone ==
    /\ phase = "drain" /\ busy = NoWork
    /\ queued = <<>>
    /\ phase' = "idle"
    /\ UNCHANGED <<wide, ticks, wheel, queued, entry, event, others, blocked,
                   pc, mine, busy>>

(* The entry has fired, and the timer gives its reference back. *)
FireUnlock ==
    /\ busy.step = "unlock"
    /\ entry' = Unlocked(busy.e)
    /\ busy' = NoWork
    /\ UNCHANGED <<wide, ticks, wheel, queued, event, others, blocked, pc,
                   mine, phase>>

(* prs_timer_event_destructor, then the entry is free. *)
Destroy ==
    /\ busy.step = "destroy"
    /\ Unref(entry[busy.e].event)
    /\ entry' = [entry EXCEPT ![busy.e] = FreeEntry]
    /\ busy' = NoWork
    /\ UNCHANGED <<wide, ticks, wheel, queued, others, pc, mine, phase>>

-----------------------------------------------------------------------------
TaskStep(t) ==
    \/ \E timeout \in Timeouts, sources \in {1, 2} :
         QueueBegin(t, timeout, sources)
    \/ QueuePush(t)
    \/ Cancel(t)

TickStep == Requeue \/ Advance \/ Drain \/ DrainDone \/ FireUnlock \/ Destroy

Next ==
    \/ \E t \in Tasks : TaskStep(t)
    \/ \E v \in Events : OtherSignal(v)
    \/ ClockEntry
    \/ TickStep

(* The clock interrupt recurs and its handler runs to the end; a task that *)
(* is in prs_timer_queue, or that has been unblocked, goes on.  Nothing    *)
(* makes a task ask for a timeout or another source signal.                *)
Fairness ==
    /\ WF_vars(ClockEntry)
    /\ WF_vars(TickStep)
    /\ \A t \in Tasks : WF_vars(QueuePush(t)) /\ WF_vars(Cancel(t))

Spec == Init /\ [][Next]_vars /\ Fairness

-----------------------------------------------------------------------------
(* Properties *)

(* The values the state can take: in particular no reference count of an   *)
(* entry or event goes below zero or above its two owners.                 *)
TypeOK ==
    /\ wide \in BOOLEAN
    /\ ticks \in Ticks /\ now \in Ticks
    /\ lists \in [Wheel -> [Slot -> Seq(Entries)]]
    /\ tmp_list \in Seq(Entries) /\ queued \in Seq(Entries)
    /\ entry \in [Entries -> [alloc : BOOLEAN, refcnt : 0 .. 2, end : Ticks,
                              event : Events \cup {None},
                              due : -MaxLag .. Range2 - 1]]
    /\ event \in [Events -> [task : Tasks \cup {None}, refcnt : 0 .. 2,
                             open : BOOLEAN]]
    /\ others \subseteq Events
    /\ blocked \in [Tasks -> BOOLEAN]
    /\ pc \in [Tasks -> {"run", "push", "wait"}]
    /\ mine \in [Tasks -> Entries \cup {None}]
    /\ phase \in {"idle", "requeue", "drain"}
    /\ busy \in [step : {"none", "unlock", "destroy"}, e : Entries \cup {None}]

(* How often entry e occurs in the sequence s. *)
Times(e, s) == Cardinality({ i \in DOMAIN s : s[i] = e })

(* The places in the timer that hold entry e, in all its lists. *)
Places(e) ==
    Times(e, queued) + Times(e, tmp_list)
      + Cardinality({ p \in Wheel \X Slot : Times(e, lists[p[1]][p[2]]) = 1 })
      + 2 * Cardinality({ p \in Wheel \X Slot :
                            Times(e, lists[p[1]][p[2]]) > 1 })

(* A condition as a number. *)
One(b) == IF b THEN 1 ELSE 0

(* The reference count of an entry is the task that will cancel it plus    *)
(* the one place of the timer that holds it: an entry is never in two      *)
(* lists, never forgotten while the timer still counts, and never back in  *)
(* the pool while somebody has it (the two references of prs_timer_queue). *)
RefcntIsOwners ==
    \A e \in Entries :
      LET holder == { t \in Tasks : mine[t] = e }
          caller == One(\E t \in holder : pc[t] = "wait")
          firing == One(busy = [step |-> "unlock", e |-> e])
      IN  /\ Cardinality(holder) <= 1
          /\ entry[e].refcnt = caller + Places(e) + firing
          /\ Places(e) + firing <= 1
          /\ entry[e].alloc <=> \/ holder # {} \/ Places(e) = 1 \/ firing = 1
                                \/ busy = [step |-> "destroy", e |-> e]

(* An event has one reference for each source that will still signal or    *)
(* unreference it.  So prs_event_unref_internal never finds the count at   *)
(* zero, nobody signals an event after it was freed, and none leaks when   *)
(* a timeout and another source meet.                                      *)
EventRefsAreSources ==
    \A v \in Events :
      event[v].refcnt =
        One(v \in others)
          + Cardinality({ e \in Entries :
              /\ entry[e].alloc /\ entry[e].event = v
              /\ \/ Places(e) = 1
                 \/ \E t \in Tasks : mine[t] = e /\ pc[t] = "push"
                 \/ busy = [step |-> "destroy", e |-> e] })

(* A timeout never fires before its end, whatever wheels the entry went    *)
(* through and however the clock wraps around.                             *)
NeverEarly ==
    [][\A e \in Entries :
         busy' = [step |-> "unlock", e |-> e] /\ busy' # busy
           => entry[e].due <= 0]_vars

(* The entries in the wheel whose task has not cancelled them. *)
Linked(e) ==
    /\ entry[e].refcnt = 2
    /\ \E w \in Wheel, s \in Slot : Times(e, lists[w][s]) > 0

(* "At every system tick, it uses a wheel algorithm to signal events to    *)
(* unblock tasks for which the timeouts expired" (timer.c:28): between two *)
(* ticks the wheel holds no entry whose end has passed.                    *)
ExpiredIsSignaled ==
    phase = "idle" => \A e \in Entries : Linked(e) => entry[e].due >= 0

(* The end of the entry is the last tick before the second wheel turns. *)
EndsSlot(e) == Digit(entry[e].end, 0) = Slots - 1

(* Where prs_int_t has the width of prs_ticks_t, the wheel holds an entry  *)
(* past its end in one case only: the end is the last tick of a slot of    *)
(* the second wheel, and the entry has come down from there.               *)
LateOnlyAtSlotEnd ==
    phase = "idle" /\ ~wide =>
      \A e \in Entries :
        Linked(e) /\ entry[e].due < 0 => EndsSlot(e)

(* Every tick ends: tasks do not feed the last loop of prs_timer_tick for  *)
(* ever with entries they queue and cancel as fast as it takes them.       *)
TicksEnd == []<>(phase = "idle")

(* If every tick ends, a task that waits with a timeout goes on, even if   *)
(* nobody else signals: an entry that came past its end is fired at the    *)
(* latest when the clock has come round.  Where prs_int_t is wider, the    *)
(* entries LateOnlyAtSlotEnd is about are left out: they go back into the  *)
(* slot that has just passed each time they come up.                       *)
TimedWaitEnds ==
    TicksEnd =>
      \A t \in Tasks :
        pc[t] = "wait" /\ (wide => ~EndsSlot(mine[t])) ~> pc[t] = "run"

(* If every tick ends, an entry returns to the pool after its task has     *)
(* cancelled it (prs_timer_queue is fatal when the pool is empty).         *)
CancelledIsReclaimed ==
    TicksEnd =>
      \A e \in Entries :
        (entry[e].alloc /\ \A t \in Tasks : mine[t] # e) ~> ~entry[e].alloc

=============================================================================
