-------------------------------- MODULE MsgQ --------------------------------
(***************************************************************************)
(* The message queue of a task (msgq.c, called through pr.c).  Senders     *)
(* push a message and then look for a filter: the object through which the *)
(* receiver says which messages it waits for and with which event.  The    *)
(* receiver publishes a filter, searches the queue once more, and sleeps.  *)
(* A sender may be so late that its message is already consumed and the    *)
(* filter it finds is that of a later receive; the receiver then wakes up  *)
(* for nothing and repeats (the BUG comments of msgq.c).                   *)
(*                                                                         *)
(* The queue of the messages is the one of module NodeQueue, which MpscIq  *)
(* implements.  A filter and its event share their number.                 *)
(***************************************************************************)
EXTENDS Integers, Sequences, Functions, FiniteSets

CONSTANTS
    Senders,
    Msgs,           \* the messages; each is sent at most once
    Kind,           \* per message: its identifier
    Wants,          \* the sets of identifiers receives ask for
    MaxFilters,     \* bound: the filters created in a behaviour
    None

Filters == 1 .. MaxFilters
NoId == 0                          \* PRS_PD_ID_INVALID, or no event

ASSUME MsgQAssumption ==
    MaxFilters \in Nat /\ None \notin Msgs /\ IsFiniteSet(Senders)

VARIABLES
    queue,          \* msgq->queue, oldest first
    filter_id,      \* msgq->filter_id
    filter,         \* per filter: its references, and whether its event is set
    event,          \* per event: its references
    timer,          \* per event: no entry, one armed, or one cancelled
    blocked, cause, \* the event that can unblock the receiver; the last cause
    r,              \* the locals of the receiver
    s,              \* per sender: its locals
    sent,           \* the messages sent so far
    used,           \* the filters created so far
    abandoned       \* history: the events whose timer entry was never queued

vars == <<queue, filter_id, filter, event, timer, blocked, cause, r, s, sent,
          used, abandoned>>

(* The locals: where the receiver is, what it asks for, whether it has a   *)
(* timeout and time left, the last message it has searched, the one it has *)
(* found, its filter, and msg_expected.                                    *)
RIdle == [at |-> "idle", want |-> {}, timed |-> FALSE, left |-> FALSE,
          hint |-> None, msg |-> None, f |-> NoId, expected |-> TRUE]
SIdle == [at |-> "idle", msg |-> None, f |-> NoId]

(* prs_msgq_create *)
Init ==
    /\ queue = <<>>
    /\ filter_id = NoId
    /\ filter = [f \in Filters |-> [refcnt |-> 0, event |-> FALSE]]
    /\ event = [f \in Filters |-> 0]
    /\ timer = [f \in Filters |-> "none"]
    /\ blocked = NoId /\ cause = "none"
    /\ r = RIdle
    /\ s = [x \in Senders |-> SIdle]
    /\ sent = {}
    /\ used = 0
    /\ abandoned = {}

(* prs_msgq_recv and prs_msgq_recv_filter, and the two with a timeout, as  *)
(* pr_msg_recv, pr_msg_recv_filter and their variants call them.           *)
PlainRecvs == [want : Wants, timed : {FALSE}]
TimedRecvs == [want : Wants, timed : {TRUE}]
Calls == PlainRecvs \cup TimedRecvs

(* prs_mpsciq_remove: the queue without its element i. *)
RemoveAt(q, i) == SubSeq(q, 1, i - 1) \o SubSeq(q, i + 1, Len(q))

(* pr_msgq_filter_function *)
Matches(want, m) == Kind[m] \in want

(* Fault: the newest message that matches is taken. *)
SearchNewest(want, hint) ==
    LET found == { i \in DOMAIN queue : Matches(want, queue[i]) }
    IN  IF found = {} THEN None
        ELSE queue[CHOOSE i \in found : \A j \in found : j <= i]

(* prs_msgq_search: from the hint on, or from the oldest. *)
Search(want, hint) ==
    LET from == IF hint = None THEN 1
                ELSE CHOOSE i \in DOMAIN queue : queue[i] = hint
        found == { i \in from .. Len(queue) : Matches(want, queue[i]) }
    IN  IF found = {} THEN None
        ELSE queue[CHOOSE i \in found : \A j \in found : i <= j]

(* The hint after a search: the last message, if none was found. *)
Hint(want, hint) ==
    IF Search(want, hint) # None \/ queue = <<>> THEN hint ELSE queue[Len(queue)]

(* prs_event_signal by a source that has a reference: the token is read    *)
(* before the reference is given back.                                     *)
Signal(e, type) ==
    /\ event' = [event EXCEPT ![e] = @ - 1]
    /\ blocked' = IF blocked = e THEN NoId ELSE blocked
    /\ cause' = IF blocked = e THEN type ELSE cause

-----------------------------------------------------------------------------
(* prs_msgq_recv_internal *)

(* The first search. *)
RecvBegin(c) ==
    LET m == Search(c.want, None) IN
    /\ r.at = "idle"
    /\ r' = [RIdle EXCEPT !.at = IF m = None THEN "loop" ELSE "remove",
                          !.want = c.want, !.timed = c.timed, !.left = c.timed,
                          !.msg = m, !.hint = Hint(c.want, None)]
    /\ UNCHANGED <<queue, filter_id, filter, event, timer, blocked, cause, s,
                   sent, used, abandoned>>

(* No time is left, from the start or after a wake-up for nothing. *)
RecvTimeout ==
    /\ r.at = "loop" /\ r.timed /\ ~r.left
    /\ r' = RIdle
    /\ UNCHANGED <<queue, filter_id, filter, event, timer, blocked, cause, s,
                   sent, used, abandoned>>

(* prs_msgq_filter_create and prs_msgq_alloc_event: the event has one      *)
(* reference for the senders, one for the timer, one for the receiver.     *)
FilterCreate ==
    /\ r.at = "loop" /\ ~(r.timed /\ ~r.left)
    /\ used < MaxFilters
    /\ used' = used + 1
    /\ filter' = [filter EXCEPT ![used + 1] = [refcnt |-> 1, event |-> TRUE]]
    /\ event' = [event EXCEPT ![used + 1] = IF r.timed THEN 3 ELSE 2]
    /\ blocked' = used + 1 /\ cause' = "none"
    /\ r' = [r EXCEPT !.at = "set", !.f = used + 1]
    /\ UNCHANGED <<queue, filter_id, timer, s, sent, abandoned>>

(* prs_msgq_filter_set: from here on senders can find the filter. *)
FilterSet ==
    /\ r.at = "set"
    /\ filter_id' = r.f
    /\ r' = [r EXCEPT !.at = "search"]
    /\ UNCHANGED <<queue, filter, event, timer, blocked, cause, s, sent, used,
                   abandoned>>

(* Fault: the queue is not searched again. *)
SearchAgainSkipped ==
    /\ r.at = "search"
    /\ r' = [r EXCEPT !.at = "sleep"]
    /\ timer' = [timer EXCEPT ![r.f] = IF r.timed THEN "armed" ELSE "none"]
    /\ UNCHANGED <<queue, filter_id, filter, event, blocked, cause, s, sent,
                   used, abandoned>>

(* The second search.  When it finds a message no timer entry is queued,   *)
(* and nobody is left to give back the reference that was meant for it.    *)
(* Else prs_timer_queue and the call of the scheduler.                     *)
SearchAgain ==
    LET m == Search(r.want, r.hint) IN
    /\ r.at = "search"
    /\ r' = [r EXCEPT !.at = IF m = None THEN "sleep" ELSE "free",
                      !.msg = m, !.hint = Hint(r.want, r.hint)]
    /\ timer' = [timer EXCEPT ![r.f] = IF r.timed /\ m = None THEN "armed"
                                       ELSE "none"]
    /\ abandoned' = IF r.timed /\ m # None THEN abandoned \cup {r.f}
                    ELSE abandoned
    /\ UNCHANGED <<queue, filter_id, filter, event, blocked, cause, s, sent,
                   used>>

(* prs_sched_schedule returns: what is left of the timeout is either all   *)
(* used up or not, the timer entry is cancelled, and when it was a sender  *)
(* the queue is searched again.                                            *)
Wake(left) ==
    LET m == IF cause = "send" THEN Search(r.want, r.hint) ELSE None IN
    /\ r.at = "sleep" /\ blocked = NoId
    /\ left => r.timed
    /\ timer' = [timer EXCEPT ![r.f] = IF @ = "armed" THEN "cancelled" ELSE @]
    /\ r' = [r EXCEPT !.at = "free", !.left = left, !.msg = m,
                      !.hint = IF cause = "send" THEN Hint(r.want, r.hint)
                               ELSE @,
                      !.expected = cause = "send"]
    /\ UNCHANGED <<queue, filter_id, filter, event, blocked, cause, s, sent,
                   used, abandoned>>

(* prs_msgq_free_event: the event is taken from the filter; if no sender   *)
(* was faster, its reference is given back.                                *)
FreeEvent ==
    /\ r.at = "free"
    /\ filter' = [filter EXCEPT ![r.f].event = FALSE]
    /\ event' = IF filter[r.f].event THEN [event EXCEPT ![r.f] = @ - 1]
                ELSE event
    /\ r' = [r EXCEPT !.at = "freeSignal"]
    /\ UNCHANGED <<queue, filter_id, timer, blocked, cause, s, sent, used,
                   abandoned>>

(* ... and the receiver signals the event itself, to be unblocked if it    *)
(* never slept.  If it was unblocked by a sender meanwhile it is in the    *)
(* ready queue, and has the scheduler take it from there.                  *)
FreeSignal ==
    /\ r.at = "freeSignal"
    /\ Signal(r.f, "free")
    /\ r' = [r EXCEPT !.at = "reset"]
    /\ UNCHANGED <<queue, filter_id, filter, timer, s, sent, used, abandoned>>

(* prs_msgq_filter_reset: the filter is withdrawn, then unreferenced. *)
FilterReset ==
    /\ r.at = "reset"
    /\ filter_id' = NoId
    /\ r' = [r EXCEPT !.at = "unref"]
    /\ UNCHANGED <<queue, filter, event, timer, blocked, cause, s, sent, used,
                   abandoned>>

FilterUnref ==
    /\ r.at = "unref"
    /\ filter' = [filter EXCEPT ![r.f].refcnt = @ - 1]
    /\ r' = IF r.msg # None THEN [r EXCEPT !.at = "remove"]
            ELSE IF r.expected THEN [r EXCEPT !.at = "loop"] ELSE RIdle
    /\ UNCHANGED <<queue, filter_id, event, timer, blocked, cause, s, sent,
                   used, abandoned>>

(* prs_mpsciq_remove: the receive is over. *)
RemoveMsg ==
    /\ r.at = "remove"
    /\ queue' = RemoveAt(queue, CHOOSE i \in DOMAIN queue : queue[i] = r.msg)
    /\ r' = RIdle
    /\ UNCHANGED <<filter_id, filter, event, timer, blocked, cause, s, sent,
                   used, abandoned>>

-----------------------------------------------------------------------------
(* prs_msgq_send *)

Send(x, m) ==
    /\ s[x].at = "idle" /\ m \notin sent
    /\ sent' = sent \cup {m}
    /\ queue' = Append(queue, m)
    /\ s' = [s EXCEPT ![x] = [SIdle EXCEPT !.at = "load", !.msg = m]]
    /\ UNCHANGED <<filter_id, filter, event, timer, blocked, cause, r, used,
                   abandoned>>

LoadFilter(x) ==
    /\ s[x].at = "load"
    /\ s' = [s EXCEPT ![x] = IF filter_id = NoId THEN SIdle
                             ELSE [@ EXCEPT !.at = "lock", !.f = filter_id]]
    /\ UNCHANGED <<queue, filter_id, filter, event, timer, blocked, cause, r,
                   sent, used, abandoned>>

(* Fault: the reference of the sender is not counted. *)
LockFilterUncounted(x) ==
    /\ s[x].at = "lock"
    /\ s' = [s EXCEPT ![x] = IF filter[s[x].f].refcnt = 0 THEN SIdle
                             ELSE [@ EXCEPT !.at = "match"]]
    /\ UNCHANGED <<queue, filter_id, filter, event, timer, blocked, cause, r,
                   sent, used, abandoned>>

(* prs_pd_lock: the filter may be gone. *)
LockFilter(x) ==
    LET f == s[x].f IN
    /\ s[x].at = "lock"
    /\ IF filter[f].refcnt = 0
       THEN /\ s' = [s EXCEPT ![x] = SIdle]
            /\ UNCHANGED filter
       ELSE /\ s' = [s EXCEPT ![x].at = "match"]
            /\ filter' = [filter EXCEPT ![f].refcnt = @ + 1]
    /\ UNCHANGED <<queue, filter_id, event, timer, blocked, cause, r, sent,
                   used, abandoned>>

(* The event is read, and the filter function called.  A filter that still *)
(* has its event is the one of the receive that is under way.              *)
MatchFilter(x) ==
    /\ s[x].at = "match"
    /\ s' = [s EXCEPT ![x].at =
               IF filter[s[x].f].event /\ Matches(r.want, s[x].msg)
               THEN "exchange" ELSE "unref"]
    /\ UNCHANGED <<queue, filter_id, filter, event, timer, blocked, cause, r,
                   sent, used, abandoned>>

(* One sender takes the event from the filter... *)
ExchangeEvent(x) ==
    LET f == s[x].f IN
    /\ s[x].at = "exchange"
    /\ filter' = [filter EXCEPT ![f].event = FALSE]
    /\ s' = [s EXCEPT ![x].at = IF filter[f].event THEN "signal" ELSE "unref"]
    /\ UNCHANGED <<queue, filter_id, event, timer, blocked, cause, r, sent,
                   used, abandoned>>

(* ... and signals it. *)
SignalEvent(x) ==
    /\ s[x].at = "signal"
    /\ Signal(s[x].f, "send")
    /\ s' = [s EXCEPT ![x].at = "unref"]
    /\ UNCHANGED <<queue, filter_id, filter, timer, r, sent, used, abandoned>>

SendUnref(x) ==
    /\ s[x].at = "unref"
    /\ filter' = [filter EXCEPT ![s[x].f].refcnt = @ - 1]
    /\ s' = [s EXCEPT ![x] = SIdle]
    /\ UNCHANGED <<queue, filter_id, event, timer, blocked, cause, r, sent,
                   used, abandoned>>

-----------------------------------------------------------------------------
(* The timer (module Timer): an entry fires, or is dropped when cancelled. *)
TimerFire(e) ==
    /\ timer[e] # "none"
    /\ timer' = [timer EXCEPT ![e] = "none"]
    /\ Signal(e, "timeout")
    /\ UNCHANGED <<queue, filter_id, filter, r, s, sent, used, abandoned>>

TimerDrop(e) ==
    /\ timer[e] = "cancelled"
    /\ timer' = [timer EXCEPT ![e] = "none"]
    /\ event' = [event EXCEPT ![e] = @ - 1]
    /\ UNCHANGED <<queue, filter_id, filter, blocked, cause, r, s, sent, used,
                   abandoned>>

RecvStep ==
    \/ RecvTimeout \/ FilterCreate \/ FilterSet \/ SearchAgain
    \/ \E left \in BOOLEAN : Wake(left)
    \/ FreeEvent \/ FreeSignal \/ FilterReset \/ FilterUnref \/ RemoveMsg

SendStep(x) ==
    \/ LoadFilter(x) \/ LockFilter(x) \/ MatchFilter(x)
    \/ ExchangeEvent(x) \/ SignalEvent(x) \/ SendUnref(x)

Next ==
    \/ RecvStep
    \/ \E c \in Calls : RecvBegin(c)
    \/ \E x \in Senders : SendStep(x) \/ \E m \in Msgs : Send(x, m)
    \/ \E e \in Filters : TimerFire(e) \/ TimerDrop(e)

(* A task that is not blocked runs, and the clock goes on while the timer  *)
(* has an entry.  Nothing makes a task send or receive.                    *)
Fairness ==
    /\ WF_vars(RecvStep)
    /\ \A x \in Senders : WF_vars(SendStep(x))
    /\ WF_vars(\E e \in Filters : TimerFire(e))

Spec == Init /\ [][Next]_vars /\ Fairness

-----------------------------------------------------------------------------
(* Properties *)

(* Where the receiver has a filter, and where a sender has locked one. *)
HasFilter == {"set", "search", "sleep", "free", "freeSignal", "reset", "unref"}
HasLocked == {"match", "exchange", "signal", "unref"}

Receiver ==
    [at : HasFilter \cup {"idle", "loop", "remove"}, want : Wants \cup {{}},
     timed : BOOLEAN, left : BOOLEAN, hint : Msgs \cup {None},
     msg : Msgs \cup {None}, f : Filters \cup {NoId}, expected : BOOLEAN]
Sender ==
    [at : HasLocked \cup {"idle", "load", "lock"}, msg : Msgs \cup {None},
     f : Filters \cup {NoId}]

(* The values the state can take; no reference count goes below zero. *)
TypeOK ==
    /\ queue \in Seq(Msgs)
    /\ filter_id \in Filters \cup {NoId}
    /\ filter \in [Filters -> [refcnt : Nat, event : BOOLEAN]]
    /\ event \in [Filters -> 0 .. 3]
    /\ timer \in [Filters -> {"none", "armed", "cancelled"}]
    /\ blocked \in Filters \cup {NoId}
    /\ cause \in {"none", "send", "timeout", "free"}
    /\ r \in Receiver
    /\ s \in [Senders -> Sender]
    /\ sent \in SUBSET Msgs
    /\ used \in 0 .. MaxFilters
    /\ abandoned \in SUBSET Filters

One(b) == IF b THEN 1 ELSE 0

(* The receiver has published filter f; the senders that have locked it. *)
Published(f) == r.f = f /\ r.at \in HasFilter
Locks(x, f) == s[x].f = f /\ s[x].at \in HasLocked
Users(f) == { x \in Senders : Locks(x, f) }

(* A filter has a reference for the receiver that published it and one for *)
(* each sender that has locked it, so none is used after it was freed,     *)
(* although senders find it by an identifier that may be out of date.      *)
FilterRefsAreUsers ==
    \A f \in Filters :
      filter[f].refcnt = One(Published(f)) + Cardinality(Users(f))

(* The sources of an event: the filter or the sender that took it from     *)
(* there, the timer or the entry still to be queued, and the receiver.     *)
SendSource(e) ==
    filter[e].event \/ \E x \in Senders : s[x].at = "signal" /\ s[x].f = e
TimerSource(e) ==
    \/ timer[e] # "none" \/ e \in abandoned
    \/ r.f = e /\ r.timed /\ r.at \in {"set", "search"}
RecvSource(e) == r.f = e /\ r.at \in HasFilter \ {"reset", "unref"}

(* An event has a reference for each source that will still signal or      *)
(* unreference it.  The events that leak are the ones of timed receives    *)
(* whose second search succeeded.                                          *)
EventRefsAreSources ==
    \A e \in Filters :
      event[e] = One(SendSource(e)) + One(TimerSource(e)) + One(RecvSource(e))

(* Which filters the receiver, the senders and the timer know, and that an *)
(* event is taken from its filter by one of them at most.                  *)
FilterInv ==
    /\ r.at \in HasFilter => r.f \in 1 .. used
    /\ r.at \in {"set", "search"} => timer[r.f] = "none" /\ r.f \notin abandoned
    /\ filter_id # NoId => filter_id \in 1 .. used
    /\ \A f \in Filters : filter[f].event =>
         /\ r.f = f /\ r.at \in {"set", "search", "sleep", "free"}
         /\ \A x \in Senders : s[x].at = "signal" => s[x].f # f
    /\ \A f \in Filters : timer[f] # "none" => f <= used /\ f \notin abandoned
    /\ \A f \in abandoned : f <= used
    /\ \A x \in Senders : s[x].at \in HasLocked \cup {"lock"} => s[x].f \in 1 .. used
    /\ \A x, y \in Senders :
         s[x].at = "signal" /\ s[y].at = "signal" /\ s[x].f = s[y].f => x = y

(* The oldest message of the queue that the receive asks for. *)
Oldest(m) ==
    \E j \in DOMAIN queue :
      /\ queue[j] = m /\ Matches(r.want, m)
      /\ \A i \in DOMAIN queue : i < j => ~Matches(r.want, queue[i])

(* No message is queued twice; the receiver has searched the queue up to   *)
(* its hint in vain, and the message it has found is still the oldest one. *)
SearchInv ==
    /\ IsInjective(queue)
    /\ \A i \in DOMAIN queue : queue[i] \in sent
    /\ r.hint # None =>
         \E j \in DOMAIN queue :
           /\ queue[j] = r.hint
           /\ \A i \in DOMAIN queue : i < j => ~Matches(r.want, queue[i])
    /\ r.msg # None => Oldest(r.msg)
    /\ r.at = "remove" => r.msg # None
    /\ r.at \in {"loop", "set", "search", "sleep"} => r.msg = None

(* What every step preserves, and what the properties follow from. *)
MsgQInv ==
    /\ TypeOK /\ FilterInv /\ SearchInv
    /\ FilterRefsAreUsers /\ EventRefsAreSources

(* A receive takes the oldest message it asked for, although it searches   *)
(* the queue several times from where it stopped before.                   *)
TakesOldestMatch ==
    [][\A m \in Msgs :
         (m \in Range(queue) /\ m \notin Range(queue'))
           => /\ Matches(r.want, m)
              /\ \A i, j \in DOMAIN queue :
                   (queue[j] = m /\ i < j) => ~Matches(r.want, queue[i])]_vars

(* A receive ends if it has a timeout, or a message it asks for is in the  *)
(* queue: no interleaving of the push with the receiver's two searches     *)
(* leaves the receiver asleep with its message in the queue.               *)
RecvReturns ==
    (r.at # "idle" /\ (r.timed \/ \E m \in Range(queue) : Matches(r.want, m)))
      ~> (r.at = "idle" \/ (used = MaxFilters /\ r.at = "loop"))

=============================================================================
