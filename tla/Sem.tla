-------------------------------- MODULE Sem --------------------------------
(***************************************************************************)
(* Semaphores (sem.c, called through the locking wrappers of pr.c): a      *)
(* count, and a queue of the events of the tasks that wait.  A wait        *)
(* creates its event, queues it and takes one from the count, and only     *)
(* then finds out whether it may pass.  With a timeout the event has a     *)
(* second source, the timer (module Timer has its details).  Nothing takes *)
(* the event of a wait that timed out from the queue: whoever pops it      *)
(* finds it already signaled, and pops again.                              *)
(*                                                                         *)
(* The event and the queue node of a wait share their number here.         *)
(***************************************************************************)
EXTENDS MpmcQ

CONSTANTS
    Waiters, Signalers,   \* the tasks that wait, and those that signal
    Counts,               \* the initial counts
    MaxSignals            \* bound: the calls of pr_sem_signal

ASSUME SemAssumption ==
    /\ Threads = Waiters \cup Signalers
    /\ Counts \subseteq Int
    /\ MaxSignals \in Nat

VARIABLES
    initial, count, \* the initial and the current sem->count
    refcnt,         \* the references to the semaphore in the directory
    event,          \* per event: its references, 0 once it is freed
    timer,          \* per event: no entry, one armed, or one cancelled
    blocked,        \* per task: the event that can unblock it, or NoId
    cause,          \* per task: prs_task_get_last_unblock_cause
    call,           \* per task: the call of the API it is in
    step,           \* per task: where it is in that call
    passes,         \* history: the waits a signal has ended
    signals,        \* history: the calls of prs_sem_signal that have counted
    leaked          \* history: the events freed neither by signal nor timer

semVars == <<initial, count, refcnt, event, timer, blocked, cause, call, step,
             passes, signals, leaked>>
vars == <<queueVars, semVars>>

(* prs_sem_create *)
Init ==
    /\ QInit
    /\ initial \in Counts
    /\ count = initial
    /\ refcnt = 1
    /\ event = [e \in Ids |-> 0]
    /\ timer = [e \in Ids |-> "none"]
    /\ blocked = [t \in Threads |-> NoId]
    /\ cause = [t \in Threads |-> "none"]
    /\ call = [t \in Threads |-> "none"]
    /\ step = [t \in Threads |-> "none"]
    /\ passes = 0
    /\ signals = 0
    /\ leaked = {}

Timed(t) == call[t] = "wait_timeout"
Own(t) == q[t].new
StepTo(t, s) == step' = [step EXCEPT ![t] = s]

(* prs_mpmcq_pop is called. *)
StartPop(t) == q' = [q EXCEPT ![t] = Fresh(t, "loadHead")]

-----------------------------------------------------------------------------
(* The calls *)

(* pr_sem_wait and pr_sem_wait_timeout: the semaphore is locked, the event *)
(* is created, which blocks the task, and the push begins.                 *)
WaitBegin(t, kind) ==
    /\ call[t] = "none" /\ t \in Waiters
    /\ refcnt > 0
    /\ refcnt' = refcnt + 1
    /\ call' = [call EXCEPT ![t] = kind]
    /\ AllocNode(t)
    /\ event' = [event EXCEPT ![used + 1] = IF kind = "wait" THEN 1 ELSE 2]
    /\ blocked' = [blocked EXCEPT ![t] = used + 1]
    /\ cause' = [cause EXCEPT ![t] = "none"]
    /\ StepTo(t, "push")
    /\ UNCHANGED <<initial, count, timer, passes, signals, leaked>>

(* Fault: a count of zero lets a wait pass. *)
WaitSubZero(t) ==
    /\ step[t] = "push" /\ At(t, "pushed")
    /\ count' = count - 1
    /\ IF count >= 0
       THEN StartPop(t) /\ StepTo(t, "pop")
       ELSE UNCHANGED q /\ StepTo(t, "sleep")
    /\ UNCHANGED <<head, tail, node, used, initial, refcnt, event, timer,
                   blocked, cause, call, passes, signals, leaked>>

(* The event is queued: one is taken from the count, and if it was         *)
(* positive an event is to be signaled, this one or an earlier one.        *)
WaitSub(t) ==
    /\ step[t] = "push" /\ At(t, "pushed")
    /\ count' = count - 1
    /\ IF count > 0
       THEN StartPop(t) /\ StepTo(t, "pop")
       ELSE UNCHANGED q /\ StepTo(t, "sleep")
    /\ UNCHANGED <<head, tail, node, used, initial, refcnt, event, timer,
                   blocked, cause, call, passes, signals, leaked>>

(* pr_sem_signal *)
SignalBegin(t) ==
    /\ call[t] = "none" /\ t \in Signalers
    /\ refcnt > 0 /\ signals < MaxSignals
    /\ refcnt' = refcnt + 1
    /\ call' = [call EXCEPT ![t] = "signal"]
    /\ count' = count + 1
    /\ signals' = signals + 1
    /\ IF count < 0
       THEN StartPop(t) /\ StepTo(t, "pop")
       ELSE UNCHANGED q /\ StepTo(t, "return")
    /\ UNCHANGED <<head, tail, node, used, initial, event, timer, blocked,
                   cause, passes, leaked>>

(* pr_sem_destroy, once: the reference of the creator goes. *)
Destroy(t) ==
    /\ call[t] = "none" /\ t \in Signalers
    /\ refcnt > 0 /\ ~\E u \in Threads : call[u] = "destroyed"
    /\ call' = [call EXCEPT ![t] = "destroyed"]
    /\ StepTo(t, "return")
    /\ UNCHANGED <<queueVars, initial, count, refcnt, event, timer, blocked,
                   cause, passes, signals, leaked>>

-----------------------------------------------------------------------------
(* prs_sem_signal_once *)

(* What follows when the wait is not over yet, or a signal is. *)
AfterSignalOnce(t) == IF call[t] = "signal" THEN "return" ELSE "sleep"

(* Nothing was popped. *)
PopNothing(t) ==
    /\ step[t] = "pop" /\ At(t, "empty")
    /\ StepTo(t, AfterSignalOnce(t))
    /\ UNCHANGED <<queueVars, initial, count, refcnt, event, timer, blocked,
                   cause, call, passes, signals, leaked>>

(* prs_event_signal gives the reference back, with the token in a local... *)
SignalUnref(t) ==
    /\ step[t] = "pop" /\ At(t, "popped")
    /\ event' = [event EXCEPT ![q[t].id] = @ - 1]
    /\ StepTo(t, "unblock")
    /\ UNCHANGED <<queueVars, initial, count, refcnt, timer, blocked, cause,
                   call, passes, signals, leaked>>

(* ... and unblocks the task if it still waits with that token. *)
SignalUnblock(t) ==
    LET e == q[t].id IN
    /\ step[t] = "unblock"
    /\ \E w \in Threads : blocked[w] = e
    /\ LET w == CHOOSE u \in Threads : blocked[u] = e IN
       /\ blocked' = [blocked EXCEPT ![w] = NoId]
       /\ cause' = [cause EXCEPT ![w] = "signal"]
       /\ passes' = passes + 1
       /\ IF call[t] \in {"wait", "wait_timeout"} /\ e = Own(t)
          THEN \* prs_event_cancel: its timer entry was not queued yet
               /\ event' = [event EXCEPT ![e] = 0]
               /\ StepTo(t, "return")
          ELSE /\ UNCHANGED event
               /\ StepTo(t, AfterSignalOnce(t))
    /\ UNCHANGED <<queueVars, initial, count, refcnt, timer, call, signals,
                   leaked>>

(* The wait had timed out: pop the next event. *)
SignalLate(t) ==
    /\ step[t] = "unblock"
    /\ ~\E w \in Threads : blocked[w] = q[t].id
    /\ StartPop(t) /\ StepTo(t, "pop")
    /\ UNCHANGED <<head, tail, node, used, initial, count, refcnt, event,
                   timer, blocked, cause, call, passes, signals, leaked>>

-----------------------------------------------------------------------------
(* Waiting *)

(* prs_timer_queue, in a timed wait that did not pass at once *)
ArmTimer(t) ==
    /\ step[t] = "sleep" /\ Timed(t)
    /\ timer' = [timer EXCEPT ![Own(t)] = "armed"]
    /\ StepTo(t, "asleep")
    /\ UNCHANGED <<queueVars, initial, count, refcnt, event, blocked, cause,
                   call, passes, signals, leaked>>

(* prs_sched_schedule returns when the task is no longer blocked. *)
WakeUp(t) ==
    /\ step[t] = "sleep" /\ ~Timed(t) /\ blocked[t] = NoId
    /\ StepTo(t, "return")
    /\ UNCHANGED <<queueVars, initial, count, refcnt, event, timer, blocked,
                   cause, call, passes, signals, leaked>>

(* ... and prs_timer_cancel gives up the entry, if it has not fired. *)
WakeAndCancel(t) ==
    /\ step[t] = "asleep" /\ blocked[t] = NoId
    /\ timer' = [timer EXCEPT ![Own(t)] = IF @ = "armed" THEN "cancelled"
                                          ELSE @]
    /\ StepTo(t, "return")
    /\ UNCHANGED <<queueVars, initial, count, refcnt, event, blocked, cause,
                   call, passes, signals, leaked>>

(* The timer signals the event of an entry that is due. *)
TimerFire(e) ==
    /\ timer[e] \in {"armed", "cancelled"}
    /\ timer' = [timer EXCEPT ![e] = "none"]
    /\ event' = [event EXCEPT ![e] = @ - 1]
    /\ blocked' = [w \in Threads |-> IF blocked[w] = e THEN NoId
                                     ELSE blocked[w]]
    /\ cause' = [w \in Threads |-> IF blocked[w] = e THEN "timeout"
                                   ELSE cause[w]]
    /\ UNCHANGED <<queueVars, initial, count, refcnt, call, step, passes,
                   signals, leaked>>

(* The timer drops a cancelled entry, with its reference. *)
TimerDrop(e) ==
    /\ timer[e] = "cancelled"
    /\ timer' = [timer EXCEPT ![e] = "none"]
    /\ event' = [event EXCEPT ![e] = @ - 1]
    /\ UNCHANGED <<queueVars, initial, count, refcnt, blocked, cause, call,
                   step, passes, signals, leaked>>

(* prs_god_unlock at the end of each call.  The last reference frees the   *)
(* semaphore: prs_mpmcq_destroy pops what is left.                         *)
Return(t) ==
    /\ step[t] = "return"
    /\ refcnt' = refcnt - 1
    /\ IF refcnt = 1
       THEN StartPop(t) /\ StepTo(t, "free")
       ELSE /\ q' = [q EXCEPT ![t] = Idle]
            /\ StepTo(t, "none")
    /\ call' = [call EXCEPT ![t] = IF refcnt > 1 /\ @ # "destroyed"
                                   THEN "none" ELSE @]
    /\ UNCHANGED <<head, tail, node, used, initial, count, event, timer,
                   blocked, cause, passes, signals, leaked>>

(* The events found there are not unreferenced. *)
FreePopped(t) ==
    /\ step[t] = "free" /\ At(t, "popped")
    /\ leaked' = leaked \cup {q[t].id}
    /\ StartPop(t)
    /\ UNCHANGED <<head, tail, node, used, initial, count, refcnt, event,
                   timer, blocked, cause, call, step, passes, signals>>

FreeDone(t) ==
    /\ step[t] = "free" /\ At(t, "empty")
    /\ q' = [q EXCEPT ![t] = Idle]
    /\ StepTo(t, "none")
    /\ UNCHANGED <<head, tail, node, used, initial, count, refcnt, event,
                   timer, blocked, cause, call, passes, signals, leaked>>

-----------------------------------------------------------------------------
(* A step of a call that is under way. *)
CallStep(t) ==
    \/ (PushStep(t) \/ PopStep(t)) /\ UNCHANGED semVars
    \/ WaitSub(t) \/ PopNothing(t)
    \/ SignalUnref(t) \/ SignalUnblock(t) \/ SignalLate(t)
    \/ ArmTimer(t) \/ WakeUp(t) \/ WakeAndCancel(t)
    \/ Return(t) \/ FreePopped(t) \/ FreeDone(t)

Next ==
    \/ \E t \in Threads :
         \/ CallStep(t)
         \/ \E kind \in {"wait", "wait_timeout"} : WaitBegin(t, kind)
         \/ SignalBegin(t)
         \/ Destroy(t)
    \/ \E e \in Ids : TimerFire(e) \/ TimerDrop(e)

Spec == Init /\ [][Next]_vars

-----------------------------------------------------------------------------
(* Properties *)

(* The values the state can take; no reference count goes below zero. *)
TypeOK ==
    /\ head \in Ids \cup {NoId} /\ tail \in Ids \cup {NoId}
    /\ node \in [Ids -> [refcnt : Nat, next : Ids \cup {NoId},
                         consumed : BOOLEAN]]
    /\ count \in Int /\ refcnt \in 0 .. Cardinality(Threads) + 1
    /\ event \in [Ids -> 0 .. 2]
    /\ timer \in [Ids -> {"none", "armed", "cancelled"}]
    /\ blocked \in [Threads -> Ids \cup {NoId}]
    /\ cause \in [Threads -> {"none", "signal", "timeout"}]

One(b) == IF b THEN 1 ELSE 0

(* A node has a reference for each thread that uses it and at most one     *)
(* more, that of the queue, which the node at the head always has: no      *)
(* thread touches a node that was freed, and the head can be locked        *)
(* whatever producers and consumers do to it at the same time.             *)
NodeIsHeld ==
    \A n \in Ids :
      /\ node[n].refcnt >= Holds(n) + One(n = head)
      /\ node[n].refcnt <= Holds(n) + 1

(* A reference of an event is the queue's, until somebody has popped the   *)
(* event and unreferenced it, or the timer's: an event is popped once,     *)
(* never signaled after it was freed, and leaks only with the queue.       *)
EventRefsAreSources ==
    \A e \in 1 .. used :
      LET popping == \E t \in Threads :
                       /\ step[t] = "pop" /\ q[t].id = e /\ ~q[t].already
                       /\ q[t].at \in {"loadAfter", "lockAfter", "moveHead",
                                       "drop", "passed", "put", "popped"}
          freeing == \E t \in Threads :
                       /\ step[t] = "free" /\ q[t].id = e /\ ~q[t].already
                       /\ q[t].at \in {"loadAfter", "lockAfter", "moveHead",
                                       "drop", "passed", "put", "popped"}
          unarmed == \E t \in Threads :
                       /\ Own(t) = e /\ Timed(t) /\ step[t] \in
                            {"push", "pop", "unblock", "sleep"}
          queued == ~node[e].consumed \/ popping \/ freeing \/ e \in leaked
      IN  event[e] = One(queued) + One(unarmed \/ timer[e] # "none")

(* No more waits pass than there were permits: one for each unit of the    *)
(* initial count and each signal, however waits, signals and timeouts      *)
(* meet in the queue.                                                      *)
NoMorePassesThanPermits == passes <= initial + signals

(* prs_sem_signal signals a waiting task if the count was negative: when   *)
(* no call is under way except sleeping ones, no more tasks sleep than the *)
(* count is below zero.                                                    *)
SleepersAreCounted ==
    LET asleep == { t \in Threads : step[t] \in {"sleep", "asleep"}
                                      /\ blocked[t] # NoId }
        resting == { t \in Threads : step[t] = "none" }
    IN  asleep \cup resting = Threads
          => Cardinality(asleep) <= (IF count < 0 THEN -count ELSE 0)

=============================================================================
