------------------------------- MODULE Swprio -------------------------------
(***************************************************************************)
(* The single worker priority scheduler (prs/sched/swprio.c) on top of its *)
(* worker, with the task states of prs/task.c and the entry points of      *)
(* prs/sched.c that change them.  Outside threads make tasks ready, add,   *)
(* remove and stop, step by step, while the worker schedules.              *)
(*                                                                         *)
(* A ready queue is the abstract FIFO that prs/lib/ds/mpsciq.c implements. *)
(* The token of a task is reduced to its state: an unblock whose token is  *)
(* out of date changes nothing.                                            *)
(***************************************************************************)
EXTENDS Worker, Sequences, Functions

CONSTANTS MaxPrio,       \* PRS_MAX_TASK_PRIO; 0 is the most urgent priority
          InitPrio,      \* the priority each task is created with
          NewPrios,      \* priorities a task may give itself
          Exiting,       \* tasks whose entry function may return
          Victims,       \* tasks that other threads may destroy
          EarlyReady     \* a task may be made ready again while the thread that
                         \* adds it is still inside prs_sched_add_task

Prios == 0 .. MaxPrio - 1

ASSUME SwprioAssumption ==
    /\ MaxPrio \in Nat \ {0}
    /\ InitPrio \in [Tasks -> Prios]
    /\ NewPrios \subseteq Prios
    /\ Exiting \subseteq Tasks
    /\ Victims \subseteq Tasks
    /\ EarlyReady \in BOOLEAN

VARIABLES
    state,       \* task->state
    prio,        \* task->prio
    userdata,    \* task->sched_userdata is set
    sched_id,    \* task->sched_id is set
    readyq,      \* sched->readyq[prio], oldest first
    ready_mask,  \* sched->ready_mask, as the set of its bits
    removeq,     \* sched->removeq, oldest first
    destroyed,   \* tasks that prs_task_destroy has been called for
    blocked,     \* the task in the PR API has blocked and has yet to schedule
    mask,        \* locals of get_next: the copy of ready_mask,
    node,        \* the ready task found,
    node_prio,   \* and the queue it was found in
    arg,         \* per thread: the task its call is about
    seen         \* per thread: the current task, or previous state, it read

schedVars == <<state, prio, userdata, sched_id, readyq, ready_mask, removeq,
               destroyed, blocked, mask, node, node_prio, arg, seen>>
vars == <<workerVars, schedVars>>

States == {"STOPPED", "READY", "RUNNING", "BLOCKED", "ZOMBIE"}

GetNextPc == {"rm_begin", "rm_unmask", "rm_rebegin", "rm_remask", "zombie",
              "mask", "begin", "unmask", "rebegin", "remask", "pick",
              "preempt_push", "preempt_mask", "preempt_state", "dequeue"}

ReadyStage == {"ready", "push", "mask", "read", "decide", "fault", "chg",
               "rm_push", "rm_read"}

Ops == {"none", "stop", "unblock", "add", "remove", "exit", "yield", "set_prio"}

Init ==
    /\ WorkerInit
    /\ state = [t \in Tasks |-> "STOPPED"]
    /\ prio = InitPrio
    /\ userdata = [t \in Tasks |-> FALSE]
    /\ sched_id = [t \in Tasks |-> FALSE]
    /\ readyq = [q \in Prios |-> <<>>]
    /\ ready_mask = {}
    /\ removeq = <<>>
    /\ destroyed = {}
    /\ blocked = FALSE
    /\ mask = {}
    /\ node = NoTask
    /\ node_prio = 0
    /\ arg = [p \in Threads |-> NoTask]
    /\ seen = [p \in Threads |-> NoTask]

(***************************************************************************)
(* prs_sched_swprio_get_next, run by the worker's thread.                  *)
(***************************************************************************)

getNextUnchanged == <<flags, current_task, idle_sem, interrupt, ctx, resume,
                      prev_task, stage, op, stop_done, prio, sched_id,
                      destroyed, blocked, arg, seen>>

Queued(t, q) == t \in Range(readyq[q])

(* The test at the head of the loop over removeq.  The task whose context  *)
(* the thread runs on is not removed; another one is first taken out of    *)
(* its ready queue.                                                        *)
BeginRemove ==
    /\ pc = "get_next"
    /\ \/ /\ removeq = <<>>
          /\ pc' = "mask"
          /\ UNCHANGED readyq
       \/ /\ removeq # <<>>
          /\ prev_task = Head(removeq)
          /\ pc' = "leave_stack"
          /\ UNCHANGED readyq
       \/ /\ removeq # <<>>
          /\ LET t == Head(removeq)
                 q == prio[t]
             IN  /\ prev_task # t
                 /\ \/ \E i \in DOMAIN readyq[q] :
                          /\ readyq[q][i] = t
                          /\ readyq' = [readyq EXCEPT ![q] = SubSeq(@, 1, i - 1) \o SubSeq(@, i + 1, Len(@))]
                          /\ pc' = "rm_begin"
                    \/ /\ ~Queued(t, q)
                       /\ pc' = "zombie"
                       /\ UNCHANGED readyq
    /\ UNCHANGED getNextUnchanged
    /\ UNCHANGED <<next_task, state, userdata, ready_mask, removeq, mask, node,
                   node_prio>>

(* The queue the removed task was in became empty: clear its bit, and set  *)
(* it again if a task was pushed before the bit was cleared.               *)
RemoveUnmask ==
    LET q == prio[Head(removeq)] IN
    /\ \/ /\ pc = "rm_begin"
          /\ pc' = IF readyq[q] = <<>> THEN "rm_unmask" ELSE "zombie"
          /\ UNCHANGED ready_mask
       \/ /\ pc = "rm_unmask"
          /\ ready_mask' = ready_mask \ {q}
          /\ pc' = "rm_rebegin"
       \/ /\ pc = "rm_rebegin"
          /\ pc' = IF readyq[q] = <<>> THEN "zombie" ELSE "rm_remask"
          /\ UNCHANGED ready_mask
       \/ /\ pc = "rm_remask"
          /\ ready_mask' = ready_mask \cup {q}
          /\ pc' = "zombie"
    /\ UNCHANGED getNextUnchanged
    /\ UNCHANGED <<next_task, state, userdata, readyq, removeq, mask, node,
                   node_prio>>

(* The removed task becomes a zombie and loses the scheduler's reference. *)
FinishRemove ==
    /\ pc = "zombie"
    /\ state' = [state EXCEPT ![Head(removeq)] = "ZOMBIE"]
    /\ userdata' = [userdata EXCEPT ![Head(removeq)] = FALSE]
    /\ removeq' = Tail(removeq)
    /\ pc' = "get_next"
    /\ UNCHANGED getNextUnchanged
    /\ UNCHANGED <<next_task, readyq, ready_mask, mask, node, node_prio>>

LoadReadyMask ==
    /\ pc = "mask"
    /\ mask' = ready_mask
    /\ node' = NoTask
    /\ pc' = "begin"
    /\ UNCHANGED getNextUnchanged
    /\ UNCHANGED <<next_task, state, userdata, readyq, ready_mask, removeq,
                   node_prio>>

(* prs_bitops_lsb_uint32: the most urgent priority of a mask. *)
Lsb(m) == CHOOSE q \in m : \A r \in m : q <= r

(* The loop over the mask: look at the oldest task of the most urgent      *)
(* queue; a queue found empty has its bit cleared and is looked at again.  *)
BeginReady ==
    /\ pc = "begin"
    /\ \/ /\ mask = {}
          /\ pc' = "pick"
          /\ UNCHANGED <<node, node_prio>>
       \/ /\ mask # {}
          /\ IF readyq[Lsb(mask)] = <<>>
             THEN /\ pc' = "unmask"
                  /\ UNCHANGED <<node, node_prio>>
             ELSE /\ node' = Head(readyq[Lsb(mask)])
                  /\ node_prio' = Lsb(mask)
                  /\ pc' = "pick"
    /\ UNCHANGED getNextUnchanged
    /\ UNCHANGED <<next_task, state, userdata, readyq, ready_mask, removeq, mask>>

ClearReadyBit ==
    /\ pc = "unmask"
    /\ ready_mask' = ready_mask \ {Lsb(mask)}
    /\ pc' = "rebegin"
    /\ UNCHANGED getNextUnchanged
    /\ UNCHANGED <<next_task, state, userdata, readyq, removeq, mask, node,
                   node_prio>>

BeginReadyAgain ==
    /\ pc = "rebegin"
    /\ IF readyq[Lsb(mask)] = <<>>
       THEN /\ mask' = mask \ {Lsb(mask)}
            /\ pc' = "begin"
            /\ UNCHANGED <<node, node_prio>>
       ELSE /\ node' = Head(readyq[Lsb(mask)])
            /\ node_prio' = Lsb(mask)
            /\ pc' = "remask"
            /\ UNCHANGED mask
    /\ UNCHANGED getNextUnchanged
    /\ UNCHANGED <<next_task, state, userdata, readyq, ready_mask, removeq>>

(* Seeded fault: the bit cleared too early is not set again. *)
SetNoReadyBit ==
    /\ pc = "remask"
    /\ pc' = "pick"
    /\ UNCHANGED getNextUnchanged
    /\ UNCHANGED <<next_task, state, userdata, readyq, ready_mask, removeq, mask,
                   node, node_prio>>

SetReadyBit ==
    /\ pc = "remask"
    /\ ready_mask' = ready_mask \cup {node_prio}
    /\ pc' = "pick"
    /\ UNCHANGED getNextUnchanged
    /\ UNCHANGED <<next_task, state, userdata, readyq, removeq, mask, node,
                   node_prio>>

(* Seeded fault: the current task is preempted by one of its priority. *)
PickEqual ==
    /\ pc = "pick"
    /\ mask' = {}
    /\ LET running == prev_task # NoTask /\ state[prev_task] = "RUNNING" IN
       \/ /\ node = NoTask
          /\ next_task' = IF running THEN prev_task ELSE next_task
          /\ pc' = "next"
       \/ /\ node # NoTask
          /\ pc' = IF running THEN "preempt_push" ELSE "dequeue"
          /\ UNCHANGED next_task
    /\ UNCHANGED getNextUnchanged
    /\ UNCHANGED <<state, userdata, readyq, ready_mask, removeq, node, node_prio>>

(* Keep the current task, preempt it, or take the task found. *)
Pick ==
    /\ pc = "pick"
    /\ mask' = {}
    /\ LET running == prev_task # NoTask /\ state[prev_task] = "RUNNING" IN
       \/ /\ running
          /\ node = NoTask \/ prio[prev_task] <= node_prio
          /\ next_task' = prev_task
          /\ node' = NoTask
          /\ pc' = "next"
       \/ /\ ~running
          /\ node = NoTask
          /\ pc' = "next"
          /\ UNCHANGED <<next_task, node>>
       \/ /\ node # NoTask
          /\ IF running
             THEN prio[prev_task] > node_prio /\ pc' = "preempt_push"
             ELSE pc' = "dequeue"
          /\ UNCHANGED <<next_task, node>>
    /\ UNCHANGED getNextUnchanged
    /\ UNCHANGED <<state, userdata, readyq, ready_mask, removeq, node_prio>>

(* The preempted task goes to the end of its ready queue. *)
PreemptPush ==
    /\ pc = "preempt_push"
    /\ readyq' = [readyq EXCEPT ![prio[prev_task]] = Append(@, prev_task)]
    /\ pc' = "preempt_mask"
    /\ UNCHANGED getNextUnchanged
    /\ UNCHANGED <<next_task, state, userdata, ready_mask, removeq, mask, node,
                   node_prio>>

PreemptMask ==
    /\ pc = "preempt_mask"
    /\ ready_mask' = ready_mask \cup {prio[prev_task]}
    /\ pc' = "preempt_state"
    /\ UNCHANGED getNextUnchanged
    /\ UNCHANGED <<next_task, state, userdata, readyq, removeq, mask, node,
                   node_prio>>

PreemptState ==
    /\ pc = "preempt_state"
    /\ state' = [state EXCEPT ![prev_task] = "READY"]
    /\ pc' = "dequeue"
    /\ UNCHANGED getNextUnchanged
    /\ UNCHANGED <<next_task, userdata, readyq, ready_mask, removeq, mask, node,
                   node_prio>>

(* The task found leaves its queue and is the one to run. *)
Dequeue ==
    /\ pc = "dequeue"
    /\ readyq' = [readyq EXCEPT ![node_prio] = Tail(@)]
    /\ state' = [state EXCEPT ![node] = "RUNNING"]
    /\ next_task' = node
    /\ node' = NoTask
    /\ pc' = "next"
    /\ UNCHANGED getNextUnchanged
    /\ UNCHANGED <<userdata, ready_mask, removeq, mask, node_prio>>

(***************************************************************************)
(* Calls on the scheduler, made by any thread.                             *)
(***************************************************************************)

callUnchanged == <<current_task, idle_sem, interrupt, ctx, resume, prev_task,
                   next_task, stop_done, removeq, blocked, mask, node,
                   node_prio>>

workerButStage == <<flags, current_task, idle_sem, interrupt, pc, ctx, resume,
                    prev_task, next_task, op, stop_done>>

Goto(p, s) == stage' = [stage EXCEPT ![p] = s]

(* Some thread is still inside prs_sched_add_task for t. *)
BeingAdded(t) == \E p \in Threads : op[p] = "add" /\ arg[p] = t

(* prs_task_unblock by a thread that does not run t, with the token that t *)
(* blocked with.                                                           *)
Unblock(p, t) ==
    /\ state[t] = "BLOCKED"
    /\ p = Owner => t # ctx
    /\ EarlyReady \/ ~BeingAdded(t)
    /\ BeginCall(p, "unblock", "ready")
    /\ state' = [state EXCEPT ![t] = "READY"]
    /\ arg' = [arg EXCEPT ![p] = t]
    /\ UNCHANGED callUnchanged
    /\ UNCHANGED <<destroyed, flags, prio, userdata, sched_id, readyq, ready_mask, seen>>

(* prs_sched_ready: the scheduler is found through task->sched_id. *)
SchedReady(p) ==
    /\ stage[p] = "ready"
    /\ Goto(p, IF sched_id[arg[p]] THEN "push" ELSE "fault")
    /\ UNCHANGED callUnchanged
    /\ UNCHANGED <<destroyed, flags, pc, op, state, prio, userdata, sched_id, readyq,
                   ready_mask, arg, seen>>

(* prs_sched_swprio_ready: queue the task, ... *)
ReadyPush(p) ==
    /\ stage[p] = "push"
    /\ IF userdata[arg[p]]
       THEN /\ readyq' = [readyq EXCEPT ![prio[arg[p]]] = Append(@, arg[p])]
            /\ Goto(p, "mask")
       ELSE /\ Goto(p, "fault")
            /\ UNCHANGED readyq
    /\ UNCHANGED callUnchanged
    /\ UNCHANGED <<destroyed, flags, pc, op, state, prio, userdata, sched_id, ready_mask,
                   arg, seen>>

(* Seeded fault: the bit of the queue is not set. *)
ReadyMaskForgotten(p) ==
    /\ stage[p] = "mask"
    /\ Goto(p, "read")
    /\ UNCHANGED callUnchanged
    /\ UNCHANGED <<destroyed, flags, pc, op, state, prio, userdata, sched_id, readyq,
                   ready_mask, arg, seen>>

(* ... set the bit of its queue, ... *)
ReadyMask(p) ==
    /\ stage[p] = "mask"
    /\ ready_mask' = ready_mask \cup {prio[arg[p]]}
    /\ Goto(p, "read")
    /\ UNCHANGED callUnchanged
    /\ UNCHANGED <<destroyed, flags, pc, op, state, prio, userdata, sched_id, readyq, arg,
                   seen>>

(* ... read which task the worker runs, ... *)
ReadyRead(p) ==
    /\ stage[p] = "read"
    /\ seen' = [seen EXCEPT ![p] = current_task]
    /\ Goto(p, "decide")
    /\ UNCHANGED callUnchanged
    /\ UNCHANGED <<destroyed, flags, pc, op, state, prio, userdata, sched_id, readyq,
                   ready_mask, arg>>

(* The priority of the task that was read; prs_god_lock may fail for one   *)
(* that is gone by now.                                                    *)
LowestPrio(p) ==
    IF seen[p] = NoTask THEN {MaxPrio}
    ELSE IF state[seen[p]] = "ZOMBIE" THEN {prio[seen[p]], MaxPrio}
    ELSE {prio[seen[p]]}

(* ... and interrupt the worker if that task is less urgent. *)
ReadyDecide(p) ==
    /\ stage[p] = "decide"
    /\ \E lowest_prio \in LowestPrio(p) :
          Goto(p, IF prio[arg[p]] < lowest_prio THEN "post" ELSE "ret")
    /\ seen' = [seen EXCEPT ![p] = NoTask]
    /\ UNCHANGED callUnchanged
    /\ UNCHANGED <<destroyed, flags, pc, op, state, prio, userdata, sched_id, readyq,
                   ready_mask, arg>>

(* prs_sched_add_task and prs_sched_swprio_add. *)
AddTask(p, t) ==
    /\ state[t] = "STOPPED"
    /\ ~userdata[t]
    /\ BeginCall(p, "add", "push")
    /\ state' = [state EXCEPT ![t] = "READY"]
    /\ userdata' = [userdata EXCEPT ![t] = TRUE]
    /\ arg' = [arg EXCEPT ![p] = t]
    /\ UNCHANGED callUnchanged
    /\ UNCHANGED <<destroyed, flags, prio, sched_id, readyq, ready_mask, seen>>

(* prs_sched_swprio_remove, called for prs_task_destroy: a task whose entry*)
(* function returned destroys itself, a victim is destroyed by others.     *)
RemoveTask(p, t) ==
    /\ IF p = Owner /\ t = ctx THEN t \in Exiting /\ ~blocked
                                ELSE t \in Victims
    /\ sched_id[t]
    /\ t \notin destroyed
    /\ destroyed' = destroyed \cup {t}
    /\ BeginCall(p, IF p = Owner /\ t = ctx THEN "exit" ELSE "remove",
                    IF state[t] = "STOPPED" THEN "ret" ELSE "chg")
    /\ seen' = [seen EXCEPT ![p] = state[t]]
    /\ arg' = [arg EXCEPT ![p] = t]
    /\ UNCHANGED callUnchanged
    /\ UNCHANGED <<flags, state, prio, userdata, sched_id, readyq, ready_mask>>

(* prs_task_change_state(task, prev_state, PRS_TASK_STATE_STOPPED): the    *)
(* state is stored whatever it has become since it was read.               *)
RemoveStop(p) ==
    /\ stage[p] = "chg"
    /\ state' = [state EXCEPT ![arg[p]] = "STOPPED"]
    /\ Goto(p, "rm_push")
    /\ UNCHANGED callUnchanged
    /\ UNCHANGED <<destroyed, flags, pc, op, prio, userdata, sched_id, readyq, ready_mask,
                   arg, seen>>

RemovePush(p) ==
    /\ stage[p] = "rm_push"
    /\ removeq' = Append(removeq, arg[p])
    /\ Goto(p, IF seen[p] = "RUNNING" THEN "rm_read" ELSE "ret")
    /\ UNCHANGED workerButStage
    /\ UNCHANGED <<state, prio, userdata, sched_id, readyq, ready_mask,
                   destroyed, blocked, mask, node, node_prio, arg, seen>>

(* Only a worker that runs the removed task is interrupted. *)
RemoveRead(p) ==
    /\ stage[p] = "rm_read"
    /\ Goto(p, IF current_task = arg[p] THEN "post" ELSE "ret")
    /\ UNCHANGED workerButStage
    /\ UNCHANGED schedVars

(* A call returns; prs_sched_add_task sets task->sched_id last. *)
CallReturn(p) ==
    /\ Return(p)
    /\ sched_id' = IF op[p] = "add" THEN [sched_id EXCEPT ![arg[p]] = TRUE]
                                    ELSE sched_id
    /\ arg' = [arg EXCEPT ![p] = NoTask]
    /\ seen' = [seen EXCEPT ![p] = NoTask]
    /\ UNCHANGED <<state, prio, userdata, readyq, ready_mask, removeq,
                   destroyed, blocked, mask, node, node_prio>>

(***************************************************************************)
(* What the running task does inside the PR API, interrupts disabled.      *)
(***************************************************************************)

(* prs_task_block, for a message, a semaphore, a timer or for good. *)
Block ==
    /\ pc = "api"
    /\ ~blocked
    /\ blocked' = TRUE
    /\ state' = [state EXCEPT ![ctx] = "BLOCKED"]
    /\ UNCHANGED workerVars
    /\ UNCHANGED <<prio, userdata, sched_id, readyq, ready_mask, removeq,
                   destroyed, mask, node, node_prio, arg, seen>>

(* prs_task_unblock of the current task by itself. *)
UnblockSelf ==
    /\ pc = "api"
    /\ blocked
    /\ state[ctx] = "BLOCKED"
    /\ blocked' = FALSE
    /\ state' = [state EXCEPT ![ctx] = "RUNNING"]
    /\ UNCHANGED workerVars
    /\ UNCHANGED <<prio, userdata, sched_id, readyq, ready_mask, removeq,
                   destroyed, mask, node, node_prio, arg, seen>>

(* prs_sched_yield up to the call of prs_worker_schedule. *)
Yield ==
    /\ pc = "api"
    /\ ~blocked
    /\ EarlyReady \/ ~BeingAdded(ctx)
    /\ BeginCall(Owner, "yield", "ready")
    /\ state' = [state EXCEPT ![ctx] = "READY"]
    /\ arg' = [arg EXCEPT ![Owner] = ctx]
    /\ UNCHANGED callUnchanged
    /\ UNCHANGED <<destroyed, flags, prio, userdata, sched_id, readyq, ready_mask, seen>>

(* prs_task_set_prio on the current task. *)
SetPrio(q) ==
    /\ pc = "api"
    /\ ~blocked
    /\ BeginCall(Owner, "set_prio", "post")
    /\ prio' = [prio EXCEPT ![ctx] = q]
    /\ UNCHANGED callUnchanged
    /\ UNCHANGED <<destroyed, flags, state, userdata, sched_id, readyq, ready_mask, arg,
                   seen>>

(* A task that has blocked calls the scheduler before it leaves the API. *)
LeaveApi == IntEnable /\ ~blocked /\ UNCHANGED schedVars

CallSchedule ==
    /\ Schedule
    /\ blocked
    /\ blocked' = FALSE
    /\ UNCHANGED <<state, prio, userdata, sched_id, readyq, ready_mask, removeq,
                   destroyed, mask, node, node_prio, arg, seen>>

StopCurrent == StopSelf /\ UNCHANGED schedVars

GetNextStep ==
    \/ BeginRemove \/ RemoveUnmask \/ FinishRemove \/ LoadReadyMask
    \/ BeginReady \/ ClearReadyBit \/ BeginReadyAgain \/ SetReadyBit
    \/ Pick \/ PreemptPush \/ PreemptMask \/ PreemptState \/ Dequeue

ApiStep ==
    \/ Block \/ UnblockSelf \/ Yield \/ LeaveApi \/ CallSchedule
    \/ StopCurrent
    \/ \E q \in NewPrios : SetPrio(q)

CallStep(p) ==
    \/ SchedReady(p) \/ ReadyPush(p) \/ ReadyMask(p) \/ ReadyRead(p)
    \/ ReadyDecide(p) \/ RemoveStop(p) \/ RemovePush(p) \/ RemoveRead(p)
    \/ CallReturn(p)
    \/ \E t \in Tasks : Unblock(p, t) \/ AddTask(p, t) \/ RemoveTask(p, t)

Next ==
    \/ ThreadStep /\ UNCHANGED schedVars
    \/ GetNextStep
    \/ ApiStep
    \/ \E p \in Threads : \/ PostStep(p) /\ UNCHANGED schedVars
                          \/ CallStep(p)

Spec == Init /\ [][Next]_vars

(* What the operating system and the PRS code guarantee: the worker's      *)
(* thread and the threads inside a call keep running, a pending signal is  *)
(* delivered, and a call of the PR API does not go on for ever: it returns *)
(* to its caller or blocks.                                                *)
SystemFairness ==
    /\ WF_vars(/\ \/ Entry \/ CheckFlags \/ ClearCurrentTask \/ SwitchTo
                  \/ LeaveStack \/ NothingToRun \/ Idle \/ WakeUp
                  \/ EnableInterrupts \/ ReturnToUser \/ DisableInterrupts
               /\ UNCHANGED schedVars)
    /\ WF_vars(HandleInterrupt /\ UNCHANGED schedVars)
    /\ WF_vars(GetNextStep)
    /\ SF_vars(LeaveApi)
    /\ SF_vars(CallSchedule)
    /\ \A p \in Threads :
         /\ WF_vars(/\ \/ Post(p) \/ ClearIdle(p) \/ ResumeThread(p)
                       \/ InterruptThread(p) \/ Join(p)
                    /\ UNCHANGED schedVars)
         /\ WF_vars(\/ SchedReady(p) \/ ReadyPush(p) \/ ReadyMask(p)
                    \/ ReadyRead(p) \/ ReadyDecide(p) \/ RemoveStop(p)
                    \/ RemovePush(p) \/ RemoveRead(p) \/ CallReturn(p))

(* What the application may or may not do: call the PR API again. *)
TaskFairness == WF_vars(CallPrs /\ UNCHANGED schedVars)

SystemSpec == Spec /\ SystemFairness

FairSpec == SystemSpec /\ TaskFairness

(***************************************************************************)
(* Properties.                                                             *)
(***************************************************************************)

(* The values the state can take. *)
TypeOK ==
    /\ flags \subseteq Flags
    /\ current_task \in Tasks \cup {NoTask}
    /\ idle_sem \in Nat
    /\ interrupt \in BOOLEAN
    /\ pc \in WorkerPc \cup GetNextPc
    /\ ctx \in Tasks \cup {ExitCtx}
    /\ resume \in [Tasks -> {"entry", "cas", "api"}]
    /\ prev_task \in Tasks \cup {NoTask}
    /\ next_task \in Tasks \cup {NoTask}
    /\ stage \in [Threads -> PostStage \cup ReadyStage]
    /\ op \in [Threads -> Ops]
    /\ stop_done \in BOOLEAN
    /\ state \in [Tasks -> States]
    /\ prio \in [Tasks -> Prios]
    /\ userdata \in [Tasks -> BOOLEAN]
    /\ sched_id \in [Tasks -> BOOLEAN]
    /\ readyq \in [Prios -> Seq(Tasks)]
    /\ ready_mask \subseteq Prios
    /\ removeq \in Seq(Tasks)
    /\ destroyed \subseteq Tasks
    /\ blocked \in BOOLEAN
    /\ mask \subseteq Prios
    /\ node \in Tasks \cup {NoTask}
    /\ node_prio \in Prios
    /\ arg \in [Threads -> Tasks \cup {NoTask}]
    /\ seen \in [Threads -> Tasks \cup {NoTask} \cup States]

(* A suspended worker still shows IDLE, or exactly one thread has taken    *)
(* the flag down and is about to resume it, or has; a worker that is not   *)
(* suspended finds neither the flag nor a count.  The assertion in         *)
(* prs_worker_idle and the pairing of sem_wait and sem_post rest on this.  *)
IdleHandshake ==
    LET Resuming(p) == stage[p] = "resume"
        none == \A p \in Threads : ~Resuming(p)
    IN  \/ pc # "suspend" /\ "IDLE" \notin flags /\ idle_sem = 0 /\ none
        \/ pc = "suspend" /\ "IDLE" \in flags /\ idle_sem = 0 /\ none
        \/ pc = "suspend" /\ "IDLE" \notin flags /\ idle_sem = 1 /\ none
        \/ /\ pc = "suspend" /\ "IDLE" \notin flags /\ idle_sem = 0
           /\ \E p \in Threads : \A r \in Threads : Resuming(r) <=> r = p

(* Thread p has queued a task and will still look at the current task, or  *)
(* has and will post the worker.                                           *)
WillPost(p) ==
    \/ stage[p] \in {"mask", "read", "post", "unidle", "resume"}
    \/ stage[p] = "decide" /\ (seen[p] = NoTask \/ prio[arg[p]] < prio[seen[p]])

(* No lost wake-up: a worker that sleeps, and that no thread is about to   *)
(* resume, has no ready task (prs_worker_idle against prs_worker_post).    *)
NoLostWakeup ==
    pc = "suspend" /\ idle_sem = 0 =>
      \A q \in Prios : readyq[q] # <<>> => \E p \in Threads : WillPost(p)

(* No lost preemption: while a task runs interruptible and no interrupt is *)
(* pending, a more urgent task is in a ready queue only if the thread that *)
(* put it there will still post the worker.                                *)
NoLostPreemption ==
    pc \in {"prs", "user", "stub"} /\ "PENDING" \notin flags =>
      \A q \in 0 .. prio[current_task] - 1 :
        readyq[q] # <<>> => \E p \in Threads : WillPost(p)

(* Thread p made task t ready and has yet to push it. *)
Pushing(p, t) == arg[p] = t /\ stage[p] \in {"ready", "push", "fault"}

(* get_next has queued the current task but not yet changed its state. *)
Preempting(t) == pc \in {"preempt_mask", "preempt_state"} /\ t = prev_task

(* A task that is ready is in its own ready queue, once, or exactly one    *)
(* thread is about to push it: it is never lost and never queued twice,    *)
(* which prs_mpsciq_push does not support.                                 *)
ReadyIsQueued ==
    /\ \A q \in Prios : IsInjective(readyq[q])
    /\ \A t \in Tasks, q \in Prios : Queued(t, q) =>
         q = prio[t] /\ (state[t] = "READY" \/ Preempting(t))
    /\ \A t \in Tasks : state[t] = "READY" \/ Preempting(t) =>
         Queued(t, prio[t]) \/ \E p \in Threads : Pushing(p, t)
    /\ \A p \in Threads, t \in Tasks : Pushing(p, t) =>
         /\ state[t] = "READY"
         /\ ~Queued(t, prio[t])
         /\ \A r \in Threads : Pushing(r, t) => r = p

(* The task that runs is the one the worker shows to the others, on its    *)
(* own stack, and no second task is in the running state.                  *)
RunningIsCurrent ==
    /\ pc \in {"cas", "prs", "user", "stub", "api", "call"} =>
         current_task = ctx /\ ctx \in Tasks
    /\ pc \in {"cas", "prs", "user", "stub"} \/ (pc = "api" /\ ~blocked) =>
         state[ctx] = "RUNNING"
    /\ \A t, u \in Tasks : state[t] = "RUNNING" /\ state[u] = "RUNNING" => t = u

(* A running task gives way to another one without blocking only to a more *)
(* urgent task (no switch between equal priorities).                       *)
PreemptsForUrgency ==
    [][pc = "preempt_state" /\ pc' = "dequeue" => prio[node] < prio[prev_task]]_vars

(* Whenever a task is ready, the worker gets to run it or a task at least  *)
(* as urgent: it neither sleeps nor goes on with a less urgent task.       *)
ReadyIsServed ==
    \A t \in Tasks :
      state[t] = "READY" ~> \/ state[t] # "READY"
                            \/ pc = "exited"
                            \/ \E u \in Tasks : state[u] = "RUNNING" /\ prio[u] <= prio[t]

(* A worker that is told to stop leaves its thread. *)
StopEndsThread == "STOP" \in flags ~> pc = "exited"

(* prs_sched_ready finds the scheduler of the task: its assertion holds. *)
ReadyFindsScheduler ==
    \A p \in Threads : stage[p] = "ready" => sched_id[arg[p]]

(* The scheduler drops its reference to a task only when the worker runs   *)
(* on another stack.                                                       *)
RemovedOffStack == pc = "zombie" => Head(removeq) # ctx

(* A task that left the scheduler is in no ready queue, is not running and *)
(* has no stack in use.                                                    *)
ZombieIsGone ==
    \A t \in Tasks : state[t] = "ZOMBIE" =>
      /\ t # ctx
      /\ t # current_task
      /\ \A q \in Prios : ~Queued(t, q)

=============================================================================
