------------------------------- MODULE Swcoop -------------------------------
(***************************************************************************)
(* The single worker cooperative scheduler (prs/sched/swcoop.c), used      *)
(* through prs/sched.c and prs/task.c.  The worker is reduced to what      *)
(* module Worker shows of it: a post is seen before the worker sleeps, and *)
(* by a running task when it leaves the PR API or is interrupted.  Both    *)
(* queues are the FIFOs that prs/lib/ds/mpsciq.c implements.               *)
(***************************************************************************)
EXTENDS Sequences, SequencesExt

CONSTANTS Tasks,     \* the tasks
          Threads,   \* other threads, which call the scheduler
          Exiting,   \* tasks whose entry function may return
          Victims,   \* tasks that other threads may destroy
          NoTask

VARIABLES
    state,      \* task->state
    userdata,   \* tasks whose sched_userdata is set
    sched_id,   \* tasks whose sched_id is set
    readyq, removeq,
    destroyed,  \* tasks that prs_task_destroy has been called for
    pc,         \* where the worker's thread is
    context,    \* the task whose context it runs on
    current,    \* worker->current_task
    prev_task, next_task,  \* get_next's argument and its result
    posted,     \* PENDING is set
    stage,      \* per thread: its place in a call of the scheduler,
    arg,        \* the task the call is about,
    prev_state  \* and the state prs_sched_swcoop_remove read

taskVars == <<state, userdata, sched_id, destroyed>>
queues == <<readyq, removeq>>
workerVars == <<pc, context, current, prev_task, next_task, posted>>
callVars == <<stage, arg, prev_state>>
vars == <<taskVars, queues, workerVars, callVars>>

(* prs_sched_swcoop_init; a queue that cannot be allocated ends the call,  *)
(* and there is no scheduler.                                              *)
Init ==
    /\ state = [t \in Tasks |-> "STOPPED"]
    /\ userdata = {} /\ sched_id = {} /\ destroyed = {}
    /\ readyq = <<>> /\ removeq = <<>>
    /\ pc = "get_next"
    /\ context = NoTask /\ current = NoTask
    /\ prev_task = NoTask /\ next_task = NoTask
    /\ posted = FALSE
    /\ stage = [p \in Threads |-> "none"]
    /\ arg = [p \in Threads |-> NoTask]
    /\ prev_state = [p \in Threads |-> "STOPPED"]

(***************************************************************************)
(* prs_sched_swcoop_get_next, run by the worker's thread.                  *)
(***************************************************************************)

(* The loop over removeq: for the task the thread runs on, ask for another *)
(* stack; any other leaves the ready queue ...                             *)
BeginRemove ==
    /\ pc = "get_next"
    /\ \/ /\ removeq = <<>>
          /\ pc' = "keep"
          /\ UNCHANGED <<readyq, context, prev_task>>
       \/ /\ removeq # <<>>
          /\ prev_task = Head(removeq)
          /\ context' = NoTask
          /\ prev_task' = NoTask
          /\ UNCHANGED <<readyq, pc>>
       \/ /\ removeq # <<>>
          /\ prev_task # Head(removeq)
          /\ readyq' = Remove(readyq, Head(removeq))
          /\ pc' = "zombie"
          /\ UNCHANGED <<context, prev_task>>
    /\ UNCHANGED <<taskVars, removeq, current, next_task, posted, callVars>>

(* ... and becomes a zombie the scheduler no longer refers to. *)
FinishRemove ==
    /\ pc = "zombie"
    /\ state' = [state EXCEPT ![Head(removeq)] = "ZOMBIE"]
    /\ userdata' = userdata \ {Head(removeq)}
    /\ removeq' = Tail(removeq)
    /\ pc' = "get_next"
    /\ UNCHANGED <<sched_id, destroyed, readyq, context, current, prev_task,
                   next_task, posted, callVars>>

(* Seeded fault: a ready task replaces one that still runs. *)
KeepIfAlone ==
    /\ pc = "keep"
    /\ IF prev_task # NoTask /\ state[prev_task] = "RUNNING" /\ readyq = <<>>
       THEN next_task' = prev_task /\ pc' = "switch"
       ELSE next_task' = NoTask /\ pc' = "ready"
    /\ UNCHANGED <<taskVars, queues, context, current, prev_task, posted,
                   callVars>>

(* The current task goes on while it runs. *)
Keep ==
    /\ pc = "keep"
    /\ IF prev_task # NoTask /\ state[prev_task] = "RUNNING"
       THEN next_task' = prev_task /\ pc' = "switch"
       ELSE next_task' = NoTask /\ pc' = "ready"
    /\ UNCHANGED <<taskVars, queues, context, current, prev_task, posted,
                   callVars>>

(* Otherwise the oldest ready task leaves its queue ... *)
BeginReady ==
    /\ pc = "ready"
    /\ IF readyq = <<>>
       THEN pc' = "sleep" /\ UNCHANGED <<readyq, next_task>>
       ELSE /\ next_task' = Head(readyq)
            /\ readyq' = Tail(readyq)
            /\ pc' = "run"
    /\ UNCHANGED <<taskVars, removeq, context, current, prev_task, posted,
                   callVars>>

(* ... and runs, whatever its state has become meanwhile. *)
Run ==
    /\ pc = "run"
    /\ state' = [state EXCEPT ![next_task] = "RUNNING"]
    /\ pc' = "switch"
    /\ UNCHANGED <<userdata, sched_id, destroyed, queues, context, current,
                   prev_task, next_task, posted, callVars>>

(***************************************************************************)
(* The worker around get_next, and what the running task does.             *)
(***************************************************************************)

SwitchTo ==
    /\ pc = "switch"
    /\ current' = next_task
    /\ context' = next_task
    /\ pc' = "task"
    /\ prev_task' = NoTask /\ next_task' = NoTask
    /\ UNCHANGED <<taskVars, queues, posted, callVars>>

(* get_next is called for the task the worker runs. *)
CallGetNext ==
    /\ pc' = "get_next"
    /\ prev_task' = current
    /\ current' = NoTask
    /\ UNCHANGED <<userdata, sched_id, destroyed, context, next_task,
                   callVars>>

(* Seeded fault: the worker sleeps though it has been posted. *)
SleepOnPost ==
    /\ pc = "sleep"
    /\ posted' = FALSE
    /\ pc' = "asleep"
    /\ prev_task' = NoTask
    /\ UNCHANGED <<taskVars, queues, context, current, next_task, callVars>>

(* prs_worker_idle *)
Sleep ==
    /\ pc = "sleep"
    /\ ~posted
    /\ pc' = "asleep"
    /\ prev_task' = NoTask
    /\ UNCHANGED <<taskVars, queues, context, current, next_task, posted,
                   callVars>>

(* PENDING is seen: before sleeping, asleep, or by the running task. *)
Notice ==
    /\ pc \in {"sleep", "asleep", "task"}
    /\ posted
    /\ posted' = FALSE
    /\ CallGetNext
    /\ UNCHANGED <<state, queues>>

(* prs_task_block and prs_worker_schedule. *)
Block ==
    /\ pc = "task"
    /\ state' = [state EXCEPT ![context] = "BLOCKED"]
    /\ CallGetNext
    /\ UNCHANGED <<queues, posted>>

(* prs_sched_yield *)
Yield ==
    /\ pc = "task"
    /\ context \in sched_id
    /\ state' = [state EXCEPT ![context] = "READY"]
    /\ readyq' = Append(readyq, context)
    /\ posted' = TRUE
    /\ CallGetNext
    /\ UNCHANGED removeq

(* The entry function returned: the task destroys itself. *)
Exit ==
    /\ pc = "task"
    /\ context \in Exiting \cap sched_id
    /\ context \notin destroyed
    /\ destroyed' = destroyed \cup {context}
    /\ state' = [state EXCEPT ![context] = "STOPPED"]
    /\ removeq' = Append(removeq, context)
    /\ pc' = "get_next"
    /\ prev_task' = current
    /\ current' = NoTask
    /\ posted' = TRUE
    /\ UNCHANGED <<userdata, sched_id, readyq, context, next_task, callVars>>

(***************************************************************************)
(* Calls on the scheduler by other threads.                                *)
(***************************************************************************)

Call(p, t, s) ==
    /\ stage[p] = "none"
    /\ stage' = [stage EXCEPT ![p] = s]
    /\ arg' = [arg EXCEPT ![p] = t]

Goto(p, s) ==
    /\ stage' = [stage EXCEPT ![p] = s]
    /\ arg' = [arg EXCEPT ![p] = IF s = "none" THEN NoTask ELSE @]
    /\ prev_state' = [prev_state EXCEPT ![p] =
                        IF s = "none" THEN "STOPPED" ELSE @]

(* prs_sched_swcoop_add up to the call of ready. *)
Add(p, t) ==
    /\ t \notin userdata
    /\ state[t] = "STOPPED"
    /\ Call(p, t, "push")
    /\ userdata' = userdata \cup {t}
    /\ state' = [state EXCEPT ![t] = "READY"]
    /\ UNCHANGED <<sched_id, destroyed, queues, workerVars, prev_state>>

(* prs_task_unblock by another thread, with the token t blocked with. *)
Unblock(p, t) ==
    /\ state[t] = "BLOCKED"
    /\ t \in sched_id
    /\ Call(p, t, "push")
    /\ state' = [state EXCEPT ![t] = "READY"]
    /\ UNCHANGED <<userdata, sched_id, destroyed, queues, workerVars,
                   prev_state>>

(* prs_sched_swcoop_ready queues the task, ... *)
ReadyPush(p) ==
    /\ stage[p] = "push"
    /\ IF arg[p] \in userdata
       THEN readyq' = Append(readyq, arg[p]) /\ Goto(p, "signal")
       ELSE Goto(p, "fault") /\ UNCHANGED readyq
    /\ UNCHANGED <<taskVars, removeq, workerVars>>

(* ... and signals the worker; prs_sched_add_task then sets sched_id. *)
ReadySignal(p) ==
    /\ stage[p] = "signal"
    /\ posted' = TRUE
    /\ sched_id' = sched_id \cup {arg[p]}
    /\ Goto(p, "none")
    /\ UNCHANGED <<state, userdata, destroyed, queues, pc, context, current,
                   prev_task, next_task>>

(* prs_sched_swcoop_remove reads the state, with STOPPED nothing to do, ... *)
RemoveTask(p, t) ==
    /\ t \in Victims \cap sched_id
    /\ t \notin destroyed
    /\ destroyed' = destroyed \cup {t}
    /\ state[t] # "STOPPED"
    /\ Call(p, t, "change")
    /\ prev_state' = [prev_state EXCEPT ![p] = state[t]]
    /\ UNCHANGED <<state, userdata, sched_id, queues, workerVars>>

(* ... stores another, queues the task ... *)
RemovePush(p) ==
    /\ \/ /\ stage[p] = "change"
          /\ state' = [state EXCEPT ![arg[p]] = "STOPPED"]
          /\ Goto(p, "rm_push")
          /\ UNCHANGED removeq
       \/ /\ stage[p] = "rm_push"
          /\ removeq' = Append(removeq, arg[p])
          /\ Goto(p, IF prev_state[p] = "RUNNING" THEN "rm_read" ELSE "none")
          /\ UNCHANGED state
    /\ UNCHANGED <<userdata, sched_id, destroyed, readyq, workerVars>>

(* ... and interrupts the worker if it runs the task. *)
RemoveInterrupt(p) ==
    /\ stage[p] = "rm_read"
    /\ posted' = (posted \/ current = arg[p])
    /\ Goto(p, "none")
    /\ UNCHANGED <<taskVars, queues, pc, context, current, prev_task,
                   next_task>>

Next ==
    \/ BeginRemove \/ FinishRemove \/ Keep \/ BeginReady \/ Run
    \/ SwitchTo \/ Sleep \/ Notice \/ Block \/ Yield \/ Exit
    \/ \E p \in Threads :
         \/ ReadyPush(p) \/ ReadySignal(p) \/ RemovePush(p) \/ RemoveInterrupt(p)
         \/ \E t \in Tasks : Add(p, t) \/ Unblock(p, t) \/ RemoveTask(p, t)

Spec == Init /\ [][Next]_vars

(***************************************************************************)
(* Properties.                                                             *)
(***************************************************************************)

(* The worker does not sleep on a ready task: when it is asleep and not    *)
(* posted, a thread that has queued a task has yet to signal it            *)
(* (prs_sched_swcoop_ready pushes first and signals afterwards).           *)
ReadyIsNoticed ==
    pc = "asleep" /\ ~posted /\ readyq # <<>>
       => \E p \in Threads : stage[p] = "signal"

(* A task leaves the processor only when it asks to: while it runs and is  *)
(* not destroyed, no post, however it falls into get_next, makes the       *)
(* worker change to another context.                                       *)
NeverPreempted ==
    [][\A t \in Tasks :
          context = t /\ state[t] = "RUNNING" /\ t \notin destroyed
             => context' = t]_vars

=============================================================================
