------------------------------- MODULE Worker -------------------------------
(***************************************************************************)
(* The worker (prs/worker.c): one operating system thread that runs tasks, *)
(* picks the next one by calling its scheduler, sleeps when there is none, *)
(* and is woken, interrupted or stopped by other threads through a single  *)
(* word of flags.  Every action is one access to shared memory.            *)
(*                                                                         *)
(* The scheduler behind ops.get_next is left open: ScheduleInternal hands  *)
(* over at pc = "get_next" and takes the answer back at pc = "next" (run   *)
(* next_task, or idle if it is NoTask) or pc = "leave_stack".              *)
(***************************************************************************)
EXTENDS Naturals, FiniteSets

CONSTANTS Tasks,     \* the tasks of this worker's scheduler
          Owner,     \* the worker's own thread
          Posters,   \* other threads: workers of other schedulers, the clock
          Stoppers,  \* threads that may call prs_worker_stop
          NoTask,    \* the null task pointer, PRS_OBJECT_ID_INVALID
          ExitCtx    \* worker->exit_context, the thread's original stack

ASSUME WorkerAssumption ==
    /\ Owner \notin Posters
    /\ NoTask \notin Tasks
    /\ ExitCtx \notin Tasks
    /\ Stoppers \subseteq Posters \cup {Owner}

Threads == Posters \cup {Owner}

VARIABLES
    flags,         \* worker->flags, as the set of flags that are raised
    current_task,  \* worker->current_task and current_task_id
    idle_sem,      \* count of the POSIX semaphore behind suspend and resume
    interrupt,     \* the interrupt signal is pending for the thread
    pc,            \* where the thread is
    ctx,           \* the register context (stack) it is running on
    resume,        \* where a task continues once it is switched back to
    prev_task,     \* locals of prs_worker_schedule_internal
    next_task,
    stage,         \* per thread: where it is inside a call on the worker
    op,            \* per thread: which call that is
    stop_done      \* prs_worker_stop has returned to its caller

workerVars == <<flags, current_task, idle_sem, interrupt, pc, ctx, resume,
                prev_task, next_task, stage, op, stop_done>>

Flags == {"INTERRUPTIBLE", "PENDING", "IDLE", "STOP"}

(* The places of the thread in worker.c; the scheduler adds its own. *)
WorkerPc == {"load", "check", "clear", "get_next", "next", "leave_stack",
             "idle", "suspend", "cas", "prs", "user", "stub", "api", "call",
             "exited"}

(* The stages of a call on the worker; the scheduler adds its own. *)
PostStage == {"none", "post", "unidle", "resume", "kill", "join", "ret"}

WorkerInit ==
    /\ flags = {}
    /\ current_task = NoTask
    /\ idle_sem = 0
    /\ interrupt = FALSE
    /\ pc = "load"
    /\ ctx = ExitCtx
    /\ resume = [t \in Tasks |-> "entry"]
    /\ prev_task = NoTask
    /\ next_task = NoTask
    /\ stage = [p \in Threads |-> "none"]
    /\ op = [p \in Threads |-> "none"]
    /\ stop_done = FALSE

(***************************************************************************)
(* The thread's own steps.                                                 *)
(***************************************************************************)

(* Where the thread goes on once the context c is the one it runs on: the  *)
(* exit context is always left inside prs_worker_entry's loop, a new task  *)
(* starts with prs_worker_int_enable, any other returns to the caller of   *)
(* prs_worker_schedule_internal.                                           *)
Continue(c) ==
    IF c = ExitCtx THEN "load"
    ELSE IF resume[c] = "entry" THEN "check" ELSE resume[c]

(* A task's first step is the prologue, and it returns there. *)
Entered(c) ==
    [t \in Tasks |-> IF t = c /\ resume[t] = "entry" THEN "cas" ELSE resume[t]]

(* The loop of prs_worker_entry. *)
Entry ==
    /\ pc = "load"
    /\ pc' = IF "STOP" \in flags THEN "exited" ELSE "clear"
    /\ UNCHANGED <<flags, current_task, idle_sem, interrupt, ctx, resume,
                   prev_task, next_task, stage, op, stop_done>>

(* Seeded fault: STOP is not looked at once the worker runs tasks. *)
CheckFlagsIgnoringStop ==
    /\ pc = "check"
    /\ flags' = flags \ {"PENDING"}
    /\ pc' = IF "PENDING" \in flags THEN "clear" ELSE Continue(ctx)
    /\ UNCHANGED <<current_task, idle_sem, interrupt, ctx, resume, prev_task,
                   next_task, stage, op, stop_done>>

(* The head of prs_worker_schedule_internal's loop when check is set. *)
CheckFlags ==
    /\ pc = "check"
    /\ flags' = flags \ {"PENDING"}
    /\ \/ /\ "STOP" \in flags
          /\ ctx' = ExitCtx
          /\ pc' = "load"
       \/ /\ "STOP" \notin flags
          /\ ctx' = ctx
          /\ pc' = IF "PENDING" \in flags THEN "clear" ELSE Continue(ctx)
    /\ UNCHANGED <<current_task, idle_sem, interrupt, resume, prev_task,
                   next_task, stage, op, stop_done>>

(* prs_worker_set_current_task(worker, 0) before get_next is called. *)
ClearCurrentTask ==
    /\ pc = "clear"
    /\ prev_task' = current_task
    /\ current_task' = NoTask
    /\ next_task' = NoTask
    /\ pc' = "get_next"
    /\ UNCHANGED <<flags, idle_sem, interrupt, ctx, resume, stage, op,
                   stop_done>>

(* get_next returned a task: publish it and switch to its context.  When   *)
(* it is the context the thread already runs on the switch changes nothing.*)
SwitchTo ==
    /\ pc = "next"
    /\ next_task # NoTask
    /\ current_task' = next_task
    /\ ctx' = next_task
    /\ pc' = Continue(next_task)
    /\ resume' = Entered(next_task)
    /\ prev_task' = NoTask
    /\ next_task' = NoTask
    /\ UNCHANGED <<flags, idle_sem, interrupt, stage, op, stop_done>>

(* get_next asks for another stack: go back to the exit context. *)
LeaveStack ==
    /\ pc = "leave_stack"
    /\ ctx' = ExitCtx
    /\ pc' = "load"
    /\ prev_task' = NoTask
    /\ UNCHANGED <<flags, current_task, idle_sem, interrupt, resume,
                   next_task, stage, op, stop_done>>

(* get_next found nothing to run. *)
NothingToRun ==
    /\ pc = "next"
    /\ next_task = NoTask
    /\ pc' = "idle"
    /\ prev_task' = NoTask
    /\ UNCHANGED <<flags, current_task, idle_sem, interrupt, ctx, resume,
                   next_task, stage, op, stop_done>>

(* Seeded fault: the flags are stored where they should be compared. *)
IdleWithoutCompare ==
    /\ pc = "idle"
    /\ flags' = {"IDLE", "PENDING"}
    /\ pc' = "suspend"
    /\ UNCHANGED <<current_task, idle_sem, interrupt, ctx, resume, prev_task,
                   next_task, stage, op, stop_done>>

(* prs_worker_idle: sleep only if no flag was raised in the meantime. *)
Idle ==
    /\ pc = "idle"
    /\ \/ /\ flags = {}
          /\ flags' = {"IDLE", "PENDING"}
          /\ pc' = "suspend"
       \/ /\ flags # {}
          /\ flags' = flags
          /\ pc' = "check"
    /\ UNCHANGED <<current_task, idle_sem, interrupt, ctx, resume, prev_task,
                   next_task, stage, op, stop_done>>

(* prs_pal_thread_suspend returns: sem_wait took the count down. *)
WakeUp ==
    /\ pc = "suspend"
    /\ idle_sem > 0
    /\ idle_sem' = idle_sem - 1
    /\ pc' = "check"
    /\ UNCHANGED <<flags, current_task, interrupt, ctx, resume, prev_task,
                   next_task, stage, op, stop_done>>

(* Seeded fault: the flags are stored where they should be compared. *)
EnableWithoutCompare ==
    /\ pc = "cas"
    /\ flags' = {"INTERRUPTIBLE"}
    /\ pc' = "prs"
    /\ UNCHANGED <<current_task, idle_sem, interrupt, ctx, resume, prev_task,
                   next_task, stage, op, stop_done>>

(* The end of prs_worker_task_prologue's loop: become interruptible unless *)
(* a flag was raised since the flags were checked.                         *)
EnableInterrupts ==
    /\ pc = "cas"
    /\ \/ /\ flags = {}
          /\ flags' = {"INTERRUPTIBLE"}
          /\ pc' = "prs"
       \/ /\ flags # {}
          /\ flags' = flags
          /\ pc' = "check"
    /\ UNCHANGED <<current_task, idle_sem, interrupt, ctx, resume, prev_task,
                   next_task, stage, op, stop_done>>

(* The interruptible task leaves PRS code for its own code, and enters PRS  *)
(* code again.                                                             *)
ReturnToUser ==
    /\ pc = "prs"
    /\ pc' = "user"
    /\ UNCHANGED <<flags, current_task, idle_sem, interrupt, ctx, resume,
                   prev_task, next_task, stage, op, stop_done>>

CallPrs ==
    /\ pc = "user"
    /\ pc' = "stub"
    /\ UNCHANGED <<flags, current_task, idle_sem, interrupt, ctx, resume,
                   prev_task, next_task, stage, op, stop_done>>

(* prs_worker_int_disable, at the start of every call of the PR API.  The  *)
(* services of PRS call it without ever running user code.                 *)
DisableInterrupts ==
    /\ pc \in {"prs", "stub"}
    /\ flags' = flags \ {"INTERRUPTIBLE"}
    /\ pc' = "api"
    /\ UNCHANGED <<current_task, idle_sem, interrupt, ctx, resume, prev_task,
                   next_task, stage, op, stop_done>>

(* The signal handler.  prs_worker_interruptible refuses when the thread   *)
(* is not interruptible or its instruction pointer is not in user text;    *)
(* otherwise the prologue is pushed on top of the interrupted code.        *)
HandleInterrupt ==
    /\ interrupt
    /\ pc # "exited"
    /\ interrupt' = FALSE
    /\ IF "INTERRUPTIBLE" \in flags /\ pc = "user"
       THEN /\ flags' = flags \ {"INTERRUPTIBLE"}
            /\ resume' = [resume EXCEPT ![ctx] = "cas"]
            /\ pc' = "check"
       ELSE UNCHANGED <<flags, resume, pc>>
    /\ UNCHANGED <<current_task, idle_sem, ctx, prev_task, next_task, stage,
                   op, stop_done>>

(* prs_worker_int_enable, at the end of every call of the PR API. *)
IntEnable ==
    /\ pc = "api"
    /\ resume' = [resume EXCEPT ![ctx] = "cas"]
    /\ pc' = "check"
    /\ UNCHANGED <<flags, current_task, idle_sem, interrupt, ctx, prev_task,
                   next_task, stage, op, stop_done>>

(* prs_worker_schedule, called from inside the PR API. *)
Schedule ==
    /\ pc = "api"
    /\ resume' = [resume EXCEPT ![ctx] = "api"]
    /\ pc' = "clear"
    /\ UNCHANGED <<flags, current_task, idle_sem, interrupt, ctx, prev_task,
                   next_task, stage, op, stop_done>>

(* prs_worker_stop called by the worker on itself. *)
StopSelf ==
    /\ pc = "api"
    /\ Owner \in Stoppers
    /\ flags' = flags \cup {"STOP"}
    /\ ctx' = ExitCtx
    /\ pc' = "load"
    /\ UNCHANGED <<current_task, idle_sem, interrupt, resume, prev_task,
                   next_task, stage, op, stop_done>>

(***************************************************************************)
(* Calls on the worker, made by any thread.  The owner makes them from the *)
(* PR API, where interrupts are disabled.                                  *)
(***************************************************************************)

(* Thread p may begin a call: an outside thread that is in none, or the    *)
(* owner when its task is in the PR API.                                   *)
MayCall(p) == stage[p] = "none" /\ (p = Owner => pc = "api")

(* p begins the call named o at stage s. *)
BeginCall(p, o, s) ==
    /\ MayCall(p)
    /\ stage' = [stage EXCEPT ![p] = s]
    /\ op' = [op EXCEPT ![p] = o]
    /\ pc' = IF p = Owner THEN "call" ELSE pc

(* The post has been carried out; ok is whether its result is PRS_OK, which*)
(* only prs_worker_stop looks at.                                          *)
PostDone(p, ok) ==
    stage' = [stage EXCEPT ![p] = IF op[p] = "stop" /\ ok THEN "join" ELSE "ret"]

(* prs_worker_interrupt sends a signal only to an interruptible worker for *)
(* which no interrupt was pending; prs_worker_signal never does.           *)
Interrupts(p) ==
    op[p] # "set_prio" /\ "INTERRUPTIBLE" \in flags /\ "PENDING" \notin flags

(* prs_worker_post: raise PENDING. *)
Post(p) ==
    /\ stage[p] = "post"
    /\ flags' = flags \cup {"PENDING"}
    /\ \/ /\ "IDLE" \in flags
          /\ stage' = [stage EXCEPT ![p] = "unidle"]
       \/ /\ "IDLE" \notin flags
          /\ IF Interrupts(p)
             THEN stage' = [stage EXCEPT ![p] = "kill"]
             ELSE PostDone(p, op[p] = "set_prio")
    /\ UNCHANGED <<current_task, idle_sem, interrupt, pc, ctx, resume,
                   prev_task, next_task, op, stop_done>>

(* Seeded fault: every thread that saw IDLE resumes the worker. *)
ClearIdleAndResume(p) ==
    /\ stage[p] = "unidle"
    /\ flags' = flags \ {"IDLE"}
    /\ stage' = [stage EXCEPT ![p] = "resume"]
    /\ UNCHANGED <<current_task, idle_sem, interrupt, pc, ctx, resume,
                   prev_task, next_task, op, stop_done>>

(* The worker was idle: the thread that clears IDLE resumes it.  The test  *)
(* for an interrupt that follows uses the flags read here.                 *)
ClearIdle(p) ==
    /\ stage[p] = "unidle"
    /\ flags' = flags \ {"IDLE"}
    /\ \/ /\ "IDLE" \in flags
          /\ stage' = [stage EXCEPT ![p] = "resume"]
       \/ /\ "IDLE" \notin flags
          /\ IF Interrupts(p)
             THEN stage' = [stage EXCEPT ![p] = "kill"]
             ELSE PostDone(p, op[p] = "set_prio")
    /\ UNCHANGED <<current_task, idle_sem, interrupt, pc, ctx, resume,
                   prev_task, next_task, op, stop_done>>

(* prs_pal_thread_resume. *)
ResumeThread(p) ==
    /\ stage[p] = "resume"
    /\ idle_sem' = idle_sem + 1
    /\ PostDone(p, TRUE)
    /\ UNCHANGED <<flags, current_task, interrupt, pc, ctx, resume, prev_task,
                   next_task, op, stop_done>>

(* prs_pal_thread_interrupt: a signal that is already pending is not sent  *)
(* twice, and none reaches a thread that has exited.                       *)
InterruptThread(p) ==
    /\ stage[p] = "kill"
    /\ interrupt' = (pc # "exited")
    /\ PostDone(p, pc # "exited")
    /\ UNCHANGED <<flags, current_task, idle_sem, pc, ctx, resume, prev_task,
                   next_task, op, stop_done>>

(* prs_worker_stop called by another thread: raise STOP, then interrupt. *)
Stop(p) ==
    /\ p \in Stoppers \ {Owner}
    /\ ~stop_done
    /\ BeginCall(p, "stop", "post")
    /\ flags' = flags \cup {"STOP"}
    /\ UNCHANGED <<current_task, idle_sem, interrupt, ctx, resume, prev_task,
                   next_task, stop_done>>

(* prs_worker_join, reached only when the interrupt succeeded. *)
Join(p) ==
    /\ stage[p] = "join"
    /\ pc = "exited"
    /\ stage' = [stage EXCEPT ![p] = "ret"]
    /\ UNCHANGED <<flags, current_task, idle_sem, interrupt, pc, ctx, resume,
                   prev_task, next_task, op, stop_done>>

(* The call returns.  A task that has just yielded or destroyed itself     *)
(* calls prs_worker_schedule next.                                         *)
Return(p) ==
    /\ stage[p] = "ret"
    /\ stage' = [stage EXCEPT ![p] = "none"]
    /\ op' = [op EXCEPT ![p] = "none"]
    /\ stop_done' = (stop_done \/ op[p] = "stop")
    /\ IF p = Owner
       THEN IF op[p] \in {"yield", "exit"}
            THEN /\ pc' = "clear"
                 /\ resume' = [resume EXCEPT ![ctx] = "api"]
            ELSE /\ pc' = "api"
                 /\ UNCHANGED resume
       ELSE UNCHANGED <<pc, resume>>
    /\ UNCHANGED <<flags, current_task, idle_sem, interrupt, ctx, prev_task,
                   next_task>>

(* The steps that leave the scheduler's state alone. *)
ThreadStep ==
    \/ Entry \/ CheckFlags \/ ClearCurrentTask \/ SwitchTo \/ LeaveStack
    \/ NothingToRun \/ Idle \/ WakeUp \/ EnableInterrupts
    \/ ReturnToUser \/ CallPrs \/ DisableInterrupts \/ HandleInterrupt

PostStep(p) ==
    \/ Post(p) \/ ClearIdle(p) \/ ResumeThread(p) \/ InterruptThread(p)
    \/ Stop(p) \/ Join(p)

=============================================================================
