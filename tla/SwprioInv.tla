----------------------------- MODULE SwprioInv ------------------------------
(***************************************************************************)
(* The inductive invariant behind the safety properties of Swprio: where   *)
(* the worker's thread can be and what its locals then hold, which tasks   *)
(* run, that every queued task has its bit or somebody about to set it,    *)
(* and that every task the worker has missed is about to be announced.     *)
(***************************************************************************)
EXTENDS Swprio

(* The thread runs a task, in it or in a call of the PR API. *)
RunsTask == {"cas", "prs", "user", "stub", "api", "call"}

(* get_next is looking for a task, or about to answer. *)
Choosing == (GetNextPc \ {"rm_begin", "rm_unmask", "rm_rebegin", "rm_remask"})
            \cup {"get_next"}

(* get_next holds the node that it is going to take or leave. *)
HoldsNode == {"remask", "preempt_push", "preempt_mask", "preempt_state", "dequeue"}

(* Where the thread is, and what its context and its locals then are. *)
ThreadControl ==
    /\ pc \in RunsTask => ctx \in Tasks /\ current_task = ctx
    /\ pc = "check" =>
         \/ ctx \in Tasks /\ current_task = ctx
         \/ current_task = NoTask /\ flags \cap {"PENDING", "STOP"} # {}
    /\ pc = "load" => ctx = ExitCtx /\ (current_task = NoTask \/ "STOP" \in flags)
    /\ pc = "clear" => current_task \in {NoTask, ctx}
    /\ pc \in GetNextPc \cup {"get_next", "next", "leave_stack", "idle", "suspend"} =>
         current_task = NoTask
    /\ ctx \in Tasks => resume[ctx] # "entry"
    /\ next_task # NoTask => pc = "next"
    /\ "INTERRUPTIBLE" \in flags <=> pc \in {"prs", "user", "stub"}
    /\ pc = "suspend" => "PENDING" \in flags

(* What get_next relies on between two of its steps. *)
GetNextControl ==
    /\ pc \in {"rm_begin", "rm_unmask", "rm_rebegin", "rm_remask", "zombie"} =>
         removeq # <<>>
    /\ pc \in {"unmask", "rebegin"} => mask # {}
    /\ pc \in HoldsNode => node # NoTask
    /\ node # NoTask =>
         /\ pc \in HoldsNode \cup {"pick"}
         /\ readyq[node_prio] # <<>>
         /\ node = Head(readyq[node_prio])
    /\ pc \in {"preempt_push", "preempt_mask", "preempt_state"} => prev_task # NoTask

(* What a thread inside a call is doing. *)
CallControl ==
    /\ pc = "call" <=> stage[Owner] # "none"
    /\ \A p \in Threads :
         /\ stage[p] = "none" <=> op[p] = "none"
         /\ stage[p] \in ReadyStage => op[p] \notin {"none", "stop", "set_prio"}
         /\ arg[p] = NoTask <=> op[p] \in {"none", "stop", "set_prio"}
         /\ stage[p] = "decide" => seen[p] \in Tasks \cup {NoTask}

(* Type correctness, the control facts and the idle handshake together     *)
(* are preserved by every step, whatever tasks are destroyed.              *)
ControlInv ==
    /\ TypeOK
    /\ ThreadControl
    /\ GetNextControl
    /\ CallControl
    /\ IdleHandshake

(* Which task is in the running state. *)
RunningInv ==
    /\ pc \in {"cas", "prs", "user", "stub"} => state[ctx] = "RUNNING"
    /\ pc = "check" /\ current_task # NoTask => state[current_task] = "RUNNING"
    /\ pc \in {"api", "call"} /\ ~blocked =>
         \/ state[ctx] = "RUNNING"
         \/ op[Owner] = "yield"
         \/ op[Owner] = "exit" /\ stage[Owner] # "chg"
    /\ next_task # NoTask => state[next_task] = "RUNNING"
    /\ pc \in {"preempt_push", "preempt_mask", "preempt_state"} =>
         state[prev_task] = "RUNNING" /\ node_prio < prio[prev_task]
    /\ \A t \in Tasks : state[t] = "RUNNING" =>
         \/ t \in {current_task, next_task}
         \/ t = prev_task /\ pc \in Choosing \ {"dequeue"}

(* A task that is being removed has stopped for good. *)
RemovedInv ==
    /\ \A t \in Range(removeq) :
         state[t] = "ZOMBIE" \/ (state[t] = "STOPPED" /\ userdata[t])
    /\ \A t \in Tasks : state[t] \in {"READY", "RUNNING", "BLOCKED"} => userdata[t]
    /\ \A p \in Threads :
         /\ op[p] # "remove"
         /\ op[p] \in {"exit", "yield"} => p = Owner /\ arg[p] = ctx
         /\ stage[p] \in {"chg", "rm_push", "rm_read"} => op[p] = "exit"
         /\ stage[p] = "chg" => state[arg[p]] = "RUNNING"
         /\ stage[p] = "rm_push" => state[arg[p]] = "STOPPED" /\ userdata[arg[p]]
    /\ pc \notin {"rm_begin", "rm_unmask", "rm_rebegin", "rm_remask"}

(* A queued task has the bit of its queue set, or the thread that pushed   *)
(* it is about to set it, or get_next is about to set it again.            *)
MaskInv ==
    \A t \in Tasks, q \in Prios : Queued(t, q) =>
      \/ q \in ready_mask
      \/ \E p \in Threads : stage[p] = "mask" /\ arg[p] = t
      \/ pc = "rebegin" /\ q = Lsb(mask)
      \/ pc = "remask" /\ q = node_prio
      \/ pc = "preempt_mask" /\ t = prev_task

(* Thread p will raise PENDING for the task it has queued. *)
WillRaise(p) ==
    \/ stage[p] \in {"mask", "read", "post"}
    \/ stage[p] = "decide" /\ (seen[p] = NoTask \/ prio[arg[p]] < prio[seen[p]])

Noticed(t) ==
    "PENDING" \in flags \/ \E p \in Threads : arg[p] = t /\ WillRaise(p)

(* Every queued task more urgent than limit has been, or will be, noticed. *)
Settled(limit) ==
    \A t \in Tasks, q \in Prios : Queued(t, q) /\ q < limit => Noticed(t)

(* While get_next scans its copy of the mask: a queue that is not in the   *)
(* copy any more holds no task but noticed ones.                           *)
ScanInv ==
    pc \in {"begin", "unmask", "rebegin"} =>
      \A t \in Tasks, q \in Prios : Queued(t, q) => q \in mask \/ Noticed(t)

(* Once get_next has a node, or has an answer, it has missed nothing. *)
ChoiceInv ==
    /\ node # NoTask => Settled(node_prio)
    /\ pc = "pick" /\ node = NoTask => Settled(MaxPrio)
    /\ pc = "next" =>
         Settled(IF next_task = NoTask THEN MaxPrio ELSE prio[next_task])
    /\ pc = "idle" => Settled(MaxPrio)

(* While a task runs, no more urgent one goes unnoticed, except until a    *)
(* task that has lowered its own priority posts the worker.                *)
UrgentInv ==
    pc \in RunsTask \cup {"check"} /\ current_task # NoTask =>
      \/ op[Owner] = "set_prio" /\ stage[Owner] = "post"
      \/ Settled(prio[current_task])

(* While the worker sleeps, every queued task has somebody to wake it up. *)
SleepInv ==
    pc = "suspend" /\ "IDLE" \in flags =>
      \A t \in Tasks, q \in Prios : Queued(t, q) =>
        \E p \in Threads : arg[p] = t /\ (WillRaise(p) \/ stage[p] = "unidle")

(* The inductive invariant when no task is destroyed by another thread. *)
SchedInv ==
    /\ ControlInv
    /\ ReadyIsQueued
    /\ RunningInv
    /\ RemovedInv
    /\ MaskInv
    /\ ScanInv
    /\ ChoiceInv
    /\ UrgentInv
    /\ SleepInv

=============================================================================
