---------------------------- MODULE SwprioProofs ----------------------------
(***************************************************************************)
(* Machine-checked proofs about the worker and the priority scheduler, for *)
(* any number of tasks, threads and priorities: facts about the operators  *)
(* and the steps, type correctness, the worker's control and the idle      *)
(* handshake.                                                              *)
(***************************************************************************)
EXTENDS SwprioInv, TLAPS

(* A non-empty mask has a least bit, the one prs_bitops_lsb_uint32 finds.  *)
(* LsbIsLeast in SwprioTheorems proves it; the lemmas take it as a premise. *)
LeastBit ==
    \A m \in SUBSET Prios : m # {} => Lsb(m) \in m /\ \A r \in m : Lsb(m) <= r

(***************************************************************************)
(* What each kind of step leaves alone.                                    *)
(***************************************************************************)

(* A step of the worker's thread outside get_next. *)
ThreadEffect ==
    /\ UNCHANGED <<stage, op, stop_done>>
    /\ pc' = "call" <=> pc = "call"
    /\ ctx' = ctx \/ pc # "call"
    /\ \/ UNCHANGED <<pc, prev_task>>
       \/ pc \notin GetNextPc /\ pc' \notin GetNextPc

(* A step of the running task inside the PR API. *)
ApiEffect ==
    /\ pc = "api"
    /\ UNCHANGED <<current_task, idle_sem, prev_task, next_task>>
    /\ UNCHANGED <<userdata, readyq, ready_mask, removeq, mask, node, node_prio, seen>>
    /\ \/ /\ pc' = "api" /\ UNCHANGED <<flags, ctx, resume, stage, op, arg>>
          /\ \/ ~blocked /\ blocked' /\ state' = [state EXCEPT ![ctx] = "BLOCKED"]
             \/ /\ blocked /\ ~blocked' /\ state[ctx] = "BLOCKED"
                /\ state' = [state EXCEPT ![ctx] = "RUNNING"]
       \/ /\ pc' = "call" /\ UNCHANGED <<flags, ctx, resume, blocked>> /\ ~blocked
          /\ \/ /\ op' = [op EXCEPT ![Owner] = "yield"]
                /\ stage' = [stage EXCEPT ![Owner] = "ready"]
                /\ arg' = [arg EXCEPT ![Owner] = ctx]
                /\ state' = [state EXCEPT ![ctx] = "READY"]
             \/ /\ op' = [op EXCEPT ![Owner] = "set_prio"]
                /\ stage' = [stage EXCEPT ![Owner] = "post"]
                /\ UNCHANGED <<arg, state>>
       \/ /\ UNCHANGED <<stage, op, arg, state>>
          /\ \/ pc' = "check" /\ UNCHANGED <<flags, ctx>> /\ ~blocked
             \/ pc' = "clear" /\ UNCHANGED <<flags, ctx>>
             \/ pc' = "load" /\ ctx' = ExitCtx /\ flags' = flags \cup {"STOP"}
          /\ \A t \in Tasks : resume[t] # "entry" => resume'[t] # "entry"

(* A step of get_next. *)
GetNextEffect ==
    /\ UNCHANGED getNextUnchanged
    /\ pc \in GetNextPc \cup {"get_next"}
    /\ pc' \in GetNextPc \cup {"get_next", "next", "leave_stack"}
    /\ next_task' = next_task \/ pc' = "next"
    /\ UNCHANGED <<state, userdata, removeq>> \/ FinishRemove \/ PreemptState \/ Dequeue
    /\ pc' \in {"rm_begin", "rm_unmask", "rm_rebegin", "rm_remask"} =>
         BeginRemove \/ pc \in {"rm_begin", "rm_unmask", "rm_rebegin", "rm_remask"}

(* A step of thread p inside a call on the worker. *)
PostEffect(p) ==
    /\ UNCHANGED <<pc, current_task, ctx, resume, prev_task, next_task>>
    /\ "PENDING" \in flags => "PENDING" \in flags'
    /\ "STOP" \in flags => "STOP" \in flags'
    /\ "INTERRUPTIBLE" \in flags' <=> "INTERRUPTIBLE" \in flags
    /\ "IDLE" \in flags' => "IDLE" \in flags
    /\ \A r \in Threads \ {p} : stage'[r] = stage[r] /\ op'[r] = op[r]
    /\ stage[p] \in {"none", "post", "unidle", "resume", "kill", "join"}
    /\ stage'[p] \in {"post", "unidle", "resume", "kill", "join", "ret"}
    /\ \/ stage[p] # "none" /\ op'[p] = op[p]
       \/ stage[p] = "none" /\ op'[p] = "stop" /\ p # Owner
    /\ stage[p] = "post" =>
         "PENDING" \in flags' /\ ("IDLE" \in flags' => stage'[p] = "unidle")
    /\ stage[p] = "unidle" => "IDLE" \notin flags'

(* A step of thread p inside a call on the scheduler that touches no       *)
(* task's state: p goes on with its call or returns from it.               *)
QuietCall(p) ==
    /\ UNCHANGED <<state, userdata, removeq, blocked>>
    /\ stage[p] # "none" /\ stage'[p] \notin {"chg", "rm_push", "rm_read"}
    /\ stage[p] # "push" => (stage'[p] \in {"ready", "push", "fault"} <=> stage[p] = "ready")
    /\ stage[p] # "fault"
    /\ \/ UNCHANGED <<op, arg, pc>>
       \/ /\ stage[p] = "ret" /\ op'[p] = "none"
          /\ p = Owner => \/ pc = "call" /\ pc' = "clear"
                          \/ pc = "call" /\ pc' = "api" /\ op[p] \notin {"yield", "exit"}

(* A step of thread p inside a call on the scheduler. *)
CallEffect(p) ==
    /\ UNCHANGED <<flags, current_task, idle_sem, ctx, prev_task, next_task>>
    /\ UNCHANGED <<prio, mask, node, node_prio>>
    /\ \/ pc' = pc
       \/ pc \in {"api", "call"} /\ pc' \in {"api", "call", "clear"}
    /\ stage[p] \notin {"post", "unidle", "resume", "kill", "join"}
    /\ stage'[p] \notin {"unidle", "resume", "kill", "join"}
    /\ \A r \in Threads \ {p} : /\ stage'[r] = stage[r]
                                /\ op'[r] = op[r]
                                /\ arg'[r] = arg[r]
                                /\ seen'[r] = seen[r]
    /\ \A t \in Tasks : resume[t] # "entry" => resume'[t] # "entry"
    /\ IF stage[p] = "push" THEN ReadyPush(p) ELSE UNCHANGED readyq
    /\ IF stage[p] = "mask" THEN ReadyMask(p) ELSE UNCHANGED ready_mask
    /\ IF stage[p] = "rm_push" THEN RemovePush(p) ELSE UNCHANGED removeq
    /\ \/ QuietCall(p) \/ RemoveStop(p) \/ RemovePush(p)
       \/ \E t \in Tasks : Unblock(p, t) \/ AddTask(p, t) \/ RemoveTask(p, t)

(***************************************************************************)
(* Facts about the operators the model is built from.                      *)
(***************************************************************************)

(* Removing an element leaves a sequence of tasks. *)
LEMMA RemoveAtType ==
    ASSUME NEW S, NEW s \in Seq(S), NEW i \in DOMAIN s
    PROVE  SubSeq(s, 1, i - 1) \o SubSeq(s, i + 1, Len(s)) \in Seq(S)
  OBVIOUS

(* The elements of a queue after a push. *)
LEMMA AppendElements ==
    ASSUME NEW S, NEW s \in Seq(S), NEW x \in S
    PROVE  /\ Range(Append(s, x)) = Range(s) \cup {x}
           /\ IsInjective(s) /\ x \notin Range(s) => IsInjective(Append(s, x))
  BY DEF Range, IsInjective

(* The elements of a queue after its oldest one was taken. *)
LEMMA TailElements ==
    ASSUME NEW S, NEW s \in Seq(S), s # <<>>
    PROVE  /\ Head(s) \in S
           /\ Tail(s) \in Seq(S)
           /\ Range(s) = Range(Tail(s)) \cup {Head(s)}
           /\ IsInjective(s) => IsInjective(Tail(s)) /\ Head(s) \notin Range(Tail(s))
<1>1. Head(s) \in S /\ Tail(s) \in Seq(S) /\ Len(Tail(s)) = Len(s) - 1 /\ Len(s) \in Nat \ {0}
  OBVIOUS
<1>2. \A i \in 1 .. Len(s) - 1 : Tail(s)[i] = s[i + 1]
  OBVIOUS
<1>3. Head(s) = s[1]
  OBVIOUS
<1>4. DOMAIN s = 1 .. Len(s) /\ DOMAIN Tail(s) = 1 .. Len(s) - 1
  BY <1>1
<1>5. Range(s) = Range(Tail(s)) \cup {Head(s)}
  <2>1. ASSUME NEW x \in Range(s)
        PROVE  x \in Range(Tail(s)) \cup {Head(s)}
    <3>1. PICK i \in 1 .. Len(s) : s[i] = x
      BY <1>4 DEF Range
    <3>2. CASE i = 1
      BY <3>1, <3>2, <1>3
    <3>3. CASE i # 1
      <4>1. i - 1 \in 1 .. Len(s) - 1 /\ Tail(s)[i - 1] = x
        BY <3>1, <3>3, <1>1, <1>2
      <4>2. QED
        BY <4>1, <1>4, Zenon DEF Range
    <3>4. QED
      BY <3>2, <3>3
  <2>2. ASSUME NEW x \in Range(Tail(s))
        PROVE  x \in Range(s)
    <3>1. PICK i \in 1 .. Len(s) - 1 : Tail(s)[i] = x
      BY <1>4, Zenon DEF Range
    <3>2. i + 1 \in 1 .. Len(s) /\ s[i + 1] = x
      BY <3>1, <1>1, <1>2
    <3>3. QED
      BY <3>2, <1>4, Zenon DEF Range
  <2>3. Head(s) \in Range(s)
    BY <1>1, <1>3, <1>4 DEF Range
  <2>4. QED
    BY <2>1, <2>2, <2>3
<1>6. ASSUME IsInjective(s)
      PROVE  IsInjective(Tail(s)) /\ Head(s) \notin Range(Tail(s))
  <2>1. \A i, j \in 1 .. Len(s) : s[i] = s[j] => i = j
    BY <1>4, <1>6, Zenon DEF IsInjective
  <2>2. \A i, j \in 1 .. Len(s) - 1 : Tail(s)[i] = Tail(s)[j] => i = j
    BY <2>1, <1>1, <1>2
  <2>3. \A i \in 1 .. Len(s) - 1 : Tail(s)[i] # Head(s)
    BY <2>1, <1>1, <1>2, <1>3
  <2>4. QED
    BY <2>2, <2>3, <1>4, Zenon DEF IsInjective, Range
<1>7. QED
  BY <1>1, <1>5, <1>6

(* A push leaves every ready queue a sequence of tasks. *)
LEMMA PushType ==
    ASSUME NEW Q \in [Prios -> Seq(Tasks)], NEW q \in Prios, NEW t \in Tasks
    PROVE  [Q EXCEPT ![q] = Append(@, t)] \in [Prios -> Seq(Tasks)]
  OBVIOUS

(* A task that is being removed is a task, with a priority. *)
LEMMA RemovedHead ==
    ASSUME TypeOK, removeq # <<>>
    PROVE  Head(removeq) \in Tasks /\ prio[Head(removeq)] \in Prios
<1>1. removeq \in Seq(Tasks) /\ prio \in [Tasks -> Prios]
  BY DEF TypeOK
<1> QED
  BY <1>1

(* A push does not change the oldest task of a queue that is not empty. *)
LEMMA AppendHead ==
    ASSUME NEW S, NEW s \in Seq(S), NEW x \in S, s # <<>>
    PROVE  Append(s, x) # <<>> /\ Head(Append(s, x)) = Head(s)
  OBVIOUS

(* A queue that was just appended to is not empty. *)
LEMMA AppendNotEmpty ==
    ASSUME NEW S, NEW s \in Seq(S), NEW x \in S
    PROVE  Append(s, x) # <<>>
<1>1. Len(Append(s, x)) = Len(s) + 1 /\ Len(s) \in Nat
  OBVIOUS
<1>2. Len(Append(s, x)) # 0
  BY <1>1
<1>3. Len(<<>>) = 0
  OBVIOUS
<1>4. QED
  BY <1>2, <1>3, Zenon

(* The elements of a sequence of tasks are tasks. *)
LEMMA RangeType ==
    ASSUME NEW S, NEW s \in Seq(S)
    PROVE  Range(s) \subseteq S
  BY DEF Range

(***************************************************************************)
(* Facts about single steps that several proofs use.                       *)
(***************************************************************************)

(* The outcomes of the check at the head of prs_worker_schedule_internal:  *)
(* stop, look for another task, or go on with the current one.             *)
LEMMA CheckFlagsCases ==
    ASSUME ControlInv, CheckFlags
    PROVE  \/ ctx' = ExitCtx /\ pc' = "load"
           \/ ctx' = ctx /\ pc' = "clear"
           \/ /\ ctx' = ctx /\ pc' \in {"cas", "api"} /\ flags' = flags
              /\ ctx \in Tasks /\ current_task = ctx /\ "PENDING" \notin flags
<1>1. CASE "STOP" \in flags \/ "PENDING" \in flags
  BY <1>1 DEF CheckFlags
<1>2. CASE "STOP" \notin flags /\ "PENDING" \notin flags
  <2>1. ctx \in Tasks /\ current_task = ctx /\ resume[ctx] \in {"cas", "api"}
    BY <1>2 DEF CheckFlags, ControlInv, TypeOK, ThreadControl
  <2>2. QED
    BY <1>2, <2>1, WorkerAssumption DEF CheckFlags, Continue
<1>3. QED
  BY <1>1, <1>2

(* Where a switch to a task's context goes on. *)
LEMMA SwitchToCases ==
    ASSUME ControlInv, SwitchTo
    PROVE  pc' \in {"check", "cas", "api"} /\ next_task \in Tasks /\ stage[Owner] = "none"
  BY WorkerAssumption DEF SwitchTo, Continue, ControlInv, TypeOK, CallControl

(* The node that get_next holds is a ready task, still in its queue. *)
LEMMA NodeIsReady ==
    ASSUME ControlInv, ReadyIsQueued, RunningInv, node # NoTask
    PROVE  /\ node \in Tasks /\ node_prio \in Prios /\ prio[node] = node_prio
           /\ Queued(node, node_prio)
           /\ state[node] = "READY"
<1>1. node \in Tasks /\ node_prio \in Prios /\ readyq[node_prio] \in Seq(Tasks)
  BY DEF ControlInv, TypeOK
<1>2. readyq[node_prio] # <<>> /\ node = Head(readyq[node_prio])
  BY DEF ControlInv, GetNextControl
<1>3. Queued(node, node_prio)
  BY <1>1, <1>2, TailElements DEF Queued
<1>4. prio[node] = node_prio /\ (state[node] = "READY" \/ Preempting(node))
  BY <1>1, <1>3 DEF ReadyIsQueued
<1>5. ~Preempting(node)
  BY <1>1, <1>4, SwprioAssumption DEF Preempting, RunningInv, Prios
<1>6. QED
  BY <1>1, <1>3, <1>4, <1>5

(* A task that is being removed is in no ready queue, so get_next only     *)
(* ever finishes its removal or asks for another stack.                    *)
LEMMA BeginRemoveQuiet ==
    ASSUME ControlInv, ReadyIsQueued, RunningInv, RemovedInv, BeginRemove
    PROVE  /\ UNCHANGED readyq
           /\ \/ pc' = "mask"
              \/ pc' = "zombie" /\ removeq # <<>>
              \/ pc' = "leave_stack" /\ prev_task \in Tasks /\ state[prev_task] # "RUNNING"
<1>1. CASE removeq = <<>>
  BY <1>1 DEF BeginRemove
<1>2. CASE removeq # <<>>
  <2>1. Head(removeq) \in Range(removeq) /\ Head(removeq) \in Tasks
    <3>1. removeq \in Seq(Tasks)
      BY DEF ControlInv, TypeOK
    <3>2. QED
      BY <1>2, <3>1, TailElements
  <2>2. state[Head(removeq)] \in {"ZOMBIE", "STOPPED"}
    BY <2>1 DEF RemovedInv
  <2>3. ~Queued(Head(removeq), prio[Head(removeq)])
    <3>1. prio[Head(removeq)] \in Prios
      BY <2>1 DEF ControlInv, TypeOK
    <3>2. ~Preempting(Head(removeq))
      BY DEF BeginRemove, Preempting
    <3>3. QED
      BY <2>1, <2>2, <3>1, <3>2 DEF ReadyIsQueued
  <2>4. \A i \in DOMAIN readyq[prio[Head(removeq)]] :
           readyq[prio[Head(removeq)]][i] # Head(removeq)
    BY <2>3, Zenon DEF Queued, Range
  <2>5. CASE prev_task = Head(removeq)
    BY <1>2, <2>1, <2>2, <2>5 DEF BeginRemove
  <2>6. CASE prev_task # Head(removeq)
    BY <1>2, <2>4, <2>6 DEF BeginRemove
  <2>7. QED
    BY <2>5, <2>6
<1>3. QED
  BY <1>1, <1>2

(* A step that changes no queue, no priority and no state. *)
LEMMA QueuedStable ==
    ASSUME ReadyIsQueued, UNCHANGED <<readyq, prio, state>>,
           \A r \in Threads, u \in Tasks : Pushing(r, u)' <=> Pushing(r, u),
           \A u \in Tasks : Preempting(u)' <=> Preempting(u)
    PROVE  ReadyIsQueued'
  BY DEF ReadyIsQueued, Queued

(* A task that is not ready changes to a state that is not ready. *)
LEMMA QueuedOtherState ==
    ASSUME TypeOK, ReadyIsQueued, UNCHANGED <<readyq, prio>>,
           NEW x \in Tasks, state[x] # "READY", ~Preempting(x),
           NEW s, s # "READY", state' = [state EXCEPT ![x] = s],
           \A r \in Threads, u \in Tasks : Pushing(r, u)' <=> Pushing(r, u),
           \A u \in Tasks : Preempting(u)' <=> Preempting(u)
    PROVE  ReadyIsQueued'
  BY DEF ReadyIsQueued, Queued

(* Thread p pushes the task that it was going to push. *)
LEMMA QueuedIsPushed ==
    ASSUME ReadyIsQueued, UNCHANGED <<prio, state>>,
           NEW p \in Threads, NEW x \in Tasks, prio[x] \in Prios, Pushing(p, x),
           \A u \in Tasks : Pushing(p, u) => u = x,
           \A q \in Prios : IsInjective(readyq'[q]),
           \A u \in Tasks, q \in Prios :
             Queued(u, q)' <=> Queued(u, q) \/ (u = x /\ q = prio[x]),
           \A r \in Threads, u \in Tasks : Pushing(r, u)' <=> Pushing(r, u) /\ r # p,
           \A u \in Tasks : Preempting(u)' <=> Preempting(u),
           \A u \in Tasks : prio[u] \in Prios
    PROVE  ReadyIsQueued'
  BY DEF ReadyIsQueued, Queued

(* Thread p makes a task ready and is going to push it. *)
LEMMA QueuedBecomesReady ==
    ASSUME TypeOK, ReadyIsQueued, UNCHANGED <<readyq, prio>>,
           NEW p \in Threads, NEW x \in Tasks, state[x] # "READY", ~Preempting(x),
           state' = [state EXCEPT ![x] = "READY"],
           \A r \in Threads, u \in Tasks :
             Pushing(r, u)' <=> Pushing(r, u) \/ (r = p /\ u = x),
           \A u \in Tasks : Preempting(u)' <=> Preempting(u)
    PROVE  ReadyIsQueued'
  BY DEF ReadyIsQueued, Queued, TypeOK

(* What the thread finds when its task is inside the PR API. *)
LEMMA InApi ==
    ASSUME ControlInv, pc = "api"
    PROVE  /\ ctx \in Tasks /\ current_task = ctx /\ next_task = NoTask
           /\ Owner \in Threads /\ op[Owner] = "none" /\ stage[Owner] = "none"
           /\ state \in [Tasks -> States] /\ stage \in [Threads -> PostStage \cup ReadyStage]
           /\ op \in [Threads -> Ops] /\ arg \in [Threads -> Tasks \cup {NoTask}]
<1>1. /\ state \in [Tasks -> States] /\ stage \in [Threads -> PostStage \cup ReadyStage]
      /\ op \in [Threads -> Ops] /\ arg \in [Threads -> Tasks \cup {NoTask}]
  BY DEF ControlInv, TypeOK
<1>2. Owner \in Threads
  BY WorkerAssumption DEF Threads
<1>3. ctx \in Tasks /\ current_task = ctx /\ next_task = NoTask
  BY DEF ControlInv, ThreadControl, RunsTask
<1> QED
  BY <1>1, <1>2, <1>3 DEF ControlInv, CallControl

(* The effect of pushing a task that is not queued. *)
LEMMA PushEffect ==
    ASSUME TypeOK, ReadyIsQueued, NEW x \in Tasks, prio[x] \in Prios, ~Queued(x, prio[x]),
           readyq' = [readyq EXCEPT ![prio[x]] = Append(@, x)]
    PROVE  /\ \A u \in Tasks, q \in Prios :
                Queued(u, q)' <=> Queued(u, q) \/ (u = x /\ q = prio[x])
           /\ \A q \in Prios : IsInjective(readyq'[q])
<1>1. readyq \in [Prios -> Seq(Tasks)] /\ IsInjective(readyq[prio[x]])
  BY DEF TypeOK, ReadyIsQueued
<1>2. x \notin Range(readyq[prio[x]]) /\ readyq[prio[x]] \in Seq(Tasks)
  BY <1>1 DEF Queued
<1>3. /\ Range(Append(readyq[prio[x]], x)) = Range(readyq[prio[x]]) \cup {x}
      /\ IsInjective(Append(readyq[prio[x]], x))
  BY <1>1, <1>2, AppendElements
<1>4. readyq'[prio[x]] = Append(readyq[prio[x]], x)
  BY <1>1
<1>5. \A q \in Prios : q # prio[x] => readyq'[q] = readyq[q]
  BY <1>1
<1>6. QED
  BY <1>3, <1>4, <1>5 DEF Queued, ReadyIsQueued

(* The effect of dequeuing: only the node found leaves its queue. *)
LEMMA DequeueEffect ==
    ASSUME ControlInv, ReadyIsQueued, RunningInv, Dequeue
    PROVE  /\ node \in Tasks /\ node_prio \in Prios /\ prio[node] = node_prio
           /\ \A u \in Tasks, q \in Prios : Queued(u, q)' => Queued(u, q)
<1>1. node \in Tasks /\ node_prio \in Prios /\ prio[node] = node_prio
  BY NodeIsReady DEF Dequeue, ControlInv, GetNextControl, HoldsNode
<1>2. readyq \in [Prios -> Seq(Tasks)] /\ readyq[node_prio] \in Seq(Tasks)
  BY <1>1 DEF ControlInv, TypeOK
<1>3. readyq[node_prio] # <<>>
  BY DEF Dequeue, ControlInv, GetNextControl, HoldsNode
<1>4. Range(Tail(readyq[node_prio])) \subseteq Range(readyq[node_prio])
  BY <1>2, <1>3, TailElements
<1>5. QED
  BY <1>1, <1>2, <1>4 DEF Dequeue, Queued

(* The effect of prs_mpsciq_push in prs_sched_swprio_ready. *)
LEMMA ReadyPushEffect ==
    ASSUME ControlInv, ReadyIsQueued, RemovedInv, NEW p \in Threads, ReadyPush(p)
    PROVE  /\ arg[p] \in Tasks /\ Goto(p, "mask")
           /\ \A u \in Tasks, q \in Prios : Queued(u, q)' => Queued(u, q) \/ u = arg[p]
<1>1. arg[p] \in Tasks /\ prio[arg[p]] \in Prios /\ Pushing(p, arg[p])
  BY DEF ReadyPush, ControlInv, CallControl, ReadyStage, TypeOK, Pushing
<1>2. state[arg[p]] = "READY" /\ ~Queued(arg[p], prio[arg[p]])
  BY <1>1 DEF ReadyIsQueued
<1>3. userdata[arg[p]]
  BY <1>1, <1>2 DEF RemovedInv
<1>4. readyq' = [readyq EXCEPT ![prio[arg[p]]] = Append(@, arg[p])] /\ Goto(p, "mask")
  BY <1>3 DEF ReadyPush
<1>5. \A u \in Tasks, q \in Prios :
         Queued(u, q)' <=> Queued(u, q) \/ (u = arg[p] /\ q = prio[arg[p]])
  BY <1>1, <1>2, <1>4, PushEffect, Zenon DEF ControlInv
<1>6. QED
  BY <1>1, <1>4, <1>5

(* The worker thread's own steps leave the calls and get_next alone. *)
LEMMA ThreadFrame ==
    ASSUME ControlInv, ThreadStep
    PROVE  ThreadEffect
<1>1. CASE Entry
  BY <1>1 DEF Entry, ThreadEffect, GetNextPc
<1>2. CASE CheckFlags
  BY <1>2, CheckFlagsCases DEF CheckFlags, ThreadEffect, GetNextPc
<1>3. CASE ClearCurrentTask
  BY <1>3 DEF ClearCurrentTask, ThreadEffect, GetNextPc
<1>4. CASE SwitchTo
  BY <1>4, SwitchToCases DEF SwitchTo, ThreadEffect, GetNextPc
<1>5. CASE LeaveStack
  BY <1>5 DEF LeaveStack, ThreadEffect, GetNextPc
<1>6. CASE NothingToRun
  BY <1>6 DEF NothingToRun, ThreadEffect, GetNextPc
<1>7. CASE Idle
  BY <1>7 DEF Idle, ThreadEffect, GetNextPc
<1>8. CASE WakeUp
  BY <1>8 DEF WakeUp, ThreadEffect, GetNextPc
<1>9. CASE EnableInterrupts
  BY <1>9 DEF EnableInterrupts, ThreadEffect, GetNextPc
<1>10. CASE ReturnToUser
  BY <1>10 DEF ReturnToUser, ThreadEffect, GetNextPc
<1>11. CASE CallPrs
  BY <1>11 DEF CallPrs, ThreadEffect, GetNextPc
<1>12. CASE DisableInterrupts
  BY <1>12 DEF DisableInterrupts, ThreadEffect, GetNextPc
<1>13. CASE HandleInterrupt
  BY <1>13 DEF HandleInterrupt, ThreadEffect, GetNextPc
<1> QED
  BY <1>1, <1>2, <1>3, <1>4, <1>5, <1>6, <1>7, <1>8, <1>9, <1>10, <1>11, <1>12, <1>13,
     Zenon DEF ThreadStep

(* What the running task does inside the PR API. *)
LEMMA ApiFrame ==
    ASSUME ApiStep
    PROVE  ApiEffect
<1>1. CASE Block
  BY <1>1 DEF Block, workerVars, ApiEffect
<1>2. CASE UnblockSelf
  BY <1>2 DEF UnblockSelf, workerVars, ApiEffect
<1>3. CASE Yield
  BY <1>3 DEF Yield, BeginCall, callUnchanged, ApiEffect
<1>4. CASE LeaveApi
  BY <1>4 DEF LeaveApi, IntEnable, schedVars, ApiEffect
<1>5. CASE CallSchedule
  BY <1>5 DEF CallSchedule, Schedule, ApiEffect
<1>6. CASE StopCurrent
  BY <1>6 DEF StopCurrent, StopSelf, schedVars, ApiEffect
<1>7. ASSUME NEW q \in NewPrios, SetPrio(q)
      PROVE  ApiEffect
  BY <1>7 DEF SetPrio, BeginCall, callUnchanged, ApiEffect
<1> QED
  BY <1>1, <1>2, <1>3, <1>4, <1>5, <1>6, <1>7, Zenon DEF ApiStep

(* The steps of get_next leave the worker and the calls alone. *)
LEMMA GetNextFrame ==
    ASSUME GetNextStep
    PROVE  GetNextEffect
<1>1. CASE BeginRemove
  BY Zenon, <1>1 DEF BeginRemove, GetNextEffect, GetNextPc
<1>2. CASE RemoveUnmask
  BY Zenon, <1>2 DEF RemoveUnmask, GetNextEffect, GetNextPc
<1>3. CASE FinishRemove
  BY <1>3 DEF FinishRemove, GetNextEffect, GetNextPc
<1>4. CASE LoadReadyMask
  BY <1>4 DEF LoadReadyMask, GetNextEffect, GetNextPc
<1>5. CASE BeginReady
  BY <1>5 DEF BeginReady, GetNextEffect, GetNextPc
<1>6. CASE ClearReadyBit
  BY <1>6 DEF ClearReadyBit, GetNextEffect, GetNextPc
<1>7. CASE BeginReadyAgain
  BY <1>7 DEF BeginReadyAgain, GetNextEffect, GetNextPc
<1>8. CASE SetReadyBit
  BY <1>8 DEF SetReadyBit, GetNextEffect, GetNextPc
<1>9. CASE Pick
  BY <1>9 DEF Pick, GetNextEffect, GetNextPc
<1>10. CASE PreemptPush
  BY <1>10 DEF PreemptPush, GetNextEffect, GetNextPc
<1>11. CASE PreemptMask
  BY <1>11 DEF PreemptMask, GetNextEffect, GetNextPc
<1>12. CASE PreemptState
  BY <1>12 DEF PreemptState, GetNextEffect, GetNextPc
<1>13. CASE Dequeue
  BY <1>13 DEF Dequeue, GetNextEffect, GetNextPc
<1> QED
  BY <1>1, <1>2, <1>3, <1>4, <1>5, <1>6, <1>7, <1>8, <1>9, <1>10, <1>11, <1>12, <1>13,
     Zenon DEF GetNextStep

(* What a call on the worker leaves alone, and what it leaves behind. *)
LEMMA PostFrame ==
    ASSUME ControlInv, NEW p \in Threads, PostStep(p)
    PROVE  PostEffect(p)
<1>0. stage \in [Threads -> PostStage \cup ReadyStage] /\ op \in [Threads -> Ops]
  BY DEF ControlInv, TypeOK
<1>1. CASE Post(p)
  BY <1>0, <1>1 DEF Post, PostDone, PostEffect
<1>2. CASE ClearIdle(p)
  BY <1>0, <1>2 DEF ClearIdle, PostDone, PostEffect
<1>3. CASE ResumeThread(p)
  BY <1>0, <1>3 DEF ResumeThread, PostDone, PostEffect
<1>4. CASE InterruptThread(p)
  BY <1>0, <1>4 DEF InterruptThread, PostDone, PostEffect
<1>5. CASE Stop(p)
  BY <1>0, <1>5 DEF Stop, BeginCall, MayCall, PostEffect
<1>6. CASE Join(p)
  BY <1>0, <1>6 DEF Join, PostEffect
<1> QED
  BY <1>1, <1>2, <1>3, <1>4, <1>5, <1>6, Zenon DEF PostStep

(* What a call on the scheduler leaves alone. *)
LEMMA CallFrame ==
    ASSUME ControlInv, NEW p \in Threads, CallStep(p)
    PROVE  CallEffect(p)
<1>0. /\ stage \in [Threads -> PostStage \cup ReadyStage] /\ op \in [Threads -> Ops]
      /\ arg \in [Threads -> Tasks \cup {NoTask}]
      /\ seen \in [Threads -> Tasks \cup {NoTask} \cup States]
      /\ resume \in [Tasks -> {"entry", "cas", "api"}]
  BY DEF ControlInv, TypeOK
<1>1. CASE SchedReady(p)
  BY <1>0, <1>1 DEF SchedReady, Goto, callUnchanged, CallEffect, QuietCall
<1>2. CASE ReadyPush(p)
  BY <1>0, <1>2 DEF ReadyPush, Goto, callUnchanged, CallEffect, QuietCall
<1>3. CASE ReadyMask(p)
  BY <1>0, <1>3 DEF ReadyMask, Goto, callUnchanged, CallEffect, QuietCall
<1>4. CASE ReadyRead(p)
  BY <1>0, <1>4 DEF ReadyRead, Goto, callUnchanged, CallEffect, QuietCall
<1>5. CASE ReadyDecide(p)
  BY <1>0, <1>5 DEF ReadyDecide, Goto, callUnchanged, CallEffect, QuietCall
<1>6. CASE RemoveStop(p)
  BY <1>0, <1>6 DEF RemoveStop, Goto, callUnchanged, CallEffect
<1>7. CASE RemovePush(p)
  BY <1>0, <1>7 DEF RemovePush, Goto, workerButStage, CallEffect
<1>8. CASE RemoveRead(p)
  BY <1>0, <1>8 DEF RemoveRead, Goto, workerButStage, schedVars, CallEffect, QuietCall
<1>9. CASE CallReturn(p)
  <2>1. p = Owner => pc = "call"
    BY <1>9 DEF CallReturn, Return, ControlInv, CallControl
  <2>2. QED
    BY <1>0, <1>9, <2>1 DEF CallReturn, Return, CallEffect, QuietCall
<1>10. ASSUME NEW t \in Tasks, Unblock(p, t)
       PROVE  CallEffect(p)
  BY Zenon, <1>0, <1>10 DEF Unblock, BeginCall, MayCall, callUnchanged, CallEffect
<1>11. ASSUME NEW t \in Tasks, AddTask(p, t)
       PROVE  CallEffect(p)
  BY Zenon, <1>0, <1>11 DEF AddTask, BeginCall, MayCall, callUnchanged, CallEffect
<1>12. ASSUME NEW t \in Tasks, RemoveTask(p, t)
       PROVE  CallEffect(p)
  BY Zenon, <1>0, <1>12 DEF RemoveTask, BeginCall, MayCall, callUnchanged, CallEffect
<1> QED
  BY <1>1, <1>2, <1>3, <1>4, <1>5, <1>6, <1>7, <1>8, <1>9, <1>10, <1>11, <1>12,
     Zenon DEF CallStep

(***************************************************************************)
(* Every step preserves the types.                                         *)
(***************************************************************************)

(* The worker thread's own steps preserve the types. *)
LEMMA TypeThread ==
    ASSUME TypeOK, ThreadControl, GetNextControl, CallControl, ThreadStep,
           UNCHANGED schedVars
    PROVE  TypeOK'
<1> USE WorkerAssumption, SwprioAssumption
<1>1. CASE Entry
  BY <1>1 DEF Entry, schedVars, TypeOK, Flags, WorkerPc
<1>2. CASE CheckFlags
  BY <1>2 DEF CheckFlags, schedVars, Continue, TypeOK, Flags, WorkerPc
<1>3. CASE ClearCurrentTask
  BY <1>3 DEF ClearCurrentTask, schedVars, TypeOK, Flags, WorkerPc
<1>4. CASE SwitchTo
  BY <1>4 DEF SwitchTo, schedVars, Continue, Entered, TypeOK, WorkerPc
<1>5. CASE LeaveStack
  BY <1>5 DEF LeaveStack, schedVars, TypeOK, Flags, WorkerPc
<1>6. CASE NothingToRun
  BY <1>6 DEF NothingToRun, schedVars, TypeOK, WorkerPc
<1>7. CASE Idle
  <2>1. flags' \subseteq Flags /\ pc' \in WorkerPc
    BY <1>7 DEF Idle, TypeOK, Flags, WorkerPc
  <2>2. QED
    BY <1>7, <2>1 DEF Idle, schedVars, TypeOK
<1>8. CASE WakeUp
  <2>1. idle_sem' \in Nat /\ pc' \in WorkerPc
    BY <1>8 DEF WakeUp, TypeOK, WorkerPc
  <2>2. QED
    BY <1>8, <2>1 DEF WakeUp, schedVars, TypeOK
<1>9. CASE EnableInterrupts
  <2>1. flags' \subseteq Flags /\ pc' \in WorkerPc
    BY <1>9 DEF EnableInterrupts, TypeOK, Flags, WorkerPc
  <2>2. QED
    BY <1>9, <2>1 DEF EnableInterrupts, schedVars, TypeOK
<1>10. CASE ReturnToUser
  BY <1>10 DEF ReturnToUser, schedVars, TypeOK, Flags, WorkerPc
<1>11. CASE CallPrs
  BY <1>11 DEF CallPrs, schedVars, TypeOK, Flags, WorkerPc
<1>12. CASE DisableInterrupts
  <2>1. flags' \subseteq Flags /\ pc' \in WorkerPc
    BY <1>12 DEF DisableInterrupts, TypeOK, Flags, WorkerPc
  <2>2. QED
    BY <1>12, <2>1 DEF DisableInterrupts, schedVars, TypeOK
<1>13. CASE HandleInterrupt
  BY ZenonT(40), <1>13 DEF HandleInterrupt, schedVars, TypeOK, Flags, WorkerPc
<1> QED
  BY <1>1, <1>2, <1>3, <1>4, <1>5, <1>6, <1>7, <1>8, <1>9, <1>10, <1>11, <1>12, <1>13,
     Zenon DEF ThreadStep

(* The steps of get_next preserve the types. *)
LEMMA TypeGetNext ==
    ASSUME TypeOK, ThreadControl, GetNextControl, CallControl, GetNextStep, LeastBit
    PROVE  TypeOK'
<1> USE WorkerAssumption, SwprioAssumption
<1>1. CASE BeginRemove
  <2>1. CASE UNCHANGED readyq
    <3>1. pc' \in WorkerPc \cup GetNextPc
      BY ZenonT(40), <1>1 DEF BeginRemove, WorkerPc, GetNextPc
    <3>2. QED
      BY ZenonT(40), <1>1, <2>1, <3>1 DEF BeginRemove, getNextUnchanged, TypeOK
  <2>2. CASE removeq # <<>> /\ ~UNCHANGED readyq
    <3>1. Head(removeq) \in Tasks /\ prio[Head(removeq)] \in Prios
      BY <2>2, RemovedHead
    <3>2. PICK i \in DOMAIN readyq[prio[Head(removeq)]] :
            /\ readyq' = [readyq EXCEPT ![prio[Head(removeq)]] = SubSeq(@, 1, i - 1) \o SubSeq(@, i + 1, Len(@))]
            /\ pc' = "rm_begin"
      BY Zenon, <1>1, <2>2 DEF BeginRemove
    <3>3. readyq' \in [Prios -> Seq(Tasks)]
      BY Zenon, <3>1, <3>2, RemoveAtType DEF TypeOK
    <3>4. QED
      BY ZenonT(40), <1>1, <3>2, <3>3 DEF BeginRemove, getNextUnchanged, TypeOK, GetNextPc
  <2>3. QED
    BY ZenonT(40), <1>1, <2>1, <2>2 DEF BeginRemove
<1>2. CASE RemoveUnmask
  <2>1. removeq # <<>>
    BY <1>2 DEF RemoveUnmask, GetNextControl
  <2>2. Head(removeq) \in Tasks /\ prio[Head(removeq)] \in Prios
    BY <2>1, RemovedHead
  <2>3. ready_mask' \subseteq Prios /\ pc' \in GetNextPc
    BY <1>2, <2>2 DEF RemoveUnmask, TypeOK, GetNextPc
  <2>4. QED
    BY ZenonT(40), <1>2, <2>3 DEF RemoveUnmask, getNextUnchanged, TypeOK
<1>3. CASE FinishRemove
  <2>1. removeq # <<>>
    BY <1>3 DEF FinishRemove, GetNextControl
  <2>2. state' \in [Tasks -> States] /\ userdata' \in [Tasks -> BOOLEAN] /\ removeq' \in Seq(Tasks)
    BY <1>3, <2>1 DEF FinishRemove, TypeOK, States
  <2>3. QED
    BY ZenonT(40), <1>3, <2>2 DEF FinishRemove, getNextUnchanged, WorkerPc, TypeOK
<1>4. CASE LoadReadyMask
  BY ZenonT(40), <1>4 DEF LoadReadyMask, getNextUnchanged, TypeOK, WorkerPc, GetNextPc
<1>5. CASE BeginReady
  <2>1. mask # {} => Lsb(mask) \in Prios
    BY DEF TypeOK, LeastBit
  <2>2. node' \in Tasks \cup {NoTask} /\ node_prio' \in Prios /\ pc' \in GetNextPc /\ mask' \subseteq Prios
    BY <1>5, <2>1 DEF BeginReady, TypeOK, GetNextControl, GetNextPc
  <2>3. QED
    BY ZenonT(40), <1>5, <2>2 DEF BeginReady, getNextUnchanged, TypeOK
<1>6. CASE ClearReadyBit
  BY <1>6 DEF ClearReadyBit, getNextUnchanged, TypeOK, WorkerPc, GetNextPc
<1>7. CASE BeginReadyAgain
  <2>1. mask # {} => Lsb(mask) \in Prios
    BY DEF TypeOK, LeastBit
  <2>2. node' \in Tasks \cup {NoTask} /\ node_prio' \in Prios /\ pc' \in GetNextPc /\ mask' \subseteq Prios
    BY <1>7, <2>1 DEF BeginReadyAgain, TypeOK, GetNextControl, GetNextPc
  <2>3. QED
    BY ZenonT(40), <1>7, <2>2 DEF BeginReadyAgain, getNextUnchanged, TypeOK
<1>8. CASE SetReadyBit
  BY <1>8 DEF SetReadyBit, getNextUnchanged, TypeOK, WorkerPc, GetNextPc
<1>9. CASE Pick
  BY ZenonT(40), <1>9 DEF Pick, getNextUnchanged, TypeOK, WorkerPc, GetNextPc
<1>10. CASE PreemptPush
  <2>1. prev_task \in Tasks /\ prio[prev_task] \in Prios
    BY <1>10 DEF PreemptPush, GetNextControl, TypeOK
  <2>2. readyq' \in [Prios -> Seq(Tasks)]
    BY <1>10, <2>1 DEF PreemptPush, TypeOK
  <2>3. QED
    BY ZenonT(40), <1>10, <2>2 DEF PreemptPush, getNextUnchanged, GetNextPc, TypeOK
<1>11. CASE PreemptMask
  <2>1. prev_task \in Tasks /\ prio[prev_task] \in Prios
    BY <1>11 DEF PreemptMask, GetNextControl, TypeOK
  <2>2. ready_mask' \subseteq Prios /\ pc' \in GetNextPc
    BY <1>11, <2>1 DEF PreemptMask, TypeOK, GetNextPc
  <2>3. QED
    BY <1>11, <2>2 DEF PreemptMask, getNextUnchanged, TypeOK
<1>12. CASE PreemptState
  BY ZenonT(40), <1>12 DEF PreemptState, getNextUnchanged, TypeOK, GetNextControl,
     HoldsNode, States, WorkerPc, GetNextPc
<1>13. CASE Dequeue
  <2>1. node \in Tasks /\ state \in [Tasks -> States]
    BY <1>13 DEF Dequeue, TypeOK, GetNextControl, HoldsNode
  <2>2. state' \in [Tasks -> States] /\ pc' \in WorkerPc /\ next_task' \in Tasks \cup {NoTask}
    BY <1>13, <2>1 DEF Dequeue, TypeOK, States, WorkerPc, GetNextPc
  <2>3. readyq' \in [Prios -> Seq(Tasks)]
    <3>1. /\ node_prio \in Prios /\ readyq \in [Prios -> Seq(Tasks)]
          /\ readyq[node_prio] # <<>>
      BY <1>13 DEF Dequeue, TypeOK, GetNextControl, HoldsNode
    <3>2. Tail(readyq[node_prio]) \in Seq(Tasks)
      BY <3>1, TailElements
    <3>3. QED
      BY <1>13, <3>1, <3>2 DEF Dequeue
  <2>4. QED
    BY <1>13, <2>2, <2>3 DEF Dequeue, getNextUnchanged, TypeOK
<1> QED
  BY <1>1, <1>2, <1>3, <1>4, <1>5, <1>6, <1>7, <1>8, <1>9, <1>10, <1>11, <1>12, <1>13,
     Zenon DEF GetNextStep

(* What a task does inside the PR API preserve the types. *)
LEMMA TypeApi ==
    ASSUME TypeOK, ThreadControl, GetNextControl, CallControl, ApiStep
    PROVE  TypeOK'
<1> USE WorkerAssumption, SwprioAssumption
<1>1. CASE Block
  BY ZenonT(40), <1>1 DEF Block, workerVars, TypeOK, WorkerPc, States, PostStage,
     ReadyStage, Ops, Flags
<1>2. CASE UnblockSelf
  BY ZenonT(40), <1>2 DEF UnblockSelf, workerVars, TypeOK, WorkerPc, States, PostStage,
     ReadyStage, Ops, Flags
<1>3. CASE Yield
  <2>1. stage' \in [Threads -> PostStage \cup ReadyStage] /\ op' \in [Threads -> Ops] /\ pc' \in WorkerPc
    BY <1>3 DEF Yield, BeginCall, TypeOK, ReadyStage, Ops, WorkerPc, Threads
  <2>2. QED
    BY Zenon, <1>3, <2>1 DEF Yield, callUnchanged, States, ThreadControl, RunsTask, TypeOK
<1>4. CASE LeaveApi
  BY ZenonT(40), <1>4 DEF LeaveApi, IntEnable, schedVars, TypeOK, WorkerPc, States,
     PostStage, ReadyStage, Ops, Flags
<1>5. CASE CallSchedule
  BY ZenonT(40), <1>5 DEF CallSchedule, Schedule, TypeOK, WorkerPc, States, PostStage,
     ReadyStage, Ops, Flags
<1>6. CASE StopCurrent
  BY <1>6 DEF StopCurrent, StopSelf, schedVars, TypeOK, WorkerPc, States, PostStage,
     ReadyStage, Ops, Flags
<1>7. ASSUME NEW q \in NewPrios, SetPrio(q)
      PROVE  TypeOK'
  BY ZenonT(40), <1>7 DEF SetPrio, BeginCall, MayCall, callUnchanged, TypeOK, WorkerPc,
     States, PostStage, ReadyStage, Ops, Flags
<1> QED
  BY <1>1, <1>2, <1>3, <1>4, <1>5, <1>6, <1>7, Zenon DEF ApiStep

(* Calls on the worker preserve the types. *)
LEMMA TypePost ==
    ASSUME TypeOK, ThreadControl, GetNextControl, CallControl, NEW p \in Threads,
           PostStep(p), UNCHANGED schedVars
    PROVE  TypeOK'
<1> USE WorkerAssumption, SwprioAssumption
<1>1. CASE Post(p)
  <2>1. stage' \in [Threads -> PostStage \cup ReadyStage] /\ flags' \subseteq Flags
    BY ZenonT(40), <1>1 DEF Post, PostDone, TypeOK, PostStage, Flags
  <2>2. QED
    BY <1>1, <2>1 DEF Post, schedVars, TypeOK
<1>2. CASE ClearIdle(p)
  <2>1. stage' \in [Threads -> PostStage \cup ReadyStage] /\ flags' \subseteq Flags
    BY ZenonT(40), <1>2 DEF ClearIdle, PostDone, TypeOK, PostStage, Flags
  <2>2. QED
    BY <1>2, <2>1 DEF ClearIdle, schedVars, TypeOK
<1>3. CASE ResumeThread(p)
  BY <1>3 DEF ResumeThread, schedVars, PostDone, TypeOK, PostStage, ReadyStage, Flags, Ops
<1>4. CASE InterruptThread(p)
  BY <1>4 DEF InterruptThread, schedVars, PostDone, TypeOK, PostStage, ReadyStage,
     Flags, Ops
<1>5. CASE Stop(p)
  BY <1>5 DEF Stop, schedVars, BeginCall, MayCall, TypeOK, PostStage, ReadyStage, Flags, Ops
<1>6. CASE Join(p)
  <2>1. stage' \in [Threads -> PostStage \cup ReadyStage]
    BY <1>6 DEF Join, TypeOK, PostStage
  <2>2. QED
    BY <1>6, <2>1 DEF Join, schedVars, TypeOK
<1> QED
  BY <1>1, <1>2, <1>3, <1>4, <1>5, <1>6, Zenon DEF PostStep

(* Calls on the scheduler preserve the types. *)
LEMMA TypeCall ==
    ASSUME TypeOK, ThreadControl, GetNextControl, CallControl, NEW p \in Threads,
           CallStep(p)
    PROVE  TypeOK'
<1> USE WorkerAssumption, SwprioAssumption
<1>1. CASE SchedReady(p)
  <2>1. stage' \in [Threads -> PostStage \cup ReadyStage]
    BY <1>1 DEF SchedReady, Goto, TypeOK, ReadyStage
  <2>2. QED
    BY <1>1, <2>1 DEF SchedReady, Goto, callUnchanged, TypeOK
<1>2. CASE ReadyPush(p)
  <2>1. arg[p] \in Tasks /\ prio[arg[p]] \in Prios
    BY <1>2 DEF ReadyPush, CallControl, ReadyStage, TypeOK
  <2>2. \/ readyq' = [readyq EXCEPT ![prio[arg[p]]] = Append(@, arg[p])] /\ Goto(p, "mask")
        \/ readyq' = readyq /\ Goto(p, "fault")
    BY <1>2, Zenon DEF ReadyPush
  <2>3. readyq' \in [Prios -> Seq(Tasks)]
    <3>1. readyq \in [Prios -> Seq(Tasks)]
      BY DEF TypeOK
    <3>2. CASE readyq' = [readyq EXCEPT ![prio[arg[p]]] = Append(@, arg[p])]
      BY <2>1, <3>1, <3>2, PushType
    <3>3. QED
      BY <2>2, <3>1, <3>2
  <2>4. stage' \in [Threads -> PostStage \cup ReadyStage]
    BY Zenon, <2>2 DEF Goto, TypeOK, ReadyStage
  <2>5. QED
    BY ZenonT(40), <1>2, <2>3, <2>4 DEF ReadyPush, Goto, callUnchanged, TypeOK
<1>3. CASE ReadyMask(p)
  <2>1. prio[arg[p]] \in Prios
    BY <1>3 DEF ReadyMask, CallControl, ReadyStage, TypeOK
  <2>2. ready_mask' \subseteq Prios /\ stage' \in [Threads -> PostStage \cup ReadyStage]
    BY Zenon, <1>3, <2>1 DEF ReadyMask, Goto, TypeOK, ReadyStage
  <2>3. QED
    BY ZenonT(40), <1>3, <2>2 DEF ReadyMask, Goto, callUnchanged, TypeOK
<1>4. CASE ReadyRead(p)
  BY <1>4 DEF ReadyRead, Goto, callUnchanged, TypeOK, ReadyStage, States
<1>5. CASE ReadyDecide(p)
  <2>1. stage' \in [Threads -> PostStage \cup ReadyStage] /\ seen' \in [Threads -> Tasks \cup {NoTask} \cup States]
    BY <1>5 DEF ReadyDecide, Goto, TypeOK, PostStage
  <2>2. QED
    BY <1>5, <2>1 DEF ReadyDecide, Goto, callUnchanged, TypeOK
<1>6. CASE RemoveStop(p)
  BY <1>6 DEF RemoveStop, Goto, callUnchanged, TypeOK, CallControl, PostStage,
     ReadyStage, States
<1>7. CASE RemovePush(p)
  <2>1. arg[p] \in Tasks
    BY <1>7 DEF RemovePush, CallControl, ReadyStage, TypeOK
  <2>2. removeq' \in Seq(Tasks) /\ stage' \in [Threads -> PostStage \cup ReadyStage]
    <3>1. removeq \in Seq(Tasks) /\ stage \in [Threads -> PostStage \cup ReadyStage]
      BY DEF TypeOK
    <3>2. /\ removeq' = Append(removeq, arg[p])
          /\ \E c \in {"rm_read", "ret"} : stage' = [stage EXCEPT ![p] = c]
      BY <1>7, Zenon DEF RemovePush, Goto
    <3>3. QED
      BY <2>1, <3>1, <3>2 DEF PostStage, ReadyStage
  <2>3. QED
    BY ZenonT(40), <1>7, <2>2 DEF RemovePush, workerButStage, TypeOK
<1>8. CASE RemoveRead(p)
  BY <1>8 DEF RemoveRead, Goto, workerButStage, schedVars, TypeOK, PostStage
<1>9. CASE CallReturn(p)
  <2>1. stage' \in [Threads -> PostStage \cup ReadyStage] /\ op' \in [Threads -> Ops]
    BY <1>9 DEF CallReturn, Return, TypeOK, PostStage, Ops
  <2>2. pc' \in WorkerPc \cup GetNextPc /\ resume' \in [Tasks -> {"entry", "cas", "api"}]
    BY <1>9 DEF CallReturn, Return, TypeOK, WorkerPc
  <2>3. sched_id' \in [Tasks -> BOOLEAN] /\ stop_done' \in BOOLEAN
    BY <1>9 DEF CallReturn, Return, TypeOK
  <2>4. /\ arg' \in [Threads -> Tasks \cup {NoTask}]
        /\ seen' \in [Threads -> Tasks \cup {NoTask} \cup States]
    BY <1>9 DEF CallReturn, TypeOK
  <2>5. QED
    BY <1>9, <2>1, <2>2, <2>3, <2>4 DEF CallReturn, Return, TypeOK
<1>10. ASSUME NEW t \in Tasks, Unblock(p, t)
      PROVE  TypeOK'
  BY <1>10 DEF Unblock, BeginCall, MayCall, callUnchanged, TypeOK, ReadyStage,
     WorkerPc, States, Ops
<1>11. ASSUME NEW t \in Tasks, AddTask(p, t)
      PROVE  TypeOK'
  BY <1>11 DEF AddTask, BeginCall, callUnchanged, TypeOK, ReadyStage, WorkerPc,
     States, Ops
<1>12. ASSUME NEW t \in Tasks, RemoveTask(p, t)
      PROVE  TypeOK'
  <2>1. /\ stage' \in [Threads -> PostStage \cup ReadyStage] /\ op' \in [Threads -> Ops]
        /\ pc' \in WorkerPc \cup GetNextPc
    BY <1>12 DEF RemoveTask, BeginCall, TypeOK, PostStage, ReadyStage, Ops, WorkerPc
  <2>2. /\ arg' \in [Threads -> Tasks \cup {NoTask}]
        /\ seen' \in [Threads -> Tasks \cup {NoTask} \cup States]
    BY <1>12 DEF RemoveTask, TypeOK
  <2>3. QED
    BY <1>12, <2>1, <2>2 DEF RemoveTask, callUnchanged, TypeOK
<1> QED
  BY <1>1, <1>2, <1>3, <1>4, <1>5, <1>6, <1>7, <1>8, <1>9, <1>10, <1>11, <1>12,
     Zenon DEF CallStep

(***************************************************************************)
(* The control of the worker's thread.                                     *)
(***************************************************************************)

(* The worker thread's own steps keep the thread and its locals in step. *)
LEMMA ControlThread ==
    ASSUME TypeOK, ThreadControl, GetNextControl, CallControl, IdleHandshake,
           ThreadStep, UNCHANGED schedVars
    PROVE  ThreadControl'
<1> USE WorkerAssumption, SwprioAssumption
<1>1. CASE Entry
  BY <1>1 DEF Entry, ThreadControl, RunsTask, GetNextPc
<1>2. CASE CheckFlags
  <2>1. CASE "STOP" \in flags
    BY <1>2, <2>1 DEF CheckFlags, schedVars, TypeOK, ThreadControl, RunsTask, GetNextPc
  <2>2. CASE "STOP" \notin flags /\ "PENDING" \in flags
    BY <1>2, <2>2 DEF CheckFlags, schedVars, TypeOK, ThreadControl, RunsTask, GetNextPc
  <2>3. CASE flags \cap {"PENDING", "STOP"} = {}
    <3>1. ctx \in Tasks /\ current_task = ctx /\ resume[ctx] \in {"cas", "api"}
      BY <1>2, <2>3 DEF CheckFlags, TypeOK, ThreadControl
    <3>2. pc' \in {"cas", "api"} /\ flags' = flags
      BY <1>2, <2>3, <3>1 DEF CheckFlags, Continue
    <3>3. QED
      BY Zenon, <1>2, <3>1, <3>2 DEF CheckFlags, schedVars, TypeOK, ThreadControl,
         RunsTask, GetNextPc
  <2>4. QED
    BY <2>1, <2>2, <2>3
<1>3. CASE ClearCurrentTask
  BY <1>3 DEF ClearCurrentTask, ThreadControl, RunsTask
<1>4. CASE SwitchTo
  BY ZenonT(40), <1>4 DEF SwitchTo, schedVars, Continue, Entered, TypeOK,
     ThreadControl, RunsTask, GetNextPc
<1>5. CASE LeaveStack
  BY <1>5 DEF LeaveStack, ThreadControl, RunsTask
<1>6. CASE NothingToRun
  BY <1>6 DEF NothingToRun, ThreadControl, RunsTask
<1>7. CASE Idle
  <2>1. flags \subseteq {"PENDING", "STOP"}
    BY ZenonT(40), <1>7 DEF Idle, TypeOK, Flags, ThreadControl, IdleHandshake
  <2>2. QED
    BY ZenonT(40), <1>7, <2>1 DEF Idle, schedVars, TypeOK, ThreadControl, RunsTask,
       GetNextPc
<1>8. CASE WakeUp
  BY <1>8 DEF WakeUp, ThreadControl, RunsTask
<1>9. CASE EnableInterrupts
  BY <1>9 DEF EnableInterrupts, ThreadControl, RunsTask, GetNextPc
<1>10. CASE ReturnToUser
  BY <1>10 DEF ReturnToUser, ThreadControl, RunsTask, GetNextPc
<1>11. CASE CallPrs
  BY <1>11 DEF CallPrs, ThreadControl, RunsTask, GetNextPc
<1>12. CASE DisableInterrupts
  BY <1>12 DEF DisableInterrupts, ThreadControl, RunsTask, GetNextPc
<1>13. CASE HandleInterrupt
  BY ZenonT(40), <1>13 DEF HandleInterrupt, schedVars, TypeOK, ThreadControl, RunsTask,
     GetNextPc
<1> QED
  BY <1>1, <1>2, <1>3, <1>4, <1>5, <1>6, <1>7, <1>8, <1>9, <1>10, <1>11, <1>12, <1>13,
     Zenon DEF ThreadStep

(* The steps of get_next keep the thread where it should be. *)
LEMMA ControlGetNext ==
    ASSUME TypeOK, ThreadControl, GetNextControl, CallControl, IdleHandshake, GetNextStep
    PROVE  ThreadControl'
<1>1. GetNextEffect
  BY GetNextFrame
<1> QED
  BY <1>1 DEF GetNextEffect, getNextUnchanged, ThreadControl, RunsTask, GetNextPc

(* What a task does inside the PR API keep the thread and its locals in step. *)
LEMMA ControlApi ==
    ASSUME TypeOK, ThreadControl, GetNextControl, CallControl, IdleHandshake, ApiStep
    PROVE  ThreadControl'
<1>1. ApiEffect
  BY ApiFrame
<1>2. /\ pc = "api" /\ ctx \in Tasks /\ current_task = ctx /\ next_task = NoTask
      /\ "INTERRUPTIBLE" \notin flags /\ resume[ctx] # "entry"
      /\ UNCHANGED <<current_task, next_task>>
  BY <1>1 DEF ApiEffect, ThreadControl, RunsTask
<1>3. CASE pc' \in {"api", "call"}
  <2>1. UNCHANGED <<flags, ctx, resume>>
    BY <1>1, <1>3 DEF ApiEffect
  <2>2. QED
    BY <1>2, <1>3, <2>1 DEF ThreadControl, RunsTask, GetNextPc
<1>4. CASE pc' \in {"check", "clear", "load"}
  <2>1. /\ pc' \in {"check", "clear"} => UNCHANGED <<flags, ctx>>
        /\ pc' = "load" => ctx' = ExitCtx /\ flags' = flags \cup {"STOP"}
        /\ \A t \in Tasks : resume[t] # "entry" => resume'[t] # "entry"
    BY <1>1, <1>4 DEF ApiEffect
  <2>2. ExitCtx \notin Tasks
    BY WorkerAssumption
  <2>3. QED
    BY <1>2, <1>4, <2>1, <2>2 DEF ThreadControl, RunsTask, GetNextPc
<1>5. pc' \in {"api", "call", "check", "clear", "load"}
  BY <1>1 DEF ApiEffect
<1>6. QED
  BY <1>3, <1>4, <1>5

(* Calls on the worker keep the thread where it should be. *)
LEMMA ControlPost ==
    ASSUME TypeOK, ThreadControl, GetNextControl, CallControl, IdleHandshake,
           NEW p \in Threads, PostStep(p), UNCHANGED schedVars
    PROVE  ThreadControl'
<1>1. PostEffect(p)
  BY PostFrame DEF ControlInv
<1> QED
  BY <1>1 DEF PostEffect, ThreadControl

(* Calls on the scheduler keep the thread where it should be. *)
LEMMA ControlCall ==
    ASSUME TypeOK, ThreadControl, GetNextControl, CallControl, IdleHandshake,
           NEW p \in Threads, CallStep(p)
    PROVE  ThreadControl'
<1>1. CallEffect(p)
  BY CallFrame DEF ControlInv
<1> QED
  BY <1>1 DEF CallEffect, ThreadControl, RunsTask, GetNextPc

(***************************************************************************)
(* The idle handshake.                                                     *)
(***************************************************************************)

(* The idle handshake is about nothing but the flag IDLE, whether the      *)
(* worker is suspended, the semaphore, and who is about to resume it.      *)
LEMMA HandshakeStable ==
    ASSUME IdleHandshake,
           pc' = "suspend" <=> pc = "suspend",
           "IDLE" \in flags' <=> "IDLE" \in flags,
           idle_sem' = idle_sem,
           \A r \in Threads : stage'[r] = "resume" <=> stage[r] = "resume"
    PROVE  IdleHandshake'
  BY DEF IdleHandshake

(* The worker thread's own steps keep the idle handshake. *)
LEMMA HandshakeThread ==
    ASSUME TypeOK, ThreadControl, GetNextControl, CallControl, IdleHandshake,
           ThreadStep, UNCHANGED schedVars
    PROVE  IdleHandshake'
<1> USE WorkerAssumption, SwprioAssumption
<1>1. CASE Entry
  BY <1>1 DEF Entry, IdleHandshake
<1>2. CASE CheckFlags
  BY Zenon, <1>2 DEF CheckFlags, schedVars, Continue, TypeOK, CallControl,
     ThreadControl, IdleHandshake
<1>3. CASE ClearCurrentTask
  BY <1>3 DEF ClearCurrentTask, IdleHandshake
<1>4. CASE SwitchTo
  BY Zenon, <1>4 DEF SwitchTo, schedVars, Continue, Entered, TypeOK, CallControl,
     IdleHandshake
<1>5. CASE LeaveStack
  BY <1>5 DEF LeaveStack, IdleHandshake
<1>6. CASE NothingToRun
  BY <1>6 DEF NothingToRun, IdleHandshake
<1>7. CASE Idle
  BY <1>7 DEF Idle, IdleHandshake
<1>8. CASE WakeUp
  BY <1>8 DEF WakeUp, IdleHandshake
<1>9. CASE EnableInterrupts
  BY <1>9 DEF EnableInterrupts, IdleHandshake
<1>10. CASE ReturnToUser
  BY <1>10 DEF ReturnToUser, IdleHandshake
<1>11. CASE CallPrs
  BY <1>11 DEF CallPrs, IdleHandshake
<1>12. CASE DisableInterrupts
  BY <1>12 DEF DisableInterrupts, IdleHandshake
<1>13. CASE HandleInterrupt
  BY <1>13 DEF HandleInterrupt, IdleHandshake
<1> QED
  BY <1>1, <1>2, <1>3, <1>4, <1>5, <1>6, <1>7, <1>8, <1>9, <1>10, <1>11, <1>12, <1>13,
     Zenon DEF ThreadStep

(* The steps of get_next keep the handshake. *)
LEMMA HandshakeGetNext ==
    ASSUME TypeOK, ThreadControl, GetNextControl, CallControl, IdleHandshake, GetNextStep
    PROVE  IdleHandshake'
<1>1. GetNextEffect
  BY GetNextFrame
<1> QED
  BY <1>1, HandshakeStable DEF GetNextEffect, getNextUnchanged, GetNextPc

(* What a task does inside the PR API keep the idle handshake. *)
LEMMA HandshakeApi ==
    ASSUME TypeOK, ThreadControl, GetNextControl, CallControl, IdleHandshake, ApiStep
    PROVE  IdleHandshake'
<1>1. ApiEffect
  BY ApiFrame
<1>2. /\ pc # "suspend" /\ pc' # "suspend" /\ UNCHANGED idle_sem
      /\ "IDLE" \in flags' <=> "IDLE" \in flags
  BY <1>1 DEF ApiEffect
<1>3. Owner \in Threads /\ stage \in [Threads -> PostStage \cup ReadyStage]
  BY WorkerAssumption DEF TypeOK, Threads
<1>4. stage[Owner] = "none"
  BY <1>1, <1>3 DEF ApiEffect, CallControl
<1>5. \A r \in Threads : stage'[r] = "resume" <=> stage[r] = "resume"
  BY <1>1, <1>3, <1>4 DEF ApiEffect
<1> QED
  BY <1>2, <1>5, HandshakeStable

(* Calls on the worker keep the idle handshake. *)
LEMMA HandshakePost ==
    ASSUME TypeOK, ThreadControl, GetNextControl, CallControl, IdleHandshake,
           NEW p \in Threads, PostStep(p), UNCHANGED schedVars
    PROVE  IdleHandshake'
<1> USE WorkerAssumption, SwprioAssumption
<1>1. CASE Post(p)
  <2>1. \E s \in {"unidle", "kill", "join", "ret"} : stage' = [stage EXCEPT ![p] = s]
    BY <1>1 DEF Post, PostDone
  <2>2. QED
    BY <1>1, <2>1, HandshakeStable DEF Post
<1>2. CASE ClearIdle(p)
  <2>1. CASE "IDLE" \in flags
    <3>1. flags' = flags \ {"IDLE"} /\ stage' = [stage EXCEPT ![p] = "resume"] /\ UNCHANGED <<pc, idle_sem>>
      BY <1>2, <2>1 DEF ClearIdle
    <3>2. QED
      BY <2>1, <3>1 DEF TypeOK, IdleHandshake
  <2>2. CASE "IDLE" \notin flags
    <3>1. \E s \in {"kill", "join", "ret"} : stage' = [stage EXCEPT ![p] = s]
      BY <1>2, <2>2 DEF ClearIdle, PostDone
    <3>2. QED
      BY <1>2, <2>2, <3>1, HandshakeStable DEF ClearIdle
  <2>3. QED
    BY <2>1, <2>2
<1>3. CASE ResumeThread(p)
  BY <1>3 DEF ResumeThread, PostDone, TypeOK, IdleHandshake
<1>4. CASE InterruptThread(p)
  BY <1>4, HandshakeStable DEF InterruptThread, PostDone
<1>5. CASE Stop(p)
  BY <1>5, HandshakeStable DEF Stop, BeginCall, MayCall
<1>6. CASE Join(p)
  BY <1>6, HandshakeStable DEF Join
<1> QED
  BY <1>1, <1>2, <1>3, <1>4, <1>5, <1>6, Zenon DEF PostStep

(* Calls on the scheduler keep the handshake. *)
LEMMA HandshakeCall ==
    ASSUME TypeOK, ThreadControl, GetNextControl, CallControl, IdleHandshake,
           NEW p \in Threads, CallStep(p)
    PROVE  IdleHandshake'
<1>1. CallEffect(p)
  BY CallFrame DEF ControlInv
<1> QED
  BY <1>1, HandshakeStable DEF CallEffect

=============================================================================
