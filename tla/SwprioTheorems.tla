--------------------------- MODULE SwprioTheorems ---------------------------
(***************************************************************************)
(* The inductive invariants of the priority scheduler and the theorems that *)
(* follow from them, for any number of tasks, threads and priorities.      *)
(***************************************************************************)
EXTENDS SwprioSchedProofs, SwprioNoticeProofs, WellFoundedInduction

(***************************************************************************)
(* The least bit of a mask.                                                *)
(***************************************************************************)

(* A non-empty mask has a least bit, the one prs_bitops_lsb_uint32 finds. *)
LEMMA LsbIsLeast ==
    LeastBit
<1> SUFFICES ASSUME NEW m \in SUBSET Prios, m # {}
             PROVE  Lsb(m) \in m /\ \A r \in m : Lsb(m) <= r
  BY DEF LeastBit
<1>1. m \subseteq Nat
  BY SwprioAssumption DEF Prios
<1>2. PICK q \in m : \A r \in m : ~(<<r, q>> \in OpToRel(<, Nat))
  BY <1>1, NatLessThanWellFounded, WFMin, Zenon
<1>3. OpToRel(<, Nat) = {ss \in Nat \X Nat : ss[1] < ss[2]}
  BY Zenon DEF OpToRel
<1>4. \A r \in m : ~(<<r, q>> \in {ss \in Nat \X Nat : ss[1] < ss[2]})
  BY <1>2, <1>3, Zenon
<1>5. \A r \in m : q <= r
  <2> SUFFICES ASSUME NEW r \in m
               PROVE  q <= r
    OBVIOUS
  <2>1. r \in Nat /\ q \in Nat
    BY <1>1
  <2>2. <<r, q>> \notin {ss \in Nat \X Nat : ss[1] < ss[2]}
    BY <1>4
  <2>3. QED
    BY <2>1, <2>2
<1>6. QED
  BY <1>5, Zenon DEF Lsb

(***************************************************************************)
(* A ready task is queued once.                                            *)
(***************************************************************************)

(* The worker thread's own steps keep every ready task queued once. *)
LEMMA QueuedThread ==
    ASSUME Victims = {}, ControlInv, ReadyIsQueued, RunningInv, RemovedInv, ThreadStep,
           UNCHANGED schedVars
    PROVE  ReadyIsQueued'
<1>1. ThreadEffect
  BY ThreadFrame
<1> QED
  BY <1>1, QueuedStable DEF ThreadEffect, schedVars, Pushing, Preempting, GetNextPc

(* The steps of get_next keep every ready task queued once. *)
LEMMA QueuedGetNext ==
    ASSUME Victims = {}, ControlInv, ReadyIsQueued, RunningInv, RemovedInv, GetNextStep
    PROVE  ReadyIsQueued'
<1> USE WorkerAssumption, SwprioAssumption
<1>1. CASE BeginRemove
  <2>1. pc = "get_next" /\ UNCHANGED getNextUnchanged /\ UNCHANGED state
    BY <1>1 DEF BeginRemove
  <2>2. QED
    BY <1>1, <2>1, BeginRemoveQuiet, QueuedStable DEF getNextUnchanged, Pushing, Preempting
<1>2. CASE RemoveUnmask
  BY <1>2 DEF RemoveUnmask, RemovedInv
<1>3. CASE FinishRemove
  <2>1. removeq \in Seq(Tasks) /\ removeq # <<>>
    BY <1>3 DEF FinishRemove, ControlInv, TypeOK, GetNextControl
  <2>2. Head(removeq) \in Range(removeq) /\ Head(removeq) \in Tasks
    BY <2>1, TailElements
  <2>3. state[Head(removeq)] # "READY"
    BY <2>2 DEF RemovedInv
  <2>4. QED
    BY Zenon, <1>3, <2>2, <2>3, QueuedOtherState
       DEF FinishRemove, getNextUnchanged, ControlInv, Pushing, Preempting
<1>4. CASE LoadReadyMask
  BY <1>4, QueuedStable DEF LoadReadyMask, getNextUnchanged, Pushing,
     Preempting
<1>5. CASE BeginReady
  BY <1>5, QueuedStable DEF BeginReady, getNextUnchanged, Pushing, Preempting
<1>6. CASE ClearReadyBit
  BY <1>6, QueuedStable DEF ClearReadyBit, getNextUnchanged, Pushing,
     Preempting
<1>7. CASE BeginReadyAgain
  BY <1>7, QueuedStable DEF BeginReadyAgain, getNextUnchanged, Pushing,
     Preempting
<1>8. CASE SetReadyBit
  BY <1>8, QueuedStable DEF SetReadyBit, getNextUnchanged, Pushing, Preempting
<1>9. CASE Pick
  BY <1>9, QueuedStable DEF Pick, getNextUnchanged, Pushing, Preempting
<1>10. CASE PreemptPush
  <2>1. prev_task \in Tasks /\ prio[prev_task] \in Prios /\ readyq[prio[prev_task]] \in Seq(Tasks)
    BY <1>10 DEF PreemptPush, ControlInv, TypeOK, GetNextControl
  <2>2. state[prev_task] = "RUNNING" /\ ~Preempting(prev_task)
    BY <1>10 DEF PreemptPush, RunningInv, Preempting
  <2>3. ~Queued(prev_task, prio[prev_task])
    BY <2>1, <2>2 DEF ReadyIsQueued
  <2>4. /\ \A u \in Tasks, q \in Prios :
             Queued(u, q)' <=> Queued(u, q) \/ (u = prev_task /\ q = prio[prev_task])
        /\ \A q \in Prios : IsInjective(readyq'[q])
    BY <1>10, <2>1, <2>3, PushEffect, Zenon DEF PreemptPush, ControlInv
  <2>5. \A r \in Threads, u \in Tasks : Pushing(r, u)' <=> Pushing(r, u)
    BY <1>10 DEF PreemptPush, getNextUnchanged, Pushing
  <2>6. \A u \in Tasks : ~Preempting(u) /\ (Preempting(u)' <=> u = prev_task)
    BY <1>10 DEF PreemptPush, getNextUnchanged, Preempting
  <2>7. UNCHANGED <<prio, state>> /\ \A u \in Tasks : prio[u] \in Prios
    BY <1>10 DEF PreemptPush, getNextUnchanged, ControlInv, TypeOK
  <2>8. QED
    BY <2>1, <2>2, <2>4, <2>5, <2>6, <2>7 DEF ReadyIsQueued
<1>11. CASE PreemptMask
  BY <1>11, QueuedStable DEF PreemptMask, getNextUnchanged, Pushing, Preempting
<1>12. CASE PreemptState
  <2>1. prev_task \in Tasks /\ Preempting(prev_task) /\ state[prev_task] = "RUNNING"
    BY <1>12 DEF PreemptState, ControlInv, TypeOK, GetNextControl, RunningInv, Preempting
  <2>2. \A r \in Threads : ~Pushing(r, prev_task)
    BY <2>1 DEF ReadyIsQueued
  <2>3. Queued(prev_task, prio[prev_task])
    BY <2>1, <2>2 DEF ReadyIsQueued
  <2>4. QED
    BY <1>12, <2>1, <2>2, <2>3
       DEF PreemptState, getNextUnchanged, ControlInv, TypeOK, ReadyIsQueued, Queued, Pushing, Preempting
<1>13. CASE Dequeue
  <2>1. /\ node \in Tasks /\ node_prio \in Prios /\ prio[node] = node_prio
        /\ Queued(node, node_prio) /\ state[node] = "READY"
    BY <1>13, NodeIsReady DEF Dequeue, ControlInv, GetNextControl, HoldsNode
  <2>2. /\ readyq[node_prio] \in Seq(Tasks) /\ readyq[node_prio] # <<>>
        /\ node = Head(readyq[node_prio]) /\ IsInjective(readyq[node_prio])
    BY <1>13, <2>1 DEF Dequeue, ControlInv, TypeOK, GetNextControl,
       ReadyIsQueued
  <2>3. /\ Range(readyq[node_prio]) = Range(Tail(readyq[node_prio])) \cup {node}
        /\ IsInjective(Tail(readyq[node_prio])) /\ node \notin Range(Tail(readyq[node_prio]))
    BY <2>2, TailElements
  <2>4. \A u \in Tasks, q \in Prios :
          Queued(u, q)' <=> Queued(u, q) /\ ~(u = node /\ q = node_prio)
    BY <1>13, <2>1, <2>3 DEF Dequeue, Queued, ControlInv, TypeOK
  <2>5. \A q \in Prios : IsInjective(readyq'[q])
    BY <1>13, <2>1, <2>3 DEF Dequeue, ReadyIsQueued
  <2>6. \A r \in Threads : ~Pushing(r, node)
    BY <2>1 DEF ReadyIsQueued
  <2>7. \A u \in Tasks : ~Preempting(u) /\ ~Preempting(u)'
    BY <1>13 DEF Dequeue, Preempting
  <2>8. QED
    BY <1>13, <2>1, <2>4, <2>5, <2>6, <2>7
       DEF Dequeue, getNextUnchanged, ReadyIsQueued, Pushing, ControlInv, TypeOK
<1> QED
  BY <1>1, <1>2, <1>3, <1>4, <1>5, <1>6, <1>7, <1>8, <1>9, <1>10, <1>11, <1>12, <1>13,
     Zenon DEF GetNextStep

(* What a task does inside the PR API keep every ready task queued once. *)
LEMMA QueuedApi ==
    ASSUME Victims = {}, ControlInv, ReadyIsQueued, RunningInv, RemovedInv, ApiStep
    PROVE  ReadyIsQueued'
<1> USE WorkerAssumption, SwprioAssumption
<1>1. CASE Block
  <2>1. ctx \in Tasks /\ state[ctx] # "READY" /\ ~Preempting(ctx)
    BY <1>1 DEF Block, ControlInv, ThreadControl, CallControl, RunsTask, RunningInv,
       Preempting, Threads
  <2>2. QED
    BY Zenon, <1>1, <2>1, QueuedOtherState DEF Block, workerVars, ControlInv, Pushing,
       Preempting
<1>2. CASE UnblockSelf
  <2>1. ctx \in Tasks /\ state[ctx] # "READY" /\ ~Preempting(ctx)
    BY <1>2 DEF UnblockSelf, ControlInv, ThreadControl, RunsTask, Preempting
  <2>2. QED
    BY Zenon, <1>2, <2>1, QueuedOtherState DEF UnblockSelf, workerVars, ControlInv,
       Pushing, Preempting
<1>3. CASE Yield
  <2>1. ctx \in Tasks /\ state[ctx] # "READY" /\ ~Preempting(ctx) /\ stage[Owner] = "none"
    BY <1>3 DEF Yield, ControlInv, ThreadControl, CallControl, RunsTask, RunningInv,
       Preempting, Threads
  <2>2. \A r \in Threads, u \in Tasks :
          Pushing(r, u)' <=> Pushing(r, u) \/ (r = Owner /\ u = ctx)
    BY <1>3, <2>1 DEF Yield, BeginCall, Pushing, ControlInv, TypeOK
  <2>3. QED
    BY Zenon, <1>3, <2>1, <2>2, QueuedBecomesReady
       DEF Yield, BeginCall, callUnchanged, ControlInv, Preempting, Threads
<1>4. CASE LeaveApi
  BY <1>4, QueuedStable DEF LeaveApi, IntEnable, schedVars, Pushing, Preempting
<1>5. CASE CallSchedule
  BY <1>5, QueuedStable DEF CallSchedule, Schedule, Pushing, Preempting
<1>6. CASE StopCurrent
  BY <1>6, QueuedStable DEF StopCurrent, StopSelf, schedVars, Pushing,
     Preempting
<1>7. ASSUME NEW q \in NewPrios, SetPrio(q)
      PROVE  ReadyIsQueued'
  <2>1. ctx \in Tasks /\ state[ctx] = "RUNNING" /\ ~Preempting(ctx) /\ stage[Owner] = "none"
    BY <1>7 DEF SetPrio, ControlInv, ThreadControl, CallControl, RunsTask, RunningInv,
       Preempting, Threads
  <2>2. \A u \in Tasks : ~Preempting(u) /\ ~Preempting(u)'
    BY <1>7 DEF SetPrio, BeginCall, Preempting
  <2>3. \A r \in Threads, u \in Tasks : Pushing(r, u)' <=> Pushing(r, u)
    BY <1>7, <2>1 DEF SetPrio, BeginCall, Pushing
  <2>4. \A r \in Prios : ~Queued(ctx, r)
    BY <2>1 DEF ReadyIsQueued
  <2>5. \A r \in Threads : ~Pushing(r, ctx)
    BY <2>1 DEF ReadyIsQueued
  <2>6. UNCHANGED <<readyq, state>> /\ \A u \in Tasks : u # ctx => prio'[u] = prio[u]
    BY <1>7 DEF SetPrio
  <2>7. \A u \in Tasks, r \in Prios : Queued(u, r)' <=> Queued(u, r)
    BY <2>6 DEF Queued
  <2>8. \A u \in Tasks : prio[u] \in Prios /\ prio'[u] \in Prios
    BY <1>7, <2>1, SwprioAssumption DEF SetPrio, ControlInv, TypeOK
  <2>9. QED
    BY <2>1, <2>2, <2>3, <2>4, <2>5, <2>6, <2>7, <2>8 DEF ReadyIsQueued
<1> QED
  BY <1>1, <1>2, <1>3, <1>4, <1>5, <1>6, <1>7, Zenon DEF ApiStep

(* Calls on the worker keep every ready task queued once. *)
LEMMA QueuedPost ==
    ASSUME Victims = {}, ControlInv, ReadyIsQueued, RunningInv, RemovedInv,
           NEW p \in Threads, PostStep(p), UNCHANGED schedVars
    PROVE  ReadyIsQueued'
<1>1. PostEffect(p)
  BY PostFrame
<1> QED
  BY <1>1, QueuedStable DEF PostEffect, schedVars, Pushing, Preempting

(* Calls on the scheduler keep every ready task queued once. *)
LEMMA QueuedCall ==
    ASSUME Victims = {}, ControlInv, ReadyIsQueued, RunningInv, RemovedInv,
           NEW p \in Threads, CallStep(p)
    PROVE  ReadyIsQueued'
<1>1. CallEffect(p) /\ stage \in [Threads -> PostStage \cup ReadyStage]
  BY CallFrame DEF ControlInv, TypeOK
<1>2. CASE ReadyPush(p)
  <2>1. arg[p] \in Tasks /\ prio[arg[p]] \in Prios /\ Pushing(p, arg[p])
    BY <1>2 DEF ReadyPush, ControlInv, CallControl, ReadyStage, TypeOK, Pushing
  <2>2. state[arg[p]] = "READY" /\ ~Queued(arg[p], prio[arg[p]])
    BY <2>1 DEF ReadyIsQueued
  <2>3. \A u \in Tasks : Preempting(u)' <=> Preempting(u)
    BY <1>2 DEF ReadyPush, callUnchanged, Preempting
  <2>4. CASE userdata[arg[p]]
    <3>1. readyq' = [readyq EXCEPT ![prio[arg[p]]] = Append(@, arg[p])] /\ Goto(p, "mask")
      BY <1>2, <2>4 DEF ReadyPush
    <3>2. /\ \A u \in Tasks, q \in Prios :
               Queued(u, q)' <=> Queued(u, q) \/ (u = arg[p] /\ q = prio[arg[p]])
          /\ \A q \in Prios : IsInjective(readyq'[q])
      BY <2>1, <2>2, <3>1, PushEffect, Zenon DEF ControlInv
    <3>3. \A r \in Threads, u \in Tasks : Pushing(r, u)' <=> Pushing(r, u) /\ r # p
      BY <1>2, <3>1 DEF ReadyPush, Goto, Pushing, ControlInv, TypeOK
    <3>4. \A u \in Tasks : Pushing(p, u) => u = arg[p]
      BY DEF Pushing
    <3>5. UNCHANGED <<prio, state>> /\ \A u \in Tasks : prio[u] \in Prios
      BY <1>2 DEF ReadyPush, ControlInv, TypeOK
    <3>6. QED
      BY <2>1, <2>3, <3>2, <3>3, <3>4, <3>5, QueuedIsPushed
  <2>5. CASE ~userdata[arg[p]]
    BY <2>1, <2>2, <2>5 DEF RemovedInv
  <2>6. QED
    BY <2>4, <2>5
<1>3. CASE QuietCall(p) /\ stage[p] # "push"
  <2>1. \A u \in Tasks : Preempting(u)' <=> Preempting(u)
    BY <1>1 DEF CallEffect, Preempting
  <2>2. \A r \in Threads, u \in Tasks : Pushing(r, u)' <=> Pushing(r, u)
    BY <1>1, <1>3 DEF CallEffect, QuietCall, Pushing
  <2>3. QED
    BY <1>1, <1>3, <2>1, <2>2, QueuedStable DEF CallEffect, QuietCall
<1>4. CASE RemoveStop(p)
  <2>1. arg[p] \in Tasks /\ state[arg[p]] = "RUNNING" /\ p = Owner
    BY <1>4 DEF RemoveStop, RemovedInv, ControlInv, TypeOK, CallControl, ReadyStage
  <2>2. ~Preempting(arg[p])
    BY <1>4, <2>1 DEF RemoveStop, ControlInv, CallControl, Preempting
  <2>3. \A r \in Threads, u \in Tasks : Pushing(r, u)' <=> Pushing(r, u)
    BY <1>4 DEF RemoveStop, Goto, Pushing
  <2>4. QED
    BY Zenon, <1>4, <2>1, <2>2, <2>3, QueuedOtherState
       DEF RemoveStop, callUnchanged, ControlInv, Preempting
<1>5. CASE RemovePush(p)
  <2>1. \A r \in Threads, u \in Tasks : Pushing(r, u)' <=> Pushing(r, u)
    BY <1>1, <1>5 DEF RemovePush, Goto, Pushing
  <2>2. QED
    BY <1>5, <2>1, QueuedStable DEF RemovePush, workerButStage, Preempting
<1>6. ASSUME NEW t \in Tasks, Unblock(p, t)
      PROVE  ReadyIsQueued'
  <2>1. state[t] # "READY" /\ ~Preempting(t)
    BY <1>6 DEF Unblock, RunningInv, Preempting
  <2>2. \A r \in Threads, u \in Tasks : Pushing(r, u)' <=> Pushing(r, u) \/ (r = p /\ u = t)
    BY <1>6 DEF Unblock, BeginCall, MayCall, Pushing, ControlInv, TypeOK
  <2>3. \A u \in Tasks : Preempting(u)' <=> Preempting(u)
    BY <1>6 DEF Unblock, BeginCall, MayCall, callUnchanged, Preempting
  <2>4. QED
    BY Zenon, <1>6, <2>1, <2>2, <2>3, QueuedBecomesReady DEF Unblock, ControlInv
<1>7. ASSUME NEW t \in Tasks, AddTask(p, t)
      PROVE  ReadyIsQueued'
  <2>1. state[t] # "READY" /\ ~Preempting(t)
    BY <1>7 DEF AddTask, RunningInv, Preempting
  <2>2. \A r \in Threads, u \in Tasks : Pushing(r, u)' <=> Pushing(r, u) \/ (r = p /\ u = t)
    BY <1>7 DEF AddTask, BeginCall, MayCall, Pushing, ControlInv, TypeOK
  <2>3. \A u \in Tasks : Preempting(u)' <=> Preempting(u)
    BY <1>7 DEF AddTask, BeginCall, MayCall, callUnchanged, Preempting
  <2>4. QED
    BY Zenon, <1>7, <2>1, <2>2, <2>3, QueuedBecomesReady DEF AddTask, ControlInv
<1>8. ASSUME NEW t \in Tasks, RemoveTask(p, t)
      PROVE  ReadyIsQueued'
  <2>1. \A r \in Threads, u \in Tasks : Pushing(r, u)' <=> Pushing(r, u)
    BY <1>1, <1>8 DEF CallEffect, RemoveTask, BeginCall, MayCall, Pushing
  <2>2. \A u \in Tasks : Preempting(u)' <=> Preempting(u)
    BY <1>1 DEF CallEffect, Preempting
  <2>3. QED
    BY <1>8, <2>1, <2>2, QueuedStable DEF RemoveTask
<1>9. QuietCall(p) => ReadyPush(p) \/ stage[p] # "push"
  BY <1>1 DEF CallEffect
<1> QED
  BY <1>1, <1>2, <1>3, <1>4, <1>5, <1>6, <1>7, <1>8, <1>9, Zenon DEF CallEffect

(***************************************************************************)
(* The control invariant and what follows from it.                         *)
(***************************************************************************)

(* The invariant holds when the worker's thread starts. *)
LEMMA ControlInit == Init => ControlInv
<1> SUFFICES ASSUME Init
             PROVE  ControlInv
  OBVIOUS
<1> USE WorkerAssumption, SwprioAssumption DEF Init, WorkerInit
<1>1. TypeOK
  <2>1. node_prio \in Prios
    BY DEF Prios
  <2>2. readyq \in [Prios -> Seq(Tasks)] /\ removeq \in Seq(Tasks)
    OBVIOUS
  <2>3. stage \in [Threads -> PostStage \cup ReadyStage] /\ op \in [Threads -> Ops]
    BY DEF PostStage, Ops
  <2>4. QED
    BY Zenon, <2>1, <2>2, <2>3 DEF TypeOK, Flags, WorkerPc, States
<1>2. ThreadControl
  BY DEF ThreadControl, RunsTask
<1>3. GetNextControl
  BY DEF GetNextControl, HoldsNode
<1>4. CallControl
  BY DEF CallControl, Threads, ReadyStage
<1>5. IdleHandshake
  BY DEF IdleHandshake
<1>6. QED
  BY <1>1, <1>2, <1>3, <1>4, <1>5 DEF ControlInv

(* No step of any thread breaks the invariant. *)
LEMMA ControlStep == ControlInv /\ [Next]_vars => ControlInv'
<1> SUFFICES ASSUME ControlInv, [Next]_vars
             PROVE  ControlInv'
  OBVIOUS
<1>1. TypeOK /\ ThreadControl /\ GetNextControl /\ CallControl /\ IdleHandshake
  BY DEF ControlInv
<1>2. CASE ThreadStep /\ UNCHANGED schedVars
  BY <1>1, <1>2, TypeThread, ControlThread, LocalThread, CallsThread,
     HandshakeThread, Zenon DEF ControlInv
<1>3. CASE GetNextStep
  BY <1>1, <1>3, LsbIsLeast, TypeGetNext, ControlGetNext, LocalGetNext, CallsGetNext,
     HandshakeGetNext, Zenon DEF ControlInv
<1>4. CASE ApiStep
  BY <1>1, <1>4, TypeApi, ControlApi, LocalApi, CallsApi, HandshakeApi, Zenon
     DEF ControlInv
<1>5. ASSUME NEW p \in Threads, PostStep(p), UNCHANGED schedVars
      PROVE  ControlInv'
  BY <1>1, <1>5, TypePost, ControlPost, LocalPost, CallsPost, HandshakePost,
     Zenon DEF ControlInv
<1>6. ASSUME NEW p \in Threads, CallStep(p)
      PROVE  ControlInv'
  BY <1>1, <1>6, TypeCall, ControlCall, LocalCall, CallsCall, HandshakeCall,
     Zenon DEF ControlInv
<1>7. CASE UNCHANGED vars
  <2>1. UNCHANGED workerVars /\ UNCHANGED schedVars
    BY <1>7 DEF vars
  <2>2. TypeOK'
    BY <1>1, <2>1 DEF TypeOK, workerVars, schedVars
  <2>3. ThreadControl' /\ GetNextControl'
    BY <1>1, <2>1 DEF ThreadControl, GetNextControl, workerVars, schedVars
  <2>4. CallControl' /\ IdleHandshake'
    BY <1>1, <2>1 DEF CallControl, IdleHandshake, workerVars, schedVars
  <2>5. QED
    BY <2>2, <2>3, <2>4 DEF ControlInv
<1>8. QED
  BY <1>2, <1>3, <1>4, <1>5, <1>6, <1>7, Zenon DEF Next

(* The worker's thread is always in step with its locals, its flags and    *)
(* the calls of other threads: get_next never takes a task from an empty   *)
(* queue and never follows a null task pointer.                            *)
THEOREM ControlCorrect == Spec => []ControlInv
<1>1. Init => ControlInv
  BY ControlInit
<1>2. ControlInv /\ [Next]_vars => ControlInv'
  BY ControlStep
<1>3. QED
  BY <1>1, <1>2, PTL DEF Spec

(* Every variable of the worker and of the scheduler keeps its type,       *)
(* whichever tasks are added, stopped or destroyed and however the threads *)
(* interleave.                                                             *)
THEOREM TypeCorrect == Spec => []TypeOK
<1>1. ControlInv => TypeOK
  BY DEF ControlInv
<1>2. QED
  BY <1>1, ControlCorrect, PTL

(* prs_worker_idle and prs_worker_post pair up: one resume for every       *)
(* suspend, whatever the number of threads that post an idle worker.       *)
THEOREM HandshakeCorrect == Spec => []IdleHandshake
<1>1. ControlInv => IdleHandshake
  BY DEF ControlInv
<1>2. QED
  BY <1>1, ControlCorrect, PTL

(***************************************************************************)
(* The scheduler's invariant and what follows from it.                     *)
(***************************************************************************)

LEMMA SchedInit == Init => SchedInv
<1> SUFFICES ASSUME Init PROVE SchedInv
  OBVIOUS
<1> USE WorkerAssumption, SwprioAssumption
<1>1. ControlInv
  BY ControlInit
<1>2. \A t \in Tasks, q \in Prios : ~Queued(t, q)
  BY DEF Init, Queued, Range
<1>3. /\ pc = "load" /\ current_task = NoTask /\ next_task = NoTask /\ node = NoTask
      /\ stage = [p \in Threads |-> "none"] /\ op = [p \in Threads |-> "none"]
      /\ state = [t \in Tasks |-> "STOPPED"] /\ removeq = <<>>
  BY DEF Init, WorkerInit
<1>4. ReadyIsQueued
  BY <1>2, <1>3 DEF Init, ReadyIsQueued, Pushing, Preempting, IsInjective
<1>5. RunningInv /\ RemovedInv
  BY <1>3 DEF RunningInv, RemovedInv, Range
<1>6. MaskInv
  BY <1>2 DEF MaskInv
<1>7. ScanInv /\ ChoiceInv /\ UrgentInv /\ SleepInv
  BY <1>3 DEF ScanInv, ChoiceInv, UrgentInv, SleepInv
<1>8. QED
  BY <1>1, <1>4, <1>5, <1>6, <1>7 DEF SchedInv

LEMMA SchedStep ==
    ASSUME Victims = {}, SchedInv, [Next]_vars
    PROVE  SchedInv'
<1>1. ControlInv'
  BY ControlStep DEF SchedInv
<1>2. CASE ThreadStep /\ UNCHANGED schedVars
  <2>1. ReadyIsQueued' /\ RunningInv' /\ RemovedInv' /\ MaskInv'
    BY <1>2, QueuedThread, RunningThread, RemovedThread, MaskThread DEF SchedInv
  <2>2. QED
    BY <1>1, <1>2, <2>1, NoticeThread DEF SchedInv
<1>3. CASE GetNextStep
  <2>1. ReadyIsQueued' /\ RunningInv' /\ RemovedInv' /\ MaskInv'
    BY <1>3, LsbIsLeast, QueuedGetNext, RunningGetNext, RemovedGetNext,
       MaskGetNext DEF SchedInv
  <2>2. QED
    BY <1>1, <1>3, <2>1, LsbIsLeast, NoticeGetNext DEF SchedInv
<1>4. CASE ApiStep
  <2>1. ReadyIsQueued' /\ RunningInv' /\ RemovedInv' /\ MaskInv'
    BY <1>4, QueuedApi, RunningApi, RemovedApi, MaskApi DEF SchedInv
  <2>2. QED
    BY <1>1, <1>4, <2>1, NoticeApi DEF SchedInv
<1>5. ASSUME NEW p \in Threads, PostStep(p), UNCHANGED schedVars
      PROVE  SchedInv'
  <2>1. ReadyIsQueued' /\ RunningInv' /\ RemovedInv' /\ MaskInv'
    BY <1>5, QueuedPost, RunningPost, RemovedPost, MaskPost DEF SchedInv
  <2>2. QED
    BY <1>1, <1>5, <2>1, NoticePost DEF SchedInv
<1>6. ASSUME NEW p \in Threads, CallStep(p)
      PROVE  SchedInv'
  <2>1. ReadyIsQueued' /\ RunningInv' /\ RemovedInv' /\ MaskInv'
    BY <1>6, QueuedCall, RunningCall, RemovedCall, MaskCall DEF SchedInv
  <2>2. QED
    BY <1>1, <1>6, <2>1, NoticeCall DEF SchedInv
<1>7. CASE UNCHANGED vars
  <2>1. ReadyIsQueued'
    BY <1>7, QueuedStable DEF vars, workerVars, schedVars, SchedInv, Pushing, Preempting
  <2>2. RunningInv' /\ RemovedInv'
    BY <1>7 DEF vars, workerVars, schedVars, SchedInv, RunningInv, RemovedInv
  <2>3. MaskInv'
    BY <1>7 DEF vars, workerVars, schedVars, SchedInv, MaskInv, Queued
  <2>4. ScanInv' /\ ChoiceInv' /\ UrgentInv' /\ SleepInv'
    BY <1>7, NoticeStable DEF vars, workerVars, schedVars
  <2>5. QED
    BY <1>1, <2>1, <2>2, <2>3, <2>4 DEF SchedInv
<1>8. QED
  BY <1>2, <1>3, <1>4, <1>5, <1>6, <1>7 DEF Next

(* The inductive invariant of the scheduler holds in every state, for any  *)
(* numbers of tasks, threads and priorities, as long as no task is         *)
(* destroyed by another thread.                                            *)
THEOREM SchedCorrect == ASSUME Victims = {} PROVE Spec => []SchedInv
<1>1. Init => SchedInv
  BY SchedInit
<1>2. SchedInv /\ [Next]_vars => SchedInv'
  BY SchedStep
<1>3. QED
  BY <1>1, <1>2, PTL DEF Spec

(* A ready task is in its own queue exactly once or about to be pushed by  *)
(* exactly one thread.                                                     *)
THEOREM ReadyQueueCorrect == ASSUME Victims = {} PROVE Spec => []ReadyIsQueued
<1>1. SchedInv => ReadyIsQueued
  BY DEF SchedInv
<1>2. QED
  BY <1>1, SchedCorrect, PTL

(* At most one task is running: the one that the worker shows as current.  *)
THEOREM RunningCorrect == ASSUME Victims = {} PROVE Spec => []RunningIsCurrent
<1>1. SchedInv => RunningIsCurrent
  <2> SUFFICES ASSUME SchedInv PROVE RunningIsCurrent
    OBVIOUS
  <2>1. pc \in {"cas", "prs", "user", "stub", "api", "call"} =>
          current_task = ctx /\ ctx \in Tasks
    BY DEF SchedInv, ControlInv, ThreadControl, RunsTask
  <2>2. pc = "api" => op[Owner] = "none"
    BY DEF SchedInv, ControlInv, CallControl, Threads
  <2>3. pc \in {"cas", "prs", "user", "stub"} \/ (pc = "api" /\ ~blocked) =>
          state[ctx] = "RUNNING"
    BY <2>2 DEF SchedInv, RunningInv
  <2>4. /\ next_task # NoTask => pc = "next"
        /\ pc \in GetNextPc \cup {"get_next", "next"} => current_task = NoTask
    BY DEF SchedInv, ControlInv, ThreadControl
  <2>5. \A t, u \in Tasks : state[t] = "RUNNING" /\ state[u] = "RUNNING" => t = u
    BY <2>4, WorkerAssumption DEF SchedInv, RunningInv, Choosing, GetNextPc
  <2>6. QED
    BY <2>1, <2>3, <2>5 DEF RunningIsCurrent
<1>2. QED
  BY <1>1, SchedCorrect, PTL

(* No wake-up is lost between prs_worker_idle and prs_worker_post.         *)
THEOREM WakeupCorrect == ASSUME Victims = {} PROVE Spec => []NoLostWakeup
<1>1. SchedInv => NoLostWakeup
  <2> SUFFICES ASSUME SchedInv, pc = "suspend", idle_sem = 0,
                      NEW q \in Prios, readyq[q] # <<>>
               PROVE  \E p \in Threads : WillPost(p)
    BY DEF NoLostWakeup
  <2>1. CASE "IDLE" \in flags
    <3>1. readyq[q] \in Seq(Tasks)
      BY DEF SchedInv, ControlInv, TypeOK
    <3>2. Head(readyq[q]) \in Tasks /\ Queued(Head(readyq[q]), q)
      BY <3>1 DEF Queued, Range
    <3>3. PICK p \in Threads : WillRaise(p) \/ stage[p] = "unidle"
      BY <2>1, <3>2 DEF SchedInv, SleepInv
    <3>4. QED
      BY <3>3 DEF WillRaise, WillPost
  <2>2. CASE "IDLE" \notin flags
    <3>1. \E p \in Threads : stage[p] = "resume"
      BY <2>2 DEF SchedInv, ControlInv, IdleHandshake
    <3>2. QED
      BY <3>1 DEF WillPost
  <2>3. QED
    BY <2>1, <2>2
<1>2. QED
  BY <1>1, SchedCorrect, PTL

(* No preemption is lost between prs_sched_swprio_ready and the worker.    *)
THEOREM PreemptionCorrect == ASSUME Victims = {} PROVE Spec => []NoLostPreemption
<1>1. SchedInv => NoLostPreemption
  <2> SUFFICES ASSUME SchedInv, pc \in {"prs", "user", "stub"}, "PENDING" \notin flags,
                      NEW q \in 0 .. prio[current_task] - 1, readyq[q] # <<>>
               PROVE  \E p \in Threads : WillPost(p)
    BY DEF NoLostPreemption
  <2>1. current_task \in Tasks /\ prio[current_task] \in Prios /\ stage[Owner] = "none"
    BY DEF SchedInv, ControlInv, TypeOK, ThreadControl, RunsTask, CallControl
  <2>2. q \in Prios /\ q < prio[current_task]
    BY <2>1, SwprioAssumption DEF Prios
  <2>3. readyq[q] \in Seq(Tasks)
    BY <2>2 DEF SchedInv, ControlInv, TypeOK
  <2>4. Head(readyq[q]) \in Tasks /\ Queued(Head(readyq[q]), q)
    BY <2>3 DEF Queued, Range
  <2>5. Settled(prio[current_task])
    BY <2>1, WorkerAssumption DEF SchedInv, UrgentInv, RunsTask
  <2>6. PICK p \in Threads : WillRaise(p)
    BY <2>2, <2>4, <2>5 DEF Settled, Noticed
  <2>7. QED
    BY <2>6 DEF WillRaise, WillPost
<1>2. QED
  BY <1>1, SchedCorrect, PTL

(* get_next preempts a running task only for a more urgent one.            *)
THEOREM UrgencyCorrect == ASSUME Victims = {} PROVE Spec => PreemptsForUrgency
<1>1. SchedInv /\ [Next]_vars =>
        [pc = "preempt_state" /\ pc' = "dequeue" => prio[node] < prio[prev_task]]_vars
  <2> SUFFICES ASSUME SchedInv, pc = "preempt_state"
               PROVE  prio[node] < prio[prev_task]
    OBVIOUS
  <2>1. node \in Tasks /\ prio[node] = node_prio
    BY NodeIsReady DEF SchedInv, ControlInv, GetNextControl, HoldsNode
  <2>2. QED
    BY <2>1 DEF SchedInv, RunningInv
<1>2. QED
  BY <1>1, SchedCorrect, PTL DEF Spec, PreemptsForUrgency

=============================================================================
