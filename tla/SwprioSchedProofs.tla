-------------------------- MODULE SwprioSchedProofs -------------------------
(***************************************************************************)
(* What get_next and the calls on the scheduler have in hand, which task   *)
(* runs and which is removed, for any number of tasks, threads and         *)
(* priorities.  Tasks change their own priority, exit and stop the worker, *)
(* but are not destroyed by another thread where Victims is empty.         *)
(***************************************************************************)
EXTENDS SwprioProofs

(* Thread p makes a task ready that does not run. *)
LEMMA RunningWoken ==
    ASSUME RunningInv, state \in [Tasks -> States], Owner \in Threads,
           NEW p \in Threads, NEW t \in Tasks, state[t] # "RUNNING",
           state' = [state EXCEPT ![t] = "READY"],
           UNCHANGED <<current_task, ctx, prev_task, next_task, prio, node_prio, blocked>>,
           \A r \in Threads \ {p} : stage'[r] = stage[r] /\ op'[r] = op[r],
           pc' = IF p = Owner THEN "call" ELSE pc,
           p = Owner => pc = "api" /\ op[p] = "none"
    PROVE  RunningInv'
<1>1. "api" \notin Choosing /\ "call" \notin Choosing
  BY DEF Choosing, GetNextPc
<1>2. state'[t] = "READY" /\ \A u \in Tasks \ {t} : state'[u] = state[u]
  OBVIOUS
<1>3. \A u \in Tasks : state'[u] = "RUNNING" => state[u] = "RUNNING"
  BY <1>2
<1>4. \A u : state[u] = "RUNNING" => state'[u] = "RUNNING"
  BY <1>2
<1>5. QED
  BY <1>1, <1>3, <1>4 DEF RunningInv

(***************************************************************************)
(* The tasks that are removed.                                             *)
(***************************************************************************)

(* The worker thread's own steps keep removed tasks stopped. *)
LEMMA RemovedThread ==
    ASSUME Victims = {}, ControlInv, ReadyIsQueued, RunningInv, RemovedInv, ThreadStep,
           UNCHANGED schedVars
    PROVE  RemovedInv'
<1>1. ThreadEffect
  BY ThreadFrame
<1>2. pc # "call" => op[Owner] = "none"
  BY WorkerAssumption DEF ControlInv, CallControl, Threads
<1> QED
  BY <1>1, <1>2 DEF ThreadEffect, schedVars, RemovedInv, GetNextPc

(* The steps of get_next keep removed tasks stopped. *)
LEMMA RemovedGetNext ==
    ASSUME Victims = {}, ControlInv, ReadyIsQueued, RunningInv, RemovedInv, GetNextStep
    PROVE  RemovedInv'
<1> USE WorkerAssumption, SwprioAssumption
<1>1. GetNextEffect
  BY GetNextFrame
<1>2. pc' \notin {"rm_begin", "rm_unmask", "rm_rebegin", "rm_remask"}
  BY <1>1, BeginRemoveQuiet DEF GetNextEffect, RemovedInv
<1>3. CASE FinishRemove
  <2>1. removeq \in Seq(Tasks) /\ removeq # <<>>
    BY <1>3 DEF FinishRemove, ControlInv, TypeOK, GetNextControl
  <2>2. /\ Head(removeq) \in Range(removeq) /\ Head(removeq) \in Tasks
        /\ Range(removeq') \subseteq Range(removeq) /\ Range(removeq) \subseteq Tasks
    BY <1>3, <2>1, TailElements, RangeType DEF FinishRemove
  <2>3. state[Head(removeq)] \in {"ZOMBIE", "STOPPED"}
    BY <2>2 DEF RemovedInv
  <2>4. /\ UNCHANGED <<ctx, stage, op, arg>> /\ pc' = "get_next"
        /\ state' = [state EXCEPT ![Head(removeq)] = "ZOMBIE"]
        /\ userdata' = [userdata EXCEPT ![Head(removeq)] = FALSE]
    BY <1>3 DEF FinishRemove, getNextUnchanged
  <2>5. /\ state \in [Tasks -> States] /\ userdata \in [Tasks -> BOOLEAN]
        /\ \A r \in Threads : stage[r] \in {"chg", "rm_push"} => arg[r] \in Tasks
    BY DEF ControlInv, TypeOK, CallControl, ReadyStage, RemovedInv
  <2>6. \A r \in Threads : stage[r] = "rm_push" => arg[r] # Head(removeq)
    BY <1>3 DEF FinishRemove, ControlInv, ThreadControl, CallControl, RemovedInv
  <2>7. QED
    BY <2>2, <2>3, <2>4, <2>5, <2>6 DEF RemovedInv
<1>4. CASE UNCHANGED <<state, userdata, removeq>>
  <2>1. UNCHANGED <<ctx, stage, op, arg>>
    BY <1>1 DEF GetNextEffect, getNextUnchanged
  <2>2. QED
    BY <1>2, <1>4, <2>1 DEF RemovedInv
<1>12. CASE PreemptState
  <2>1. prev_task \in Tasks /\ state[prev_task] \in {"READY", "RUNNING"}
    BY <1>12 DEF PreemptState, ControlInv, TypeOK, GetNextControl, RunningInv
  <2>2. removeq \in Seq(Tasks) /\ Range(removeq) \subseteq Tasks
    BY RangeType DEF ControlInv, TypeOK
  <2>3. QED
    <3>1. /\ UNCHANGED <<ctx, stage, op, arg, userdata, removeq>> /\ pc' = "dequeue"
          /\ state' = [state EXCEPT ![prev_task] = "READY"]
      BY <1>12 DEF PreemptState, getNextUnchanged
    <3>2. \A r \in Threads : stage[r] \notin {"chg", "rm_push"}
      BY <1>12 DEF PreemptState, ControlInv, CallControl, RemovedInv
    <3>3. state \in [Tasks -> States]
      BY DEF ControlInv, TypeOK
    <3>4. QED
      BY <2>1, <2>2, <3>1, <3>2, <3>3 DEF RemovedInv
<1>13. CASE Dequeue
  <2>1. node \in Tasks /\ state[node] \in {"READY", "RUNNING"}
    BY <1>13, NodeIsReady DEF Dequeue, ControlInv, GetNextControl, HoldsNode
  <2>2. removeq \in Seq(Tasks) /\ Range(removeq) \subseteq Tasks
    BY RangeType DEF ControlInv, TypeOK
  <2>3. QED
    BY <1>13, <2>1, <2>2 DEF Dequeue, getNextUnchanged, RemovedInv
<1> QED
  BY <1>1, <1>3, <1>4, <1>12, <1>13, Zenon DEF GetNextEffect

(* What the running task does keeps removed tasks stopped. *)
LEMMA RemovedApi ==
    ASSUME Victims = {}, ControlInv, ReadyIsQueued, RunningInv, RemovedInv, ApiStep
    PROVE  RemovedInv'
<1>1. ApiEffect
  BY ApiFrame
<1>2. /\ ctx \in Tasks /\ current_task = ctx /\ next_task = NoTask
      /\ Owner \in Threads /\ op[Owner] = "none" /\ stage[Owner] = "none"
      /\ state \in [Tasks -> States] /\ stage \in [Threads -> PostStage \cup ReadyStage]
      /\ op \in [Threads -> Ops] /\ arg \in [Threads -> Tasks \cup {NoTask}]
  BY <1>1, InApi DEF ApiEffect
<1>3. removeq \in Seq(Tasks) /\ Range(removeq) \subseteq Tasks
  BY RangeType DEF ControlInv, TypeOK
<1>4. UNCHANGED state \/ (userdata[ctx] /\ ctx \notin Range(removeq))
  BY <1>1, <1>2 DEF ApiEffect, RunningInv, RemovedInv
<1>5. /\ UNCHANGED <<userdata, removeq>> /\ pc' \in {"api", "call", "check", "clear", "load"}
      /\ \A t \in Tasks \ {ctx} : state'[t] = state[t]
      /\ \A r \in Threads \ {Owner} : stage'[r] = stage[r] /\ op'[r] = op[r] /\ arg'[r] = arg[r]
  BY <1>1, <1>2 DEF ApiEffect
<1>6. /\ stage'[Owner] \in {"none", "ready", "post"}
      /\ op'[Owner] \in {"none", "set_prio", "yield"}
      /\ op'[Owner] = "yield" => arg'[Owner] = ctx'
  BY <1>1, <1>2 DEF ApiEffect
<1>7. \A r \in Threads : stage[r] \notin {"chg", "rm_push"} /\ op[r] \notin {"exit", "yield"}
  BY <1>2 DEF RemovedInv
<1> QED
  BY <1>2, <1>3, <1>4, <1>5, <1>6, <1>7 DEF RemovedInv

(* Calls on the worker keep removed tasks stopped. *)
LEMMA RemovedPost ==
    ASSUME Victims = {}, ControlInv, ReadyIsQueued, RunningInv, RemovedInv,
           NEW p \in Threads, PostStep(p), UNCHANGED schedVars
    PROVE  RemovedInv'
<1>1. PostEffect(p)
  BY PostFrame
<1>2. /\ UNCHANGED <<pc, ctx, state, userdata, removeq, arg>>
      /\ \A r \in Threads \ {p} : stage'[r] = stage[r] /\ op'[r] = op[r]
      /\ stage'[p] \notin {"chg", "rm_push", "rm_read"}
      /\ op'[p] = op[p] \/ op'[p] = "stop"
  BY <1>1 DEF PostEffect, schedVars
<1> QED
  BY <1>2 DEF RemovedInv

(* Calls on the scheduler keep removed tasks stopped. *)
LEMMA RemovedCall ==
    ASSUME Victims = {}, ControlInv, ReadyIsQueued, RunningInv, RemovedInv,
           NEW p \in Threads, CallStep(p)
    PROVE  RemovedInv'
<1>0. /\ stage \in [Threads -> PostStage \cup ReadyStage] /\ op \in [Threads -> Ops]
      /\ state \in [Tasks -> States] /\ userdata \in [Tasks -> BOOLEAN]
      /\ arg \in [Threads -> Tasks \cup {NoTask}] /\ Owner \in Threads
  BY WorkerAssumption DEF ControlInv, TypeOK, Threads
<1>1. CallEffect(p)
  BY CallFrame
<1>2. removeq \in Seq(Tasks) /\ Range(removeq) \subseteq Tasks
  BY RangeType DEF ControlInv, TypeOK
<1>9. /\ UNCHANGED ctx
      /\ \A r \in Threads \ {p} : /\ stage'[r] = stage[r]
                                  /\ op'[r] = op[r]
                                  /\ arg'[r] = arg[r]
      /\ \/ pc' = pc
         \/ pc \in {"api", "call"} /\ pc' \in {"api", "call", "clear"}
  BY <1>1 DEF CallEffect
<1>3. CASE QuietCall(p)
  BY <1>0, <1>3, <1>9 DEF QuietCall, RemovedInv
<1>4. CASE RemoveStop(p)
  <2>1. /\ p = Owner /\ op[p] = "exit" /\ arg[p] = ctx /\ ctx \in Tasks
        /\ state[ctx] = "RUNNING"
    BY <1>4 DEF RemoveStop, RemovedInv, ControlInv, CallControl, ThreadControl, RunsTask
  <2>a. userdata[ctx] /\ ctx \notin Range(removeq)
    BY <2>1 DEF RemovedInv
  <2>2. /\ state' = [state EXCEPT ![ctx] = "STOPPED"] /\ stage'[p] = "rm_push"
        /\ UNCHANGED <<op, arg, userdata, removeq>>
    BY <1>0, <1>4, <2>1 DEF RemoveStop, Goto, callUnchanged
  <2>3. QED
    BY <1>0, <1>9, <1>2, <2>1, <2>a, <2>2 DEF RemovedInv
<1>5. CASE RemovePush(p)
  <2>1. stage[p] = "rm_push" /\ arg[p] \in Tasks
    BY <1>0, <1>5 DEF RemovePush, ControlInv, CallControl, ReadyStage
  <2>2. Range(removeq') = Range(removeq) \cup {arg[p]}
    <3>1. removeq' = Append(removeq, arg[p])
      BY <1>5 DEF RemovePush
    <3>2. QED
      BY <1>2, <2>1, <3>1, AppendElements
  <2>3. UNCHANGED <<state, op, arg, userdata>> /\ stage'[p] \in {"rm_read", "ret"}
    BY <1>0, <1>5 DEF RemovePush, Goto, workerButStage
  <2>4. QED
    BY <1>0, <1>9, <1>2, <2>1, <2>2, <2>3 DEF RemovedInv
<1>6. ASSUME NEW t \in Tasks, Unblock(p, t)
      PROVE  RemovedInv'
  <2>1. /\ state[t] = "BLOCKED" /\ userdata[t] /\ t \notin Range(removeq)
        /\ \A r \in Threads : stage[r] \in {"chg", "rm_push"} => arg[r] # t
    <3>1. state[t] = "BLOCKED"
      BY <1>6 DEF Unblock
    <3>2. QED
      BY <1>2, <3>1 DEF RemovedInv
  <2>2. /\ state' = [state EXCEPT ![t] = "READY"] /\ UNCHANGED <<userdata, removeq>>
        /\ stage'[p] = "ready" /\ op'[p] = "unblock"
    BY <1>0, <1>6 DEF Unblock, BeginCall, callUnchanged
  <2>3. QED
    BY <1>0, <1>9, <1>2, <2>1, <2>2 DEF RemovedInv
<1>7. ASSUME NEW t \in Tasks, AddTask(p, t)
      PROVE  RemovedInv'
  <2>1. /\ ~userdata[t] /\ state[t] = "STOPPED" /\ t \notin Range(removeq)
        /\ \A r \in Threads : stage[r] \in {"chg", "rm_push"} => arg[r] # t
    <3>1. ~userdata[t] /\ state[t] = "STOPPED"
      BY <1>7 DEF AddTask
    <3>2. QED
      BY <1>2, <3>1 DEF RemovedInv
  <2>2. /\ state' = [state EXCEPT ![t] = "READY"] /\ UNCHANGED removeq
        /\ userdata' = [userdata EXCEPT ![t] = TRUE]
        /\ stage'[p] = "push" /\ op'[p] = "add"
    BY <1>0, <1>7 DEF AddTask, BeginCall, callUnchanged
  <2>3. QED
    BY <1>0, <1>9, <1>2, <2>1, <2>2 DEF RemovedInv
<1>8. ASSUME NEW t \in Tasks, RemoveTask(p, t)
      PROVE  RemovedInv'
  <2>1. /\ p = Owner /\ t = ctx /\ pc = "api" /\ ~blocked /\ stage[p] = "none" /\ op[p] = "none"
    BY <1>8 DEF RemoveTask, BeginCall, MayCall, ControlInv, CallControl
  <2>2. state[ctx] = "RUNNING"
    BY <2>1 DEF RunningInv
  <2>3. /\ UNCHANGED <<state, userdata, removeq>> /\ arg'[p] = ctx
        /\ stage'[p] = "chg" /\ op'[p] = "exit"
    BY <1>0, <1>8, <2>1, <2>2 DEF RemoveTask, BeginCall, callUnchanged
  <2>4. QED
    BY <1>0, <1>9, <2>1, <2>2, <2>3 DEF RemovedInv
<1> QED
  BY <1>1, <1>3, <1>4, <1>5, <1>6, <1>7, <1>8, Zenon DEF CallEffect

(***************************************************************************)
(* The threads inside calls.                                               *)
(***************************************************************************)

(* The worker thread's own steps keep the threads inside calls consistent. *)
LEMMA CallsThread ==
    ASSUME TypeOK, ThreadControl, GetNextControl, CallControl, IdleHandshake,
           ThreadStep, UNCHANGED schedVars
    PROVE  CallControl'
<1>1. ThreadEffect
  BY ThreadFrame DEF ControlInv
<1> QED
  BY <1>1 DEF ThreadEffect, schedVars, CallControl

(* The steps of get_next keep the threads inside calls consistent. *)
LEMMA CallsGetNext ==
    ASSUME TypeOK, ThreadControl, GetNextControl, CallControl, IdleHandshake, GetNextStep
    PROVE  CallControl'
<1>1. GetNextEffect
  BY GetNextFrame
<1> QED
  BY <1>1 DEF GetNextEffect, getNextUnchanged, CallControl, GetNextPc

(* What a task does inside the PR API keep the threads inside calls consistent. *)
LEMMA CallsApi ==
    ASSUME TypeOK, ThreadControl, GetNextControl, CallControl, IdleHandshake, ApiStep
    PROVE  CallControl'
<1>1. ApiEffect
  BY ApiFrame
<1>2. /\ ctx \in Tasks /\ Owner \in Threads /\ NoTask \notin Tasks
      /\ stage \in [Threads -> PostStage \cup ReadyStage] /\ op \in [Threads -> Ops]
      /\ arg \in [Threads -> Tasks \cup {NoTask}]
  BY <1>1, WorkerAssumption DEF ApiEffect, ThreadControl, RunsTask, TypeOK, Threads
<1>3. stage[Owner] = "none" /\ op[Owner] = "none" /\ arg[Owner] = NoTask
  BY <1>1, <1>2 DEF ApiEffect, CallControl
<1> QED
  BY <1>1, <1>2, <1>3 DEF ApiEffect, CallControl, ReadyStage

(* Calls on the worker keep the threads inside calls consistent. *)
LEMMA CallsPost ==
    ASSUME TypeOK, ThreadControl, GetNextControl, CallControl, IdleHandshake,
           NEW p \in Threads, PostStep(p), UNCHANGED schedVars
    PROVE  CallControl'
<1>1. PostEffect(p)
  BY PostFrame DEF ControlInv
<1>2. /\ UNCHANGED <<pc, arg, seen>> /\ Owner \in Threads
      /\ \A r \in Threads \ {p} : stage'[r] = stage[r] /\ op'[r] = op[r]
      /\ stage'[p] \in {"post", "unidle", "resume", "kill", "join", "ret"}
      /\ \/ stage[p] # "none" /\ op'[p] = op[p]
         \/ stage[p] = "none" /\ op'[p] = "stop" /\ p # Owner
  BY <1>1, WorkerAssumption DEF PostEffect, schedVars, Threads
<1> QED
  BY <1>2 DEF CallControl, ReadyStage

(* Calls on the scheduler keep the threads inside calls consistent. *)
LEMMA CallsCall ==
    ASSUME TypeOK, ThreadControl, GetNextControl, CallControl, IdleHandshake,
           NEW p \in Threads, CallStep(p)
    PROVE  CallControl'
<1> USE WorkerAssumption, SwprioAssumption
<1>1. CASE SchedReady(p)
  BY <1>1 DEF SchedReady, Goto, CallControl, ReadyStage
<1>2. CASE ReadyPush(p)
  <2>1. \E s \in {"mask", "fault"} : stage' = [stage EXCEPT ![p] = s]
    BY <1>2, Zenon DEF ReadyPush, Goto
  <2>2. QED
    BY ZenonT(40), <1>2, <2>1 DEF ReadyPush, callUnchanged, TypeOK, CallControl,
       ReadyStage, Threads
<1>3. CASE ReadyMask(p)
  BY <1>3 DEF ReadyMask, Goto, CallControl, ReadyStage
<1>4. CASE ReadyRead(p)
  BY <1>4 DEF ReadyRead, Goto, callUnchanged, TypeOK, CallControl, ReadyStage, Threads
<1>5. CASE ReadyDecide(p)
  BY <1>5 DEF ReadyDecide, Goto, callUnchanged, TypeOK, CallControl, ReadyStage, Threads
<1>6. CASE RemoveStop(p)
  BY <1>6 DEF RemoveStop, Goto, CallControl, ReadyStage
<1>7. CASE RemovePush(p)
  BY ZenonT(40), <1>7 DEF RemovePush, Goto, workerButStage, TypeOK, CallControl,
     ReadyStage, Threads
<1>8. CASE RemoveRead(p)
  BY <1>8 DEF RemoveRead, Goto, workerButStage, schedVars, CallControl,
     ReadyStage
<1>9. CASE CallReturn(p)
  BY <1>9 DEF CallReturn, Return, TypeOK, CallControl, ReadyStage, Threads
<1>10. ASSUME NEW t \in Tasks, Unblock(p, t)
      PROVE  CallControl'
  BY <1>10 DEF Unblock, BeginCall, TypeOK, CallControl
<1>11. ASSUME NEW t \in Tasks, AddTask(p, t)
      PROVE  CallControl'
  BY <1>11 DEF AddTask, BeginCall, TypeOK, CallControl
<1>12. ASSUME NEW t \in Tasks, RemoveTask(p, t)
      PROVE  CallControl'
  BY <1>12 DEF RemoveTask, BeginCall, MayCall, TypeOK, CallControl
<1> QED
  BY <1>1, <1>2, <1>3, <1>4, <1>5, <1>6, <1>7, <1>8, <1>9, <1>10, <1>11, <1>12,
     Zenon DEF CallStep

(***************************************************************************)
(* The task that runs.                                                     *)
(***************************************************************************)

(* The worker thread's own steps keep track of the running task. *)
LEMMA RunningThread ==
    ASSUME Victims = {}, ControlInv, ReadyIsQueued, RunningInv, RemovedInv, ThreadStep,
           UNCHANGED schedVars
    PROVE  RunningInv'
<1> USE WorkerAssumption, SwprioAssumption
<1>1. CASE Entry
  BY <1>1 DEF Entry, schedVars, RunningInv, Choosing, GetNextPc
<1>2. CASE CheckFlags
  BY <1>2, CheckFlagsCases DEF CheckFlags, schedVars, RunningInv, Choosing,
     GetNextPc
<1>3. CASE ClearCurrentTask
  BY <1>3 DEF ClearCurrentTask, schedVars, ControlInv, ThreadControl,
     RunningInv, Choosing, GetNextPc
<1>4. CASE SwitchTo
  BY ZenonT(40), <1>4 DEF SwitchTo, schedVars, Continue, Entered, ControlInv, TypeOK,
     ThreadControl, CallControl, RunningInv, RunsTask, Choosing, GetNextPc, Threads
<1>5. CASE LeaveStack
  BY <1>5 DEF LeaveStack, schedVars, RunningInv, Choosing, GetNextPc
<1>6. CASE NothingToRun
  BY <1>6 DEF NothingToRun, schedVars, RunningInv, Choosing, GetNextPc
<1>7. CASE Idle
  BY <1>7 DEF Idle, schedVars, ControlInv, ThreadControl, RunningInv, Choosing,
     GetNextPc
<1>8. CASE WakeUp
  BY <1>8 DEF WakeUp, schedVars, ControlInv, ThreadControl, RunningInv,
     Choosing, GetNextPc
<1>9. CASE EnableInterrupts
  BY <1>9 DEF EnableInterrupts, schedVars, ControlInv, ThreadControl,
     RunningInv, RunsTask, Choosing
<1>10. CASE ReturnToUser
  BY <1>10 DEF ReturnToUser, schedVars, RunningInv, Choosing, GetNextPc
<1>11. CASE CallPrs
  BY <1>11 DEF CallPrs, schedVars, RunningInv, Choosing, GetNextPc
<1>12. CASE DisableInterrupts
  BY <1>12 DEF DisableInterrupts, schedVars, RunningInv, Choosing, GetNextPc
<1>13. CASE HandleInterrupt
  BY <1>13 DEF HandleInterrupt, schedVars, ControlInv, ThreadControl,
     RunningInv, RunsTask, Choosing
<1> QED
  BY <1>1, <1>2, <1>3, <1>4, <1>5, <1>6, <1>7, <1>8, <1>9, <1>10, <1>11, <1>12, <1>13,
     Zenon DEF ThreadStep

(* The steps of get_next keep track of the running task. *)
LEMMA RunningGetNext ==
    ASSUME Victims = {}, ControlInv, ReadyIsQueued, RunningInv, RemovedInv, GetNextStep
    PROVE  RunningInv'
<1> USE WorkerAssumption, SwprioAssumption
<1>1. CASE BeginRemove
  <2>1. pc = "get_next" /\ UNCHANGED getNextUnchanged /\ UNCHANGED <<next_task, state, node_prio>>
    BY <1>1 DEF BeginRemove
  <2>2. QED
    BY <1>1, <2>1, BeginRemoveQuiet DEF getNextUnchanged, RunningInv, Choosing,
       GetNextPc
<1>2. CASE RemoveUnmask
  BY Zenon, <1>2 DEF RemoveUnmask, getNextUnchanged, ControlInv, TypeOK, ThreadControl,
     GetNextControl, RunningInv, RunsTask, Choosing, GetNextPc, Threads
<1>3. CASE FinishRemove
  BY <1>3 DEF FinishRemove, getNextUnchanged, ControlInv, ThreadControl,
     RunningInv, Choosing
<1>4. CASE LoadReadyMask
  BY <1>4 DEF LoadReadyMask, getNextUnchanged, RunningInv, Choosing, GetNextPc
<1>5. CASE BeginReady
  BY Zenon, <1>5 DEF BeginReady, getNextUnchanged, ControlInv, TypeOK, ThreadControl,
     GetNextControl, RunningInv, RunsTask, Choosing, GetNextPc, Threads
<1>6. CASE ClearReadyBit
  BY <1>6 DEF ClearReadyBit, getNextUnchanged, RunningInv, Choosing, GetNextPc
<1>7. CASE BeginReadyAgain
  BY Zenon, <1>7 DEF BeginReadyAgain, getNextUnchanged, ControlInv, TypeOK,
     ThreadControl, GetNextControl, RunningInv, RunsTask, Choosing, GetNextPc, Threads
<1>8. CASE SetReadyBit
  BY <1>8 DEF SetReadyBit, getNextUnchanged, RunningInv, Choosing, GetNextPc
<1>9. CASE Pick
  BY <1>9 DEF Pick, getNextUnchanged, ControlInv, ThreadControl, RunningInv,
     Choosing, GetNextPc
<1>10. CASE PreemptPush
  BY <1>10 DEF PreemptPush, getNextUnchanged, RunningInv, Choosing, GetNextPc
<1>11. CASE PreemptMask
  BY <1>11 DEF PreemptMask, getNextUnchanged, RunningInv, Choosing, GetNextPc
<1>12. CASE PreemptState
  BY <1>12 DEF PreemptState, getNextUnchanged, ControlInv, TypeOK,
     ThreadControl, RunningInv
<1>13. CASE Dequeue
  BY <1>13 DEF Dequeue, getNextUnchanged, ControlInv, TypeOK, ThreadControl,
     RunningInv
<1> QED
  BY <1>1, <1>2, <1>3, <1>4, <1>5, <1>6, <1>7, <1>8, <1>9, <1>10, <1>11, <1>12, <1>13,
     Zenon DEF GetNextStep

(* What the running task does keeps track of the running task. *)
LEMMA RunningApi ==
    ASSUME Victims = {}, ControlInv, ReadyIsQueued, RunningInv, RemovedInv, ApiStep
    PROVE  RunningInv'
<1>1. ApiEffect
  BY ApiFrame
<1>2. /\ ctx \in Tasks /\ current_task = ctx /\ next_task = NoTask
      /\ Owner \in Threads /\ op[Owner] = "none" /\ stage[Owner] = "none"
      /\ state \in [Tasks -> States] /\ stage \in [Threads -> PostStage \cup ReadyStage]
      /\ op \in [Threads -> Ops] /\ arg \in [Threads -> Tasks \cup {NoTask}]
  BY <1>1, InApi DEF ApiEffect
<1>3. /\ UNCHANGED <<current_task, next_task>>
      /\ \A t \in Tasks \ {ctx} : state'[t] = state[t] /\ state[t] # "RUNNING"
  <2>1. /\ pc = "api" /\ UNCHANGED <<current_task, next_task>>
        /\ UNCHANGED state \/ \E v \in States : state' = [state EXCEPT ![ctx] = v]
    BY <1>1 DEF ApiEffect, States
  <2>2. \A t \in Tasks \ {ctx} : state'[t] = state[t]
    BY <1>2, <2>1
  <2>3. pc \notin Choosing
    BY <2>1 DEF Choosing, GetNextPc
  <2>4. \A t \in Tasks \ {ctx} : state[t] # "RUNNING"
    BY <1>2, <2>3, WorkerAssumption, Zenon DEF RunningInv
  <2>5. QED
    BY <2>1, <2>2, <2>4
<1>4. /\ pc' \in {"api", "call", "check", "clear", "load"}
      /\ pc' \in {"api", "call"} => ctx' = ctx
      /\ pc' \in {"api", "call"} /\ ~blocked' => state'[ctx] = "RUNNING" \/ op'[Owner] = "yield"
      /\ pc' = "check" => state'[ctx] = "RUNNING"
  BY <1>1, <1>2 DEF ApiEffect, RunningInv
<1> QED
  BY <1>2, <1>3, <1>4 DEF RunningInv

(* Calls on the worker keep track of the running task. *)
LEMMA RunningPost ==
    ASSUME Victims = {}, ControlInv, ReadyIsQueued, RunningInv, RemovedInv,
           NEW p \in Threads, PostStep(p), UNCHANGED schedVars
    PROVE  RunningInv'
<1>1. PostEffect(p)
  BY PostFrame
<1>2. /\ UNCHANGED <<pc, ctx, current_task, next_task, prev_task>>
      /\ UNCHANGED <<state, prio, blocked, node_prio>>
      /\ op'[Owner] = op[Owner] /\ (stage'[Owner] = "chg" => stage[Owner] = "chg")
  BY <1>1, WorkerAssumption DEF PostEffect, schedVars, Threads
<1> QED
  BY <1>2 DEF RunningInv

(* Calls on the scheduler keep track of the running task. *)
LEMMA RunningCall ==
    ASSUME Victims = {}, ControlInv, ReadyIsQueued, RunningInv, RemovedInv,
           NEW p \in Threads, CallStep(p)
    PROVE  RunningInv'
<1>0. /\ stage \in [Threads -> PostStage \cup ReadyStage] /\ op \in [Threads -> Ops]
      /\ state \in [Tasks -> States] /\ userdata \in [Tasks -> BOOLEAN]
      /\ arg \in [Threads -> Tasks \cup {NoTask}] /\ Owner \in Threads
  BY WorkerAssumption DEF ControlInv, TypeOK, Threads
<1>1. CallEffect(p)
  BY CallFrame
<1>8. /\ UNCHANGED <<current_task, ctx, prev_task, next_task, prio, node_prio>>
      /\ \A r \in Threads \ {p} : stage'[r] = stage[r] /\ op'[r] = op[r]
      /\ \/ pc' = pc
         \/ pc \in {"api", "call"} /\ pc' \in {"api", "call", "clear"}
  BY <1>1 DEF CallEffect
<1>9. "api" \notin Choosing /\ "call" \notin Choosing /\ "clear" \notin Choosing
  BY DEF Choosing, GetNextPc
<1>2. CASE QuietCall(p)
  BY <1>0, <1>2, <1>8, <1>9 DEF QuietCall, RunningInv
<1>3. CASE RemoveStop(p)
  <2>1. /\ p = Owner /\ op[p] = "exit" /\ arg[p] = ctx /\ pc = "call"
        /\ ctx \in Tasks /\ current_task = ctx
    BY <1>3 DEF RemoveStop, RemovedInv, ControlInv, CallControl, ThreadControl, RunsTask
  <2>2. /\ state' = [state EXCEPT ![ctx] = "STOPPED"] /\ stage'[Owner] = "rm_push"
        /\ UNCHANGED <<pc, op, blocked>>
    BY <1>0, <1>3, <2>1 DEF RemoveStop, Goto, callUnchanged
  <2>3. state'[ctx] = "STOPPED" /\ \A t \in Tasks \ {ctx} : state'[t] = state[t]
    BY <1>0, <2>1, <2>2
  <2>4. \A t \in Tasks : state'[t] # "RUNNING" \/ t = next_task
    BY <1>9, <2>1, <2>3 DEF RunningInv
  <2>5. next_task # NoTask => state'[next_task] = "RUNNING"
    BY <2>1 DEF ControlInv, ThreadControl
  <2>6. QED
    BY <1>8, <2>1, <2>2, <2>4, <2>5 DEF RunningInv
<1>4. CASE RemovePush(p)
  <2>1. UNCHANGED <<state, op, pc, blocked>> /\ stage'[p] # "chg"
    BY <1>0, <1>4 DEF RemovePush, Goto, workerButStage
  <2>2. QED
    BY <1>0, <1>8, <2>1 DEF RunningInv
<1>5. ASSUME NEW t \in Tasks, Unblock(p, t)
      PROVE  RunningInv'
  <2>1. /\ stage[p] = "none" /\ op[p] = "none"
        /\ p = Owner => pc = "api" /\ ctx \in Tasks /\ current_task = ctx
    BY <1>5 DEF Unblock, BeginCall, MayCall, ControlInv, CallControl, ThreadControl,
       RunsTask
  <2>2. /\ state' = [state EXCEPT ![t] = "READY"] /\ state[t] # "RUNNING"
        /\ pc' = IF p = Owner THEN "call" ELSE pc
        /\ UNCHANGED blocked
    BY <1>5 DEF Unblock, BeginCall, callUnchanged
  <2>3. QED
    BY <1>0, <1>8, <2>1, <2>2, RunningWoken
<1>6. ASSUME NEW t \in Tasks, AddTask(p, t)
      PROVE  RunningInv'
  <2>1. /\ stage[p] = "none" /\ op[p] = "none"
        /\ p = Owner => pc = "api" /\ ctx \in Tasks /\ current_task = ctx
    BY <1>6 DEF AddTask, BeginCall, MayCall, ControlInv, CallControl, ThreadControl,
       RunsTask
  <2>2. /\ state' = [state EXCEPT ![t] = "READY"] /\ state[t] # "RUNNING"
        /\ pc' = IF p = Owner THEN "call" ELSE pc
        /\ UNCHANGED blocked
    BY <1>6 DEF AddTask, BeginCall, callUnchanged
  <2>3. QED
    BY <1>0, <1>8, <2>1, <2>2, RunningWoken
<1>7. ASSUME NEW t \in Tasks, RemoveTask(p, t)
      PROVE  RunningInv'
  <2>1. /\ stage[p] = "none" /\ op[p] = "none"
        /\ p = Owner => pc = "api" /\ ctx \in Tasks /\ current_task = ctx
    BY <1>7 DEF RemoveTask, BeginCall, MayCall, ControlInv, CallControl, ThreadControl,
       RunsTask
  <2>2. /\ UNCHANGED <<state, blocked>>
        /\ pc' = IF p = Owner THEN "call" ELSE pc
    BY <1>7 DEF RemoveTask, BeginCall, callUnchanged
  <2>3. QED
    BY <1>0, <1>8, <1>9, <2>1, <2>2 DEF RunningInv
<1> QED
  BY <1>1, <1>2, <1>3, <1>4, <1>5, <1>6, <1>7, Zenon DEF CallEffect

(***************************************************************************)
(* The local variables of get_next.                                        *)
(***************************************************************************)

(* The worker thread's own steps keep what get_next relies on. *)
LEMMA LocalThread ==
    ASSUME TypeOK, ThreadControl, GetNextControl, CallControl, IdleHandshake,
           ThreadStep, UNCHANGED schedVars
    PROVE  GetNextControl'
<1>1. ThreadEffect
  BY ThreadFrame DEF ControlInv
<1> QED
  BY <1>1 DEF ThreadEffect, schedVars, GetNextControl, HoldsNode, GetNextPc

(* The steps of get_next keep what get_next relies on. *)
LEMMA LocalGetNext ==
    ASSUME TypeOK, ThreadControl, GetNextControl, CallControl, IdleHandshake,
           GetNextStep, LeastBit
    PROVE  GetNextControl'
<1> USE WorkerAssumption, SwprioAssumption
<1>1. CASE BeginRemove
  BY Zenon, <1>1 DEF BeginRemove, getNextUnchanged, GetNextControl, HoldsNode
<1>2. CASE RemoveUnmask
  BY <1>2 DEF RemoveUnmask, GetNextControl, HoldsNode
<1>3. CASE FinishRemove
  BY <1>3 DEF FinishRemove, GetNextControl, HoldsNode
<1>4. CASE LoadReadyMask
  BY <1>4 DEF LoadReadyMask, GetNextControl, HoldsNode
<1>5. CASE BeginReady
  <2>1. mask # {} => Lsb(mask) \in Prios
    BY DEF TypeOK, LeastBit
  <2>2. \A q \in Prios : readyq[q] # <<>> => Head(readyq[q]) \in Tasks
    BY DEF TypeOK
  <2>3. QED
    BY <1>5, <2>1, <2>2 DEF BeginReady, GetNextControl, HoldsNode
<1>6. CASE ClearReadyBit
  BY <1>6 DEF ClearReadyBit, GetNextControl, HoldsNode
<1>7. CASE BeginReadyAgain
  <2>1. mask # {} => Lsb(mask) \in Prios
    BY DEF TypeOK, LeastBit
  <2>2. \A q \in Prios : readyq[q] # <<>> => Head(readyq[q]) \in Tasks
    BY DEF TypeOK
  <2>3. QED
    BY <1>7, <2>1, <2>2 DEF BeginReadyAgain, GetNextControl, HoldsNode
<1>8. CASE SetReadyBit
  BY <1>8 DEF SetReadyBit, GetNextControl, HoldsNode
<1>9. CASE Pick
  BY <1>9 DEF Pick, getNextUnchanged, GetNextControl, HoldsNode
<1>10. CASE PreemptPush
  <2>1. node # NoTask /\ prev_task # NoTask /\ removeq' = removeq /\ mask' = mask
    BY <1>10 DEF PreemptPush, GetNextControl, HoldsNode
  <2>2. prio[prev_task] \in Prios /\ prev_task \in Tasks
    BY <2>1 DEF TypeOK
  <2>3. readyq'[node_prio] # <<>> /\ node = Head(readyq'[node_prio])
    <3>1. /\ readyq \in [Prios -> Seq(Tasks)] /\ node_prio \in Prios
          /\ readyq[node_prio] # <<>> /\ node = Head(readyq[node_prio])
      BY <2>1 DEF GetNextControl, TypeOK
    <3>2. readyq' = [readyq EXCEPT ![prio[prev_task]] = Append(@, prev_task)]
      BY <1>10 DEF PreemptPush
    <3>3. readyq'[node_prio] \in {readyq[node_prio], Append(readyq[node_prio], prev_task)}
      BY <2>2, <3>1, <3>2
    <3>4. readyq[node_prio] \in Seq(Tasks)
      BY <3>1
    <3>5. /\ Append(readyq[node_prio], prev_task) # <<>>
          /\ Head(Append(readyq[node_prio], prev_task)) = Head(readyq[node_prio])
      BY <2>2, <3>1, <3>4, AppendHead, Zenon
    <3>6. QED
      BY <3>1, <3>3, <3>5, Zenon
  <2>4. QED
    BY <1>10, <2>1, <2>3 DEF PreemptPush, getNextUnchanged, GetNextControl, HoldsNode
<1>11. CASE PreemptMask
  BY <1>11 DEF PreemptMask, getNextUnchanged, GetNextControl, HoldsNode
<1>12. CASE PreemptState
  BY <1>12 DEF PreemptState, GetNextControl, HoldsNode
<1>13. CASE Dequeue
  BY <1>13 DEF Dequeue, GetNextControl, HoldsNode
<1> QED
  BY <1>1, <1>2, <1>3, <1>4, <1>5, <1>6, <1>7, <1>8, <1>9, <1>10, <1>11, <1>12, <1>13,
     Zenon DEF GetNextStep

(* What a task does inside the PR API keep what get_next relies on. *)
LEMMA LocalApi ==
    ASSUME TypeOK, ThreadControl, GetNextControl, CallControl, IdleHandshake, ApiStep
    PROVE  GetNextControl'
<1>1. ApiEffect
  BY ApiFrame
<1> QED
  BY <1>1 DEF ApiEffect, GetNextControl, HoldsNode

(* Calls on the worker keep what get_next relies on. *)
LEMMA LocalPost ==
    ASSUME TypeOK, ThreadControl, GetNextControl, CallControl, IdleHandshake,
           NEW p \in Threads, PostStep(p), UNCHANGED schedVars
    PROVE  GetNextControl'
<1>1. PostEffect(p)
  BY PostFrame DEF ControlInv
<1> QED
  BY <1>1 DEF PostEffect, schedVars, GetNextControl

(* Calls on the scheduler keep what get_next relies on. *)
LEMMA LocalCall ==
    ASSUME TypeOK, ThreadControl, GetNextControl, CallControl, IdleHandshake,
           NEW p \in Threads, CallStep(p)
    PROVE  GetNextControl'
<1>1. CallEffect(p)
  BY CallFrame DEF ControlInv
<1>2. CASE ReadyPush(p)
  <2>1. prio[arg[p]] \in Prios /\ arg[p] \in Tasks
    BY <1>2 DEF ReadyPush, CallControl, ReadyStage, TypeOK
  <2>2. \/ readyq' = [readyq EXCEPT ![prio[arg[p]]] = Append(@, arg[p])]
        \/ readyq' = readyq
    BY <1>2, Zenon DEF ReadyPush
  <2>3. ASSUME node # NoTask
        PROVE  readyq'[node_prio] # <<>> /\ node = Head(readyq'[node_prio])
    <3>1. /\ readyq \in [Prios -> Seq(Tasks)] /\ node_prio \in Prios
          /\ readyq[node_prio] # <<>> /\ node = Head(readyq[node_prio])
      BY <2>3 DEF GetNextControl, TypeOK
    <3>2. CASE readyq' = readyq
      BY <3>1, <3>2
    <3>3. CASE readyq' = [readyq EXCEPT ![prio[arg[p]]] = Append(@, arg[p])]
      <4>1. readyq'[node_prio] \in {readyq[node_prio], Append(readyq[node_prio], arg[p])}
        BY <2>1, <3>1, <3>3
      <4>2. readyq[node_prio] \in Seq(Tasks)
        BY <3>1
      <4>3. /\ Append(readyq[node_prio], arg[p]) # <<>>
            /\ Head(Append(readyq[node_prio], arg[p])) = Head(readyq[node_prio])
        BY <2>1, <3>1, <4>2, AppendHead, Zenon
      <4>4. QED
        BY <3>1, <4>1, <4>3, Zenon
    <3>4. QED
      BY <2>2, <3>2, <3>3
  <2>4. QED
    BY <1>2, <2>3 DEF ReadyPush, callUnchanged, GetNextControl
<1>3. CASE RemovePush(p)
  <2>1. removeq' # <<>>
    <3>1. arg[p] \in Tasks /\ removeq \in Seq(Tasks)
      BY <1>3 DEF RemovePush, CallControl, ReadyStage, TypeOK
    <3>2. removeq' = Append(removeq, arg[p])
      BY <1>3, Zenon DEF RemovePush
    <3>3. QED
      BY <3>1, <3>2, AppendNotEmpty, Zenon
  <2>2. QED
    BY <1>3, <2>1 DEF RemovePush, workerButStage, GetNextControl
<1>4. CASE UNCHANGED <<readyq, removeq>>
  BY <1>1, <1>4 DEF CallEffect, GetNextControl, HoldsNode
<1>5. ReadyPush(p) \/ RemovePush(p) \/ UNCHANGED <<readyq, removeq>>
  BY <1>1 DEF CallEffect
<1> QED
  BY <1>2, <1>3, <1>4, <1>5

=============================================================================
