------------------------- MODULE SwprioNoticeProofs -------------------------
(***************************************************************************)
(* The bits of ready_mask, and that no wake-up and no preemption of the    *)
(* priority scheduler is lost.                                             *)
(***************************************************************************)
EXTENDS SwprioProofs

(***************************************************************************)
(* Calls on the scheduler.                                                 *)
(***************************************************************************)

(* A thread that will raise PENDING for a task does not change its mind,   *)
(* as long as the task is more urgent than the current one.                *)
LEMMA RaiseCall ==
    ASSUME ControlInv, NEW p \in Threads, CallStep(p),
           NEW r \in Threads, arg[r] \in Tasks, WillRaise(r),
           current_task = NoTask \/ prio[arg[r]] < prio[current_task]
    PROVE  WillRaise(r)' /\ arg'[r] = arg[r]
<1> USE WorkerAssumption, SwprioAssumption
<1>1. CASE r # p
  <2>1. UNCHANGED prio /\ stage'[r] = stage[r] /\ arg'[r] = arg[r] /\ seen'[r] = seen[r]
    BY <1>1, CallFrame DEF CallEffect
  <2>2. QED
    BY <2>1 DEF WillRaise
<1>2. CASE r = p
  <2>1. CASE ReadyMask(p)
    BY <1>2, <2>1 DEF ReadyMask, Goto, WillRaise
  <2>2. CASE ReadyRead(p)
    <3>1. stage'[p] = "decide" /\ seen'[p] = current_task /\ UNCHANGED <<arg, prio>>
      BY <2>2 DEF ReadyRead, Goto, ControlInv, TypeOK
    <3>2. QED
      BY <1>2, <3>1 DEF WillRaise
  <2>3. CASE ReadyDecide(p)
    <3>1. stage[p] = "decide" /\ seen[p] \in Tasks \cup {NoTask}
      BY <2>3 DEF ReadyDecide, ControlInv, CallControl
    <3>2. prio \in [Tasks -> Prios] /\ MaxPrio \in Nat
      BY DEF ControlInv, TypeOK
    <3>3. \A x \in LowestPrio(p) : prio[arg[p]] < x
      BY <1>2, <3>1, <3>2 DEF WillRaise, LowestPrio, Prios
    <3>4. Goto(p, "post") /\ UNCHANGED arg
      BY <2>3, <3>3 DEF ReadyDecide
    <3>5. stage'[p] = "post" /\ arg'[p] = arg[p]
      BY <3>4 DEF Goto, ControlInv, TypeOK
    <3>6. QED
      BY <1>2, <3>5 DEF WillRaise
  <2>4. stage[p] \in {"mask", "read", "post", "decide"}
    BY <1>2 DEF WillRaise
  <2>5. QED
    BY ZenonT(40), <2>1, <2>2, <2>3, <2>4 DEF CallStep, SchedReady, ReadyPush, RemoveStop,
         RemovePush, RemoveRead, CallReturn, Return, Unblock, AddTask, RemoveTask,
         BeginCall, MayCall
<1>3. QED
  BY <1>1, <1>2

(* A task that a call puts into a queue will be noticed. *)
LEMMA NewCall ==
    ASSUME ControlInv, ReadyIsQueued, RemovedInv, NEW p \in Threads, CallStep(p),
           NEW t \in Tasks, NEW q \in Prios, Queued(t, q)'
    PROVE  Queued(t, q) \/ (arg'[p] = t /\ WillRaise(p)')
<1>1. CASE ReadyPush(p)
  <2>1. Queued(t, q) \/ t = arg[p]
    BY <1>1, ReadyPushEffect
  <2>2. stage'[p] = "mask" /\ UNCHANGED arg
    BY <1>1, ReadyPushEffect DEF Goto, ReadyPush, ControlInv, TypeOK
  <2>3. QED
    BY <2>1, <2>2 DEF WillRaise
<1>2. CASE ~ReadyPush(p)
  <2>1. UNCHANGED readyq
    BY <1>2 DEF CallStep, SchedReady, ReadyMask, ReadyRead, ReadyDecide, RemoveStop,
         RemovePush, RemoveRead, schedVars, CallReturn, Unblock, AddTask, RemoveTask
  <2>2. QED
    BY <2>1 DEF Queued
<1>3. QED
  BY <1>1, <1>2

LEMMA NoticeCall ==
    ASSUME SchedInv, NEW p \in Threads, CallStep(p)
    PROVE  ScanInv' /\ ChoiceInv' /\ UrgentInv' /\ SleepInv'
<1> USE WorkerAssumption, SwprioAssumption
<1>1. /\ UNCHANGED <<flags, current_task, prio, mask, node, node_prio, next_task>>
      /\ \/ pc' = pc
         \/ pc \in {"api", "call"} /\ pc' \in {"api", "call", "clear"}
      /\ stage[p] \notin {"post", "unidle"}
      /\ \A r \in Threads \ {p} : stage'[r] = stage[r] /\ op'[r] = op[r] /\ arg'[r] = arg[r]
  BY CallFrame DEF SchedInv, CallEffect
<1>2. ASSUME NEW t \in Tasks, NEW q \in Prios, Queued(t, q)',
             current_task = NoTask \/ q < prio[current_task],
             Queued(t, q) => Noticed(t)
      PROVE  Noticed(t)'
  <2>1. CASE Queued(t, q)
    <3>1. q = prio[t]
      BY <2>1 DEF SchedInv, ReadyIsQueued
    <3>2. CASE "PENDING" \in flags
      BY <1>1, <3>2 DEF Noticed
    <3>3. CASE "PENDING" \notin flags
      <4>1. PICK r \in Threads : arg[r] = t /\ WillRaise(r)
        BY <1>2, <2>1, <3>3 DEF Noticed
      <4>2. WillRaise(r)' /\ arg'[r] = t
        BY <1>2, <3>1, <4>1, RaiseCall DEF SchedInv
      <4>3. QED
        BY <4>2 DEF Noticed
    <3>4. QED
      BY <3>2, <3>3
  <2>2. CASE ~Queued(t, q)
    <3>1. arg'[p] = t /\ WillRaise(p)'
      BY <1>2, <2>2, NewCall DEF SchedInv
    <3>2. QED
      BY <3>1 DEF Noticed
  <2>3. QED
    BY <2>1, <2>2
<1>3. current_task = NoTask \/ (current_task \in Tasks /\ prio[current_task] \in Prios)
  BY DEF SchedInv, ControlInv, TypeOK
<1>4. pc \in GetNextPc \cup {"next", "idle", "suspend"} => current_task = NoTask
  BY DEF SchedInv, ControlInv, ThreadControl
<1>5. node # NoTask => pc \in HoldsNode \cup {"pick"}
  BY DEF SchedInv, ControlInv, GetNextControl
<1>6. ScanInv'
  <2>1. SUFFICES ASSUME pc' \in {"begin", "unmask", "rebegin"},
                        NEW t \in Tasks, NEW q \in Prios, Queued(t, q)'
                 PROVE  q \in mask' \/ Noticed(t)'
    BY DEF ScanInv
  <2>2. pc \in {"begin", "unmask", "rebegin"} /\ mask' = mask /\ current_task = NoTask
    BY <1>1, <1>4, <2>1 DEF GetNextPc
  <2>3. Queued(t, q) => q \in mask \/ Noticed(t)
    BY <2>2 DEF SchedInv, ScanInv
  <2>4. QED
    BY <1>2, <2>1, <2>2, <2>3
<1>7. ASSUME NEW limit, Settled(limit), current_task = NoTask \/ limit = prio[current_task],
             NEW t \in Tasks, NEW q \in Prios, Queued(t, q)', q < limit
      PROVE  Noticed(t)'
  BY <1>2, <1>7 DEF Settled
<1>8. ChoiceInv'
  <2>1. node # NoTask => current_task = NoTask
    BY <1>4, <1>5 DEF HoldsNode, GetNextPc
  <2>2. node' # NoTask => Settled(node_prio)'
    BY <1>1, <1>7, <2>1 DEF SchedInv, ChoiceInv, Settled
  <2>3. pc' = "pick" /\ node' = NoTask => Settled(MaxPrio)'
    BY <1>1, <1>4, <1>7 DEF SchedInv, ChoiceInv, Settled, GetNextPc
  <2>4. pc' = "idle" => Settled(MaxPrio)'
    BY <1>1, <1>4, <1>7 DEF SchedInv, ChoiceInv, Settled
  <2>5. pc' = "next" => Settled(IF next_task = NoTask THEN MaxPrio ELSE prio[next_task])'
    BY <1>1, <1>4, <1>7 DEF SchedInv, ChoiceInv, Settled
  <2>6. QED
    BY <2>2, <2>3, <2>4, <2>5 DEF ChoiceInv
<1>9. UrgentInv'
  <2>1. SUFFICES ASSUME pc' \in RunsTask \cup {"check"}, current_task' # NoTask,
                        ~(op'[Owner] = "set_prio" /\ stage'[Owner] = "post")
                 PROVE  Settled(prio[current_task])'
    BY DEF UrgentInv
  <2>2. pc \in RunsTask \cup {"check"} /\ current_task # NoTask
    BY <1>1, <2>1 DEF RunsTask
  <2>3. ~(op[Owner] = "set_prio" /\ stage[Owner] = "post")
    BY <1>1, <2>1 DEF Threads
  <2>4. Settled(prio[current_task])
    BY <2>2, <2>3 DEF SchedInv, UrgentInv
  <2>5. QED
    BY <1>1, <1>7, <2>4 DEF Settled
<1>10. SleepInv'
  <2>1. SUFFICES ASSUME pc' = "suspend", "IDLE" \in flags',
                        NEW t \in Tasks, NEW q \in Prios, Queued(t, q)'
                 PROVE  \E r \in Threads : arg'[r] = t /\ (WillRaise(r)' \/ stage'[r] = "unidle")
    BY DEF SleepInv
  <2>2. pc = "suspend" /\ "IDLE" \in flags /\ current_task = NoTask
    BY <1>1, <1>4, <2>1
  <2>3. CASE Queued(t, q)
    <3>1. PICK r \in Threads : arg[r] = t /\ (WillRaise(r) \/ stage[r] = "unidle")
      BY <2>2, <2>3 DEF SchedInv, SleepInv
    <3>2. CASE WillRaise(r)
      BY <2>2, <3>1, <3>2, RaiseCall DEF SchedInv
    <3>3. CASE stage[r] = "unidle"
      BY <1>1, <3>1, <3>3
    <3>4. QED
      BY <3>1, <3>2, <3>3
  <2>4. CASE ~Queued(t, q)
    BY <2>1, <2>4, NewCall DEF SchedInv
  <2>5. QED
    BY <2>3, <2>4
<1>11. QED
  BY <1>6, <1>8, <1>9, <1>10

(***************************************************************************)
(* Calls on the worker.                                                    *)
(***************************************************************************)

LEMMA NoticePost ==
    ASSUME SchedInv, NEW p \in Threads, PostStep(p), UNCHANGED schedVars
    PROVE  ScanInv' /\ ChoiceInv' /\ UrgentInv' /\ SleepInv'
<1> USE WorkerAssumption, SwprioAssumption
<1>1. /\ UNCHANGED <<pc, current_task, next_task>>
      /\ "PENDING" \in flags => "PENDING" \in flags'
      /\ "IDLE" \in flags' => "IDLE" \in flags
      /\ \A r \in Threads \ {p} : stage'[r] = stage[r] /\ op'[r] = op[r]
      /\ stage[p] \in {"none", "post", "unidle", "resume", "kill", "join"}
      /\ stage[p] = "post" =>
           "PENDING" \in flags' /\ ("IDLE" \in flags' => stage'[p] = "unidle")
      /\ stage[p] = "unidle" => "IDLE" \notin flags'
  BY PostFrame DEF SchedInv, PostEffect
<1>2. UNCHANGED <<prio, readyq, mask, node, node_prio, arg, seen>>
  BY DEF schedVars
<1>3. \A r \in Threads \ {p} : WillRaise(r) => WillRaise(r)'
  BY <1>1, <1>2 DEF WillRaise
<1>4. WillRaise(p) => stage[p] = "post"
  BY <1>1 DEF WillRaise
<1>5. \A t \in Tasks : Noticed(t) => Noticed(t)'
  BY <1>1, <1>2, <1>3, <1>4 DEF Noticed
<1>6. \A t \in Tasks, q \in Prios : Queued(t, q)' <=> Queued(t, q)
  BY <1>2 DEF Queued
<1>7. ScanInv'
  BY <1>1, <1>2, <1>5, <1>6 DEF SchedInv, ScanInv
<1>8. ASSUME NEW limit, Settled(limit),
             NEW t \in Tasks, NEW q \in Prios, Queued(t, q)', q < limit
      PROVE  Noticed(t)'
  BY <1>5, <1>6, <1>8 DEF Settled
<1>9. ChoiceInv'
  <2>1. node' # NoTask => Settled(node_prio)'
    BY <1>2, <1>8 DEF SchedInv, ChoiceInv, Settled
  <2>2. pc' = "pick" /\ node' = NoTask => Settled(MaxPrio)'
    BY <1>1, <1>2, <1>8 DEF SchedInv, ChoiceInv, Settled
  <2>3. pc' = "idle" => Settled(MaxPrio)'
    BY <1>1, <1>8 DEF SchedInv, ChoiceInv, Settled
  <2>4. pc' = "next" => Settled(IF next_task = NoTask THEN MaxPrio ELSE prio[next_task])'
    BY <1>1, <1>2, <1>8 DEF SchedInv, ChoiceInv, Settled
  <2>5. QED
    BY <2>1, <2>2, <2>3, <2>4 DEF ChoiceInv
<1>10. UrgentInv'
  <2>1. SUFFICES ASSUME pc' \in RunsTask \cup {"check"}, current_task' # NoTask,
                        ~(op'[Owner] = "set_prio" /\ stage'[Owner] = "post")
                 PROVE  Settled(prio[current_task])'
    BY DEF UrgentInv
  <2>2. CASE "PENDING" \in flags'
    BY <2>2 DEF Settled, Noticed
  <2>3. CASE "PENDING" \notin flags'
    <3>1. ~(op[Owner] = "set_prio" /\ stage[Owner] = "post")
      BY <1>1, <2>1, <2>3 DEF Threads
    <3>2. Settled(prio[current_task])
      BY <1>1, <2>1, <3>1 DEF SchedInv, UrgentInv
    <3>3. QED
      BY <1>1, <1>2, <1>8, <3>2 DEF Settled
  <2>4. QED
    BY <2>2, <2>3
<1>11. SleepInv'
  BY <1>1, <1>2, <1>3, <1>4, <1>6 DEF SchedInv, SleepInv
<1>12. QED
  BY <1>7, <1>9, <1>10, <1>11

(***************************************************************************)
(* The worker thread's own steps.                                          *)
(***************************************************************************)

(* A step that changes no queue, no priority and no thread's intentions,   *)
(* and clears no PENDING, keeps what was noticed noticed.                  *)
LEMMA NoticedStable ==
    ASSUME UNCHANGED <<stage, prio, readyq, arg, seen>>,
           "PENDING" \in flags => "PENDING" \in flags'
    PROVE  /\ \A r \in Threads : WillRaise(r)' <=> WillRaise(r)
           /\ \A t \in Tasks : Noticed(t) => Noticed(t)'
           /\ \A t \in Tasks, q \in Prios : Queued(t, q)' <=> Queued(t, q)
           /\ \A limit \in Nat : Settled(limit) =>
                \A t \in Tasks, q \in Prios : Queued(t, q)' /\ q < limit => Noticed(t)'
<1>1. \A r \in Threads : WillRaise(r)' <=> WillRaise(r)
  BY DEF WillRaise
<1>2. \A t \in Tasks : Noticed(t) => Noticed(t)'
  BY <1>1 DEF Noticed
<1>3. \A t \in Tasks, q \in Prios : Queued(t, q)' <=> Queued(t, q)
  BY DEF Queued
<1>4. QED
  BY <1>1, <1>2, <1>3 DEF Settled

(* A step that changes nothing these invariants speak of. *)
LEMMA NoticeStable ==
    ASSUME SchedInv,
           UNCHANGED <<flags, pc, current_task, next_task, stage, op, prio, readyq,
                       mask, node, node_prio, arg, seen>>
    PROVE  ScanInv' /\ ChoiceInv' /\ UrgentInv' /\ SleepInv'
<1>1. ScanInv'
  BY DEF SchedInv, ScanInv, Noticed, WillRaise, Queued
<1>2. ChoiceInv'
  BY DEF SchedInv, ChoiceInv, Settled, Noticed, WillRaise, Queued
<1>3. UrgentInv'
  BY DEF SchedInv, UrgentInv, Settled, Noticed, WillRaise, Queued
<1>4. SleepInv'
  BY DEF SchedInv, SleepInv, WillRaise, Queued
<1>5. QED
  BY <1>1, <1>2, <1>3, <1>4

LEMMA NoticeThread ==
    ASSUME SchedInv, ThreadStep, UNCHANGED schedVars
    PROVE  ScanInv' /\ ChoiceInv' /\ UrgentInv' /\ SleepInv'
<1> USE WorkerAssumption, SwprioAssumption
<1>1. UNCHANGED <<prio, readyq, mask, node, node_prio, arg, seen>>
  BY DEF schedVars
<1>2. UNCHANGED <<stage, op>>
  BY DEF ThreadStep, Entry, CheckFlags, ClearCurrentTask, SwitchTo, LeaveStack,
         NothingToRun, Idle, WakeUp, EnableInterrupts, ReturnToUser, CallPrs,
         DisableInterrupts, HandleInterrupt
<1>3. /\ prio \in [Tasks -> Prios] /\ MaxPrio \in Nat /\ node_prio \in Prios
      /\ current_task \in Tasks \cup {NoTask} /\ next_task \in Tasks \cup {NoTask}
      /\ node # NoTask => pc \in HoldsNode \cup {"pick"}
      /\ pc \in GetNextPc \cup {"get_next", "next", "leave_stack", "idle", "suspend"} =>
           current_task = NoTask
      /\ pc = "call" <=> stage[Owner] # "none"
  BY DEF SchedInv, ControlInv, TypeOK, GetNextControl, ThreadControl, CallControl
<1>4. CASE CheckFlags
  <2>1. /\ pc = "check" /\ UNCHANGED <<current_task, next_task>>
        /\ pc' \in {"load", "clear"} \/ (pc' \in {"cas", "api"} /\ flags' = flags)
    BY <1>4, CheckFlagsCases DEF CheckFlags, SchedInv
  <2>2. ScanInv' /\ ChoiceInv' /\ SleepInv'
    BY <1>1, <1>3, <2>1 DEF ScanInv, ChoiceInv, SleepInv, HoldsNode
  <2>3. UrgentInv'
    <3>1. CASE pc' \in {"load", "clear"}
      BY <3>1 DEF UrgentInv, RunsTask
    <3>2. CASE pc' \in {"cas", "api"} /\ flags' = flags
      <4>1. current_task # NoTask => Settled(prio[current_task])
        BY <1>3, <2>1 DEF SchedInv, UrgentInv
      <4>2. current_task # NoTask => prio[current_task] \in Nat
        BY <1>3 DEF Prios
      <4>3. QED
        BY <1>1, <1>2, <2>1, <3>2, <4>1, <4>2, NoticedStable DEF UrgentInv, Settled
    <3>3. QED
      BY <2>1, <3>1, <3>2
  <2>4. QED
    BY <2>2, <2>3
<1>5. CASE ~CheckFlags
  <2>1. "PENDING" \in flags => "PENDING" \in flags'
    BY <1>5 DEF ThreadStep, Entry, ClearCurrentTask, SwitchTo, LeaveStack,
         NothingToRun, Idle, WakeUp, EnableInterrupts, ReturnToUser, CallPrs,
         DisableInterrupts, HandleInterrupt
  <2>2. /\ \A r \in Threads : WillRaise(r)' <=> WillRaise(r)
        /\ \A t \in Tasks : Noticed(t) => Noticed(t)'
        /\ \A t \in Tasks, q \in Prios : Queued(t, q)' <=> Queued(t, q)
        /\ \A limit \in Nat : Settled(limit) =>
             \A t \in Tasks, q \in Prios : Queued(t, q)' /\ q < limit => Noticed(t)'
    BY <1>1, <1>2, <2>1, NoticedStable
  <2>3. CASE Entry \/ ClearCurrentTask \/ LeaveStack \/ WakeUp
    <3>1. /\ pc \in {"load", "clear", "leave_stack", "suspend"}
          /\ \/ pc' \in {"exited", "clear", "get_next", "load"}
             \/ pc' = "check" /\ current_task' = NoTask
      BY <1>3, <2>3 DEF Entry, ClearCurrentTask, LeaveStack, WakeUp
    <3>2. QED
      BY <1>1, <1>3, <3>1 DEF ScanInv, ChoiceInv, UrgentInv, SleepInv, RunsTask, HoldsNode
  <2>4. CASE SwitchTo
    <3>1. /\ pc = "next" /\ next_task # NoTask /\ current_task' = next_task
          /\ pc' \in {"check", "cas", "api"}
      BY <2>4, SwitchToCases DEF SwitchTo, SchedInv
    <3>2. Settled(prio[next_task]) /\ prio[next_task] \in Nat
      BY <1>3, <3>1 DEF SchedInv, ChoiceInv, Prios
    <3>3. Settled(prio[current_task])'
      BY <1>1, <2>2, <3>1, <3>2 DEF Settled
    <3>4. QED
      BY <1>1, <1>3, <3>1, <3>3 DEF ScanInv, ChoiceInv, UrgentInv, SleepInv, HoldsNode
  <2>5. CASE NothingToRun
    <3>1. pc = "next" /\ next_task = NoTask /\ pc' = "idle"
      BY <2>5 DEF NothingToRun
    <3>2. Settled(MaxPrio)'
      BY <1>3, <2>2, <3>1 DEF SchedInv, ChoiceInv, Settled
    <3>3. QED
      BY <1>1, <1>3, <3>1, <3>2 DEF ScanInv, ChoiceInv, UrgentInv, SleepInv, HoldsNode,
         RunsTask
  <2>6. CASE Idle
    <3>1. /\ pc = "idle" /\ UNCHANGED current_task
          /\ pc' = "check" \/ (pc' = "suspend" /\ flags = {})
      BY <2>6 DEF Idle
    <3>2. ScanInv' /\ ChoiceInv' /\ UrgentInv'
      BY <1>1, <1>3, <3>1 DEF ScanInv, ChoiceInv, UrgentInv, HoldsNode
    <3>3. Settled(MaxPrio)
      BY <3>1 DEF SchedInv, ChoiceInv
    <3>4. \A q \in Prios : q < MaxPrio
      BY <1>3 DEF Prios
    <3>5. SleepInv'
      BY <1>1, <2>2, <3>1, <3>3, <3>4 DEF SleepInv, Settled, Noticed
    <3>6. QED
      BY <3>2, <3>5
  <2>7. CASE EnableInterrupts \/ ReturnToUser \/ CallPrs \/ DisableInterrupts
    <3>1. /\ pc \in RunsTask \ {"call"} /\ pc' \in (RunsTask \ {"call"}) \cup {"check"}
          /\ UNCHANGED current_task
      BY <2>7 DEF EnableInterrupts, ReturnToUser, CallPrs, DisableInterrupts, RunsTask
    <3>2. current_task # NoTask => Settled(prio[current_task]) /\ prio[current_task] \in Nat
      BY <1>3, <3>1 DEF SchedInv, UrgentInv, Prios
    <3>3. current_task # NoTask => Settled(prio[current_task])'
      BY <1>1, <2>2, <3>1, <3>2 DEF Settled
    <3>4. QED
      BY <1>1, <1>3, <3>1, <3>3 DEF ScanInv, ChoiceInv, UrgentInv, SleepInv, HoldsNode,
         RunsTask
  <2>8. CASE HandleInterrupt
    <3>1. CASE "INTERRUPTIBLE" \in flags /\ pc = "user"
      <4>1. pc = "user" /\ pc' = "check" /\ UNCHANGED current_task
        BY <2>8, <3>1 DEF HandleInterrupt
      <4>2. current_task # NoTask => Settled(prio[current_task]) /\ prio[current_task] \in Nat
        BY <1>3, <4>1 DEF SchedInv, UrgentInv, Prios, RunsTask
      <4>3. current_task # NoTask => Settled(prio[current_task])'
        BY <1>1, <2>2, <4>1, <4>2 DEF Settled
      <4>4. QED
        BY <1>1, <1>3, <4>1, <4>3 DEF ScanInv, ChoiceInv, UrgentInv, SleepInv, HoldsNode
    <3>2. CASE ~("INTERRUPTIBLE" \in flags /\ pc = "user")
      <4>1. UNCHANGED <<flags, pc, current_task, next_task>>
        BY <2>8, <3>2 DEF HandleInterrupt
      <4>2. QED
        BY <1>1, <1>2, <4>1, NoticeStable
    <3>3. QED
      BY <3>1, <3>2
  <2>9. QED
    BY <1>5, <2>3, <2>4, <2>5, <2>6, <2>7, <2>8 DEF ThreadStep
<1>6. QED
  BY <1>4, <1>5

(***************************************************************************)
(* The steps of get_next.                                                  *)
(***************************************************************************)

LEMMA NoticeGetNext ==
    ASSUME Victims = {}, SchedInv, GetNextStep, LeastBit
    PROVE  ScanInv' /\ ChoiceInv' /\ UrgentInv' /\ SleepInv'
<1> USE WorkerAssumption, SwprioAssumption
<1>1. UNCHANGED <<flags, current_task, stage, op, prio, arg, seen>>
  BY ZenonT(40) DEF GetNextStep, BeginRemove, RemoveUnmask, FinishRemove,
     LoadReadyMask, BeginReady,
         ClearReadyBit, BeginReadyAgain, SetReadyBit, Pick, PreemptPush, PreemptMask,
         PreemptState, Dequeue, getNextUnchanged
<1>2. pc' \in GetNextPc \cup {"get_next", "next", "leave_stack"}
  BY Zenon DEF GetNextStep, BeginRemove, RemoveUnmask, FinishRemove, LoadReadyMask,
     BeginReady,
         ClearReadyBit, BeginReadyAgain, SetReadyBit, Pick, PreemptPush, PreemptMask,
         PreemptState, Dequeue, GetNextPc
<1>3. UrgentInv' /\ SleepInv'
  BY <1>2 DEF UrgentInv, SleepInv, GetNextPc, RunsTask
<1>4. \A t \in Tasks : Noticed(t)' <=> Noticed(t)
  BY <1>1 DEF Noticed, WillRaise
<1>5. \A t \in Tasks, q \in Prios : UNCHANGED readyq => (Queued(t, q)' <=> Queued(t, q))
  BY DEF Queued
<1>6. /\ prio \in [Tasks -> Prios] /\ mask \subseteq Prios /\ prev_task \in Tasks \cup {NoTask}
      /\ next_task # NoTask => pc = "next"
      /\ node # NoTask => pc \in HoldsNode \cup {"pick"}
      /\ pc \in HoldsNode => node # NoTask
      /\ pc \in {"unmask", "rebegin"} => mask # {}
  BY DEF SchedInv, ControlInv, TypeOK, GetNextControl, ThreadControl
<1>7. \A q \in Prios : q \in Nat /\ q < MaxPrio
  BY DEF Prios
<1>8. mask # {} => Lsb(mask) \in mask /\ \A q \in mask : Lsb(mask) <= q
  BY <1>6 DEF LeastBit
<1>9. CASE BeginRemove \/ RemoveUnmask \/ FinishRemove
  <2>1. /\ pc \in {"get_next", "zombie"} /\ pc' \in {"get_next", "zombie", "mask", "leave_stack",
                                                     "rm_begin"}
        /\ UNCHANGED node
    BY Zenon, <1>9 DEF BeginRemove, RemoveUnmask, FinishRemove, SchedInv, RemovedInv
  <2>2. QED
    BY <1>3, <1>6, <2>1 DEF ScanInv, ChoiceInv, HoldsNode
<1>10. CASE LoadReadyMask
  <2>1. pc = "mask" /\ pc' = "begin" /\ mask' = ready_mask /\ node' = NoTask /\ UNCHANGED readyq
    BY <1>10 DEF LoadReadyMask
  <2>2. \A t \in Tasks, q \in Prios : Queued(t, q) => q \in ready_mask \/ Noticed(t)
    BY <2>1 DEF SchedInv, MaskInv, Noticed, WillRaise
  <2>3. QED
    BY <1>3, <1>4, <1>5, <2>1, <2>2 DEF ScanInv, ChoiceInv
<1>11. CASE BeginReady
  <2>1. /\ pc = "begin" /\ pc' \in {"pick", "unmask"} /\ UNCHANGED <<readyq, mask>> /\ node = NoTask
    BY <1>6, <1>11 DEF BeginReady, HoldsNode
  <2>2. \A t \in Tasks, q \in Prios : Queued(t, q)' => q \in mask \/ Noticed(t)'
    BY <1>4, <1>5, <2>1 DEF SchedInv, ScanInv
  <2>3. ScanInv'
    BY <2>1, <2>2 DEF ScanInv
  <2>4. CASE mask = {}
    BY <1>3, <1>11, <2>1, <2>2, <2>3, <2>4 DEF ChoiceInv, Settled
  <2>5. CASE mask # {} /\ pc' = "unmask"
    <3>1. node' = NoTask
      BY <1>11, <2>1, <2>5 DEF BeginReady
    <3>2. QED
      BY <1>3, <2>3, <2>5, <3>1 DEF ChoiceInv
  <2>6. CASE mask # {} /\ pc' = "pick"
    <3>1. node_prio' = Lsb(mask) /\ node' = Head(readyq[Lsb(mask)]) /\ readyq[Lsb(mask)] # <<>>
      BY <1>11, <2>6 DEF BeginReady
    <3>2. \A q \in mask : q \in Nat /\ ~(q < Lsb(mask))
      BY <1>6, <1>7, <1>8, <2>6
    <3>3. Settled(node_prio)'
      BY <2>2, <3>1, <3>2 DEF Settled
    <3>4. Head(readyq[Lsb(mask)]) \in Tasks
      BY <1>6, <1>8, <2>6, <3>1 DEF SchedInv, ControlInv, TypeOK
    <3>5. QED
      BY <1>3, <2>3, <2>6, <3>1, <3>3, <3>4 DEF ChoiceInv
  <2>7. QED
    BY <2>1, <2>4, <2>5, <2>6
<1>12. CASE ClearReadyBit
  BY <1>3, <1>4, <1>5, <1>6, <1>12 DEF ClearReadyBit, SchedInv, ScanInv, ChoiceInv,
     HoldsNode
<1>13. CASE BeginReadyAgain
  <2>1. /\ pc = "rebegin" /\ pc' \in {"begin", "remask"} /\ UNCHANGED readyq /\ node = NoTask
        /\ mask # {}
    BY <1>6, <1>13 DEF BeginReadyAgain, HoldsNode
  <2>2. \A t \in Tasks, q \in Prios : Queued(t, q)' => q \in mask \/ Noticed(t)'
    BY <1>4, <1>5, <2>1 DEF SchedInv, ScanInv
  <2>3. CASE readyq[Lsb(mask)] = <<>>
    <3>1. pc' = "begin" /\ mask' = mask \ {Lsb(mask)} /\ node' = NoTask
      BY <1>13, <2>1, <2>3 DEF BeginReadyAgain
    <3>2. \A t \in Tasks : ~Queued(t, Lsb(mask))
      BY <2>3 DEF Queued, Range
    <3>3. \A t \in Tasks, q \in Prios : Queued(t, q)' => q # Lsb(mask)
      BY <1>5, <2>1, <3>2
    <3>4. QED
      BY <1>3, <2>2, <3>1, <3>3 DEF ScanInv, ChoiceInv
  <2>4. CASE readyq[Lsb(mask)] # <<>>
    <3>1. node_prio' = Lsb(mask) /\ pc' = "remask"
      BY <1>13, <2>4 DEF BeginReadyAgain
    <3>2. \A q \in mask : q \in Nat /\ ~(q < Lsb(mask))
      BY <1>6, <1>7, <1>8, <2>1
    <3>3. Settled(node_prio)'
      BY <2>2, <3>1, <3>2 DEF Settled
    <3>4. QED
      BY <1>3, <3>1, <3>3 DEF ScanInv, ChoiceInv
  <2>5. QED
    BY <2>3, <2>4
<1>14. CASE SetReadyBit
  <2>1. pc = "remask" /\ pc' = "pick" /\ UNCHANGED <<readyq, node, node_prio>>
    BY <1>14 DEF SetReadyBit
  <2>2. node # NoTask /\ Settled(node_prio)
    BY <1>6, <2>1 DEF SchedInv, ChoiceInv, HoldsNode
  <2>3. Settled(node_prio)'
    BY <1>4, <1>5, <2>1, <2>2 DEF Settled
  <2>4. QED
    BY <1>3, <2>1, <2>2, <2>3 DEF ScanInv, ChoiceInv
<1>15. CASE Pick
  <2>1. pc = "pick" /\ UNCHANGED <<readyq, node_prio>> /\ next_task = NoTask
    BY <1>6, <1>15 DEF Pick
  <2>2. \A limit : Settled(limit) => Settled(limit)'
    BY <1>4, <1>5, <2>1 DEF Settled
  <2>3. CASE pc' = "next" /\ next_task' = prev_task /\ prev_task # NoTask /\ node' = NoTask
    <3>1. node = NoTask \/ prio[prev_task] <= node_prio
      BY <1>15, <2>1, <2>3 DEF Pick
    <3>2. \A q \in Prios : q < prio[prev_task] => q < MaxPrio /\ (node # NoTask => q < node_prio)
      <4>1. prio[prev_task] \in Prios /\ node_prio \in Prios
        BY <1>6, <2>3 DEF SchedInv, ControlInv, TypeOK
      <4>2. QED
        BY <1>7, <3>1, <4>1
    <3>3. Settled(prio[prev_task])
      BY <2>1, <3>2 DEF SchedInv, ChoiceInv, Settled
    <3>4. \A t \in Tasks, q \in Prios : Queued(t, q)' /\ q < prio[prev_task] => Noticed(t)'
      BY <1>4, <1>5, <2>1, <3>3 DEF Settled
    <3>5. Settled(IF next_task = NoTask THEN MaxPrio ELSE prio[next_task])'
      BY <1>1, <2>3, <3>4 DEF Settled
    <3>6. QED
      BY <1>3, <2>3, <3>5 DEF ScanInv, ChoiceInv
  <2>4. CASE pc' = "next" /\ next_task' = NoTask /\ node = NoTask /\ node' = NoTask
    <3>1. Settled(MaxPrio)'
      BY <1>4, <1>5, <2>1, <2>4 DEF SchedInv, ChoiceInv, Settled
    <3>2. QED
      BY <1>3, <2>4, <3>1 DEF ScanInv, ChoiceInv, Settled
  <2>5. CASE pc' \in {"preempt_push", "dequeue"} /\ node # NoTask /\ node' = node
    <3>1. Settled(node_prio)'
      BY <1>4, <1>5, <2>1, <2>5 DEF SchedInv, ChoiceInv, Settled
    <3>2. QED
      BY <1>3, <2>5, <3>1 DEF ScanInv, ChoiceInv
  <2>6. QED
    BY <1>15, <2>1, <2>3, <2>4, <2>5 DEF Pick
<1>16. CASE PreemptPush
  <2>1. /\ pc = "preempt_push" /\ pc' = "preempt_mask" /\ UNCHANGED <<node, node_prio>>
        /\ node # NoTask
    BY <1>6, <1>16 DEF PreemptPush, HoldsNode
  <2>2. prev_task \in Tasks /\ prio[prev_task] \in Prios
    BY <1>16 DEF PreemptPush, SchedInv, ControlInv, TypeOK, GetNextControl
  <2>3. ~Queued(prev_task, prio[prev_task]) /\ node_prio < prio[prev_task]
    BY <1>16, <2>2 DEF PreemptPush, SchedInv, RunningInv, ReadyIsQueued, Preempting
  <2>4. \A u \in Tasks, q \in Prios :
          Queued(u, q)' <=> Queued(u, q) \/ (u = prev_task /\ q = prio[prev_task])
    BY <1>16, <2>2, <2>3, PushEffect, Zenon DEF PreemptPush, SchedInv, ControlInv
  <2>5. Settled(node_prio) /\ node_prio \in Nat
    BY <1>7, <2>1 DEF SchedInv, ChoiceInv, ControlInv, TypeOK
  <2>6. ~(prio[prev_task] < node_prio)
    BY <1>7, <2>2, <2>3, <2>5
  <2>7. Settled(node_prio)'
    BY <1>4, <2>1, <2>4, <2>5, <2>6 DEF Settled
  <2>8. QED
    BY <1>3, <2>1, <2>7 DEF ScanInv, ChoiceInv
<1>17. CASE PreemptMask \/ PreemptState
  <2>1. /\ pc \in {"preempt_mask", "preempt_state"} /\ pc' \in {"preempt_state", "dequeue"}
        /\ UNCHANGED <<readyq, node, node_prio>>
    BY <1>17 DEF PreemptMask, PreemptState
  <2>2. node # NoTask /\ Settled(node_prio)
    BY <1>6, <2>1 DEF SchedInv, ChoiceInv, HoldsNode
  <2>3. Settled(node_prio)'
    BY <1>4, <1>5, <2>1, <2>2 DEF Settled
  <2>4. QED
    BY <1>3, <2>1, <2>3 DEF ScanInv, ChoiceInv
<1>18. CASE Dequeue
  <2>1. /\ node \in Tasks /\ prio[node] = node_prio
        /\ \A u \in Tasks, q \in Prios : Queued(u, q)' => Queued(u, q)
    BY <1>18, DequeueEffect DEF SchedInv
  <2>2. pc' = "next" /\ next_task' = node /\ node' = NoTask /\ node # NoTask
    BY <1>18, <2>1 DEF Dequeue
  <2>3. Settled(node_prio)
    BY <2>2 DEF SchedInv, ChoiceInv
  <2>4. Settled(IF next_task = NoTask THEN MaxPrio ELSE prio[next_task])'
    BY <1>1, <1>4, <2>1, <2>2, <2>3 DEF Settled
  <2>5. QED
    BY <1>3, <2>2, <2>4 DEF ScanInv, ChoiceInv
<1>19. QED
  BY <1>9, <1>10, <1>11, <1>12, <1>13, <1>14, <1>15, <1>16, <1>17, <1>18 DEF GetNextStep

(***************************************************************************)
(* What the running task does.                                             *)
(***************************************************************************)

LEMMA NoticeApi ==
    ASSUME SchedInv, ApiStep
    PROVE  ScanInv' /\ ChoiceInv' /\ UrgentInv' /\ SleepInv'
<1> USE WorkerAssumption, SwprioAssumption
<1>1. pc = "api" /\ UNCHANGED <<readyq, node, seen, current_task>>
  BY DEF ApiStep, Block, UnblockSelf, Yield, LeaveApi, IntEnable, CallSchedule, Schedule,
         StopCurrent, StopSelf, SetPrio, workerVars, schedVars, callUnchanged
<1>2. pc' \in {"api", "call", "check", "clear", "load"}
  BY <1>1 DEF ApiStep, Block, UnblockSelf, Yield, LeaveApi, IntEnable, CallSchedule,
     Schedule,
         StopCurrent, StopSelf, SetPrio, BeginCall, workerVars
<1>3. node = NoTask
  BY <1>1 DEF SchedInv, ControlInv, GetNextControl, HoldsNode
<1>4. ScanInv' /\ ChoiceInv' /\ SleepInv'
  BY <1>1, <1>2, <1>3 DEF ScanInv, ChoiceInv, SleepInv
<1>5. /\ stage[Owner] = "none" /\ Owner \in Threads /\ current_task \in Tasks /\ arg[Owner] = NoTask
      /\ stage \in [Threads -> PostStage \cup ReadyStage] /\ op \in [Threads -> Ops]
      /\ prio \in [Tasks -> Prios] /\ arg \in [Threads -> Tasks \cup {NoTask}]
  BY <1>1 DEF SchedInv, ControlInv, TypeOK, ThreadControl, CallControl, Threads, RunsTask
<1>6. CASE \E q \in NewPrios : SetPrio(q)
  <2>1. op'[Owner] = "set_prio" /\ stage'[Owner] = "post"
    BY <1>5, <1>6 DEF SetPrio, BeginCall
  <2>2. QED
    BY <1>4, <2>1 DEF UrgentInv
<1>7. CASE ~ \E q \in NewPrios : SetPrio(q)
  <2>1. /\ UNCHANGED prio /\ flags \subseteq flags'
        /\ \A r \in Threads \ {Owner} : stage'[r] = stage[r] /\ arg'[r] = arg[r]
    BY <1>5, <1>7 DEF ApiStep, Block, UnblockSelf, Yield, LeaveApi, IntEnable, CallSchedule,
         Schedule, StopCurrent, StopSelf, workerVars, schedVars, callUnchanged, BeginCall
  <2>2. Settled(prio[current_task])
    BY <1>1, <1>5 DEF SchedInv, UrgentInv, RunsTask
  <2>3. \A r \in Threads \ {Owner} : WillRaise(r) => WillRaise(r)'
    BY <1>1, <2>1 DEF WillRaise
  <2>4. \A t \in Tasks : Noticed(t) => Noticed(t)'
    BY <1>5, <2>1, <2>3 DEF Noticed
  <2>5. Settled(prio[current_task])'
    BY <1>1, <2>1, <2>2, <2>4 DEF Settled, Queued
  <2>6. QED
    BY <1>4, <2>5 DEF UrgentInv
<1>8. QED
  BY <1>6, <1>7

(***************************************************************************)
(* Every queued task has its bit, or a thread that is about to set it.     *)
(***************************************************************************)

(* A step that changes no queue, clears no bit, and takes no thread away   *)
(* from the point where it is about to set one.                            *)
LEMMA MaskStable ==
    ASSUME MaskInv, UNCHANGED readyq, ready_mask \subseteq ready_mask',
           \A r \in Threads : stage[r] = "mask" => stage'[r] = "mask" /\ arg'[r] = arg[r],
           \/ pc \notin {"rebegin", "remask", "preempt_mask"}
           \/ UNCHANGED <<pc, mask, node_prio, prev_task>>
    PROVE  MaskInv'
  BY DEF MaskInv, Queued

(* The worker thread's own steps keep the ready mask in step with the queues. *)
LEMMA MaskThread ==
    ASSUME Victims = {}, ControlInv, ReadyIsQueued, RunningInv, RemovedInv, MaskInv,
           ThreadStep, UNCHANGED schedVars
    PROVE  MaskInv'
<1>1. ThreadEffect
  BY ThreadFrame
<1> QED
  BY <1>1, MaskStable DEF ThreadEffect, schedVars, GetNextPc

(* The steps of get_next keep the ready mask in step with the queues. *)
LEMMA MaskGetNext ==
    ASSUME Victims = {}, ControlInv, ReadyIsQueued, RunningInv, RemovedInv, MaskInv,
           GetNextStep, LeastBit
    PROVE  MaskInv'
<1> USE WorkerAssumption, SwprioAssumption
<1>1. CASE BeginRemove
  BY Zenon, <1>1, BeginRemoveQuiet, MaskStable DEF BeginRemove, getNextUnchanged
<1>2. CASE RemoveUnmask
  BY <1>2 DEF RemoveUnmask, RemovedInv
<1>3. CASE FinishRemove
  BY <1>3, MaskStable DEF FinishRemove, getNextUnchanged
<1>4. CASE LoadReadyMask
  BY <1>4, MaskStable DEF LoadReadyMask, getNextUnchanged
<1>5. CASE BeginReady
  BY <1>5, MaskStable DEF BeginReady, getNextUnchanged
<1>6. CASE ClearReadyBit
  BY <1>6 DEF ClearReadyBit, getNextUnchanged, MaskInv, Queued
<1>7. CASE BeginReadyAgain
  <2>1. Lsb(mask) \in Prios
    BY <1>7 DEF BeginReadyAgain, ControlInv, TypeOK, GetNextControl, LeastBit
  <2>2. CASE readyq[Lsb(mask)] = <<>>
    <3>1. \A u \in Tasks : ~Queued(u, Lsb(mask))
      BY <2>2 DEF Queued, Range
    <3>2. UNCHANGED <<readyq, ready_mask, stage, arg>> /\ pc = "rebegin"
      BY <1>7 DEF BeginReadyAgain, getNextUnchanged
    <3>3. QED
      BY <3>1, <3>2 DEF MaskInv, Queued
  <2>3. CASE readyq[Lsb(mask)] # <<>>
    BY <1>7, <2>3 DEF BeginReadyAgain, getNextUnchanged, MaskInv, Queued
  <2>4. QED
    BY <2>2, <2>3
<1>8. CASE SetReadyBit
  BY <1>8 DEF SetReadyBit, getNextUnchanged, MaskInv, Queued
<1>9. CASE Pick
  BY <1>9, MaskStable DEF Pick, getNextUnchanged
<1>10. CASE PreemptPush
  <2>1. prev_task \in Tasks /\ prio[prev_task] \in Prios
    BY <1>10 DEF PreemptPush, ControlInv, TypeOK, GetNextControl
  <2>2. ~Queued(prev_task, prio[prev_task])
    BY <1>10, <2>1 DEF PreemptPush, RunningInv, ReadyIsQueued, Preempting
  <2>3. \A u \in Tasks, q \in Prios :
          Queued(u, q)' <=> Queued(u, q) \/ (u = prev_task /\ q = prio[prev_task])
    BY <1>10, <2>1, <2>2, PushEffect, Zenon DEF PreemptPush, ControlInv
  <2>4. QED
    BY <1>10, <2>3 DEF PreemptPush, getNextUnchanged, MaskInv
<1>11. CASE PreemptMask
  <2>1. \A q \in Prios : Queued(prev_task, q) /\ prev_task \in Tasks => q = prio[prev_task]
    BY DEF ReadyIsQueued
  <2>2. QED
    BY <1>11, <2>1 DEF PreemptMask, getNextUnchanged, MaskInv, Queued
<1>12. CASE PreemptState
  BY <1>12, MaskStable DEF PreemptState, getNextUnchanged
<1>13. CASE Dequeue
  <2>1. \A u \in Tasks, q \in Prios : Queued(u, q)' => Queued(u, q)
    BY <1>13, DequeueEffect
  <2>2. QED
    BY <1>13, <2>1 DEF Dequeue, getNextUnchanged, MaskInv
<1> QED
  BY <1>1, <1>2, <1>3, <1>4, <1>5, <1>6, <1>7, <1>8, <1>9, <1>10, <1>11, <1>12, <1>13,
     Zenon DEF GetNextStep

(* What a task does inside the PR API keep the ready mask in step with the queues. *)
LEMMA MaskApi ==
    ASSUME Victims = {}, ControlInv, ReadyIsQueued, RunningInv, RemovedInv, MaskInv, ApiStep
    PROVE  MaskInv'
<1>1. ApiEffect
  BY ApiFrame
<1>2. /\ ctx \in Tasks /\ current_task = ctx /\ next_task = NoTask
      /\ Owner \in Threads /\ op[Owner] = "none" /\ stage[Owner] = "none"
      /\ state \in [Tasks -> States] /\ stage \in [Threads -> PostStage \cup ReadyStage]
      /\ op \in [Threads -> Ops] /\ arg \in [Threads -> Tasks \cup {NoTask}]
  BY <1>1, InApi DEF ApiEffect
<1>3. /\ pc \notin {"rebegin", "remask", "preempt_mask"} /\ UNCHANGED <<readyq, ready_mask>>
      /\ \A r \in Threads : stage[r] = "mask" => stage'[r] = "mask" /\ arg'[r] = arg[r]
  BY <1>1, <1>2 DEF ApiEffect
<1> QED
  BY <1>3, MaskStable

(* Calls on the worker keep the ready mask in step with the queues. *)
LEMMA MaskPost ==
    ASSUME Victims = {}, ControlInv, ReadyIsQueued, RunningInv, RemovedInv, MaskInv,
           NEW p \in Threads, PostStep(p), UNCHANGED schedVars
    PROVE  MaskInv'
<1>1. PostEffect(p)
  BY PostFrame
<1> QED
  BY <1>1, MaskStable DEF PostEffect, schedVars

(* Calls on the scheduler keep the ready mask in step with the queues. *)
LEMMA MaskCall ==
    ASSUME Victims = {}, ControlInv, ReadyIsQueued, RunningInv, RemovedInv, MaskInv,
           NEW p \in Threads, CallStep(p)
    PROVE  MaskInv'
<1>1. CallEffect(p)
  BY CallFrame
<1>2. CASE ReadyPush(p)
  <2>1. \A u \in Tasks, q \in Prios : Queued(u, q)' => Queued(u, q) \/ u = arg[p]
    BY <1>2, ReadyPushEffect
  <2>2. stage' = [stage EXCEPT ![p] = "mask"] /\ p \in DOMAIN stage
    BY <1>2, ReadyPushEffect DEF Goto, ControlInv, TypeOK
  <2>3. UNCHANGED <<pc, mask, node_prio, prev_task, ready_mask, arg>>
    BY <1>2 DEF ReadyPush, callUnchanged
  <2>4. QED
    BY <1>2, <2>1, <2>2, <2>3 DEF MaskInv
<1>3. CASE ReadyMask(p)
  <2>1. \A q \in Prios : Queued(arg[p], q) /\ arg[p] \in Tasks => q \in ready_mask'
    BY <1>3 DEF ReadyMask, ReadyIsQueued
  <2>2. \A r \in Threads : r # p => stage'[r] = stage[r]
    BY <1>3 DEF ReadyMask, Goto
  <2>3. UNCHANGED <<pc, mask, node_prio, prev_task, readyq, arg>> /\ ready_mask \subseteq ready_mask'
    BY <1>3 DEF ReadyMask, callUnchanged
  <2>4. QED
    BY <2>1, <2>2, <2>3 DEF MaskInv, Queued
<1>4. CASE UNCHANGED <<readyq, ready_mask>> /\ stage[p] # "mask"
  BY <1>1, <1>4, MaskStable DEF CallEffect
<1>5. \/ ReadyPush(p) \/ ReadyMask(p)
      \/ UNCHANGED <<readyq, ready_mask>> /\ stage[p] # "mask"
  BY <1>1 DEF CallEffect
<1> QED
  BY <1>2, <1>3, <1>4, <1>5

=============================================================================
