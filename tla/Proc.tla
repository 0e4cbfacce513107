-------------------------------- MODULE Proc --------------------------------
(***************************************************************************)
(* Processes and their tasks (prs/proc.c, prs/svc/proc.c, prs/task.c,      *)
(* prs/name.c, prs/sched.c): the process service loads a process and       *)
(* creates its main task, tasks create tasks and end, the service kills    *)
(* processes and collects them.  Who still uses a process or a task is     *)
(* known only through the reference counters of the object directory.      *)
(*                                                                         *)
(* A task runs on a worker of its own; its calls disable interrupts, so    *)
(* that the worker drops a task that was removed from its scheduler only   *)
(* between calls.  The steps of the tasks and of the service interleave.   *)
(* The names of all tasks fall into the same bucket of the name table.     *)
(*                                                                         *)
(* Behaviours are followed up to the step in which the destruction of a    *)
(* task goes astray: two destroyers pass prs_name_free, or the task is     *)
(* destroyed before prs_sched_add_task has set its sched_id.               *)
(***************************************************************************)
EXTENDS Naturals, FiniteSets, SequencesExt

CONSTANTS Tasks,  \* tasks, numbered in the order of their creation
          Procs,
          Main,   \* the process of the PRS environment, and of the service
          Svc,    \* the process service's task
          NoId    \* PRS_OBJECT_ID_INVALID

ASSUME ProcAssumption ==
    /\ Tasks \subseteq Nat
    /\ Main \in Procs
    /\ Svc \notin Tasks
    /\ NoId \notin Tasks \cup Procs

VARIABLES
    refs,       \* reference counter of each object, 0 when it does not exist
    proc_id,    \* task->proc_id
    sched_id,   \* task->sched_id is set
    sched,      \* per task: "none", "added", "removed" or "reaped"
    node,       \* object_id of the nodes of the bucket's list
    objects,    \* proc->objects
    destroyed,  \* proc->destroyed
    mapped,     \* processes whose text is loaded
    reqs,       \* requests in the service's message queue
    pc, tgt, at,  \* per task and service: place, the task it works on, node
    kill,       \* the service's prs_proc_destroy: process, next node, sender
    astray,     \* tasks whose destruction went astray
    leftover    \* processes freed with objects still registered

objVars == <<refs, proc_id, sched_id, sched, astray>>
procVars == <<objects, destroyed, mapped, leftover>>
vars == <<objVars, procVars, node, reqs, pc, tgt, at, kill>>

Actors == Tasks \cup {Svc}
Goto(a, p) == pc' = [pc EXCEPT ![a] = p]

(***************************************************************************)
(* The object directory (God): prs_god_lock, prs_god_unlock; the last      *)
(* prs_god_unlock of a process calls prs_proc_object_free.                 *)
(***************************************************************************)

Lock(r, o) == [r EXCEPT ![o] = @ + 1]

Unlock(r, o) == [r EXCEPT ![o] = IF @ = 0 THEN 0 ELSE @ - 1]

(* prs_proc_object_free: the text is unloaded, the objects o forgotten.    *)
ProcFrees(o) ==
    LET freed == {p \in Procs : refs[p] # 0 /\ refs'[p] = 0} IN
    /\ mapped' = mapped \ freed
    /\ leftover' = leftover \cup {p \in freed : o[p] # <<>>}

(* prs_proc_register_object *)
Register(o, p, u) == [o EXCEPT ![p] = Append(@, u)]

(* Fault: the process is locked for the task, not for its registration. *)
SetProcOnce(p, u) ==
    /\ refs[p] # 0
    /\ refs' = [refs EXCEPT ![u] = 1, ![p] = @ + 1]
    /\ objects' = Register(objects, p, u)
    /\ proc_id' = [proc_id EXCEPT ![u] = p]

(* prs_task_create up to the name, with prs_task_set_proc for the process  *)
(* of the creator: one reference for the task, one for its registration.   *)
SetProc(p, u) ==
    /\ refs[p] # 0
    /\ refs' = [refs EXCEPT ![u] = 1, ![p] = @ + 2]
    /\ objects' = Register(objects, p, u)
    /\ proc_id' = [proc_id EXCEPT ![u] = p]

(* prs_proc_init_main; the service runs in the main process. *)
Init ==
    /\ refs = [o \in Tasks \cup Procs |-> IF o = Main THEN 1 ELSE 0]
    /\ proc_id = [u \in Tasks |-> NoId]
    /\ sched_id = [u \in Tasks |-> FALSE]
    /\ sched = [u \in Tasks |-> "none"]
    /\ node = <<>>
    /\ objects = [p \in Procs |-> <<>>]
    /\ destroyed = [p \in Procs |-> FALSE]
    /\ mapped = {Main}
    /\ reqs = <<>>
    /\ pc = [a \in Actors |-> IF a = Svc THEN "idle" ELSE "none"]
    /\ tgt = [a \in Actors |-> NoId]
    /\ at = [a \in Actors |-> 0]
    /\ kill = [proc |-> NoId, next |-> NoId, sender |-> NoId]
    /\ astray = {} /\ leftover = {}

(***************************************************************************)
(* prs_task_create, prs_name_alloc and prs_sched_add_task, by a task or by *)
(* the service.                                                            *)
(***************************************************************************)

(* u is the object that the next prs_god_alloc_and_lock registers. *)
Unborn(u) ==
    /\ proc_id[u] = NoId
    /\ \A v \in Tasks : v < u => proc_id[v] # NoId

(* pr_task_create; it fails, and leaves nothing, when the creator's        *)
(* process is gone.                                                        *)
Create(a, u) ==
    /\ pc[a] = "run" /\ Unborn(u)
    /\ SetProc(proc_id[a], u)
    /\ tgt' = [tgt EXCEPT ![a] = u]
    /\ at' = [at EXCEPT ![a] = 1]
    /\ Goto(a, "naming")
    /\ UNCHANGED <<sched_id, sched, astray, destroyed, mapped, leftover, node,
                   reqs, kill>>

(* An EXEC request: prs_proc_exec loads the image (when it cannot, nothing *)
(* is left of the process), and prs_task_create puts the main task in the  *)
(* service's own process first, where it stays registered.                 *)
Exec(p, u) ==
    /\ pc[Svc] = "idle" /\ p # Main
    /\ refs[p] = 0 /\ ~destroyed[p] /\ \A t \in Tasks : proc_id[t] # p
    /\ Unborn(u)
    /\ refs' = [refs EXCEPT ![p] = 1, ![Main] = @ + 2, ![u] = 1]
    /\ objects' = Register(objects, Main, u)
    /\ proc_id' = [proc_id EXCEPT ![u] = p]
    /\ mapped' = mapped \cup {p}
    /\ tgt' = [tgt EXCEPT ![Svc] = u]
    /\ at' = [at EXCEPT ![Svc] = 1]
    /\ Goto(Svc, "naming")
    /\ UNCHANGED <<sched_id, sched, astray, destroyed, leftover, node, reqs, kill>>

(* One round of prs_name_alloc. *)
NameAlloc(a) ==
    LET i == at[a]
        u == tgt[a]
    IN  /\ pc[a] = "naming"
        /\ IF i <= Len(node) /\ node[i] # NoId
             THEN at' = [at EXCEPT ![a] = i + 1] /\ UNCHANGED <<node, pc>>
             ELSE /\ node' = IF i > Len(node) THEN Append(node, u)
                                              ELSE [node EXCEPT ![i] = u]
                  /\ at' = [at EXCEPT ![a] = 0]
                  /\ Goto(a, IF a = Svc THEN "adopt" ELSE "add")
        /\ UNCHANGED <<objVars, procVars, reqs, tgt, kill>>

(* prs_task_set_proc of the main task, whose proc_id prs_proc_exec has     *)
(* preset: what it locks for the task it unlocks again, so that the        *)
(* reference of the process's creation becomes the main task's.            *)
Adopt ==
    LET u == tgt[Svc]
        p == proc_id[u]
    IN  /\ pc[Svc] = "adopt"
        /\ refs' = Lock(refs, p)
        /\ objects' = Register(objects, p, u)
        /\ Goto(Svc, "add")
        /\ UNCHANGED <<proc_id, sched_id, sched, astray, destroyed, mapped,
                       leftover, node, reqs, tgt, at, kill>>

(* Back from pr_task_create or prs_proc_exec. *)
Return(a) ==
    /\ Goto(a, IF a = Svc THEN "idle" ELSE "run")
    /\ tgt' = [tgt EXCEPT ![a] = NoId]

(* ops.add locks the task once more, and the task may run. *)
SchedAdd(a) ==
    LET u == tgt[a] IN
    /\ pc[a] = "add" /\ refs[u] # 0
    /\ astray' = IF u \in Range(node) THEN astray ELSE astray \cup {u}
    /\ refs' = Lock(Lock(refs, u), u)
    /\ sched' = [sched EXCEPT ![u] = "added"]
    /\ pc' = [pc EXCEPT ![a] = "setid", ![u] = "run"]
    /\ UNCHANGED <<proc_id, sched_id, procVars, node, reqs, tgt, at, kill>>

(* The scheduler or the task is gone: prs_proc_exec gives up the process,  *)
(* and pr_task_create ignores it.                                          *)
SchedMissing(a) ==
    /\ pc[a] = "add"
    /\ refs' = IF a = Svc THEN Unlock(refs, proc_id[tgt[a]]) ELSE refs
    /\ ProcFrees(objects)
    /\ Return(a)
    /\ UNCHANGED <<proc_id, sched_id, sched, astray, objects, destroyed, node,
                   reqs, at, kill>>

SetSchedId(a) ==
    /\ pc[a] = "setid"
    /\ sched_id' = [sched_id EXCEPT ![tgt[a]] = TRUE]
    /\ Return(a)
    /\ UNCHANGED <<refs, proc_id, sched, astray, procVars, node, reqs, at, kill>>

(***************************************************************************)
(* prs_task_destroy, by the task itself or by the service.                 *)
(***************************************************************************)

(* prs_task_entry: the task's function has returned. *)
Finish(t) ==
    /\ pc[t] = "run"
    /\ tgt' = [tgt EXCEPT ![t] = t]
    /\ Goto(t, "free")
    /\ UNCHANGED <<objVars, procVars, node, reqs, at, kill>>

(* The end of prs_task_destroy: the task waits to be dropped, the service  *)
(* goes on in prs_god_object_destroy.                                      *)
Destroyed(a) ==
    IF a = Svc THEN Goto(Svc, "unlock") /\ UNCHANGED tgt
               ELSE Goto(a, "gone") /\ tgt' = [tgt EXCEPT ![a] = NoId]

(* prs_name_free, up to the load that finds the task's node. *)
NameFind(a) ==
    LET u == tgt[a] IN
    /\ pc[a] = "free"
    /\ \/ /\ u \notin Range(node)
          /\ Destroyed(a)
          /\ UNCHANGED at
       \/ \E i \in 1 .. Len(node) :
            /\ node[i] = u
            /\ at' = [at EXCEPT ![a] = i]
            /\ Goto(a, "store")
            /\ UNCHANGED tgt
    /\ UNCHANGED <<objVars, procVars, node, reqs, kill>>

(* The store of PRS_OBJECT_ID_INVALID, whatever the node holds by now. *)
NameFree(a) ==
    LET u == tgt[a] IN
    /\ pc[a] = "store"
    /\ astray' = IF node[at[a]] = u THEN astray ELSE astray \cup {u}
    /\ node' = [node EXCEPT ![at[a]] = NoId]
    /\ at' = [at EXCEPT ![a] = 0]
    /\ Goto(a, "remove")
    /\ UNCHANGED <<refs, proc_id, sched_id, sched, procVars, reqs, tgt, kill>>

(* Fault: the task is forgotten, not removed. *)
SchedRemoveForgets(a) ==
    /\ pc[a] = "remove"
    /\ refs' = IF sched_id[tgt[a]] THEN Unlock(refs, tgt[a]) ELSE refs
    /\ Goto(a, "leave")
    /\ UNCHANGED <<proc_id, sched_id, sched, astray, procVars, node, reqs, tgt,
                   at, kill>>

(* prs_sched_remove_task drops the reference of prs_sched_add_task. *)
SchedRemove(a) ==
    LET u == tgt[a] IN
    /\ pc[a] = "remove"
    /\ IF sched_id[u]
         THEN /\ refs' = Unlock(refs, u)
              /\ sched' = [sched EXCEPT ![u] = "removed"]
         ELSE UNCHANGED <<refs, sched>>
    /\ astray' = IF sched'[u] = "added" THEN astray \cup {u} ELSE astray
    /\ Goto(a, "leave")
    /\ UNCHANGED <<proc_id, sched_id, procVars, node, reqs, tgt, at, kill>>

(* prs_proc_unregister_object, with the references r. *)
Unregister(r, p, u) ==
    /\ objects' = [objects EXCEPT ![p] = SelectSeq(@, LAMBDA v : v # u)]
    /\ refs' = IF u \in Range(objects[p]) THEN Unlock(r, p) ELSE r

(* The process is locked, and the registration ended: by the service at    *)
(* once, by a task with a request to the service.                          *)
Leave(a) ==
    LET u == tgt[a]
        p == proc_id[u]
    IN  /\ pc[a] = "leave"
        /\ IF a = Svc
             THEN Unregister(Lock(refs, p), p, u) /\ UNCHANGED reqs
             ELSE /\ refs' = Lock(refs, p)
                  /\ reqs' = Append(reqs, [type |-> "unreg", proc |-> p, id |-> u])
                  /\ UNCHANGED objects
        /\ Goto(a, "drop")
        /\ UNCHANGED <<proc_id, sched_id, sched, astray, destroyed, mapped,
                       leftover, node, tgt, at, kill>>

(* The two prs_god_unlock of the process. *)
DropProc(a) ==
    /\ pc[a] \in {"drop", "drop2"}
    /\ refs' = Unlock(refs, proc_id[tgt[a]])
    /\ ProcFrees(objects)
    /\ Goto(a, IF pc[a] = "drop" THEN "drop2" ELSE "last")
    /\ UNCHANGED <<proc_id, sched_id, sched, astray, objects, destroyed, node,
                   reqs, tgt, at, kill>>

(* The reference of the task's creation. *)
DropTask(a) ==
    /\ pc[a] = "last"
    /\ refs' = Unlock(refs, tgt[a])
    /\ Destroyed(a)
    /\ UNCHANGED <<proc_id, sched_id, sched, astray, procVars, node, reqs, at, kill>>

(* Fault: the worker is not interrupted. *)
ReapGone(t) ==
    /\ sched[t] = "removed"
    /\ pc[t] = "gone"
    /\ refs' = Unlock(refs, t)
    /\ sched' = [sched EXCEPT ![t] = "reaped"]
    /\ Goto(t, "dead")
    /\ UNCHANGED <<proc_id, sched_id, astray, procVars, node, reqs, tgt, at, kill>>

(* The task's worker drops a removed task between two calls of the task    *)
(* (prs_sched_swprio_get_next).                                            *)
Reap(t) ==
    /\ sched[t] = "removed"
    /\ pc[t] \in {"run", "killwait", "gone"}
    /\ refs' = Unlock(refs, t)
    /\ sched' = [sched EXCEPT ![t] = "reaped"]
    /\ Goto(t, "dead")
    /\ UNCHANGED <<proc_id, sched_id, astray, procVars, node, reqs, tgt, at, kill>>

(***************************************************************************)
(* The process service (prs_svc_proc_task).                                *)
(***************************************************************************)

(* pr_exit: the task asks for its process to be killed, and waits. *)
PrExit(t) ==
    /\ pc[t] = "run"
    /\ reqs' = Append(reqs, [type |-> "kill", proc |-> proc_id[t], id |-> t])
    /\ Goto(t, "killwait")
    /\ UNCHANGED <<objVars, procVars, node, tgt, at, kill>>

(* The answer lets the sender go on in pr_exit, unless it is stopped. *)
Respond(t) ==
    IF pc[t] = "killwait" /\ sched[t] = "added"
      THEN /\ pc' = [pc EXCEPT ![Svc] = "idle", ![t] = "free"]
           /\ tgt' = [tgt EXCEPT ![t] = t]
      ELSE Goto(Svc, "idle") /\ UNCHANGED tgt

(* A KILL request; nothing is done for a process that is gone or was       *)
(* destroyed before.                                                       *)
RecvKill ==
    /\ pc[Svc] = "idle" /\ reqs # <<>> /\ Head(reqs).type = "kill"
    /\ reqs' = Tail(reqs)
    /\ LET p == Head(reqs).proc IN
       IF refs[p] = 0 \/ destroyed[p]
         THEN Respond(Head(reqs).id) /\ UNCHANGED <<refs, kill>>
         ELSE /\ refs' = Lock(refs, p)
              /\ kill' = [proc |-> p, sender |-> Head(reqs).id,
                          next |-> IF objects[p] = <<>> THEN NoId ELSE Head(objects[p])]
              /\ Goto(Svc, "kill")
              /\ UNCHANGED tgt
    /\ UNCHANGED <<proc_id, sched_id, sched, astray, procVars, node, at>>

(* prs_mpsciq_next *)
NextObject(p, u) ==
    LET i == CHOOSE j \in 1 .. Len(objects[p]) : objects[p][j] = u
    IN  IF i = Len(objects[p]) THEN NoId ELSE objects[p][i + 1]

(* One round of prs_proc_destroy, up to the lock of                        *)
(* prs_god_object_destroy, which fails for a task that is gone.            *)
KillObject ==
    LET u == kill.next IN
    /\ pc[Svc] = "kill" /\ u # NoId
    /\ kill' = [kill EXCEPT !.next = NextObject(kill.proc, u)]
    /\ IF refs[u] = 0
         THEN UNCHANGED <<refs, tgt, pc>>
         ELSE /\ refs' = Lock(refs, u)
              /\ tgt' = [tgt EXCEPT ![Svc] = u]
              /\ Goto(Svc, "free")
    /\ UNCHANGED <<proc_id, sched_id, sched, astray, procVars, node, reqs, at>>

(* The unlock of prs_god_object_destroy. *)
KillUnlock ==
    /\ pc[Svc] = "unlock"
    /\ refs' = Unlock(refs, tgt[Svc])
    /\ tgt' = [tgt EXCEPT ![Svc] = NoId]
    /\ Goto(Svc, "kill")
    /\ UNCHANGED <<proc_id, sched_id, sched, astray, procVars, node, reqs, at, kill>>

KillEnd ==
    /\ pc[Svc] = "kill" /\ kill.next = NoId
    /\ destroyed' = [destroyed EXCEPT ![kill.proc] = TRUE]
    /\ refs' = Unlock(refs, kill.proc)
    /\ ProcFrees(objects)
    /\ kill' = [proc |-> NoId, next |-> NoId, sender |-> NoId]
    /\ Respond(kill.sender)
    /\ UNCHANGED <<proc_id, sched_id, sched, astray, objects, node, reqs, at>>

(* An UNREG request. *)
RecvUnreg ==
    /\ pc[Svc] = "idle" /\ reqs # <<>> /\ Head(reqs).type = "unreg"
    /\ reqs' = Tail(reqs)
    /\ IF refs[Head(reqs).proc] = 0
         THEN UNCHANGED <<refs, objects>>
         ELSE Unregister(refs, Head(reqs).proc, Head(reqs).id)
    /\ ProcFrees(objects')
    /\ UNCHANGED <<proc_id, sched_id, sched, astray, destroyed, node, pc, tgt, at, kill>>

(* prs_proc_gc frees a destroyed process when one reference is left        *)
(* (prs_god_try_unlock_final).                                             *)
Gc(p) ==
    /\ pc[Svc] = "idle"
    /\ destroyed[p] /\ refs[p] = 1
    /\ refs' = [refs EXCEPT ![p] = 0]
    /\ ProcFrees(objects)
    /\ UNCHANGED <<proc_id, sched_id, sched, astray, objects, destroyed, node,
                   reqs, pc, tgt, at, kill>>

(* Calls in progress. *)
Proceed(a) ==
    \/ NameAlloc(a) \/ SchedAdd(a) \/ SchedMissing(a) \/ SetSchedId(a)
    \/ NameFind(a) \/ NameFree(a) \/ SchedRemove(a) \/ Leave(a)
    \/ DropProc(a) \/ DropTask(a)

SvcStep ==
    Adopt \/ RecvKill \/ KillObject \/ KillUnlock \/ KillEnd \/ RecvUnreg

Next ==
    /\ astray = {}
    /\ \/ \E p \in Procs, u \in Tasks : Exec(p, u)
       \/ \E a, u \in Tasks : Create(a, u)
       \/ \E t \in Tasks : Finish(t) \/ PrExit(t) \/ Reap(t)
       \/ \E a \in Actors : Proceed(a)
       \/ SvcStep
       \/ \E p \in Procs : Gc(p)

(* Calls run with interrupts disabled and complete; the service receives   *)
(* its requests; a worker that is interrupted schedules.                   *)
Fairness ==
    /\ \A a \in Actors : WF_vars(Proceed(a))
    /\ WF_vars(SvcStep)
    /\ \A t \in Tasks : WF_vars(Reap(t))

Spec == Init /\ [][Next]_vars /\ Fairness

(***************************************************************************)
(* Properties.                                                             *)
(***************************************************************************)

(* The values the state can take. *)
TypeOK ==
    /\ refs \in [Tasks \cup Procs -> Nat]
    /\ proc_id \in [Tasks -> Procs \cup {NoId}]
    /\ sched_id \in [Tasks -> BOOLEAN]
    /\ sched \in [Tasks -> {"none", "added", "removed", "reaped"}]
    /\ Range(node) \subseteq Tasks \cup {NoId}
    /\ \A p \in Procs : Range(objects[p]) \subseteq Tasks
    /\ destroyed \in [Procs -> BOOLEAN]
    /\ mapped \subseteq Procs /\ leftover \subseteq Procs
    /\ at \in [Actors -> 0 .. Len(node) + 1]
    /\ tgt \in [Actors -> Tasks \cup {NoId}]

If(b) == IF b THEN 1 ELSE 0

(* Some call that works on u is at one of the places ps. *)
At(u, ps) == \E a \in Actors : tgt[a] = u /\ pc[a] \in ps

(* u is created, and its destroyer has not given up the last reference. *)
Whole(u) == u \in Range(node) \/ At(u, {"naming", "remove", "leave", "drop",
                                       "drop2", "last"})

(* The main task of a process that prs_proc_exec has given up. *)
GivenUp(u) == u \in Range(objects[Main]) /\ sched[u] = "none" /\ tgt[Svc] # u

(* The references that u has on its process: its own up to the second      *)
(* prs_god_unlock of prs_task_destroy, and the lock of that call.          *)
OnProc(u) ==
    IF ~Whole(u) \/ GivenUp(u) \/ At(u, {"last"}) THEN 0
    ELSE 1 + If(At(u, {"drop"}))

TaskRefs(u) ==
    If(Whole(u)) + 2 * If(sched[u] = "added") + If(sched[u] = "removed")
      + If(tgt[Svc] = u /\ pc[Svc] \in {"free", "store", "remove", "leave", "drop",
                                       "drop2", "last", "unlock"})

ProcRefs(p) ==
    Len(objects[p]) + If(kill.proc = p)
      + MapThenSumSet(OnProc, {u \in Tasks : proc_id[u] = p})

(* The counter of a task, and of a process that is loaded, is the number   *)
(* of its users: the task's own scheduler, process and destroyers, and the *)
(* process's tasks and registrations.                                      *)
RefsAreOwners ==
    astray = {} =>
      /\ \A u \in Tasks : refs[u] = TaskRefs(u)
      /\ \A p \in mapped \ {Main} : refs[p] = ProcRefs(p)

(* The text of a process is loaded for as long as its scheduler runs a     *)
(* task of it, and the process that prs_task_destroy locks is there        *)
(* (PRS_ASSERT(proc), task.c).                                             *)
ProcOutlivesTasks ==
    astray = {} =>
      /\ \A u \in Tasks : sched[u] = "added" => proc_id[u] \in mapped
      /\ \A a \in Actors : pc[a] = "leave" => refs[proc_id[tgt[a]]] # 0

(* A process is freed with no object registered (PRS_ASSERT in             *)
(* prs_proc_object_free).                                                  *)
FreedIsEmpty == leftover = {}

(* A task that the service comes to when it kills a process, and that is   *)
(* complete, is dropped by its worker in the end.                          *)
KillEndsTask ==
    \A u \in Tasks :
      (kill.next = u /\ u \in Range(node) /\ sched_id[u])
        ~> (sched[u] = "reaped" \/ astray # {})

=============================================================================
