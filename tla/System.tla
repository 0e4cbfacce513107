------------------------------- MODULE System -------------------------------
(***************************************************************************)
(* The life of a PRS instance (prs/init.c): prs_init creates the clock,    *)
(* then one thread, worker and scheduler per core, and starts them; tasks  *)
(* run; a task that exits, or an exception, stops and destroys them again. *)
(*                                                                         *)
(* What a worker does between two flag accesses (prs/worker.c) is taken    *)
(* step by step in module Worker.  Here each of its loops is one place,    *)
(* enough to tell when it notices PENDING and STOP, and the interest is in *)
(* the order of start, stop, join and destroy among several threads.       *)
(***************************************************************************)
EXTENDS Integers, FiniteSets

CONSTANT NCores  \* cores of params->core_mask, numbered from 0

ASSUME SystemAssumption == NCores \in Nat \ {0}

Cores == 0 .. NCores - 1
Main == NCores        \* the thread that calls prs_init
Exiters == Cores \cup {Main}

VARIABLES
    use_current, \* params->use_current_thread: core 0 runs on Main
    init,        \* where Main is in prs_init, and the core it has come to
    at,          \* per core: where its thread is
    sem,         \* per core: count of the thread's idle_sem
    sig,         \* per core: the interrupt signal is pending
    unblocked,   \* per core: the kinds of signals its thread lets through
    flags,       \* per core: worker->flags
    task,        \* per core: its current task, an ordinary one or one
                 \* that spins in prs_uninit_wait
    waiting,     \* cores that have a task in prs_uninit_wait
    tasked,      \* cores whose scheduler has been given a task
    sched,       \* per core: its scheduler, and how often it was destroyed
    pit,         \* the interval timer and its thread
    uninit,      \* s_prs_uninit
    main_exit,   \* s_prs_main_exit
    exit,        \* per thread: its progress through prs_uninit
    reached,     \* cores whose worker prs_worker_stop could interrupt
    over         \* prs_pal_exit was called

vars == <<use_current, init, at, sem, sig, unblocked, flags, task, waiting,
          tasked, sched, pit, uninit, main_exit, exit, reached, over>>

initVars == <<use_current, init>>
workerVars == <<at, sem, sig, unblocked, flags, task, waiting, tasked>>
exitVars == <<sched, uninit, main_exit, exit, reached, over>>

NotExiting == [at |-> "none", core |-> 0, excp |-> FALSE]

(* Where Main is in prs_init, a thread in its worker, and a thread in      *)
(* prs_uninit.                                                             *)
InitPlaces == {"clock", "thread", "sched", "add", "task", "next", "start",
               "serve", "spin", "done"}
Places == {"none", "created", "start", "entry", "load", "check", "next", "idle",
           "suspend", "cas", "user", "foreign", "spin", "prs", "exit", "exited"}
ExitPlaces == {"none", "uninit", "clock", "stop", "post", "kill", "join",
               "destroy", "fast"}
Exits == [at : ExitPlaces, core : Cores, excp : BOOLEAN]
WorkerFlags == {"INTERRUPTIBLE", "PENDING", "IDLE", "STOP"}

TypeOK ==
    /\ use_current \in BOOLEAN
    /\ init \in [at : InitPlaces, core : Cores]
    /\ at \in [Cores -> Places]
    /\ sem \in [Cores -> 0 .. 1]
    /\ sig \in [Cores -> BOOLEAN]
    /\ unblocked \in [Cores -> SUBSET {"INT", "EXCP"}]
    /\ flags \in [Cores -> SUBSET WorkerFlags]
    /\ task \in [Cores -> {"none", "run", "spin"}]
    /\ waiting \subseteq tasked /\ tasked \subseteq Cores
    /\ sched \in [Cores -> [created : BOOLEAN, worker : BOOLEAN,
                           destroys : 0 .. 1]]
    /\ pit \in [at : {"none", "start", "tick", "exited"}, exit_sem : 0 .. 1]
    /\ uninit \in BOOLEAN /\ main_exit \in BOOLEAN /\ over \in BOOLEAN
    /\ exit \in [Exiters -> Exits]
    /\ reached \subseteq Cores

Init ==
    /\ use_current \in BOOLEAN
    /\ init = [at |-> "clock", core |-> 0]
    /\ at = [c \in Cores |-> "none"]
    /\ sem = [c \in Cores |-> 0]
    /\ sig = [c \in Cores |-> FALSE]
    /\ unblocked = [c \in Cores |-> {}]
    /\ flags = [c \in Cores |-> {}]
    /\ task = [c \in Cores |-> "none"]
    /\ waiting = {} /\ tasked = {}
    /\ sched = [c \in Cores |-> [created |-> FALSE, worker |-> FALSE,
                                 destroys |-> 0]]
    /\ pit = [at |-> "none", exit_sem |-> 0]
    /\ uninit = FALSE /\ main_exit = FALSE /\ over = FALSE
    /\ exit = [x \in Exiters |-> NotExiting]
    /\ reached = {}

(***************************************************************************)
(* prs_init, on Main.                                                      *)
(***************************************************************************)

(* prs_pal_pit_init_timer and prs_pal_pit_uninit_timer: the interval timer *)
(* is armed once its signal is let through, and turned off before it is    *)
(* blocked again.  prs_pal_pit_sighandler calls the clock in between.      *)
InitTimer(p) == [p EXCEPT !.at = "tick"]
UninitTimer(p) == [p EXCEPT !.at = "exited"]
Ticks == pit.at = "tick"

(* prs_pal_pit_create: with use_current_thread the timer's signal is taken *)
(* by Main itself, otherwise a thread is started for it.                   *)
PitCreate ==
    pit' = IF use_current THEN InitTimer(pit) ELSE [pit EXCEPT !.at = "start"]

(* prs_pal_pit_destroy: the timer is turned off here, or its thread is     *)
(* told to do so; it is not waited for, although its pit is freed.         *)
PitDestroy ==
    pit' = IF use_current THEN UninitTimer(pit)
           ELSE [pit EXCEPT !.exit_sem = @ + 1]

(* prs_clock_uninit: the timers are kept, for tasks that are still there. *)
ClockUninit == PitDestroy

(* prs_clock_init, before there is any scheduler. *)
InitClock ==
    /\ init.at = "clock"
    /\ init' = [init EXCEPT !.at = "thread"]
    /\ PitCreate
    /\ UNCHANGED <<use_current, workerVars, exitVars>>

(* The thread of one core: prs_pal_thread_create starts it at once, except *)
(* for core 0 of use_current_thread, which is Main's.                      *)
InitThread ==
    LET c == init.core IN
    /\ init.at = "thread"
    /\ at' = [at EXCEPT ![c] = IF use_current /\ c = 0 THEN @ ELSE "created"]
    /\ init' = [init EXCEPT !.at = "sched"]
    /\ UNCHANGED <<use_current, sem, sig, unblocked, flags, task, waiting, tasked, pit,
                   exitVars>>

(* prs_sched_create: registered and named, without a worker. *)
InitSched ==
    /\ init.at = "sched"
    /\ sched' = [sched EXCEPT ![init.core].created = TRUE]
    /\ init' = [init EXCEPT !.at = "add"]
    /\ UNCHANGED <<use_current, workerVars, pit, uninit, main_exit, exit,
                   reached, over>>

(* prs_sched_add_thread: the scheduler gets its worker. *)
InitAddThread ==
    LET c == init.core IN
    /\ init.at = "add"
    /\ sched' = [sched EXCEPT ![c].worker = TRUE]
    /\ init' = [init EXCEPT !.at = IF c = 0 THEN "task" ELSE "next"]
    /\ UNCHANGED <<use_current, workerVars, pit, uninit, main_exit, exit,
                   reached, over>>

(* The first scheduler is given the task init1, which posts its worker. *)
InitTask ==
    /\ init.at = "task"
    /\ tasked' = {0}
    /\ flags' = [flags EXCEPT ![0] = {"PENDING"}]
    /\ init' = [init EXCEPT !.at = "next"]
    /\ UNCHANGED <<use_current, at, sem, sig, unblocked, task, waiting, pit,
                   exitVars>>

InitNextCore ==
    LET c == init.core IN
    /\ init.at = "next"
    /\ IF c = NCores - 1
       THEN init' = [init EXCEPT !.at = "start"] /\ uninit' = FALSE
       ELSE init' = [at |-> "thread", core |-> c + 1] /\ uninit' = uninit
    /\ UNCHANGED <<use_current, workerVars, pit, sched, main_exit, exit,
                   reached, over>>

(* A thread's first call of prs_pal_signal_set goes through                *)
(* prs_pal_signal_init, which blocks every signal; the signals it is about *)
(* are let through, and stay so until they are blocked again.              *)
SignalInit(c) == IF at[c] \in {"none", "created"} THEN {} ELSE unblocked[c]
SignalUnblock(c, s) == [unblocked EXCEPT ![c] = SignalInit(c) \cup s]
SignalBlock(c, s) == [unblocked EXCEPT ![c] = SignalInit(c) \ s]

(* prs_pal_thread_start: the thread is let go, or, when it is Main,        *)
(* entered in place.                                                       *)
ThreadStart(c) ==
    IF use_current /\ c = 0
    THEN /\ at' = [at EXCEPT ![c] = "entry"]
         /\ unblocked' = SignalUnblock(c, {"INT"})
         /\ sem' = sem
    ELSE /\ sem' = [sem EXCEPT ![c] = @ + 1]
         /\ UNCHANGED <<at, unblocked>>

(* prs_worker_start resets the flags. *)
StartWorker(c) ==
    /\ flags' = [flags EXCEPT ![c] = {}]
    /\ ThreadStart(c)

(* prs_sched_start: each worker of the scheduler, of which there is one. *)
SchedStart(c) == sched[c].worker /\ StartWorker(c)

(* Seeded fault: the schedulers are started from the first to the last. *)
InitStartAscending ==
    LET c == NCores - 1 - init.core IN
    /\ init.at = "start"
    /\ SchedStart(c)
    /\ init' = IF init.core > 0 THEN [init EXCEPT !.core = @ - 1]
               ELSE [init EXCEPT !.at = IF use_current THEN "serve" ELSE "done"]
    /\ UNCHANGED <<use_current, sig, task, waiting, tasked, pit, exitVars>>

(* The schedulers are started from the last to the first. *)
InitStart ==
    /\ init.at = "start"
    /\ SchedStart(init.core)
    /\ init' = IF init.core > 0 THEN [init EXCEPT !.core = @ - 1]
               ELSE [init EXCEPT !.at = IF use_current THEN "serve" ELSE "done"]
    /\ UNCHANGED <<use_current, sig, task, waiting, tasked, pit, exitVars>>

(* With use_current_thread, Main returns from prs_sched_start once its own *)
(* worker was stopped.  It finishes the exit if one was deferred to it by  *)
(* then, and spins for ever if not.                                        *)
InitServed ==
    /\ init.at = "serve"
    /\ at[0] = "exited"
    /\ IF main_exit
       THEN /\ init' = [init EXCEPT !.at = "done"]
            /\ exit' = [exit EXCEPT ![Main] =
                          [at |-> "stop", core |-> NCores - 1, excp |-> FALSE]]
       ELSE /\ init' = [init EXCEPT !.at = "spin"]
            /\ exit' = exit
    /\ UNCHANGED <<use_current, workerVars, pit, sched, uninit, main_exit,
                   reached, over>>

(***************************************************************************)
(* The thread of a core.                                                   *)
(***************************************************************************)

(* One step of the thread of c to place p that touches nothing else. *)
Goto(c, p) == at' = [at EXCEPT ![c] = p]

(* prs_pal_thread_local_init: affinity, priority and signals. *)
LocalInit(c) ==
    /\ at[c] = "created"
    /\ Goto(c, "start")
    /\ unblocked' = SignalUnblock(c, {"INT"})
    /\ UNCHANGED <<initVars, sem, sig, flags, task, waiting, tasked,
                   pit, exitVars>>

(* prs_pal_thread_entry: the new thread sleeps until it is started. *)
ThreadEntry(c) ==
    /\ at[c] = "start" /\ sem[c] > 0
    /\ sem' = [sem EXCEPT ![c] = @ - 1]
    /\ Goto(c, "entry")
    /\ UNCHANGED <<initVars, sig, unblocked, flags, task, waiting, tasked, pit,
                   exitVars>>

(* prs_pal_excp_init_worker and prs_pal_excp_uninit_worker: only a thread  *)
(* that runs a worker takes the signals of exceptions.                     *)
ExcpInitWorker(c) == unblocked' = SignalUnblock(c, {"EXCP"})
ExcpUninitWorker(c) == unblocked' = SignalBlock(c, {"EXCP"})

(* prs_worker_entry: the worker's exceptions and its exit context. *)
WorkerInit(c) ==
    /\ at[c] = "entry"
    /\ Goto(c, "load")
    /\ ExcpInitWorker(c)
    /\ UNCHANGED <<initVars, sem, sig, flags, task, waiting, tasked, pit, exitVars>>

(* The loop of prs_worker_entry. *)
WorkerEntry(c) ==
    /\ at[c] = "load"
    /\ \/ "STOP" \in flags[c] /\ Goto(c, "exited") /\ ExcpUninitWorker(c)
       \/ "STOP" \notin flags[c] /\ Goto(c, "next") /\ UNCHANGED unblocked
    /\ UNCHANGED <<initVars, sem, sig, flags, task, waiting, tasked, pit, exitVars>>

(* Seeded fault: a task that gets the processor back does not see STOP. *)
CheckWithoutStop(c) ==
    /\ at[c] = "check"
    /\ flags' = [flags EXCEPT ![c] = @ \ {"PENDING"}]
    /\ Goto(c, IF "PENDING" \in flags[c] THEN "next" ELSE "cas")
    /\ UNCHANGED <<initVars, sem, sig, unblocked, task, waiting, tasked, pit,
                   exitVars>>

(* prs_worker_schedule_internal looks at the flags. *)
Check(c) ==
    /\ at[c] = "check"
    /\ flags' = [flags EXCEPT ![c] = @ \ {"PENDING"}]
    /\ Goto(c, IF "STOP" \in flags[c] THEN "load"
               ELSE IF "PENDING" \in flags[c] THEN "next" ELSE "cas")
    /\ UNCHANGED <<initVars, sem, sig, unblocked, task, waiting, tasked, pit,
                   exitVars>>

(* get_next: a task that was waiting in prs_uninit_wait may be resumed,    *)
(* another one may be, or there is nothing to run.                         *)
GetNext(c) ==
    /\ at[c] = "next"
    /\ \/ /\ c \in tasked
          /\ \E t \in {"run"} \cup (IF c \in waiting THEN {"spin"} ELSE {}) :
                task' = [task EXCEPT ![c] = t]
          /\ Goto(c, "check")
       \/ /\ c \notin waiting
          /\ task' = [task EXCEPT ![c] = "none"]
          /\ Goto(c, "idle")
    /\ UNCHANGED <<initVars, sem, sig, unblocked, flags, waiting, tasked, pit,
                   exitVars>>

(* prs_worker_idle: sleep unless a flag was raised in the meantime. *)
Idle(c) ==
    /\ at[c] = "idle"
    /\ IF flags[c] = {}
       THEN flags' = [flags EXCEPT ![c] = {"IDLE", "PENDING"}] /\ Goto(c, "suspend")
       ELSE flags' = flags /\ Goto(c, "check")
    /\ UNCHANGED <<initVars, sem, sig, unblocked, task, waiting, tasked, pit,
                   exitVars>>

(* prs_pal_thread_suspend returns. *)
WakeUp(c) ==
    /\ at[c] = "suspend" /\ sem[c] > 0
    /\ sem' = [sem EXCEPT ![c] = @ - 1]
    /\ Goto(c, "check")
    /\ UNCHANGED <<initVars, sig, unblocked, flags, task, waiting, tasked, pit,
                   exitVars>>

(* The end of prs_worker_task_prologue: back in the task, interruptible. *)
Prologue(c) ==
    /\ at[c] = "cas"
    /\ IF flags[c] = {}
       THEN /\ flags' = [flags EXCEPT ![c] = {"INTERRUPTIBLE"}]
            /\ Goto(c, IF task[c] = "spin" THEN "spin" ELSE "user")
       ELSE flags' = flags /\ Goto(c, "check")
    /\ UNCHANGED <<initVars, sem, sig, unblocked, task, waiting, tasked, pit,
                   exitVars>>

(* The task calls PRS: prs_worker_int_disable. *)
Call(c) ==
    /\ at[c] = "user"
    /\ flags' = [flags EXCEPT ![c] = @ \ {"INTERRUPTIBLE"}]
    /\ Goto(c, "prs")
    /\ UNCHANGED <<initVars, sem, sig, unblocked, task, waiting, tasked, pit,
                   exitVars>>

(* The call returns (prs_worker_int_enable) or gives up the processor. *)
Return(c) ==
    /\ at[c] = "prs"
    /\ Goto(c, "check") \/ Goto(c, "next")
    /\ UNCHANGED <<initVars, sem, sig, unblocked, flags, task, waiting, tasked,
                   pit, exitVars>>

(* The task is in code that is no loaded process's text, such as libc. *)
Foreign(c) ==
    /\ at[c] = "user" /\ Goto(c, "foreign")
    /\ UNCHANGED <<initVars, sem, sig, unblocked, flags, task, waiting, tasked,
                   pit, exitVars>>

ForeignReturn(c) ==
    /\ at[c] = "foreign" /\ Goto(c, "user")
    /\ UNCHANGED <<initVars, sem, sig, unblocked, flags, task, waiting, tasked,
                   pit, exitVars>>

(* prs_pal_thread_sighandler: in interruptible text, the task is made to   *)
(* call the prologue.                                                      *)
Interrupted(c) ==
    /\ sig[c] /\ "INT" \in unblocked[c]
    /\ sig' = [sig EXCEPT ![c] = FALSE]
    /\ IF at[c] \in {"user", "spin"}
       THEN /\ flags' = [flags EXCEPT ![c] = @ \ {"INTERRUPTIBLE"}]
            /\ Goto(c, "check")
       ELSE UNCHANGED <<flags, at>>
    /\ UNCHANGED <<initVars, sem, unblocked, task, waiting, tasked, pit,
                   exitVars>>

(* prs_worker_post with interrupt set, in one step: what it does to the    *)
(* flags, and whether it resumes the thread or has to signal it.           *)
Resumes(d) == "IDLE" \in flags[d]
Signals(d) == flags[d] \cap {"INTERRUPTIBLE", "PENDING"} = {"INTERRUPTIBLE"}
Posted(d) == (flags[d] \cup {"PENDING"}) \ {"IDLE"}
Resume(d) == sem' = [sem EXCEPT ![d] = IF Resumes(d) THEN @ + 1 ELSE @]

(* A task of core d is made ready, by a call on core c or by the clock.    *)
Ready(d) ==
    /\ sched[d].worker /\ sched[d].destroys = 0
    /\ \/ \E c \in Cores : at[c] = "prs"
       \/ Ticks /\ d \in tasked /\ init.at \in {"serve", "done"}
    /\ tasked' = tasked \cup {d}
    /\ flags' = [flags EXCEPT ![d] = Posted(d)]
    /\ sig' = [sig EXCEPT ![d] = @ \/ Signals(d)]
    /\ Resume(d)
    /\ UNCHANGED <<initVars, at, unblocked, task, waiting, pit, exitVars>>

(* The timer's thread: it ticks until exit_sem is posted. *)
PitEntry ==
    /\ pit.at = "start"
    /\ pit' = InitTimer(pit)
    /\ UNCHANGED <<initVars, workerVars, exitVars>>

PitExit ==
    /\ Ticks /\ pit.exit_sem > 0
    /\ pit' = UninitTimer([pit EXCEPT !.exit_sem = @ - 1])
    /\ UNCHANGED <<initVars, workerVars, exitVars>>

(***************************************************************************)
(* prs_uninit, by a task, by an exception, or by Main for another core.    *)
(***************************************************************************)

Own(x) == IF x = Main THEN 0 ELSE x

Step(x, p) == exit' = [exit EXCEPT ![x].at = p]

(* prs_exit and prs_exit_from_excp, called by the task of core c. *)
ExitBy(c, excp) ==
    /\ Goto(c, "exit")
    /\ exit' = [exit EXCEPT ![c] = [at |-> "uninit", core |-> @.core, excp |-> excp]]
Exit(c) == ExitBy(c, FALSE)
ExitFromExcp(c) == ExitBy(c, TRUE)

(* pr_system_exit, which disables interrupts and calls prs_exit. *)
CallExit(c) ==
    /\ at[c] = "prs" /\ task[c] = "run"
    /\ Exit(c)
    /\ UNCHANGED <<initVars, sem, sig, unblocked, flags, task, waiting,
                   tasked, pit, sched, uninit, main_exit, reached, over>>

(* prs_pal_excp_sighandler: the exception a signal stands for.  A fault on *)
(* the guard pages of the task's stack is an overflow.                     *)
ExcpType(signo, on_stack) ==
    CASE signo = "SIGFPE" -> "FLOATING_POINT"
      [] signo = "SIGBUS" -> "BUS"
      [] signo = "SIGILL" -> "ILLEGAL_INSTRUCTION"
      [] signo = "SIGSEGV" -> IF on_stack THEN "STACK_OVERFLOW"
                              ELSE "SEGMENTATION_FAULT"
      [] signo = "SIGSYS" -> "OS"

(* prs_excp_default_handler for a signal in a task; text is whether the    *)
(* address that comes with it is in a loaded process.                      *)
DefaultHandler(excp, text, grown) ==
    CASE excp = "OS" -> "EXIT"
      [] excp = "STACK_OVERFLOW" -> IF grown THEN "CONTINUE" ELSE "EXIT"
      [] OTHER -> IF text THEN "KILL_TASK" ELSE "EXIT"

(* prs_pal_signal_action: no signal gets through while a handler runs. *)
SignalAction(c) == unblocked' = [unblocked EXCEPT ![c] = {}]

(* A signal whose outcome is to exit: prs_exit_from_excp, in the handler,  *)
(* with INTERRUPTIBLE still set.  (A stack that grows changes nothing      *)
(* here; what follows when the task is killed is not modelled.)            *)
Raise(c) ==
    /\ at[c] \in {"user", "foreign"} /\ "EXCP" \in unblocked[c]
    /\ \E signo \in {"SIGFPE", "SIGBUS", "SIGILL", "SIGSEGV", "SIGSYS"} :
         \E on_stack, text, grown \in BOOLEAN :
            DefaultHandler(ExcpType(signo, on_stack), text, grown) = "EXIT"
    /\ SignalAction(c)
    /\ ExitFromExcp(c)
    /\ UNCHANGED <<initVars, sem, sig, flags, task, waiting, tasked, pit,
                   sched, uninit, main_exit, reached, over>>

(* prs_uninit_wait: enable interrupts and spin. *)
UninitWait(x) ==
    /\ Step(x, "none")
    /\ Goto(x, "check")
    /\ task' = [task EXCEPT ![x] = "spin"]
    /\ waiting' = waiting \cup {x}

(* Only the first caller goes on; a later one waits to be stopped, or      *)
(* exits at once if it is an exception.                                    *)
Uninit(x) ==
    /\ exit[x].at = "uninit"
    /\ uninit' = TRUE
    /\ \/ /\ ~uninit
          /\ Step(x, "clock")
          /\ UNCHANGED workerVars
       \/ /\ uninit /\ exit[x].excp
          /\ Step(x, "fast")
          /\ UNCHANGED workerVars
       \/ /\ uninit /\ ~exit[x].excp
          /\ UninitWait(x)
          /\ UNCHANGED <<sem, sig, unblocked, flags, tasked>>
    /\ UNCHANGED <<initVars, pit, sched, main_exit, reached, over>>

(* prs_sched_destroy of core c. *)
Destroyed(c) == sched' = [sched EXCEPT ![c].destroys = @ + 1]

(* prs_clock_uninit, then the choice between finishing the exit here and   *)
(* leaving it to Main, whose scheduler is destroyed without being stopped. *)
UninitClock(x) ==
    /\ exit[x].at = "clock"
    /\ ClockUninit
    /\ IF ~exit[x].excp /\ use_current /\ x # 0
       THEN /\ main_exit' = TRUE
            /\ Destroyed(0)
            /\ UninitWait(x)
            /\ UNCHANGED <<sem, sig, unblocked, flags, tasked>>
       ELSE /\ exit' = [exit EXCEPT ![x] =
                          [at |-> "stop", core |-> NCores - 1, excp |-> @.excp]]
            /\ UNCHANGED <<workerVars, sched, main_exit>>
    /\ UNCHANGED <<initVars, uninit, reached, over>>

(* What follows core c in one of prs_uninit_final's two loops. *)
Following(x, c, here, after) ==
    exit' = [exit EXCEPT ![x] =
        [at |-> IF c > 0 THEN here ELSE after,
         core |-> IF c > 0 THEN c - 1 ELSE NCores - 1,
         excp |-> @.excp]]
NextStop(x) == Following(x, exit[x].core, "stop", "destroy")

(* The calling thread's own scheduler is skipped. *)
SkipOwn(x) ==
    /\ exit[x].core = Own(x)
    /\ \/ exit[x].at = "stop" /\ NextStop(x)
       \/ exit[x].at = "destroy" /\ Following(x, exit[x].core, "destroy", "fast")
    /\ UNCHANGED <<initVars, workerVars, pit, sched, uninit, main_exit,
                   reached, over>>

(* prs_worker_stop raises STOP ... *)
StopFlag(x) ==
    LET d == exit[x].core IN
    /\ exit[x].at = "stop" /\ d # Own(x)
    /\ flags' = [flags EXCEPT ![d] = @ \cup {"STOP"}]
    /\ Step(x, "post")
    /\ UNCHANGED <<initVars, at, sem, sig, unblocked, task, waiting, tasked, pit,
                   sched, uninit, main_exit, reached, over>>

(* ... interrupts the worker, and joins it only if that was possible. *)
StopPost(x) ==
    LET d == exit[x].core IN
    /\ exit[x].at = "post"
    /\ flags' = [flags EXCEPT ![d] = Posted(d)]
    /\ Resume(d)
    /\ reached' = IF Resumes(d) THEN reached \cup {d} ELSE reached
    /\ IF Resumes(d) THEN Step(x, "join")
       ELSE IF Signals(d) THEN Step(x, "kill") ELSE NextStop(x)
    /\ UNCHANGED <<initVars, at, sig, unblocked, task, waiting, tasked, pit, sched,
                   uninit, main_exit, over>>

(* prs_pal_thread_interrupt, which may find that the thread has exited. *)
StopKill(x) ==
    LET d == exit[x].core IN
    /\ exit[x].at = "kill"
    /\ sig' = [sig EXCEPT ![d] = at[d] # "exited"]
    /\ \/ Step(x, "join") /\ reached' = reached \cup {d}
       \/ at[d] = "exited" /\ NextStop(x) /\ reached' = reached
    /\ UNCHANGED <<initVars, at, sem, unblocked, flags, task, waiting, tasked, pit,
                   sched, uninit, main_exit, over>>

(* Seeded fault: the join is not waited for. *)
StopJoinAtOnce(x) ==
    /\ exit[x].at = "join"
    /\ NextStop(x)
    /\ UNCHANGED <<initVars, workerVars, pit, sched, uninit, main_exit,
                   reached, over>>

(* prs_pal_thread_join: Main, entered in place, cannot be waited for. *)
StopJoin(x) ==
    LET d == exit[x].core IN
    /\ exit[x].at = "join"
    /\ at[d] = "exited" \/ (use_current /\ d = 0)
    /\ NextStop(x)
    /\ UNCHANGED <<initVars, workerVars, pit, sched, uninit, main_exit,
                   reached, over>>

Destroy(x) ==
    LET d == exit[x].core IN
    /\ exit[x].at = "destroy" /\ d # Own(x)
    /\ Destroyed(d)
    /\ Following(x, d, "destroy", "fast")
    /\ UNCHANGED <<initVars, workerVars, pit, uninit, main_exit, reached, over>>

(* prs_pal_exit. *)
PalExit == over' = TRUE

(* The logs are flushed and prs_fast_exit leaves the process. *)
FastExit(x) ==
    /\ exit[x].at = "fast"
    /\ PalExit
    /\ UNCHANGED <<initVars, workerVars, pit, sched, uninit, main_exit, exit,
                   reached>>

(***************************************************************************)
(* The specification.                                                      *)
(***************************************************************************)

(* The steps a worker's thread takes by itself. *)
Worker(c) ==
    \/ LocalInit(c) \/ ThreadEntry(c) \/ WorkerInit(c) \/ WorkerEntry(c)
    \/ Check(c) \/ GetNext(c)
    \/ Idle(c) \/ WakeUp(c) \/ Prologue(c) \/ Return(c)

Exiting(x) ==
    \/ Uninit(x) \/ UninitClock(x) \/ SkipOwn(x) \/ StopFlag(x)
    \/ StopPost(x) \/ StopKill(x) \/ StopJoin(x) \/ Destroy(x) \/ FastExit(x)

Initialising ==
    \/ InitClock \/ InitThread \/ InitSched \/ InitAddThread \/ InitTask
    \/ InitNextCore \/ InitStart \/ InitServed

Next ==
    /\ ~over
    /\ \/ Initialising
       \/ PitEntry \/ PitExit
       \/ \E c \in Cores :
             \/ Worker(c) \/ Interrupted(c) \/ Ready(c)
             \/ Call(c) \/ Foreign(c) \/ ForeignReturn(c)
             \/ CallExit(c) \/ Raise(c)
       \/ \E x \in Exiters : Exiting(x)

(* Threads run and signals are delivered.  A task leaves foreign code, and *)
(* calls PRS again and again: an interrupt that finds it in foreign code   *)
(* is dropped, so nothing else stops it.                                   *)
Fairness ==
    /\ WF_vars(~over /\ Initialising)
    /\ \A c \in Cores :
          /\ WF_vars(~over /\ Worker(c))
          /\ WF_vars(~over /\ Interrupted(c))
          /\ WF_vars(~over /\ ForeignReturn(c))
          /\ SF_vars(~over /\ Call(c))
    /\ \A x \in Exiters : WF_vars(~over /\ Exiting(x))

Spec == Init /\ [][Next]_vars /\ Fairness

(***************************************************************************)
(* Properties.                                                             *)
(***************************************************************************)

(* A worker that prs_worker_stop managed to interrupt has left its thread  *)
(* before prs_uninit_final destroys the scheduler it runs on.  (One that   *)
(* it could not interrupt is not joined and may still be running, and so   *)
(* may Main, which prs_pal_thread_join does not wait for.)                 *)
StoppedBeforeDestroyed ==
    \A c \in reached :
        sched[c].destroys > 0 /\ ~(use_current /\ c = 0) => at[c] = "exited"

(* STOP is never taken back: prs_worker_start, which clears the flags,     *)
(* comes before any stop, since the scheduler that has the first task is   *)
(* started last.                                                           *)
StopIsKept ==
    [][\A c \in Cores : "STOP" \in flags[c] => "STOP" \in flags'[c]]_vars

(* Once prs_exit or an exception begins to shut PRS down, the process ends *)
(* or the rest is left to Main: no join waits for ever.                    *)
ExitEndsOrIsDeferred == uninit ~> (over \/ main_exit)

(* prs_exit ends the process, whichever core it is called on. *)
ExitEnds == uninit ~> over

=============================================================================
