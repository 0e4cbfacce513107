---------------------------- MODULE SystemProofs ----------------------------
(***************************************************************************)
(* Start and exit of PRS on any number of cores: a worker that was reached *)
(* by prs_worker_stop has left its thread before its scheduler is          *)
(* destroyed, no scheduler is destroyed twice, and STOP is never taken     *)
(* back.                                                                   *)
(***************************************************************************)
EXTENDS System, TLAPS

(* prs_init has started every scheduler. *)
Started == init.at \in {"serve", "spin", "done"}

(* prs_sched_start has been called for core c. *)
CoreStarted(c) == Started \/ (init.at = "start" /\ c > init.core)

(* Where a thread is before it has a task. *)
Early == {"none", "created", "start", "entry", "load", "next", "idle", "suspend"}

(* Until the last scheduler, that of core 0, is started, no task runs:     *)
(* threads get no further than to sleep in prs_worker_idle, and nobody     *)
(* posts them.                                                             *)
EarlyCore(c) ==
    /\ at[c] \in Early
    /\ at[c] \in {"none", "created", "start"} \/ CoreStarted(c)
    /\ at[c] \in {"none", "created", "start"} /\ ~CoreStarted(c) => sem[c] = 0
    /\ \/ flags[c] = {}
       \/ at[c] = "suspend" /\ flags[c] = {"IDLE", "PENDING"}
       \/ c = 0 /\ flags[c] = {"PENDING"}

NothingRunsEarly ==
    ~Started =>
      /\ ~uninit /\ reached = {} /\ waiting = {} /\ tasked \subseteq {0}
      /\ \A c \in Cores : EarlyCore(c)

(* The flags of a worker tell where its thread is; a thread that has been  *)
(* resumed is about to find its semaphore posted, once.                    *)
FlagsTell(c) ==
    /\ "IDLE" \in flags[c] => at[c] = "suspend" /\ sem[c] = 0
    /\ at[c] = "suspend" => "PENDING" \in flags[c]
    /\ "INTERRUPTIBLE" \in flags[c] =>
         at[c] \in {"user", "foreign", "spin"} \/ (at[c] = "exit" /\ exit[c].excp)
    /\ sem[c] > 0 => at[c] \in {"none", "created", "start", "suspend"}
    /\ at[c] \in {"none", "created", "start"} => flags[c] \subseteq {"PENDING", "STOP"}
    /\ task[c] # "none" => c \in tasked
    /\ at[c] \in {"cas", "user", "foreign", "spin", "prs", "exit"} => c \in tasked
    /\ at[c] = "check" /\ c \notin tasked => flags[c] \cap {"PENDING", "STOP"} # {}

FlagsTellPlace == \A c \in Cores : FlagsTell(c)

(* The steps of prs_uninit and prs_uninit_final that only the first caller *)
(* takes, or Main for it; ...                                              *)
Final == {"clock", "stop", "post", "kill", "join", "destroy"}

(* ... and those before the first scheduler is destroyed, except Main's,   *)
(* which prs_uninit destroys when it defers the exit to Main.              *)
Stopping == Final \ {"destroy"}

(* One thread at a time is in prs_uninit_final, and it is there once. *)
OneExiter ==
    /\ \A x \in Exiters : exit[x].at \in Final => uninit
    /\ \A x, y \in Exiters :
         exit[x].at \in Final /\ exit[y].at \in Final => x = y
    /\ main_exit => /\ uninit /\ use_current
                    /\ \A x \in Cores : exit[x].at \notin Final
    /\ exit[Main].at # "none" =>
         /\ main_exit /\ init.at = "done"
         /\ exit[Main].at \in {"stop", "post", "kill", "join", "destroy", "fast"}
    /\ \A c \in Cores : exit[c].at # "none" <=> at[c] = "exit"
    /\ init.at = "serve" => use_current

(* The order of prs_uninit_final: every worker is stopped, then every      *)
(* scheduler is destroyed, from the last core to the first.                *)
ExitOrder ==
    /\ \A c \in reached :
         \/ at[c] = "exited" \/ (use_current /\ c = 0)
         \/ \E x \in Exiters : exit[x].at = "join" /\ exit[x].core = c
    /\ \A c \in Cores : sched[c].destroys > 0 =>
         /\ uninit
         /\ \/ main_exit /\ c = 0
            \/ \A x \in Exiters : exit[x].at \notin Stopping
    /\ \A c \in Cores, x \in Exiters :
         exit[x].at = "destroy" /\ c <= exit[x].core /\ sched[c].destroys > 0 =>
           c = 0 /\ x = Main
    /\ \A c \in Cores : init.at = "serve" /\ main_exit /\ sched[c].destroys > 0 => c = 0

(* The timer's thread is told to end once. *)
PitOnce ==
    pit.exit_sem > 0 => uninit /\ \A x \in Exiters : exit[x].at # "clock"

SystemInv ==
    /\ TypeOK
    /\ NothingRunsEarly
    /\ FlagsTellPlace
    /\ OneExiter
    /\ ExitOrder
    /\ PitOnce

-----------------------------------------------------------------------------

(* Cores and threads. *)
LEMMA CoreFacts ==
    /\ 0 \in Cores /\ NCores - 1 \in Cores
    /\ \A c \in Cores : c \in Nat /\ c <= NCores - 1 /\ (c > 0 => c - 1 \in Cores)
    /\ Main \notin Cores /\ Main \in Exiters /\ Cores \subseteq Exiters
    /\ \A x \in Exiters : x \in Cores \/ x = Main
    /\ \A x \in Exiters : Own(x) \in Cores
  BY SystemAssumption DEF Cores, Main, Exiters, Own

(* What a step of prs_uninit does to the locals of the calling thread and  *)
(* to nobody else's.                                                       *)
LEMMA StepEffect ==
    ASSUME exit \in [Exiters -> Exits], NEW x \in Exiters,
           NEW p \in ExitPlaces, Step(x, p)
    PROVE  /\ exit' \in [Exiters -> Exits]
           /\ \A y \in Exiters : y # x => exit'[y] = exit[y]
           /\ exit'[x].at = p /\ exit'[x].core = exit[x].core
           /\ exit'[x].excp = exit[x].excp
  BY DEF Step, Exits

(* A step of one of the two loops over the cores. *)
LEMMA FollowingEffect ==
    ASSUME exit \in [Exiters -> Exits], NEW x \in Exiters, NEW c \in Cores,
           NEW here \in ExitPlaces, NEW after \in ExitPlaces,
           Following(x, c, here, after)
    PROVE  /\ exit' \in [Exiters -> Exits]
           /\ \A y \in Exiters : y # x => exit'[y] = exit[y]
           /\ exit'[x].excp = exit[x].excp
           /\ c > 0 => exit'[x].at = here /\ exit'[x].core = c - 1
           /\ c = 0 => exit'[x].at = after /\ exit'[x].core = NCores - 1
  <1>1. CASE c > 0
    BY <1>1, CoreFacts DEF Following, Exits
  <1>2. CASE c = 0
    BY <1>2, CoreFacts DEF Following, Exits
  <1> QED
    BY <1>1, <1>2, CoreFacts

(* prs_exit and prs_exit_from_excp. *)
LEMMA ExitByEffect ==
    ASSUME exit \in [Exiters -> Exits], at \in [Cores -> Places],
           NEW c \in Cores, NEW excp \in BOOLEAN, ExitBy(c, excp)
    PROVE  /\ exit' \in [Exiters -> Exits] /\ at' \in [Cores -> Places]
           /\ \A y \in Exiters : y # c => exit'[y] = exit[y]
           /\ exit'[c].at = "uninit" /\ exit'[c].excp = excp
           /\ \A d \in Cores : d # c => at'[d] = at[d]
           /\ at'[c] = "exit"
  BY CoreFacts DEF ExitBy, Goto, Exits, ExitPlaces, Places

(* Main takes over an exit that was deferred to it. *)
LEMMA ServedEffect ==
    ASSUME exit \in [Exiters -> Exits], main_exit, InitServed
    PROVE  /\ exit' \in [Exiters -> Exits]
           /\ \A y \in Exiters : y # Main => exit'[y] = exit[y]
           /\ exit'[Main].at = "stop" /\ exit'[Main].core = NCores - 1
  <1>1. exit' = [exit EXCEPT ![Main] =
                   [at |-> "stop", core |-> NCores - 1, excp |-> FALSE]]
    BY Zenon DEF InitServed
  <1> QED
    BY <1>1, CoreFacts DEF Exits, ExitPlaces

(* The first caller of prs_uninit goes on to prs_uninit_final. *)
LEMMA FinalEffect ==
    ASSUME exit \in [Exiters -> Exits], NEW x \in Exiters,
           exit' = [exit EXCEPT ![x] =
                      [at |-> "stop", core |-> NCores - 1, excp |-> @.excp]]
    PROVE  /\ exit' \in [Exiters -> Exits]
           /\ \A y \in Exiters : y # x => exit'[y] = exit[y]
           /\ exit'[x].at = "stop" /\ exit'[x].core = NCores - 1
           /\ exit'[x].excp = exit[x].excp
  BY CoreFacts DEF Exits, ExitPlaces

(* prs_uninit_wait. *)
LEMMA WaitEffect ==
    ASSUME exit \in [Exiters -> Exits], at \in [Cores -> Places],
           task \in [Cores -> {"none", "run", "spin"}],
           NEW x \in Cores, UninitWait(x)
    PROVE  /\ exit' \in [Exiters -> Exits] /\ at' \in [Cores -> Places]
           /\ task' \in [Cores -> {"none", "run", "spin"}]
           /\ \A y \in Exiters : y # x => exit'[y] = exit[y]
           /\ exit'[x].at = "none" /\ exit'[x].excp = exit[x].excp
           /\ \A d \in Cores : d # x => at'[d] = at[d] /\ task'[d] = task[d]
           /\ at'[x] = "check" /\ task'[x] = "spin"
           /\ waiting' = waiting \cup {x}
  <1>1. "none" \in ExitPlaces /\ "check" \in Places
    BY DEF ExitPlaces, Places
  <1> QED
    BY <1>1, StepEffect, CoreFacts DEF UninitWait, Goto

(* prs_sched_destroy. *)
LEMMA DestroyedEffect ==
    ASSUME TypeOK, NEW c \in Cores, Destroyed(c)
    PROVE  /\ \A d \in Cores : d # c => sched'[d] = sched[d]
           /\ sched'[c].destroys = sched[c].destroys + 1
           /\ sched[c].destroys = 0 =>
                sched' \in [Cores -> [created : BOOLEAN, worker : BOOLEAN,
                                      destroys : 0 .. 1]]
  BY DEF TypeOK, Destroyed

(* The locals of a thread in prs_uninit. *)
LEMMA ExitFields ==
    ASSUME TypeOK, NEW x \in Exiters
    PROVE  exit[x].at \in ExitPlaces /\ exit[x].core \in Cores /\ exit[x].excp \in BOOLEAN
  BY DEF TypeOK, Exits

(* The two loops of prs_uninit_final. *)
LEMMA NextStopEffect ==
    ASSUME TypeOK, NEW x \in Exiters, NextStop(x)
    PROVE  /\ exit' \in [Exiters -> Exits]
           /\ \A y \in Exiters : y # x => exit'[y] = exit[y]
           /\ exit'[x].at \in {"stop", "destroy"} /\ exit'[x].excp = exit[x].excp
  <1>1. PICK c \in Cores : c = exit[x].core
    BY ExitFields
  <1>2. Following(x, c, "stop", "destroy") /\ exit \in [Exiters -> Exits]
    BY <1>1 DEF NextStop, TypeOK
  <1>3. "stop" \in ExitPlaces /\ "destroy" \in ExitPlaces /\ (c > 0 \/ c = 0)
    BY CoreFacts DEF ExitPlaces
  <1> QED
    BY <1>2, <1>3, FollowingEffect

(* The loop that destroys the schedulers. *)
LEMMA NextDestroyEffect ==
    ASSUME TypeOK, NEW x \in Exiters, NEW c \in Cores,
           Following(x, c, "destroy", "fast")
    PROVE  /\ exit' \in [Exiters -> Exits]
           /\ \A y \in Exiters : y # x => exit'[y] = exit[y]
           /\ \/ exit'[x].at = "destroy" /\ exit'[x].core = c - 1
              \/ exit'[x].at = "fast"
           /\ exit'[x].excp = exit[x].excp
  <1>1. exit \in [Exiters -> Exits] /\ "destroy" \in ExitPlaces /\ "fast" \in ExitPlaces
    BY DEF TypeOK, ExitPlaces
  <1>2. c > 0 \/ c = 0
    BY CoreFacts
  <1> QED
    BY <1>1, <1>2, FollowingEffect

(* Steps that leave the workers alone leave FlagsTell alone. *)
LEMMA FlagsFrame ==
    ASSUME FlagsTellPlace, UNCHANGED <<at, flags, sem, task>>, tasked' = tasked,
           \A y \in Exiters : exit'[y].excp = exit[y].excp
    PROVE  FlagsTellPlace'
  BY CoreFacts DEF FlagsTellPlace, FlagsTell

(* prs_init and the timer keep FlagsTellPlace. *)
LEMMA FlagsInit ==
    ASSUME SystemInv, Initialising \/ PitEntry \/ PitExit
    PROVE  FlagsTellPlace'
  <1> USE DEF SystemInv
  <1>1. CASE InitClock
    BY <1>1, FlagsFrame DEF InitClock, workerVars, exitVars
  <1>2. CASE InitThread
    BY <1>2, CoreFacts DEF TypeOK, FlagsTellPlace, FlagsTell, InitThread,
         exitVars, NothingRunsEarly, EarlyCore, Started, CoreStarted, Early
  <1>3. CASE InitSched
    BY <1>3, FlagsFrame DEF InitSched, workerVars, exitVars
  <1>4. CASE InitAddThread
    BY <1>4, FlagsFrame DEF InitAddThread, workerVars, exitVars
  <1>5. CASE InitTask
    BY <1>5, CoreFacts DEF TypeOK, FlagsTellPlace, FlagsTell, InitTask,
         exitVars, NothingRunsEarly, EarlyCore, Started, CoreStarted, Early
  <1>6. CASE InitNextCore
    BY <1>6, FlagsFrame DEF InitNextCore, workerVars, exitVars
  <1>7. CASE InitStart
    BY <1>7, CoreFacts DEF TypeOK, FlagsTellPlace, FlagsTell, InitStart,
         SchedStart, StartWorker, ThreadStart, SignalUnblock, SignalInit,
         exitVars, NothingRunsEarly, EarlyCore, Started, CoreStarted, Early
  <1>8. CASE InitServed
    <2>1. \A y \in Cores : exit'[y].excp = exit[y].excp
      BY Zenon, <1>8, ServedEffect, CoreFacts DEF InitServed, TypeOK
    <2> QED
      BY <1>8, <2>1 DEF FlagsTellPlace, FlagsTell, InitServed, workerVars
  <1>9. CASE PitEntry
    BY <1>9, FlagsFrame DEF PitEntry, workerVars, exitVars
  <1>10. CASE PitExit
    BY <1>10, FlagsFrame DEF PitExit, workerVars, exitVars
  <1> QED
    BY <1>1, <1>2, <1>3, <1>4, <1>5, <1>6, <1>7, <1>8, <1>9, <1>10 DEF
       Initialising

(* The steps of a worker keep FlagsTellPlace. *)
LEMMA FlagsWorker ==
    ASSUME SystemInv, NEW c \in Cores, Worker(c)
    PROVE  FlagsTellPlace'
  <1> USE DEF SystemInv
  <1>1. CASE LocalInit(c)
    BY <1>1 DEF TypeOK, FlagsTellPlace, FlagsTell, LocalInit, Goto,
         SignalUnblock, SignalInit, exitVars
  <1>2. CASE ThreadEntry(c)
    BY <1>2 DEF TypeOK, FlagsTellPlace, FlagsTell, ThreadEntry, Goto,
         exitVars
  <1>3. CASE WorkerInit(c)
    BY <1>3 DEF TypeOK, FlagsTellPlace, FlagsTell, WorkerInit, Goto,
         ExcpInitWorker, SignalUnblock, SignalInit, exitVars
  <1>4. CASE WorkerEntry(c)
    BY <1>4 DEF TypeOK, FlagsTellPlace, FlagsTell, WorkerEntry, Goto,
         ExcpUninitWorker, SignalBlock, SignalInit, exitVars
  <1>5. CASE Check(c)
    BY <1>5 DEF TypeOK, FlagsTellPlace, FlagsTell, Check, Goto, exitVars
  <1>6. CASE GetNext(c)
    BY <1>6 DEF TypeOK, FlagsTellPlace, FlagsTell, GetNext, Goto, exitVars
  <1>7. CASE Idle(c)
    <2>1. FlagsTell(c) /\ at[c] = "idle"
      BY <1>7 DEF FlagsTellPlace, Idle
    <2>2. "IDLE" \notin flags[c] /\ "INTERRUPTIBLE" \notin flags[c] /\ ~(sem[c] > 0)
      BY <2>1 DEF FlagsTell
    <2>3. flags[c] # {} => flags[c] \cap {"PENDING", "STOP"} # {}
      BY <2>2 DEF TypeOK, WorkerFlags
    <2>4. sem[c] = 0
      BY <2>2 DEF TypeOK
    <2>5. FlagsTell(c)'
      BY <1>7, <2>1, <2>2, <2>3, <2>4 DEF TypeOK, FlagsTell, Idle, Goto
    <2>6. \A d \in Cores : d # c => FlagsTell(d)'
      BY <1>7 DEF TypeOK, FlagsTellPlace, FlagsTell, Idle, Goto, exitVars
    <2> QED
      BY <2>5, <2>6 DEF FlagsTellPlace
  <1>8. CASE WakeUp(c)
    BY <1>8 DEF TypeOK, FlagsTellPlace, FlagsTell, WakeUp, Goto, exitVars
  <1>9. CASE Prologue(c)
    BY <1>9 DEF TypeOK, FlagsTellPlace, FlagsTell, Prologue, Goto, exitVars
  <1>10. CASE Return(c)
    BY <1>10 DEF TypeOK, FlagsTellPlace, FlagsTell, Return, Goto, exitVars
  <1> QED
    BY <1>1, <1>2, <1>3, <1>4, <1>5, <1>6, <1>7, <1>8, <1>9, <1>10 DEF Worker

(* What tasks and signals do keeps FlagsTellPlace. *)
LEMMA FlagsTask ==
    ASSUME SystemInv, NEW c \in Cores,
           \/ Interrupted(c) \/ Ready(c) \/ Call(c) \/ Foreign(c)
           \/ ForeignReturn(c) \/ CallExit(c) \/ Raise(c)
    PROVE  FlagsTellPlace'
  <1> USE DEF SystemInv
  <1>1. CASE Interrupted(c)
    BY <1>1 DEF TypeOK, FlagsTellPlace, FlagsTell, Interrupted, Goto,
         exitVars
  <1>2. CASE Ready(c)
    BY <1>2 DEF TypeOK, FlagsTellPlace, FlagsTell, Ready, Ticks, Posted,
         Signals, Resume, Resumes, exitVars
  <1>3. CASE Call(c)
    BY <1>3 DEF TypeOK, FlagsTellPlace, FlagsTell, Call, Goto, exitVars
  <1>4. CASE Foreign(c)
    BY <1>4 DEF TypeOK, FlagsTellPlace, FlagsTell, Foreign, Goto, exitVars
  <1>5. CASE ForeignReturn(c)
    BY <1>5 DEF TypeOK, FlagsTellPlace, FlagsTell, ForeignReturn, Goto,
         exitVars
  <1>6. CASE CallExit(c)
    <2>1. /\ \A y \in Cores : y # c => exit'[y] = exit[y] /\ at'[y] = at[y]
          /\ at'[c] = "exit" /\ exit'[c].excp = FALSE
      BY ZenonT(40), <1>6, ExitByEffect, CoreFacts DEF TypeOK, CallExit, Exit
    <2> QED
      BY <1>6, <2>1 DEF FlagsTellPlace, FlagsTell, CallExit
  <1>7. CASE Raise(c)
    <2>1. /\ \A y \in Cores : y # c => exit'[y] = exit[y] /\ at'[y] = at[y]
          /\ at'[c] = "exit" /\ exit'[c].excp = TRUE
      BY ZenonT(40), <1>7, ExitByEffect, CoreFacts DEF TypeOK, Raise, ExitFromExcp
    <2> QED
      BY <1>7, <2>1 DEF FlagsTellPlace, FlagsTell, Raise
  <1> QED
    BY <1>1, <1>2, <1>3, <1>4, <1>5, <1>6, <1>7

(* The steps of prs_uninit keep FlagsTellPlace. *)
LEMMA FlagsExiting ==
    ASSUME SystemInv, NEW x \in Exiters, Exiting(x)
    PROVE  FlagsTellPlace'
  <1> USE DEF SystemInv
  <1>1. CASE Uninit(x)
    BY <1>1, StepEffect, FinalEffect, WaitEffect, CoreFacts DEF TypeOK,
         FlagsTellPlace, FlagsTell, Uninit, ExitPlaces, OneExiter, Final,
         workerVars
  <1>2. CASE UninitClock(x)
    BY <1>2, StepEffect, FinalEffect, WaitEffect, CoreFacts DEF TypeOK,
         FlagsTellPlace, FlagsTell, UninitClock, ExitPlaces, OneExiter, Final,
         workerVars
  <1>3. CASE SkipOwn(x)
    <2>1. \A y \in Exiters : exit'[y].excp = exit[y].excp
      BY <1>3, NextStopEffect, NextDestroyEffect, ExitFields DEF SkipOwn
    <2> QED
      BY <1>3, <2>1, FlagsFrame DEF SkipOwn, workerVars
  <1>4. CASE StopFlag(x)
    <2>0. PICK d \in Cores : d = exit[x].core
      BY ExitFields
    <2>1. \A y \in Exiters : exit'[y].excp = exit[y].excp
      BY <1>4, StepEffect, ExitFields DEF TypeOK, StopFlag, ExitPlaces
    <2>2. d \in Exiters
      BY CoreFacts
    <2>3. /\ flags'[d] = flags[d] \cup {"STOP"}
          /\ \A c \in Cores : c # d => flags'[c] = flags[c]
          /\ UNCHANGED <<at, sem, task, tasked>>
      BY <1>4, <2>0 DEF TypeOK, StopFlag
    <2>4. FlagsTell(d)'
      BY <2>1, <2>2, <2>3 DEF FlagsTellPlace, FlagsTell
    <2>5. \A c \in Cores : c # d => FlagsTell(c)'
      BY <2>1, <2>3, CoreFacts DEF FlagsTellPlace, FlagsTell
    <2> QED
      BY <2>4, <2>5 DEF FlagsTellPlace
  <1>5. CASE StopPost(x)
    <2>1. \A y \in Exiters : exit'[y].excp = exit[y].excp
      BY <1>5, NextStopEffect, StepEffect DEF TypeOK, StopPost, ExitPlaces
    <2> QED
      BY <1>5, <2>1, ExitFields, CoreFacts
         DEF TypeOK, FlagsTellPlace, FlagsTell, StopPost, Posted, Resume, Resumes
  <1>6. CASE StopKill(x)
    <2>1. \A y \in Exiters : exit'[y].excp = exit[y].excp
      BY <1>6, NextStopEffect, StepEffect DEF TypeOK, StopKill, ExitPlaces
    <2> QED
      BY <1>6, <2>1, FlagsFrame DEF StopKill
  <1>7. CASE StopJoin(x)
    <2>1. \A y \in Exiters : exit'[y].excp = exit[y].excp
      BY <1>7, NextStopEffect DEF StopJoin
    <2> QED
      BY <1>7, <2>1, FlagsFrame DEF StopJoin, workerVars
  <1>8. CASE Destroy(x)
    <2>1. \A y \in Exiters : exit'[y].excp = exit[y].excp
      BY <1>8, NextDestroyEffect, ExitFields DEF Destroy
    <2> QED
      BY <1>8, <2>1, FlagsFrame DEF Destroy, workerVars
  <1>9. CASE FastExit(x)
    BY <1>9, FlagsFrame DEF FastExit, workerVars, exitVars
  <1> QED
    BY <1>1, <1>2, <1>3, <1>4, <1>5, <1>6, <1>7, <1>8, <1>9 DEF Exiting

(* Every step keeps FlagsTellPlace. *)
LEMMA FlagsStep == SystemInv /\ Next => FlagsTellPlace'
  BY FlagsInit, FlagsWorker, FlagsTask, FlagsExiting DEF Next

(* Before every scheduler is started, nobody exits. *)
LEMMA NoExitEarly ==
    ASSUME NothingRunsEarly, OneExiter, ~Started
    PROVE  \A x \in Exiters : exit[x].at = "none"
  BY CoreFacts DEF NothingRunsEarly, EarlyCore, OneExiter, Early

(* A step of one thread disturbs nobody else.  A thread past the start of  *)
(* its worker is not that of core 0.                                       *)
LEMMA EarlyFrame ==
    ASSUME NothingRunsEarly, TypeOK, NEW c \in Cores,
           UNCHANGED <<init, uninit, reached, waiting, tasked>>,
           \A d \in Cores : d # c => at'[d] = at[d] /\ sem'[d] = sem[d]
                                       /\ flags'[d] = flags[d],
           ASSUME ~Started, EarlyCore(c), CoreStarted(c) => c # 0 /\ c \notin tasked
           PROVE  EarlyCore(c)'
    PROVE  NothingRunsEarly'
  <1> SUFFICES ASSUME ~Started PROVE NothingRunsEarly'
    BY DEF NothingRunsEarly, Started
  <1>1. \A d \in Cores : EarlyCore(d)
    BY DEF NothingRunsEarly
  <1>2. CoreStarted(c) => c # 0 /\ c \notin tasked
    <2>1. init.core \in Cores
      BY DEF TypeOK
    <2>2. init.core \in Nat /\ c \in Nat
      BY <2>1, CoreFacts
    <2>3. CoreStarted(c) => c # 0
      BY <2>2 DEF CoreStarted
    <2> QED
      BY <2>3 DEF NothingRunsEarly
  <1>3. EarlyCore(c)'
    BY <1>1, <1>2
  <1>4. \A d \in Cores : d # c => EarlyCore(d)'
    BY <1>1 DEF EarlyCore, CoreStarted, Started
  <1> QED
    BY <1>3, <1>4 DEF NothingRunsEarly, Started

(* prs_init and the timer keep NothingRunsEarly. *)
LEMMA EarlyInit ==
    ASSUME SystemInv, Initialising \/ PitEntry \/ PitExit
    PROVE  NothingRunsEarly'
  <1> USE DEF SystemInv
  <1>1. CASE InitClock
    BY <1>1, CoreFacts DEF TypeOK, NothingRunsEarly, EarlyCore, Started,
         CoreStarted, Early, InitClock, PitCreate, InitTimer, workerVars,
         exitVars
  <1>2. CASE InitThread
    BY <1>2, CoreFacts DEF TypeOK, NothingRunsEarly, EarlyCore, Started,
         CoreStarted, Early, InitThread, workerVars, exitVars
  <1>3. CASE InitSched
    BY <1>3, CoreFacts DEF TypeOK, NothingRunsEarly, EarlyCore, Started,
         CoreStarted, Early, InitSched, workerVars, exitVars
  <1>4. CASE InitAddThread
    BY <1>4, CoreFacts DEF TypeOK, NothingRunsEarly, EarlyCore, Started,
         CoreStarted, Early, InitAddThread, workerVars, exitVars
  <1>5. CASE InitTask
    BY <1>5, CoreFacts DEF TypeOK, NothingRunsEarly, EarlyCore, Started,
         CoreStarted, Early, InitTask, workerVars, exitVars
  <1>6. CASE InitNextCore
    BY <1>6, CoreFacts DEF TypeOK, NothingRunsEarly, EarlyCore, Started,
         CoreStarted, Early, InitNextCore, workerVars, exitVars
  <1>7. CASE InitStart
    <2> SUFFICES ASSUME ~Started, ~Started' PROVE NothingRunsEarly'
      BY <1>7 DEF NothingRunsEarly, InitStart, Started
    <2>0. PICK c \in Cores : c = init.core
      BY DEF TypeOK
    <2>1. /\ c > 0 /\ init.at = "start" /\ init' = [init EXCEPT !.core = c - 1]
          /\ UNCHANGED <<exitVars, task, waiting, tasked>>
      BY <1>7, <2>0 DEF InitStart, Started, TypeOK
    <2>9. init'.at = "start" /\ init'.core = c - 1 /\ \A d \in Cores : d \in Int
      BY <2>1, CoreFacts DEF TypeOK
    <2>2. /\ flags'[c] = {} /\ at' = at
          /\ \A d \in Cores : d # c => flags'[d] = flags[d] /\ sem'[d] = sem[d]
      BY <1>7, <2>0, <2>1 DEF InitStart, SchedStart, StartWorker, ThreadStart, TypeOK
    <2>3. \A d \in Cores : d # c => (CoreStarted(d)' <=> CoreStarted(d))
      BY <2>0, <2>1, <2>9 DEF CoreStarted, Started
    <2>4. CoreStarted(c)' /\ ~CoreStarted(c)
      BY <2>0, <2>9 DEF CoreStarted
    <2>5. at[c] # "suspend" /\ at[c] \in Early
      BY <2>4 DEF NothingRunsEarly, EarlyCore
    <2>6. EarlyCore(c)'
      BY <2>2, <2>4, <2>5 DEF EarlyCore
    <2>7. \A d \in Cores : d # c => EarlyCore(d)'
      BY <2>2, <2>3 DEF NothingRunsEarly, EarlyCore
    <2> QED
      BY <2>1, <2>6, <2>7 DEF NothingRunsEarly, exitVars
  <1>8. CASE InitServed
    BY <1>8, CoreFacts DEF TypeOK, NothingRunsEarly, EarlyCore, Started,
         CoreStarted, Early, InitServed, NotExiting, workerVars, exitVars
  <1>9. CASE PitEntry
    BY <1>9 DEF TypeOK, NothingRunsEarly, EarlyCore, Started, CoreStarted,
         Early, PitEntry, initVars, workerVars, exitVars
  <1>10. CASE PitExit
    BY <1>10 DEF TypeOK, NothingRunsEarly, EarlyCore, Started, CoreStarted,
         Early, PitExit, initVars, workerVars, exitVars
  <1> QED
    BY <1>1, <1>2, <1>3, <1>4, <1>5, <1>6, <1>7, <1>8, <1>9, <1>10 DEF
       Initialising

(* The steps of a worker keep NothingRunsEarly. *)
LEMMA EarlyWorker ==
    ASSUME SystemInv, NEW c \in Cores, Worker(c)
    PROVE  NothingRunsEarly'
  <1> USE DEF SystemInv
  <1>1. CASE LocalInit(c)
    BY <1>1, CoreFacts DEF TypeOK, NothingRunsEarly, EarlyCore, Started,
         CoreStarted, Early, LocalInit, Goto, SignalUnblock, SignalInit,
         initVars, exitVars
  <1>2. CASE ThreadEntry(c)
    BY <1>2, CoreFacts DEF TypeOK, NothingRunsEarly, EarlyCore, Started,
         CoreStarted, Early, ThreadEntry, Goto, initVars, exitVars
  <1>3. CASE WorkerInit(c)
    BY <1>3, CoreFacts DEF TypeOK, NothingRunsEarly, EarlyCore, Started,
         CoreStarted, Early, WorkerInit, Goto, ExcpInitWorker, SignalUnblock,
         SignalInit, initVars, exitVars
  <1>4. CASE WorkerEntry(c)
    <2>1. ASSUME ~Started, EarlyCore(c), CoreStarted(c) => c # 0 /\ c \notin tasked
          PROVE  EarlyCore(c)'
      BY <1>4, <2>1 DEF TypeOK, EarlyCore, Early, CoreStarted, Started, WorkerEntry, Goto,
         initVars, exitVars, FlagsTellPlace, FlagsTell
    <2> QED
      BY Zenon, <1>4, <2>1, EarlyFrame DEF TypeOK, WorkerEntry, Goto, initVars, exitVars
  <1>5. CASE Check(c)
    BY <1>5 DEF NothingRunsEarly, EarlyCore, Started, Early, Check, initVars
  <1>6. CASE GetNext(c)
    <2>1. ASSUME ~Started, EarlyCore(c), CoreStarted(c) => c # 0 /\ c \notin tasked
          PROVE  EarlyCore(c)'
      BY <1>6, <2>1 DEF TypeOK, EarlyCore, Early, CoreStarted, Started, GetNext, Goto,
         initVars, exitVars, FlagsTellPlace, FlagsTell
    <2> QED
      BY Zenon, <1>6, <2>1, EarlyFrame DEF TypeOK, GetNext, Goto, initVars, exitVars
  <1>7. CASE Idle(c)
    <2>1. ASSUME ~Started, EarlyCore(c), CoreStarted(c) => c # 0 /\ c \notin tasked
          PROVE  EarlyCore(c)'
      BY <1>7, <2>1 DEF TypeOK, EarlyCore, Early, CoreStarted, Started, Idle, Goto,
         initVars, exitVars, FlagsTellPlace, FlagsTell
    <2> QED
      BY Zenon, <1>7, <2>1, EarlyFrame DEF TypeOK, Idle, Goto, initVars, exitVars
  <1>8. CASE WakeUp(c)
    <2>1. ASSUME ~Started, EarlyCore(c), CoreStarted(c) => c # 0 /\ c \notin tasked
          PROVE  EarlyCore(c)'
      BY <1>8, <2>1 DEF TypeOK, EarlyCore, Early, CoreStarted, Started, WakeUp, Goto,
         initVars, exitVars, FlagsTellPlace, FlagsTell
    <2> QED
      BY Zenon, <1>8, <2>1, EarlyFrame DEF TypeOK, WakeUp, Goto, initVars, exitVars
  <1>9. CASE Prologue(c)
    BY <1>9 DEF NothingRunsEarly, EarlyCore, Started, Early, Prologue, initVars
  <1>10. CASE Return(c)
    BY <1>10 DEF NothingRunsEarly, EarlyCore, Started, Early, Return, initVars
  <1> QED
    BY <1>1, <1>2, <1>3, <1>4, <1>5, <1>6, <1>7, <1>8, <1>9, <1>10 DEF Worker

(* What tasks and signals do keeps NothingRunsEarly. *)
LEMMA EarlyTask ==
    ASSUME SystemInv, NEW c \in Cores,
           \/ Interrupted(c) \/ Ready(c) \/ Call(c) \/ Foreign(c)
           \/ ForeignReturn(c) \/ CallExit(c) \/ Raise(c)
    PROVE  NothingRunsEarly'
  <1> USE DEF SystemInv
  <1>1. CASE Interrupted(c)
    BY <1>1, CoreFacts DEF TypeOK, NothingRunsEarly, EarlyCore, Started,
         CoreStarted, Early, Interrupted, Goto, initVars, exitVars
  <1>2. CASE Ready(c)
    BY Zenon, <1>2, CoreFacts DEF TypeOK, NothingRunsEarly, EarlyCore, Started,
         CoreStarted, Early, Ready, Ticks, Posted, Signals, Resume, Resumes,
         initVars, exitVars
  <1>3. CASE Call(c)
    BY <1>3 DEF NothingRunsEarly, EarlyCore, Started, Early, Call, initVars
  <1>4. CASE Foreign(c)
    BY <1>4 DEF NothingRunsEarly, EarlyCore, Started, Early, Foreign, initVars
  <1>5. CASE ForeignReturn(c)
    BY <1>5 DEF NothingRunsEarly, EarlyCore, Started, Early, ForeignReturn, initVars
  <1>6. CASE CallExit(c)
    BY <1>6 DEF NothingRunsEarly, EarlyCore, Started, Early, CallExit, initVars
  <1>7. CASE Raise(c)
    BY <1>7 DEF NothingRunsEarly, EarlyCore, Started, Early, Raise, initVars
  <1> QED
    BY <1>1, <1>2, <1>3, <1>4, <1>5, <1>6, <1>7

(* The steps of prs_uninit keep NothingRunsEarly. *)
LEMMA EarlyExiting ==
    ASSUME SystemInv, NEW x \in Exiters, Exiting(x)
    PROVE  NothingRunsEarly'
  <1> USE DEF SystemInv
  <1>1. CASE Uninit(x)
    BY <1>1, NoExitEarly DEF NothingRunsEarly, Started, Uninit, initVars
  <1>2. CASE UninitClock(x)
    BY <1>2, NoExitEarly DEF NothingRunsEarly, Started, UninitClock, initVars
  <1>3. CASE SkipOwn(x)
    BY <1>3, NoExitEarly DEF NothingRunsEarly, Started, SkipOwn, initVars
  <1>4. CASE StopFlag(x)
    BY <1>4, NoExitEarly DEF NothingRunsEarly, Started, StopFlag, initVars
  <1>5. CASE StopPost(x)
    BY <1>5, NoExitEarly DEF NothingRunsEarly, Started, StopPost, initVars
  <1>6. CASE StopKill(x)
    BY <1>6, NoExitEarly DEF NothingRunsEarly, Started, StopKill, initVars
  <1>7. CASE StopJoin(x)
    BY <1>7, NoExitEarly DEF NothingRunsEarly, Started, StopJoin, initVars
  <1>8. CASE Destroy(x)
    BY <1>8, NoExitEarly DEF NothingRunsEarly, Started, Destroy, initVars
  <1>9. CASE FastExit(x)
    BY <1>9, NoExitEarly DEF NothingRunsEarly, Started, FastExit, initVars
  <1> QED
    BY <1>1, <1>2, <1>3, <1>4, <1>5, <1>6, <1>7, <1>8, <1>9 DEF Exiting

(* Every step keeps NothingRunsEarly. *)
LEMMA EarlyStep == SystemInv /\ Next => NothingRunsEarly'
  BY EarlyInit, EarlyWorker, EarlyTask, EarlyExiting DEF Next

(* A thread goes from one place to another. *)
LEMMA GotoType ==
    ASSUME TypeOK, NEW c \in Cores, NEW p \in Places, Goto(c, p)
    PROVE  at' \in [Cores -> Places]
  BY DEF TypeOK, Goto

(* Places by name. *)
LEMMA PlacesAre ==
    \A p \in {"load", "check", "next", "idle", "suspend", "cas", "user", "spin",
              "exited"} : p \in Places
  BY DEF Places

(* Type correctness: no scheduler is destroyed twice, and no semaphore is  *)
(* posted twice.                                                           *)
LEMMA TypeInit ==
    ASSUME SystemInv, Initialising \/ PitEntry \/ PitExit
    PROVE  TypeOK'
  <1> USE DEF SystemInv
  <1>1. CASE InitClock
    BY Zenon, <1>1, CoreFacts DEF TypeOK, InitClock, PitCreate, InitTimer,
         InitPlaces, initVars, workerVars, exitVars
  <1>2. CASE InitThread
    BY Zenon, <1>2, CoreFacts DEF TypeOK, InitThread, InitPlaces, Places, initVars,
         workerVars, exitVars
  <1>3. CASE InitSched
    <2>1. sched' \in [Cores -> [created : BOOLEAN, worker : BOOLEAN, destroys : 0 .. 1]]
      BY ZenonT(40), <1>3 DEF TypeOK, InitSched
    <2>2. init' \in [at : InitPlaces, core : Cores]
      BY <1>3 DEF TypeOK, InitSched, InitPlaces
    <2> QED
      BY <1>3, <2>1, <2>2 DEF TypeOK, InitSched, workerVars
  <1>4. CASE InitAddThread
    <2>1. sched' \in [Cores -> [created : BOOLEAN, worker : BOOLEAN, destroys : 0 .. 1]]
      BY ZenonT(40), <1>4 DEF TypeOK, InitAddThread
    <2>2. init' \in [at : InitPlaces, core : Cores]
      BY <1>4 DEF TypeOK, InitAddThread, InitPlaces
    <2> QED
      BY <1>4, <2>1, <2>2 DEF TypeOK, InitAddThread, workerVars
  <1>5. CASE InitTask
    <2>1. flags' \in [Cores -> SUBSET WorkerFlags]
      BY <1>5, CoreFacts DEF TypeOK, InitTask, WorkerFlags
    <2>2. init' \in [at : InitPlaces, core : Cores]
      BY <1>5 DEF TypeOK, InitTask, InitPlaces
    <2>3. waiting \subseteq {0}
      BY <1>5 DEF NothingRunsEarly, Started, InitTask
    <2> QED
      BY <1>5, <2>1, <2>2, <2>3, CoreFacts DEF TypeOK, InitTask, exitVars
  <1>6. CASE InitNextCore
    <2>1. init' \in [at : InitPlaces, core : Cores]
      <3>1. init.core \in Cores /\ init.core # NCores - 1 => init.core + 1 \in Cores
        BY SystemAssumption DEF Cores
      <3> QED
        BY <1>6, <3>1 DEF TypeOK, InitNextCore, InitPlaces
    <2> QED
      BY Zenon, <1>6, <2>1 DEF TypeOK, InitNextCore, workerVars
  <1>7. CASE InitStart
    <2>0. PICK c \in Cores : c = init.core
      BY DEF TypeOK
    <2>1. init' \in [at : InitPlaces, core : Cores]
      BY <1>7, CoreFacts DEF TypeOK, InitStart, InitPlaces
    <2>2. flags' \in [Cores -> SUBSET WorkerFlags]
      BY <1>7 DEF TypeOK, InitStart, SchedStart, StartWorker
    <2>3. sem[c] = 0
      <3>1. ~Started /\ ~CoreStarted(c)
        BY <1>7, <2>0, CoreFacts DEF Started, CoreStarted, InitStart
      <3> QED
        BY <3>1 DEF NothingRunsEarly, EarlyCore
    <2>4. sem' \in [Cores -> 0 .. 1]
      BY <1>7, <2>0, <2>3 DEF TypeOK, InitStart, SchedStart, StartWorker, ThreadStart
    <2>5. at' \in [Cores -> Places]
      BY <1>7 DEF TypeOK, InitStart, SchedStart, StartWorker, ThreadStart, Places
    <2>6. unblocked' \in [Cores -> SUBSET {"INT", "EXCP"}]
      BY <1>7, <2>0 DEF TypeOK, InitStart, SchedStart, StartWorker, ThreadStart,
         SignalUnblock, SignalInit
    <2> QED
      BY <1>7, <2>1, <2>2, <2>4, <2>5, <2>6 DEF TypeOK, InitStart, exitVars
  <1>8. CASE InitServed
    BY ZenonT(40), <1>8, CoreFacts, ServedEffect DEF TypeOK, InitServed, InitPlaces,
         initVars, workerVars, exitVars
  <1>9. CASE PitEntry
    BY Zenon, <1>9, CoreFacts DEF TypeOK, PitEntry, InitTimer, initVars, workerVars,
         exitVars
  <1>10. CASE PitExit
    <2>1. pit' \in [at : {"none", "start", "tick", "exited"}, exit_sem : 0 .. 1]
      <3> DEFINE p == [pit EXCEPT !.exit_sem = @ - 1]
      <3>1. p \in [at : {"none", "start", "tick", "exited"}, exit_sem : 0 .. 1]
        BY <1>10 DEF TypeOK, PitExit
      <3>2. pit' = [p EXCEPT !.at = "exited"]
        BY <1>10 DEF PitExit, UninitTimer
      <3> QED
        BY Zenon, <3>1, <3>2
    <2> QED
      BY <1>10, <2>1 DEF TypeOK, PitExit, initVars, workerVars, exitVars
  <1> QED
    BY <1>1, <1>2, <1>3, <1>4, <1>5, <1>6, <1>7, <1>8, <1>9, <1>10 DEF
       Initialising

(* The steps of a worker keep TypeOK. *)
LEMMA TypeWorker ==
    ASSUME SystemInv, NEW c \in Cores, Worker(c)
    PROVE  TypeOK'
  <1> USE DEF SystemInv
  <1>1. CASE LocalInit(c)
    BY <1>1, CoreFacts DEF TypeOK, LocalInit, Goto, SignalUnblock,
         SignalInit, Places, initVars, workerVars, exitVars
  <1>2. CASE ThreadEntry(c)
    BY <1>2, CoreFacts DEF TypeOK, ThreadEntry, Goto, Places, initVars,
         workerVars, exitVars
  <1>3. CASE WorkerInit(c)
    BY <1>3, CoreFacts DEF TypeOK, WorkerInit, Goto, ExcpInitWorker,
         SignalUnblock, SignalInit, Places, initVars, workerVars, exitVars
  <1>4. CASE WorkerEntry(c)
    <2>1. at' \in [Cores -> Places]
      BY <1>4, GotoType, PlacesAre DEF WorkerEntry
    <2>2. unblocked' \in [Cores -> SUBSET {"INT", "EXCP"}]
      BY <1>4 DEF TypeOK, WorkerEntry, ExcpUninitWorker, SignalBlock, SignalInit
    <2> QED
      BY <1>4, <2>1, <2>2 DEF TypeOK, WorkerEntry, initVars, exitVars
  <1>5. CASE Check(c)
    BY <1>5, CoreFacts DEF TypeOK, Check, Goto, Places, initVars, workerVars,
         exitVars
  <1>6. CASE GetNext(c)
    <2>1. at' \in [Cores -> Places]
      BY <1>6, GotoType, PlacesAre DEF GetNext
    <2>2. task' \in [Cores -> {"none", "run", "spin"}]
      BY Zenon, <1>6 DEF TypeOK, GetNext
    <2> QED
      BY <1>6, <2>1, <2>2 DEF TypeOK, GetNext, initVars, exitVars
  <1>7. CASE Idle(c)
    <2>1. at' \in [Cores -> Places]
      BY <1>7, GotoType, PlacesAre DEF Idle, TypeOK
    <2>2. flags' \in [Cores -> SUBSET WorkerFlags]
      BY <1>7 DEF TypeOK, Idle, WorkerFlags
    <2> QED
      BY <1>7, <2>1, <2>2 DEF TypeOK, Idle, initVars, exitVars
  <1>8. CASE WakeUp(c)
    BY <1>8, CoreFacts DEF TypeOK, WakeUp, Goto, Places, initVars,
         workerVars, exitVars
  <1>9. CASE Prologue(c)
    <2>1. at' \in [Cores -> Places]
      BY <1>9, GotoType, PlacesAre DEF Prologue, TypeOK
    <2>2. flags' \in [Cores -> SUBSET WorkerFlags]
      BY <1>9 DEF TypeOK, Prologue, WorkerFlags
    <2> QED
      BY <1>9, <2>1, <2>2 DEF TypeOK, Prologue, initVars, exitVars
  <1>10. CASE Return(c)
    <2>1. at' \in [Cores -> Places]
      BY <1>10, GotoType, PlacesAre DEF Return
    <2> QED
      BY <1>10, <2>1 DEF TypeOK, Return, initVars, exitVars
  <1> QED
    BY <1>1, <1>2, <1>3, <1>4, <1>5, <1>6, <1>7, <1>8, <1>9, <1>10 DEF Worker

(* What tasks and signals do keeps TypeOK. *)
LEMMA TypeTask ==
    ASSUME SystemInv, NEW c \in Cores,
           \/ Interrupted(c) \/ Ready(c) \/ Call(c) \/ Foreign(c)
           \/ ForeignReturn(c) \/ CallExit(c) \/ Raise(c)
    PROVE  TypeOK'
  <1> USE DEF SystemInv
  <1>1. CASE Interrupted(c)
    <2>1. at' \in [Cores -> Places]
      BY <1>1, GotoType, PlacesAre DEF Interrupted, TypeOK
    <2>2. flags' \in [Cores -> SUBSET WorkerFlags] /\ sig' \in [Cores -> BOOLEAN]
      BY <1>1 DEF TypeOK, Interrupted, WorkerFlags
    <2> QED
      BY <1>1, <2>1, <2>2 DEF TypeOK, Interrupted, initVars, exitVars
  <1>2. CASE Ready(c)
    BY <1>2, CoreFacts DEF TypeOK, Ready, Posted, Resume, Resumes, Signals,
         WorkerFlags, FlagsTellPlace, FlagsTell, initVars, workerVars,
         exitVars
  <1>3. CASE Call(c)
    BY <1>3, CoreFacts DEF TypeOK, Call, Goto, Places, initVars, workerVars,
         exitVars
  <1>4. CASE Foreign(c)
    BY <1>4, CoreFacts DEF TypeOK, Foreign, Goto, Places, initVars,
         workerVars, exitVars
  <1>5. CASE ForeignReturn(c)
    BY <1>5, CoreFacts DEF TypeOK, ForeignReturn, Goto, Places, initVars,
         workerVars, exitVars
  <1>6. CASE CallExit(c)
    BY Zenon, <1>6, CoreFacts, ExitByEffect DEF TypeOK, CallExit, Exit, Places,
         initVars, workerVars, exitVars
  <1>7. CASE Raise(c)
    BY ZenonT(40), <1>7, CoreFacts, ExitByEffect DEF TypeOK, Raise, ExitFromExcp,
         SignalAction, Places, initVars, workerVars, exitVars
  <1> QED
    BY <1>1, <1>2, <1>3, <1>4, <1>5, <1>6, <1>7

(* The steps of prs_uninit keep TypeOK. *)
LEMMA TypeExiting ==
    ASSUME SystemInv, NEW x \in Exiters, Exiting(x)
    PROVE  TypeOK'
  <1> USE DEF SystemInv
  <1>1. CASE Uninit(x)
    <2>0. x \in Cores /\ x \in tasked
      BY <1>1, CoreFacts DEF Uninit, OneExiter, FlagsTellPlace, FlagsTell
    <2>1. /\ exit' \in [Exiters -> Exits] /\ at' \in [Cores -> Places]
          /\ task' \in [Cores -> {"none", "run", "spin"}]
          /\ waiting' \subseteq tasked
      <3>1. /\ exit \in [Exiters -> Exits] /\ at \in [Cores -> Places]
            /\ task \in [Cores -> {"none", "run", "spin"}] /\ waiting \subseteq tasked
        BY DEF TypeOK
      <3>2. ASSUME NEW p \in {"clock", "fast"}, Step(x, p) PROVE exit' \in [Exiters -> Exits]
        BY <3>1, <3>2, StepEffect DEF ExitPlaces
      <3>3. CASE UninitWait(x)
        BY <2>0, <3>1, <3>3, WaitEffect
      <3> QED
        BY <1>1, <3>1, <3>2, <3>3 DEF Uninit, workerVars
    <2> QED
      BY <1>1, <2>1 DEF TypeOK, Uninit, initVars, workerVars
  <1>2. CASE UninitClock(x)
    <2>0. x \in Cores /\ x \in tasked /\ exit[x].at = "clock"
      BY <1>2, CoreFacts DEF UninitClock, OneExiter, FlagsTellPlace, FlagsTell
    <2>1. sched[0].destroys = 0
      <3>1. ~main_exit
        BY <2>0 DEF OneExiter, Final
      <3>2. ~(sched[0].destroys > 0)
        BY <2>0, <3>1, CoreFacts DEF ExitOrder, Stopping, Final
      <3> QED
        BY <3>2, CoreFacts DEF TypeOK
    <2>2. pit.exit_sem = 0
      BY <2>0, CoreFacts DEF PitOnce, TypeOK
    <2>3. pit' \in [at : {"none", "start", "tick", "exited"}, exit_sem : 0 .. 1]
      BY <1>2, <2>2 DEF TypeOK, UninitClock, ClockUninit, PitDestroy, UninitTimer
    <2>4. CASE ~exit[x].excp /\ use_current /\ x # 0
      <3>1. /\ exit' \in [Exiters -> Exits] /\ at' \in [Cores -> Places]
            /\ task' \in [Cores -> {"none", "run", "spin"}]
            /\ waiting' \subseteq tasked
        BY <1>2, <2>0, <2>4, WaitEffect DEF TypeOK, UninitClock
      <3>2. sched' \in [Cores -> [created : BOOLEAN, worker : BOOLEAN, destroys : 0 .. 1]]
        BY <1>2, <2>1, <2>4, DestroyedEffect, CoreFacts DEF UninitClock
      <3> QED
        BY <1>2, <2>3, <2>4, <3>1, <3>2 DEF TypeOK, UninitClock, initVars
    <2>5. CASE ~(~exit[x].excp /\ use_current /\ x # 0)
      BY <1>2, <2>3, <2>5, FinalEffect DEF TypeOK, UninitClock, initVars, workerVars
    <2> QED
      BY <2>4, <2>5
  <1>3. CASE SkipOwn(x)
    <2>1. exit' \in [Exiters -> Exits]
      BY <1>3, NextStopEffect, NextDestroyEffect, ExitFields DEF SkipOwn
    <2> QED
      BY <1>3, <2>1 DEF TypeOK, SkipOwn, initVars, workerVars
  <1>4. CASE StopFlag(x)
    <2>1. exit' \in [Exiters -> Exits]
      BY <1>4, StepEffect DEF TypeOK, StopFlag, ExitPlaces
    <2>2. flags' \in [Cores -> SUBSET WorkerFlags]
      BY <1>4, ExitFields DEF TypeOK, StopFlag, WorkerFlags
    <2> QED
      BY <1>4, <2>1, <2>2 DEF TypeOK, StopFlag, initVars
  <1>5. CASE StopPost(x)
    <2>0. PICK d \in Cores : d = exit[x].core
      BY ExitFields
    <2>1. exit' \in [Exiters -> Exits]
      BY <1>5, StepEffect, NextStopEffect DEF TypeOK, StopPost, ExitPlaces
    <2>2. flags' \in [Cores -> SUBSET WorkerFlags]
      BY <1>5, <2>0 DEF TypeOK, StopPost, Posted, WorkerFlags
    <2>3. Resumes(d) => sem[d] = 0
      BY DEF Resumes, FlagsTellPlace, FlagsTell
    <2>4. sem' \in [Cores -> 0 .. 1] /\ reached' \subseteq Cores
      BY <1>5, <2>0, <2>3 DEF TypeOK, StopPost, Resume
    <2> QED
      BY <1>5, <2>1, <2>2, <2>4 DEF TypeOK, StopPost, initVars
  <1>6. CASE StopKill(x)
    <2>1. exit' \in [Exiters -> Exits]
      BY <1>6, StepEffect, NextStopEffect DEF TypeOK, StopKill, ExitPlaces
    <2>2. sig' \in [Cores -> BOOLEAN] /\ reached' \subseteq Cores
      BY <1>6, ExitFields DEF TypeOK, StopKill
    <2> QED
      BY <1>6, <2>1, <2>2 DEF TypeOK, StopKill, initVars
  <1>7. CASE StopJoin(x)
    <2>1. exit' \in [Exiters -> Exits]
      BY <1>7, NextStopEffect DEF StopJoin
    <2> QED
      BY <1>7, <2>1 DEF TypeOK, StopJoin, initVars, workerVars
  <1>8. CASE Destroy(x)
    <2>0. PICK d \in Cores : d = exit[x].core
      BY ExitFields
    <2>1. exit' \in [Exiters -> Exits]
      BY <1>8, <2>0, NextDestroyEffect DEF Destroy
    <2>2. ~(sched[d].destroys > 0)
      <3>1. d <= d
        BY CoreFacts
      <3>2. exit[x].at = "destroy" /\ d # Own(x)
        BY <1>8, <2>0 DEF Destroy
      <3> QED
        BY <2>0, <3>1, <3>2 DEF ExitOrder, Own
    <2>3. sched[d].destroys = 0
      BY <2>2 DEF TypeOK
    <2>4. sched' \in [Cores -> [created : BOOLEAN, worker : BOOLEAN, destroys : 0 .. 1]]
      BY <1>8, <2>0, <2>3, DestroyedEffect DEF Destroy
    <2> QED
      BY <1>8, <2>1, <2>4 DEF TypeOK, Destroy, initVars, workerVars
  <1>9. CASE FastExit(x)
    BY <1>9, CoreFacts DEF TypeOK, FastExit, PalExit, ExitPlaces, initVars,
         workerVars, exitVars
  <1> QED
    BY <1>1, <1>2, <1>3, <1>4, <1>5, <1>6, <1>7, <1>8, <1>9 DEF Exiting

(* Every step keeps TypeOK. *)
LEMMA TypeStep == SystemInv /\ Next => TypeOK'
  BY TypeInit, TypeWorker, TypeTask, TypeExiting DEF Next

=============================================================================
