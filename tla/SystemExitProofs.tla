-------------------------- MODULE SystemExitProofs --------------------------
(***************************************************************************)
(* prs_uninit on any number of cores: one thread at a time is in           *)
(* prs_uninit_final, it stops every worker before it destroys a scheduler, *)
(* and with what SystemProofs shows this makes SystemInv inductive.        *)
(***************************************************************************)
EXTENDS SystemProofs

(* What prs_uninit relies on is out of reach of a thread that is in its    *)
(* worker, ...                                                             *)
LEMMA ExitFrame ==
    ASSUME TypeOK, OneExiter, ExitOrder, PitOnce,
           UNCHANGED <<use_current, init, sched, uninit, main_exit, exit, reached>>,
           pit'.exit_sem = pit.exit_sem \/ ~(pit'.exit_sem > 0),
           \A c \in Cores : /\ at'[c] = "exit" <=> at[c] = "exit"
                            /\ at[c] = "exited" => at'[c] = "exited"
    PROVE  OneExiter' /\ ExitOrder' /\ PitOnce'
  <1>1. OneExiter'
    BY DEF OneExiter
  <1>2. ExitOrder'
    <2>1. \A c \in reached : c \in Cores
      BY DEF TypeOK
    <2> QED
      BY <2>1 DEF ExitOrder
  <1>3. PitOnce'
    BY DEF PitOnce
  <1> QED
    BY <1>1, <1>2, <1>3

(* ... and of prs_init, until its last step. *)
LEMMA InitFrame ==
    ASSUME SystemInv, ~Started,
           UNCHANGED <<use_current, uninit, main_exit, exit, reached>>,
           \A c \in Cores : /\ sched'[c].destroys = sched[c].destroys
                            /\ at'[c] # "exit",
           pit'.exit_sem = pit.exit_sem,
           init'.at = "serve" => use_current
    PROVE  OneExiter' /\ ExitOrder' /\ PitOnce'
  <1>1. /\ \A x \in Exiters : exit[x].at = "none"
        /\ ~uninit /\ ~main_exit /\ reached = {}
    BY NoExitEarly DEF SystemInv, NothingRunsEarly, OneExiter
  <1>2. OneExiter'
    BY <1>1, CoreFacts DEF OneExiter, Final
  <1>3. \A c \in Cores : ~(sched[c].destroys > 0)
    BY <1>1 DEF SystemInv, ExitOrder
  <1>4. ExitOrder'
    BY <1>1, <1>3 DEF ExitOrder
  <1>5. PitOnce'
    BY <1>1 DEF SystemInv, PitOnce
  <1> QED
    BY <1>2, <1>4, <1>5

(* A thread in prs_uninit_final goes from core to core and, after the last *)
(* one, on to the next loop; ...                                           *)
LEMMA FinalFrame ==
    ASSUME SystemInv, NEW x \in Exiters,
           UNCHANGED <<use_current, init, uninit, main_exit, pit, at>>,
           \A y \in Exiters : y # x => exit'[y] = exit[y],
           exit[x].at \in Final, exit[x].at # "clock",
           exit'[x].at \in (Final \ {"clock"}) \cup {"fast"}
    PROVE  OneExiter' /\ PitOnce'
  <1>1. OneExiter'
    BY CoreFacts DEF SystemInv, OneExiter, Final
  <1>2. PitOnce'
    BY DEF SystemInv, PitOnce
  <1> QED
    BY <1>1, <1>2

(* ... in the first loop it destroys nothing, and leaves a join only when  *)
(* the thread it waits for has exited.                                     *)
LEMMA StoppingFrame ==
    ASSUME SystemInv, NEW x \in Exiters,
           UNCHANGED <<use_current, init, uninit, main_exit, sched, at>>,
           \A y \in Exiters : y # x => exit'[y] = exit[y],
           exit[x].at \in Stopping, exit'[x].at \in Final,
           exit[x].at = "join" =>
             at[exit[x].core] = "exited" \/ (use_current /\ exit[x].core = 0),
           reached' \subseteq Cores,
           \A c \in reached' : c \in reached
                                \/ (exit'[x].at = "join" /\ exit'[x].core = c)
    PROVE  ExitOrder'
  <1>1. \A y \in Exiters : exit[y].at \in Final => y = x
    BY DEF SystemInv, OneExiter, Stopping
  <1>2. \A y \in Exiters : exit'[y].at \in Final => y = x
    BY <1>1
  <1>3. \A c \in Cores : sched[c].destroys > 0 => uninit /\ main_exit /\ c = 0
    BY DEF SystemInv, ExitOrder
  <1>4. main_exit => x = Main
    BY CoreFacts DEF SystemInv, OneExiter, Stopping
  <1>5. ASSUME NEW c \in reached'
        PROVE  \/ at[c] = "exited" \/ (use_current /\ c = 0)
               \/ \E y \in Exiters : exit'[y].at = "join" /\ exit'[y].core = c
    <2>1. CASE c \in reached
      <3>1. \/ at[c] = "exited" \/ (use_current /\ c = 0)
            \/ \E y \in Exiters : exit[y].at = "join" /\ exit[y].core = c
        BY <2>1 DEF SystemInv, ExitOrder
      <3>2. ASSUME NEW y \in Exiters, exit[y].at = "join", exit[y].core = c
            PROVE  at[c] = "exited" \/ (use_current /\ c = 0)
        BY <1>1, <3>2 DEF Final
      <3> QED
        BY <3>1, <3>2
    <2>2. CASE exit'[x].at = "join" /\ exit'[x].core = c
      BY <2>2
    <2> QED
      BY <2>1, <2>2
  <1> QED
    BY <1>2, <1>3, <1>4, <1>5 DEF ExitOrder, Final

(* prs_exit and prs_exit_from_excp do not enter prs_uninit_final yet. *)
LEMMA CallFrame ==
    ASSUME SystemInv, NEW c \in Cores, at[c] \notin {"exit", "exited"},
           UNCHANGED <<use_current, init, uninit, main_exit, sched, reached, pit>>,
           \A y \in Exiters : y # c => exit'[y] = exit[y],
           \A d \in Cores : d # c => at'[d] = at[d],
           at'[c] = "exit", exit'[c].at = "uninit"
    PROVE  OneExiter' /\ ExitOrder' /\ PitOnce'
  <1>1. OneExiter'
    BY CoreFacts DEF SystemInv, OneExiter, Final
  <1>2. /\ reached \subseteq Cores
        /\ exit[c].at = "none"
    BY CoreFacts DEF SystemInv, TypeOK, OneExiter
  <1>3. ASSUME NEW d \in reached
        PROVE  \/ at'[d] = "exited" \/ (use_current /\ d = 0)
               \/ \E y \in Exiters : exit'[y].at = "join" /\ exit'[y].core = d
    BY <1>2 DEF SystemInv, ExitOrder
  <1>4. ExitOrder'
    BY <1>3 DEF SystemInv, ExitOrder, Stopping, Final
  <1>5. PitOnce'
    BY DEF SystemInv, PitOnce
  <1> QED
    BY <1>1, <1>4, <1>5

(* prs_uninit_wait: back to the worker. *)
LEMMA WaitFrame ==
    ASSUME SystemInv, NEW x \in Cores, exit[x].at \in {"uninit", "clock"},
           \A y \in Exiters : y # x => exit'[y] = exit[y],
           \A d \in Cores : d # x => at'[d] = at[d],
           at'[x] = "check", exit'[x].at = "none",
           UNCHANGED reached
    PROVE  /\ \A c \in Cores : exit'[c].at # "none" <=> at'[c] = "exit"
           /\ \A c \in reached' :
                \/ at'[c] = "exited" \/ (use_current /\ c = 0)
                \/ \E y \in Exiters : exit'[y].at = "join" /\ exit'[y].core = c
  <1>1. reached \subseteq Cores /\ at[x] = "exit"
    BY DEF SystemInv, TypeOK, OneExiter
  <1>2. \A c \in Cores : exit'[c].at # "none" <=> at'[c] = "exit"
    BY CoreFacts DEF SystemInv, OneExiter
  <1> QED
    BY <1>1, <1>2 DEF SystemInv, ExitOrder

(* The first call of prs_uninit, and a later one. *)
LEMMA UninitExit ==
    ASSUME SystemInv, NEW x \in Exiters, Uninit(x)
    PROVE  OneExiter' /\ ExitOrder' /\ PitOnce'
  <1>0. x \in Cores /\ at[x] = "exit"
    BY CoreFacts DEF SystemInv, OneExiter, Uninit
  <1>1. CASE ~uninit
    <2>1. /\ \A y \in Exiters : y # x => exit'[y] = exit[y]
          /\ exit'[x].at = "clock"
          /\ UNCHANGED <<use_current, init, at, main_exit, sched, reached, pit>>
          /\ uninit' = TRUE
      BY <1>1, StepEffect DEF SystemInv, TypeOK, Uninit, initVars, workerVars, ExitPlaces
    <2>2. /\ \A y \in Exiters : exit[y].at \notin Final
          /\ ~main_exit /\ \A c \in Cores : ~(sched[c].destroys > 0)
          /\ ~(pit.exit_sem > 0)
      BY <1>1 DEF SystemInv, OneExiter, ExitOrder, PitOnce
    <2>3. OneExiter'
      BY <1>0, <2>1, <2>2, CoreFacts DEF SystemInv, OneExiter, Final
    <2>4. \A c \in reached : at[c] = "exited" \/ (use_current /\ c = 0)
      BY <2>2 DEF SystemInv, ExitOrder, Final
    <2>5. ExitOrder'
      BY <2>1, <2>2, <2>4 DEF ExitOrder
    <2>6. PitOnce'
      BY <2>1, <2>2 DEF PitOnce
    <2> QED
      BY <2>3, <2>5, <2>6
  <1>2. CASE uninit /\ exit[x].excp
    <2>1. /\ \A y \in Exiters : y # x => exit'[y] = exit[y]
          /\ exit'[x].at = "fast"
          /\ UNCHANGED <<use_current, init, at, main_exit, sched, reached, pit>>
          /\ uninit' = TRUE
      BY <1>2, StepEffect DEF SystemInv, TypeOK, Uninit, initVars, workerVars, ExitPlaces
    <2>2. exit[x].at = "uninit"
      BY DEF Uninit
    <2>3. OneExiter'
      BY <1>0, <1>2, <2>1, <2>2, CoreFacts DEF SystemInv, OneExiter, Final
    <2>4. ExitOrder'
      BY <1>2, <2>1, <2>2 DEF SystemInv, ExitOrder, Stopping, Final
    <2>5. PitOnce'
      BY <1>2, <2>1 DEF SystemInv, PitOnce
    <2> QED
      BY <2>3, <2>4, <2>5
  <1>3. CASE uninit /\ ~exit[x].excp
    <2>1. /\ \A y \in Exiters : y # x => exit'[y] = exit[y]
          /\ exit'[x].at = "none" /\ at'[x] = "check"
          /\ \A d \in Cores : d # x => at'[d] = at[d]
          /\ UNCHANGED <<use_current, init, main_exit, sched, reached, pit>>
          /\ uninit' = TRUE
      BY <1>0, <1>3, WaitEffect DEF SystemInv, TypeOK, Uninit, initVars
    <2>2. exit[x].at = "uninit"
      BY DEF Uninit
    <2>3. /\ \A c \in Cores : exit'[c].at # "none" <=> at'[c] = "exit"
          /\ \A c \in reached' :
                \/ at'[c] = "exited" \/ (use_current /\ c = 0)
                \/ \E y \in Exiters : exit'[y].at = "join" /\ exit'[y].core = c
      BY <1>0, <2>1, <2>2, WaitFrame
    <2>4. OneExiter'
      <3>1. \A y \in Exiters : exit'[y].at \in Final => exit[y].at \in Final
        BY <2>1, <2>2 DEF Final
      <3>2. exit'[Main] = exit[Main]
        BY <1>0, <2>1, CoreFacts
      <3> QED
        BY <1>3, <2>1, <2>3, <3>1, <3>2, CoreFacts DEF SystemInv, OneExiter
    <2>5. ExitOrder'
      BY <1>3, <2>1, <2>2, <2>3 DEF SystemInv, ExitOrder, Stopping, Final
    <2>6. PitOnce'
      BY <1>3, <2>1 DEF SystemInv, PitOnce
    <2> QED
      BY <2>4, <2>5, <2>6
  <1> QED
    BY <1>1, <1>2, <1>3

(* The exit goes on, or is left to Main. *)
LEMMA UninitClockExit ==
    ASSUME SystemInv, NEW x \in Exiters, UninitClock(x)
    PROVE  OneExiter' /\ ExitOrder' /\ PitOnce'
  <1>0. /\ exit[x].at = "clock" /\ x \in Cores /\ at[x] = "exit"
        /\ uninit /\ ~main_exit
        /\ \A y \in Exiters : exit[y].at \in Final => y = x
    BY CoreFacts DEF SystemInv, OneExiter, UninitClock, Final
  <1>1. /\ \A c \in Cores : ~(sched[c].destroys > 0)
        /\ \A c \in reached : at[c] = "exited" \/ (use_current /\ c = 0)
    BY <1>0 DEF SystemInv, ExitOrder, Stopping, Final
  <1>2. CASE ~exit[x].excp /\ use_current /\ x # 0
    <2>1. /\ \A y \in Exiters : y # x => exit'[y] = exit[y]
          /\ exit'[x].at = "none" /\ at'[x] = "check"
          /\ \A d \in Cores : d # x => at'[d] = at[d]
          /\ UNCHANGED <<use_current, init, uninit, reached>>
          /\ main_exit' = TRUE
          /\ \A d \in Cores : d # 0 => sched'[d] = sched[d]
      BY <1>0, <1>2, WaitEffect, DestroyedEffect, CoreFacts
         DEF SystemInv, TypeOK, UninitClock, initVars
    <2>2. /\ \A c \in Cores : exit'[c].at # "none" <=> at'[c] = "exit"
          /\ \A c \in reached' :
                \/ at'[c] = "exited" \/ (use_current /\ c = 0)
                \/ \E y \in Exiters : exit'[y].at = "join" /\ exit'[y].core = c
      BY <1>0, <2>1, WaitFrame
    <2>3. \A y \in Exiters : exit'[y].at \notin Final
      BY <1>0, <2>1 DEF Final
    <2>4. OneExiter'
      BY <1>0, <1>2, <2>1, <2>2, <2>3, CoreFacts DEF SystemInv, OneExiter
    <2>5. ExitOrder'
      BY <1>0, <1>1, <2>1, <2>2, <2>3 DEF ExitOrder, Stopping, Final
    <2>6. PitOnce'
      BY <1>0, <2>1, <2>3 DEF PitOnce, Final
    <2> QED
      BY <2>4, <2>5, <2>6
  <1>3. CASE ~(~exit[x].excp /\ use_current /\ x # 0)
    <2>1. /\ \A y \in Exiters : y # x => exit'[y] = exit[y]
          /\ exit'[x].at = "stop"
          /\ UNCHANGED <<use_current, init, at, uninit, main_exit, sched, reached>>
      BY <1>3, FinalEffect DEF SystemInv, TypeOK, UninitClock, initVars, workerVars
    <2>2. OneExiter'
      BY <1>0, <2>1, CoreFacts DEF SystemInv, OneExiter, Final
    <2>3. ExitOrder'
      BY <1>0, <1>1, <2>1 DEF ExitOrder, Final
    <2>4. PitOnce'
      BY <1>0, <2>1 DEF PitOnce, Final
    <2> QED
      BY <2>2, <2>3, <2>4
  <1> QED
    BY <1>2, <1>3

(* The own scheduler is skipped. *)
LEMMA SkipOwnExit ==
    ASSUME SystemInv, NEW x \in Exiters, SkipOwn(x)
    PROVE  OneExiter' /\ ExitOrder' /\ PitOnce'
  <1>0. UNCHANGED <<use_current, init, uninit, main_exit, sched, reached, pit, at>>
    BY DEF SkipOwn, initVars, workerVars
  <1>1. CASE exit[x].at = "stop"
    <2>1. /\ \A y \in Exiters : y # x => exit'[y] = exit[y]
          /\ exit'[x].at \in {"stop", "destroy"}
      BY <1>1, NextStopEffect DEF SystemInv, SkipOwn
    <2>2. OneExiter' /\ PitOnce'
      BY <1>0, <1>1, <2>1, FinalFrame DEF Final
    <2>3. ExitOrder'
      BY <1>0, <1>1, <2>1, StoppingFrame DEF Final, Stopping, SystemInv, TypeOK
    <2> QED
      BY <2>2, <2>3
  <1>2. CASE exit[x].at = "destroy"
    <2>0. PICK d \in Cores : d = exit[x].core
      BY ExitFields DEF SystemInv
    <2>1. /\ \A y \in Exiters : y # x => exit'[y] = exit[y]
          /\ \/ exit'[x].at = "destroy" /\ exit'[x].core = d - 1
             \/ exit'[x].at = "fast"
      BY <1>2, <2>0, NextDestroyEffect DEF SystemInv, SkipOwn
    <2>2. OneExiter' /\ PitOnce'
      BY <1>0, <1>2, <2>1, FinalFrame DEF Final
    <2>3. \A c \in Cores : c <= d - 1 => c <= d
      BY CoreFacts
    <2>4. ExitOrder'
      BY <1>0, <1>2, <2>0, <2>1, <2>3 DEF SystemInv, ExitOrder, Stopping, Final
    <2> QED
      BY <2>2, <2>4
  <1> QED
    BY <1>1, <1>2 DEF SkipOwn

(* A scheduler is destroyed. *)
LEMMA DestroyExit ==
    ASSUME SystemInv, NEW x \in Exiters, Destroy(x)
    PROVE  OneExiter' /\ ExitOrder' /\ PitOnce'
  <1>0. PICK d \in Cores : d = exit[x].core
    BY ExitFields DEF SystemInv
  <1>1. /\ exit[x].at = "destroy" /\ d # Own(x)
        /\ UNCHANGED <<use_current, init, uninit, main_exit, reached, pit, at>>
    BY <1>0 DEF Destroy, initVars, workerVars
  <1>2. /\ \A y \in Exiters : y # x => exit'[y] = exit[y]
        /\ \/ exit'[x].at = "destroy" /\ exit'[x].core = d - 1
           \/ exit'[x].at = "fast"
    BY <1>0, NextDestroyEffect DEF SystemInv, Destroy
  <1>3. \A c \in Cores : c # d => sched'[c] = sched[c]
    BY <1>0, DestroyedEffect DEF SystemInv, Destroy
  <1>4. OneExiter' /\ PitOnce'
    BY <1>1, <1>2, FinalFrame DEF Final
  <1>5. /\ uninit /\ \A y \in Exiters : exit[y].at \in Final => y = x
        /\ main_exit => x = Main
        /\ x = Main => init.at = "done"
    BY <1>1, CoreFacts DEF SystemInv, OneExiter, Final
  <1>6. \A c \in Cores : c <= d - 1 => c <= d /\ c # d
    BY CoreFacts
  <1>12. \A c \in Cores : c <= d - 1 /\ sched[c].destroys > 0 => c = 0 /\ x = Main
    BY <1>0, <1>1, <1>6 DEF SystemInv, ExitOrder
  <1>7. \A y \in Exiters : exit'[y].at \notin Stopping
    BY <1>2, <1>5 DEF Stopping, Final
  <1>8. \A c \in reached : at[c] = "exited" \/ (use_current /\ c = 0)
    BY <1>1, <1>5 DEF SystemInv, ExitOrder, Final
  <1>9. \A y \in Exiters : exit'[y].at = "destroy" => y = x /\ exit'[x].core = d - 1
    BY <1>2, <1>5 DEF Final
  <1>10. ASSUME NEW c \in Cores, NEW y \in Exiters, exit'[y].at = "destroy",
                c <= exit'[y].core, sched'[c].destroys > 0
         PROVE  c = 0 /\ y = Main
    BY <1>3, <1>6, <1>9, <1>10, <1>12
  <1>11. ExitOrder'
    BY <1>1, <1>5, <1>7, <1>8, <1>10 DEF ExitOrder
  <1> QED
    BY <1>4, <1>11

(* Main returns from its worker. *)
LEMMA ServedExit ==
    ASSUME SystemInv, InitServed
    PROVE  OneExiter' /\ ExitOrder' /\ PitOnce'
  <1>0. /\ init.at = "serve" /\ use_current /\ exit[Main].at = "none"
        /\ UNCHANGED <<use_current, at, sched, uninit, main_exit, reached, pit>>
    BY DEF SystemInv, OneExiter, InitServed, workerVars
  <1>1. CASE main_exit
    <2>1. /\ \A y \in Exiters : y # Main => exit'[y] = exit[y]
          /\ exit'[Main].at = "stop" /\ init'.at = "done"
      BY <1>1, ServedEffect DEF SystemInv, TypeOK, InitServed
    <2>2. \A y \in Exiters : y # Main => exit[y].at \notin Final
      BY <1>1, CoreFacts DEF SystemInv, OneExiter
    <2>3. OneExiter'
      BY <1>0, <1>1, <2>1, <2>2, CoreFacts DEF SystemInv, OneExiter, Final
    <2>4. \A c \in reached : at[c] = "exited" \/ (use_current /\ c = 0)
      BY <1>0, <2>2 DEF SystemInv, ExitOrder, Final
    <2>5. \A c \in Cores : sched[c].destroys > 0 => uninit /\ c = 0
      BY <1>0, <1>1 DEF SystemInv, ExitOrder
    <2>6. ExitOrder'
      BY <1>0, <1>1, <2>1, <2>2, <2>4, <2>5 DEF ExitOrder, Final
    <2>7. PitOnce'
      BY <1>0, <2>1 DEF SystemInv, PitOnce
    <2> QED
      BY <2>3, <2>6, <2>7
  <1>2. CASE ~main_exit
    <2>1. UNCHANGED exit /\ init'.at = "spin"
      BY <1>2 DEF SystemInv, TypeOK, InitServed
    <2>2. OneExiter'
      BY <1>0, <2>1 DEF SystemInv, OneExiter
    <2>3. ExitOrder'
      BY <1>0, <2>1 DEF SystemInv, ExitOrder
    <2>4. PitOnce'
      BY <1>0, <2>1 DEF SystemInv, PitOnce
    <2> QED
      BY <2>2, <2>3, <2>4
  <1> QED
    BY <1>1, <1>2

(* prs_worker_stop. *)
LEMMA StopExit ==
    ASSUME SystemInv, NEW x \in Exiters,
           StopFlag(x) \/ StopPost(x) \/ StopKill(x) \/ StopJoin(x)
    PROVE  OneExiter' /\ ExitOrder' /\ PitOnce'
  <1>0. PICK d \in Cores : d = exit[x].core
    BY ExitFields DEF SystemInv
  <1>1. /\ exit[x].at \in {"stop", "post", "kill", "join"}
        /\ UNCHANGED <<use_current, init, uninit, main_exit, sched, pit, at>>
        /\ exit[x].at = "join" => at[d] = "exited" \/ (use_current /\ d = 0)
    BY <1>0 DEF StopFlag, StopPost, StopKill, StopJoin, initVars, workerVars
  <1>2. /\ \A y \in Exiters : y # x => exit'[y] = exit[y]
        /\ exit'[x].at \in {"stop", "post", "kill", "join", "destroy"}
        /\ exit'[x].at = "join" => exit'[x].core = d
        /\ reached' = reached \/ (reached' = reached \cup {d} /\ exit'[x].at = "join")
    <2>1. TypeOK /\ exit \in [Exiters -> Exits]
      BY DEF SystemInv, TypeOK
    <2>2. "post" \in ExitPlaces /\ "kill" \in ExitPlaces /\ "join" \in ExitPlaces
      BY DEF ExitPlaces
    <2>3. CASE StopFlag(x)
      BY <1>0, <2>1, <2>2, <2>3, StepEffect DEF StopFlag
    <2>4. CASE StopPost(x)
      BY <1>0, <2>1, <2>2, <2>4, StepEffect, NextStopEffect DEF StopPost
    <2>5. CASE StopKill(x)
      BY <1>0, <2>1, <2>2, <2>5, StepEffect, NextStopEffect DEF StopKill
    <2>6. CASE StopJoin(x)
      BY <2>1, <2>6, NextStopEffect DEF StopJoin
    <2> QED
      BY <2>3, <2>4, <2>5, <2>6
  <1>3. OneExiter' /\ PitOnce'
    BY <1>1, <1>2, FinalFrame DEF Final
  <1>4. /\ exit[x].at \in Stopping /\ exit'[x].at \in Final
        /\ reached' \subseteq Cores
        /\ \A c \in reached' : c \in reached
                                 \/ (exit'[x].at = "join" /\ exit'[x].core = c)
    BY <1>1, <1>2 DEF Stopping, Final, SystemInv, TypeOK
  <1>5. ExitOrder'
    BY <1>0, <1>1, <1>2, <1>4, StoppingFrame
  <1> QED
    BY <1>3, <1>5

(* Every step keeps the order of the exit. *)
LEMMA ExitInit ==
    ASSUME SystemInv, Initialising \/ PitEntry \/ PitExit
    PROVE  OneExiter' /\ ExitOrder' /\ PitOnce'
  <1>1. CASE InitClock
    BY Zenon, <1>1, InitFrame, CoreFacts DEF SystemInv, TypeOK, Started,
         NothingRunsEarly, EarlyCore, Early, InitClock, PitCreate, InitTimer,
         workerVars, exitVars
  <1>2. CASE InitThread
    BY Zenon, <1>2, InitFrame, CoreFacts DEF SystemInv, TypeOK, Started,
         NothingRunsEarly, EarlyCore, Early, InitThread, workerVars, exitVars
  <1>3. CASE InitSched
    <2>1. ~Started /\ UNCHANGED <<use_current, at, uninit, main_exit, exit, reached, pit>>
      BY <1>3 DEF InitSched, Started, workerVars
    <2>2. \A c \in Cores : sched'[c].destroys = sched[c].destroys
      BY <1>3 DEF SystemInv, TypeOK, InitSched
    <2>3. init'.at # "serve"
      BY <1>3 DEF SystemInv, TypeOK, InitSched
    <2> QED
      BY <2>1, <2>2, <2>3, InitFrame DEF SystemInv, NothingRunsEarly, EarlyCore, Early
  <1>4. CASE InitAddThread
    <2>1. ~Started /\ UNCHANGED <<use_current, at, uninit, main_exit, exit, reached, pit>>
      BY <1>4 DEF InitAddThread, Started, workerVars
    <2>2. \A c \in Cores : sched'[c].destroys = sched[c].destroys
      BY <1>4 DEF SystemInv, TypeOK, InitAddThread
    <2>3. init'.at # "serve"
      BY <1>4 DEF SystemInv, TypeOK, InitAddThread
    <2> QED
      BY <2>1, <2>2, <2>3, InitFrame DEF SystemInv, NothingRunsEarly, EarlyCore, Early
  <1>5. CASE InitTask
    BY Zenon, <1>5, InitFrame, CoreFacts DEF SystemInv, TypeOK, Started,
         NothingRunsEarly, EarlyCore, Early, InitTask, workerVars, exitVars
  <1>6. CASE InitNextCore
    <2>1. ~Started /\ UNCHANGED <<use_current, at, main_exit, exit, reached, pit, sched>>
      BY <1>6 DEF InitNextCore, Started, workerVars
    <2>2. uninit' = uninit
      BY Zenon, <1>6, <2>1 DEF InitNextCore, SystemInv, NothingRunsEarly, TypeOK
    <2>3. init'.at # "serve"
      BY <1>6 DEF SystemInv, TypeOK, InitNextCore
    <2> QED
      BY <2>1, <2>2, <2>3, InitFrame DEF SystemInv, NothingRunsEarly, EarlyCore, Early
  <1>7. CASE InitStart
    <2>1. ~Started /\ UNCHANGED <<use_current, sched, uninit, main_exit, exit, reached, pit>>
      BY <1>7 DEF InitStart, Started, exitVars
    <2>2. \A c \in Cores : at[c] # "exit"
      BY <2>1 DEF SystemInv, NothingRunsEarly, EarlyCore, Early
    <2>3. \A c \in Cores : at'[c] # "exit"
      BY <1>7, <2>2 DEF SystemInv, TypeOK, InitStart, SchedStart, StartWorker, ThreadStart
    <2>4. init'.at = "serve" => use_current
      BY <1>7 DEF SystemInv, TypeOK, InitStart
    <2> QED
      BY <2>1, <2>3, <2>4, InitFrame
  <1>8. CASE PitEntry
    BY <1>8, ExitFrame DEF SystemInv, TypeOK, PitEntry, InitTimer, initVars,
         workerVars, exitVars
  <1>9. CASE PitExit
    BY <1>9, ExitFrame DEF SystemInv, TypeOK, PitExit, Ticks, UninitTimer,
         initVars, workerVars, exitVars
  <1> QED
    BY <1>1, <1>2, <1>3, <1>4, <1>5, <1>6, <1>7, <1>8, <1>9, ServedExit DEF
       Initialising

(* The steps of a worker keep the order of the exit. *)
LEMMA ExitWorker ==
    ASSUME SystemInv, NEW c \in Cores, Worker(c)
    PROVE  OneExiter' /\ ExitOrder' /\ PitOnce'
  <1>1. CASE LocalInit(c)
    BY <1>1, ExitFrame DEF SystemInv, TypeOK, LocalInit, Goto, SignalUnblock,
         SignalInit, initVars, exitVars
  <1>2. CASE ThreadEntry(c)
    BY <1>2, ExitFrame DEF SystemInv, TypeOK, ThreadEntry, Goto, initVars,
         exitVars
  <1>3. CASE WorkerInit(c)
    BY <1>3, ExitFrame DEF SystemInv, TypeOK, WorkerInit, Goto,
         ExcpInitWorker, SignalUnblock, SignalInit, initVars, exitVars
  <1>4. CASE WorkerEntry(c)
    BY <1>4, ExitFrame DEF SystemInv, TypeOK, WorkerEntry, Goto,
         ExcpUninitWorker, SignalBlock, SignalInit, initVars, exitVars
  <1>5. CASE Check(c)
    BY <1>5, ExitFrame DEF SystemInv, TypeOK, Check, Goto, initVars, exitVars
  <1>6. CASE GetNext(c)
    BY <1>6, ExitFrame DEF SystemInv, TypeOK, GetNext, Goto, initVars,
         exitVars
  <1>7. CASE Idle(c)
    BY <1>7, ExitFrame DEF SystemInv, TypeOK, Idle, Goto, initVars, exitVars
  <1>8. CASE WakeUp(c)
    BY <1>8, ExitFrame DEF SystemInv, TypeOK, WakeUp, Goto, initVars,
         exitVars
  <1>9. CASE Prologue(c)
    BY <1>9, ExitFrame DEF SystemInv, TypeOK, Prologue, Goto, initVars,
         exitVars
  <1>10. CASE Return(c)
    BY <1>10, ExitFrame DEF SystemInv, TypeOK, Return, Goto, initVars,
         exitVars
  <1> QED
    BY <1>1, <1>2, <1>3, <1>4, <1>5, <1>6, <1>7, <1>8, <1>9, <1>10 DEF Worker

(* What tasks and signals do keeps the order of the exit. *)
LEMMA ExitTask ==
    ASSUME SystemInv, NEW c \in Cores, 
           \/ Interrupted(c) \/ Ready(c) \/ Call(c) \/ Foreign(c)
           \/ ForeignReturn(c) \/ CallExit(c) \/ Raise(c)
    PROVE  OneExiter' /\ ExitOrder' /\ PitOnce'
  <1>1. CASE Interrupted(c)
    BY <1>1, ExitFrame DEF SystemInv, TypeOK, Interrupted, Goto, initVars,
         exitVars
  <1>2. CASE Ready(c)
    BY <1>2, ExitFrame DEF SystemInv, TypeOK, Ready, Ticks, Posted, Signals,
         Resume, Resumes, initVars, exitVars
  <1>3. CASE Call(c)
    BY <1>3, ExitFrame DEF SystemInv, TypeOK, Call, Goto, initVars, exitVars
  <1>4. CASE Foreign(c)
    BY <1>4, ExitFrame DEF SystemInv, TypeOK, Foreign, Goto, initVars,
         exitVars
  <1>5. CASE ForeignReturn(c)
    BY <1>5, ExitFrame DEF SystemInv, TypeOK, ForeignReturn, Goto, initVars,
         exitVars
  <1>6. CASE CallExit(c)
    <2>1. /\ ExitBy(c, FALSE) /\ at[c] = "prs"
          /\ UNCHANGED <<use_current, init, uninit, main_exit, sched, reached, pit>>
      BY <1>6 DEF CallExit, Exit, initVars
    <2>2. exit \in [Exiters -> Exits] /\ at \in [Cores -> Places]
      BY DEF SystemInv, TypeOK
    <2>3. /\ \A y \in Exiters : y # c => exit'[y] = exit[y]
          /\ \A d \in Cores : d # c => at'[d] = at[d]
          /\ at'[c] = "exit" /\ exit'[c].at = "uninit"
      BY <2>1, <2>2, ExitByEffect
    <2> QED
      BY <2>1, <2>3, CallFrame
  <1>7. CASE Raise(c)
    <2>1. /\ ExitBy(c, TRUE) /\ at[c] \in {"user", "foreign"}
          /\ UNCHANGED <<use_current, init, uninit, main_exit, sched, reached, pit>>
      BY <1>7 DEF Raise, ExitFromExcp, initVars
    <2>2. exit \in [Exiters -> Exits] /\ at \in [Cores -> Places]
      BY DEF SystemInv, TypeOK
    <2>3. /\ \A y \in Exiters : y # c => exit'[y] = exit[y]
          /\ \A d \in Cores : d # c => at'[d] = at[d]
          /\ at'[c] = "exit" /\ exit'[c].at = "uninit"
      BY <2>1, <2>2, ExitByEffect
    <2> QED
      BY <2>1, <2>3, CallFrame
  <1> QED
    BY <1>1, <1>2, <1>3, <1>4, <1>5, <1>6, <1>7

(* The steps of prs_uninit keep the order of the exit. *)
LEMMA ExitExiting ==
    ASSUME SystemInv, NEW x \in Exiters, Exiting(x)
    PROVE  OneExiter' /\ ExitOrder' /\ PitOnce'
  <1>1. CASE FastExit(x)
    BY <1>1, ExitFrame DEF SystemInv, TypeOK, FastExit, PalExit, initVars,
         workerVars, exitVars
  <1> QED
    BY <1>1, UninitExit, UninitClockExit, SkipOwnExit, StopExit, DestroyExit DEF
       Exiting

(* Every step keeps the order of the exit. *)
LEMMA ExitStep == SystemInv /\ Next => OneExiter' /\ ExitOrder' /\ PitOnce'
  BY ExitInit, ExitWorker, ExitTask, ExitExiting DEF Next

-----------------------------------------------------------------------------
(* The initial states. *)
LEMMA InitInv == Init => SystemInv
  <1> SUFFICES ASSUME Init PROVE SystemInv
    OBVIOUS
  <1>1. NotExiting \in Exits
    BY CoreFacts DEF NotExiting, Exits, ExitPlaces
  <1>2. \A x \in Exiters : exit[x] = NotExiting /\ exit[x].at = "none"
    BY DEF Init, NotExiting
  <1>3. TypeOK
    <2>1. exit \in [Exiters -> Exits]
      BY <1>1 DEF Init
    <2>2. at \in [Cores -> Places] /\ init \in [at : InitPlaces, core : Cores]
      BY CoreFacts DEF Init, Places, InitPlaces
    <2>3. /\ sem \in [Cores -> 0 .. 1] /\ sig \in [Cores -> BOOLEAN]
          /\ unblocked \in [Cores -> SUBSET {"INT", "EXCP"}]
          /\ flags \in [Cores -> SUBSET WorkerFlags]
          /\ task \in [Cores -> {"none", "run", "spin"}]
      BY DEF Init
    <2>4. /\ sched \in [Cores -> [created : BOOLEAN, worker : BOOLEAN, destroys : 0 .. 1]]
          /\ pit \in [at : {"none", "start", "tick", "exited"}, exit_sem : 0 .. 1]
      BY DEF Init
    <2>5. /\ use_current \in BOOLEAN /\ uninit \in BOOLEAN /\ main_exit \in BOOLEAN
          /\ over \in BOOLEAN /\ waiting \subseteq tasked /\ tasked \subseteq Cores
          /\ reached \subseteq Cores
      BY DEF Init
    <2> QED
      BY <2>1, <2>2, <2>3, <2>4, <2>5 DEF TypeOK
  <1>4. NothingRunsEarly
    BY DEF Init, NothingRunsEarly, EarlyCore, Early
  <1>5. FlagsTellPlace
    BY CoreFacts DEF Init, FlagsTellPlace, FlagsTell
  <1>6. OneExiter
    BY <1>2, CoreFacts DEF Init, OneExiter, Final
  <1>7. ExitOrder
    BY <1>2, CoreFacts DEF Init, ExitOrder
  <1>8. PitOnce
    BY DEF Init, PitOnce
  <1> QED
    BY <1>3, <1>4, <1>5, <1>6, <1>7, <1>8 DEF SystemInv

(* Nothing happens. *)
LEMMA Stutter == SystemInv /\ UNCHANGED vars => SystemInv'
  <1> SUFFICES ASSUME SystemInv, UNCHANGED vars PROVE SystemInv'
    OBVIOUS
  <1>1. TypeOK' /\ NothingRunsEarly'
    BY Zenon DEF SystemInv, vars, TypeOK, NothingRunsEarly, EarlyCore, CoreStarted, Started
  <1>2. FlagsTellPlace' /\ OneExiter'
    BY Zenon DEF SystemInv, vars, FlagsTellPlace, FlagsTell, OneExiter
  <1>3. ExitOrder' /\ PitOnce'
    BY Zenon DEF SystemInv, vars, ExitOrder, PitOnce
  <1> QED
    BY <1>1, <1>2, <1>3 DEF SystemInv

(* The invariant is inductive: prs_init, the workers and prs_uninit keep   *)
(* it on any number of cores.                                              *)
THEOREM SystemInvariant == Spec => []SystemInv
  <1>1. SystemInv /\ [Next]_vars => SystemInv'
    BY TypeStep, EarlyStep, FlagsStep, ExitStep, Stutter DEF SystemInv
  <1> QED
    BY <1>1, InitInv, PTL DEF Spec

(* Type correctness, for any number of cores: among the rest that no       *)
(* scheduler is destroyed twice, and that no thread's semaphore and not    *)
(* the timer's exit_sem is posted twice.                                   *)
THEOREM SystemTypes == Spec => []TypeOK
  <1>1. SystemInv => TypeOK
    BY DEF SystemInv
  <1> QED
    BY <1>1, SystemInvariant, PTL

(* Whatever the number of cores, a worker that prs_worker_stop interrupted *)
(* has left its thread before prs_uninit_final destroys its scheduler.     *)
THEOREM JoinedBeforeDestroyed == Spec => []StoppedBeforeDestroyed
  <1>1. SystemInv => StoppedBeforeDestroyed
    <2> SUFFICES ASSUME SystemInv, NEW c \in reached, sched[c].destroys > 0,
                        ~(use_current /\ c = 0)
                 PROVE  at[c] = "exited"
      BY DEF StoppedBeforeDestroyed
    <2>1. c \in Cores
      BY DEF SystemInv, TypeOK
    <2>2. \/ main_exit /\ c = 0
          \/ \A x \in Exiters : exit[x].at \notin Stopping
      BY <2>1 DEF SystemInv, ExitOrder
    <2>3. ~(main_exit /\ c = 0)
      BY DEF SystemInv, OneExiter
    <2>4. \A x \in Exiters : exit[x].at # "join"
      BY <2>2, <2>3 DEF Stopping, Final
    <2> QED
      BY <2>4 DEF SystemInv, ExitOrder
  <1> QED
    BY <1>1, SystemInvariant, PTL

(* Only prs_worker_start, prs_sched_add_task before it, prs_worker_idle    *)
(* and prs_worker_task_prologue write flags without reading them first,    *)
(* and none does once prs_worker_stop may have raised STOP.                *)
LEMMA StopStep ==
    ASSUME SystemInv, Next, NEW c \in Cores, "STOP" \in flags[c]
    PROVE  "STOP" \in flags'[c]
  <1> USE DEF SystemInv
  <1>1. CASE Initialising
    <2>1. ~InitTask /\ ~InitStart
      BY DEF NothingRunsEarly, EarlyCore, Started, InitTask, InitStart
    <2> QED
      BY <1>1, <2>1 DEF Initialising, InitClock, InitThread, InitSched, InitAddThread,
         InitNextCore, InitServed, workerVars
  <1>2. CASE PitEntry \/ PitExit
    BY <1>2 DEF PitEntry, PitExit, workerVars
  <1>3. ASSUME NEW d \in Cores, Worker(d) PROVE "STOP" \in flags'[c]
    <2>1. CASE Check(d)
      BY <2>1 DEF TypeOK, Check
    <2>2. CASE Idle(d)
      BY <2>2 DEF TypeOK, Idle
    <2>3. CASE Prologue(d)
      BY <2>3 DEF TypeOK, Prologue
    <2>4. CASE LocalInit(d) \/ ThreadEntry(d) \/ WorkerInit(d) \/ WorkerEntry(d)
      BY <2>4 DEF LocalInit, ThreadEntry, WorkerInit, WorkerEntry
    <2>5. CASE GetNext(d) \/ WakeUp(d) \/ Return(d)
      BY <2>5 DEF GetNext, WakeUp, Return
    <2> QED
      BY <1>3, <2>1, <2>2, <2>3, <2>4, <2>5 DEF Worker
  <1>4. ASSUME NEW d \in Cores, Interrupted(d) \/ Call(d) PROVE "STOP" \in flags'[c]
    BY <1>4 DEF TypeOK, Interrupted, Call
  <1>5. ASSUME NEW d \in Cores, Ready(d) PROVE "STOP" \in flags'[c]
    BY <1>5 DEF TypeOK, Ready, Posted
  <1>6. ASSUME NEW d \in Cores, Foreign(d) \/ ForeignReturn(d) \/ CallExit(d) \/ Raise(d)
        PROVE  "STOP" \in flags'[c]
    BY <1>6 DEF Foreign, ForeignReturn, CallExit, Raise
  <1>7. ASSUME NEW x \in Exiters, Exiting(x) PROVE "STOP" \in flags'[c]
    <2>0. exit[x].core \in Cores
      BY ExitFields
    <2>1. CASE StopFlag(x)
      BY <2>0, <2>1 DEF TypeOK, StopFlag
    <2>2. CASE StopPost(x)
      BY <2>0, <2>2 DEF TypeOK, StopPost, Posted
    <2>3. CASE Uninit(x) \/ UninitClock(x)
      BY <2>3 DEF Uninit, UninitClock, workerVars
    <2>4. CASE SkipOwn(x) \/ StopJoin(x) \/ Destroy(x) \/ FastExit(x)
      BY <2>4 DEF SkipOwn, StopJoin, Destroy, FastExit, workerVars
    <2>5. CASE StopKill(x)
      BY <2>5 DEF StopKill
    <2> QED
      BY <1>7, <2>1, <2>2, <2>3, <2>4, <2>5 DEF Exiting
  <1> QED
    BY <1>1, <1>2, <1>3, <1>4, <1>5, <1>6, <1>7 DEF Next

(* STOP is never taken back, whatever the number of cores.                 *)
THEOREM StopStays == Spec => StopIsKept
  <1>1. SystemInv /\ [Next]_vars =>
          [\A c \in Cores : "STOP" \in flags[c] => "STOP" \in flags'[c]]_vars
    BY StopStep
  <1> QED
    BY <1>1, SystemInvariant, PTL DEF Spec, StopIsKept

=============================================================================
