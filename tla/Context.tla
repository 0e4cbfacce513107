------------------------------ MODULE Context ------------------------------
(***************************************************************************)
(* Register contexts on Linux (prs/pal/posix/context.c): a task is started *)
(* on a context that prs_pal_context_make wrote, tasks give each other the *)
(* processor with prs_pal_context_swap, and an interrupt makes the task it *)
(* finds running call prs_worker_task_prologue with prs_pal_context_add,   *)
(* which later returns through a trampoline to what was interrupted.       *)
(*                                                                         *)
(* Memory is counted in words of 8 bytes, so an address is aligned to 16   *)
(* bytes when it is even.  Stacks grow downwards.  A word holds a pair of  *)
(* what it is and its value; a stored context is held by its first word.   *)
(***************************************************************************)
EXTENDS Integers, SequencesExt

CONSTANTS
    NTasks,      \* tasks, numbered from 1; context 0 is worker->exit_context
    StackWords,  \* words of a stack, an even number
    RedZone,     \* PRS_CONTEXT_RED_ZONE_SIZE, even
    CtxWords,    \* size of struct prs_pal_context, even
    MaxNest      \* bound, per task: interrupts it is in at a time

Tasks == 1 .. NTasks
Contexts == 0 .. NTasks
Top(t) == (t + 1) * StackWords

VARIABLES
    cpu,  \* the registers
    mem,  \* the words of all stacks
    ctx,  \* task->context of each task, and worker->exit_context
    cur,  \* the task, or 0 for the worker's own stack, that is running
    due   \* per task: what the code it left, by an interrupt or to
          \* another task, must find when it goes on, innermost last

vars == <<cpu, mem, ctx, cur, due>>

(* The registers the code tells apart: those a called function keeps       *)
(* (saved: rbx, r12 to r15) besides rbp and rsp, and those it may change.  *)
Zeroed == [rip |-> "none", rsp |-> 0, rbp |-> 0, rsi |-> 0,
           eflags |-> <<0, 0>>, saved |-> <<0, 0>>, scratch |-> <<0, 0>>]

Addr(a) == <<"addr", a>>
Text(a) == <<"text", a>>
Data(a) == <<"data", a>>

(* m with the words ws written from address a upwards. *)
Write(m, a, ws) ==
    [x \in DOMAIN m |-> IF x \in a .. a + Len(ws) - 1 THEN ws[x - a + 1] ELSE m[x]]

(* Only code that calls nothing, and the last steps of a swap back to it,  *)
(* have a red zone.  The words of task t under it are nobody's any more,   *)
(* and forgotten: what would rely on them finds them changed.              *)
Forget(m, t, c) ==
    LET used == c.rsp - (IF c.rip \in {"user", "swap_ret"} THEN RedZone ELSE 0)
    IN [x \in DOMAIN m |-> IF x \in Top(t) - StackWords .. used - 1
                           THEN Data(<<0, 0>>) ELSE m[x]]

(***************************************************************************)
(* The context functions.                                                  *)
(***************************************************************************)

(* The layout prs_pal_context_add_internal chooses under the stack pointer *)
(* of c: a context that is running is stored under its red zone, aligned   *)
(* for its floating point state.                                           *)
ContextBase(c) ==
    IF c.rip = "none" THEN c.rsp
    ELSE LET sp == c.rsp - RedZone - CtxWords IN sp - (sp % 2)

(* Under it come a return address and rbp, for debuggers, the arguments    *)
(* that are not in registers, the return address, and a word more when the *)
(* function would not be entered with rsp at 8 modulo 16.                  *)
FrameBase(c, stack_argc) ==
    LET sp == ContextBase(c) - 2 - stack_argc - 1
    IN IF sp % 2 = 0 THEN sp - 1 ELSE sp

(* prs_pal_context_add_internal on context c and memory m. *)
AddInternal(c, m, function, argc) ==
    LET base == ContextBase(c)
        sp == FrameBase(c, IF argc > 6 THEN argc - 6 ELSE 0)
        running == c.rip # "none"
        frame == Write(m, base - 2, <<Addr(c.rbp), Text(c.rip)>>)
        return == Write(frame, sp, <<Text(IF running THEN "trampoline" ELSE "none")>>)
    IN [mem |-> IF running THEN Write(return, base, <<<<"ctx", c>>>>) ELSE return,
        cpu |-> [c EXCEPT !.rip = function, !.rbp = base - 2, !.rsp = sp]]

ContextMake(m, stack, function) ==
    AddInternal([Zeroed EXCEPT !.rsp = stack], m, function, 1)

(* Seeded fault: the context is stored right under the stack pointer. *)
AddOverRedZone(c, m, function) ==
    AddInternal([c EXCEPT !.rsp = @ + RedZone], m, function, 1)

ContextAdd(c, m, function) == AddInternal(c, m, function, 1)

(* The first half of prs_pal_context_swap keeps, in the context old, what  *)
(* its caller does not expect to be changed by a call.                     *)
SwapSave(old) ==
    [old EXCEPT !.rip = "prs", !.rsp = cpu.rsp, !.rbp = cpu.rbp,
                !.saved = cpu.saved, !.eflags = cpu.eflags]

(* Its second half restores all of context c.  The last three registers go *)
(* through the words under the stack pointer of c, whose red zone they     *)
(* overwrite; while they do, rsi is the stack pointer to be.               *)
SwapPush(c, m) == Write(m, c.rsp - 3, <<Addr(c.rsi), Data(c.eflags), Text(c.rip)>>)
SwapLoad(c) ==
    [c EXCEPT !.rip = "swap_rsp", !.rsp = cpu.rsp, !.rsi = c.rsp - 3,
              !.eflags = cpu.eflags]

(***************************************************************************)
(* The code that runs.                                                     *)
(***************************************************************************)

Init ==
    LET blank == [a \in StackWords .. Top(NTasks) - 1 |-> Data(<<0, 0>>)]
        made[t \in Contexts] ==
            IF t = 0 THEN blank
            ELSE ContextMake(made[t - 1], Top(t), "prs_task_entry").mem
    IN /\ cpu = [Zeroed EXCEPT !.rip = "prs"]
       /\ mem = made[NTasks]
       /\ ctx = [t \in Contexts |->
                    IF t = 0 THEN Zeroed
                    ELSE ContextMake(blank, Top(t), "prs_task_entry").cpu]
       /\ cur = 0
       /\ due = [t \in Contexts |-> <<>>]

(* What a function of the running task puts in registers and memory. *)
Mark == <<cur, Len(due[cur])>>

(* What must be there again when the code that is left goes on: after a    *)
(* switch, which is a call, the kept registers and the stack; after an     *)
(* interrupt all of the registers and the red zone as well.                *)
Left(how) ==
    [how |-> how, cpu |-> cpu,
     stack |-> [a \in cpu.rsp - (IF how = "interrupt" THEN RedZone ELSE 0)
                      .. Top(cur) - 1 |-> mem[a]]]

(* A function is entered: it saves rbp and the registers it uses, and has  *)
(* a frame, which need not be of an even number of words.                  *)
Enter ==
    /\ cpu.rip \in {"prs_task_entry", "prologue"}
    /\ mem' = Write(mem, cpu.rsp - 2, <<Data(cpu.saved), Addr(cpu.rbp)>>)
    /\ \E locals \in IF cpu.rip = "prologue" THEN {1} ELSE {1, 2} :
         cpu' = [cpu EXCEPT !.rip = IF @ = "prologue" THEN "prs" ELSE "user",
                            !.rbp = cpu.rsp - 1, !.rsp = @ - 2 - locals,
                            !.saved = Mark]
    /\ UNCHANGED <<ctx, cur, due>>

(* The task computes in a function that calls no other, so that it may use *)
(* the red zone as well as its locals and every register.                  *)
Compute ==
    /\ cpu.rip = "user" /\ cpu.scratch # Mark
    /\ mem' = Write(mem, cpu.rsp - RedZone, [i \in 1 .. RedZone + 1 |-> Data(Mark)])
    /\ cpu' = [cpu EXCEPT !.scratch = Mark, !.eflags = Mark]
    /\ UNCHANGED <<ctx, cur, due>>

(* prs_worker_schedule_internal gives the processor to task t. *)
Switch(t) ==
    /\ cpu.rip = "prs" /\ t # cur
    /\ ctx' = [ctx EXCEPT ![cur] = SwapSave(@)]
    /\ mem' = Forget(SwapPush(ctx[t], mem), t, ctx[t])
    /\ cpu' = ctx[t]
    /\ cur' = t
    /\ due' = [c \in Contexts |->
                 IF c = cur /\ cur # 0 THEN Append(due[c], Left("switch"))
                 ELSE IF c = t /\ ctx[t].rip = "prs" THEN Front(due[c])
                 ELSE due[c]]

(* prs_worker_task_prologue makes the task interruptible, and returns. *)
Enable ==
    /\ cpu.rip = "prs" /\ cur # 0
    /\ cpu' = [cpu EXCEPT !.rip = "epilogue"]
    /\ UNCHANGED <<mem, ctx, cur, due>>

Return ==
    /\ cpu.rip = "epilogue"
    /\ cpu' = [cpu EXCEPT !.saved = mem[cpu.rbp - 1][2], !.rbp = mem[cpu.rbp][2],
                          !.rip = mem[cpu.rbp + 1][2], !.rsp = cpu.rbp + 2,
                          !.scratch = <<0, 0>>, !.eflags = <<0, 0>>]
    /\ mem' = Forget(mem, cur, cpu')
    /\ UNCHANGED <<ctx, cur, due>>

(* _prs_pal_context_return_trampoline: the context that was stored above   *)
(* the two words at rbp is restored, in a call that returns to it.         *)
Trampoline ==
    LET c == mem[cpu.rbp + 2][2] IN
    /\ cpu.rip = "trampoline"
    /\ mem' = SwapPush(c, mem)
    /\ cpu' = [SwapLoad(c) EXCEPT !.rsp = @ - 1]
    /\ UNCHANGED <<ctx, cur, due>>

(* The stack pointer is moved ... *)
SwapStack ==
    /\ cpu.rip = "swap_rsp"
    /\ cpu' = [cpu EXCEPT !.rip = "swap_ret", !.rsp = cpu.rsi]
    /\ UNCHANGED <<mem, ctx, cur, due>>

(* ... and rsi, the flags and rip are popped. *)
SwapReturn ==
    /\ cpu.rip = "swap_ret"
    /\ cpu' = [cpu EXCEPT !.rsi = mem[cpu.rsp][2], !.eflags = mem[cpu.rsp + 1][2],
                          !.rip = mem[cpu.rsp + 2][2], !.rsp = @ + 3]
    /\ due' = [due EXCEPT ![cur] = Front(@)]
    /\ mem' = Forget(mem, cur, cpu')
    /\ UNCHANGED <<ctx, cur>>

(* prs_worker_interrupt_entry, from the signal handler, whose stack is     *)
(* another one: everywhere in the task and on the way back to it.          *)
Interrupt ==
    /\ cpu.rip \in {"user", "epilogue", "trampoline", "swap_rsp", "swap_ret"}
    /\ Len(due[cur]) < MaxNest[cur]
    /\ due' = [due EXCEPT ![cur] = Append(@, Left("interrupt"))]
    /\ LET added == ContextAdd(cpu, mem, "prologue")
       IN cpu' = added.cpu /\ mem' = added.mem
    /\ UNCHANGED <<ctx, cur>>

Next ==
    \/ Enter \/ Compute \/ Enable \/ Return
    \/ Trampoline \/ SwapStack \/ SwapReturn \/ Interrupt
    \/ \E t \in Tasks : Switch(t)

Spec == Init /\ [][Next]_vars

(***************************************************************************)
(* Properties.                                                             *)
(***************************************************************************)

(* d is what the code that goes on finds.  Of the red zone, the words that *)
(* SwapPush goes through are lost: three of them, and three more for every *)
(* interrupt that comes between SwapStack and SwapReturn.                  *)
Found(d) ==
    /\ \A a \in DOMAIN d.stack :
          a >= d.cpu.rsp \/ a < d.cpu.rsp - 3 * MaxNest[cur'] => mem'[a] = d.stack[a]
    /\ IF d.how = "interrupt" THEN cpu' = d.cpu
       ELSE <<cpu'.rsp, cpu'.rbp, cpu'.saved>> = <<d.cpu.rsp, d.cpu.rbp, d.cpu.saved>>

(* What a task computes does not depend on where it is interrupted or on   *)
(* which tasks run in between: it finds its registers and its stack as it  *)
(* left them, also when it is interrupted again while an earlier interrupt *)
(* is on its way back to it.                                               *)
TasksAreUndisturbed ==
    [][\A t \in Tasks :
          Len(due'[t]) < Len(due[t]) => Found(Last(due[t]))]_vars

=============================================================================
