------------------------------ MODULE MCParts -------------------------------
(***************************************************************************)
(* Small instances of the modules that stand by themselves: a behaviour is *)
(* one of the part chosen in its initial state, and the others stay in an  *)
(* initial state of theirs.                                                *)
(***************************************************************************)
EXTENDS Integers, Sequences

CONSTANTS CoopTasks, Threads, Exiting, Victims, NoTask,      \* Swcoop
          DlLists, IdlLists, DlNodes, IdlNodes,              \* Lists
          MpscqNodes, MpsciqNodes, Producers, Null,          \* MpscQ, MpscIq
          NTasks, StackWords, RedZone, CtxWords,             \* Context
          ImagePage, StackPage, MaxPages, ExtraPages,        \* Loader, Stack
          MaxRanges, NoProc                                  \* RangeTable

VARIABLES
    part,
    cpu, mem, ctx, cur, due,
    file, at, i, proc, words, prot, libs, held,
    os, stack_at, page, stack_size, deepest, failed,
    list, next, prev, owner, dying, seq,
    head, reverse_tail, reverse_head, q_next, q_prev, pushing, removing, seen,
    got, allocated, q_dying,
    state, userdata, sched_id, readyq, removeq, destroyed, pc, context, current,
    prev_task, next_task, posted, stage, arg, prev_state,
    base, size, count, slot, loaded, add, look, steady, spoiled

contextVars == <<cpu, mem, ctx, cur, due>>
loaderVars == <<file, at, i, proc, words, prot, libs, held>>
stackVars == <<os, stack_at, page, stack_size, deepest, failed>>
listsVars == <<list, next, prev, owner, dying, seq>>
mpscqVars == <<head, reverse_tail, reverse_head, q_next, q_prev, pushing,
               removing, seen, got, allocated, q_dying>>
swcoopVars == <<state, userdata, sched_id, readyq, removeq, destroyed, pc,
                context, current, prev_task, next_task, posted, stage, arg,
                prev_state>>
rangeVars == <<base, size, count, slot, loaded, add, look, steady, spoiled>>
vars == <<part, contextVars, loaderVars, stackVars, listsVars, mpscqVars,
          swcoopVars, rangeVars>>

(* The first task may be interrupted while it is in an interrupt. *)
MCMaxNest == <<2, 1>>

(* Files with two segments, of text and of data only partly in the file,   *)
(* whose pages may touch, with a symbol of PRS and one of a library to be  *)
(* relocated; and files that are no shared object, have no symbols or have *)
(* nothing to load.                                                        *)
Segment(v, m, f, fl) ==
    [type |-> "LOAD", vaddr |-> v, memsz |-> m, filesz |-> f, flags |-> fl]
Note ==
    [type |-> "NOTE", vaddr |-> 4, memsz |-> 1, filesz |-> 1, flags |-> {"R"}]

MCFiles ==
    {[ident |-> TRUE, dynsym |-> TRUE, needed |-> {"libc"},
      phdrs |-> <<Note, Segment(v, m, m, {"R", "X"}),
                  Segment(w, n, f, {"R", "W"})>>,
      rels |-> <<[offset |-> w, symbol |-> "pr_log"],
                 [offset |-> w + n - 1, symbol |-> "puts"]>>] :
        v \in 3 .. 4, m \in 1 .. 4, w \in 8 .. 10, n \in 2 .. 4, f \in 0 .. 1}
    \cup {[ident |-> id, dynsym |-> dy, needed |-> {}, phdrs |-> ph,
           rels |-> <<>>] :
        id \in BOOLEAN, dy \in BOOLEAN,
        ph \in {<<Note>>, <<Segment(4, 2, 1, {"R"})>>}}

MCExported == {[symbol |-> "pr_log", lib |-> "prs"],
               [symbol |-> "puts", lib |-> "libc"]}

(* Two processes side by side and one further on. *)
MCText == <<[base |-> 2, size |-> 2], [base |-> 4, size |-> 2],
            [base |-> 7, size |-> 3]>>

Context == INSTANCE Context WITH MaxNest <- MCMaxNest
Loader == INSTANCE Loader WITH Files <- MCFiles, Exported <- MCExported,
                               PageSize <- ImagePage
Stack == INSTANCE Stack WITH PageSize <- StackPage, at <- stack_at
Lists == INSTANCE Lists
MpscQ == INSTANCE MpscQ WITH Nodes <- MpscqNodes, next <- q_next,
                             prev <- q_prev, dying <- q_dying
MpscIq == INSTANCE MpscIq WITH Nodes <- MpsciqNodes, next <- q_next,
                               prev <- q_prev
Swcoop == INSTANCE Swcoop WITH Tasks <- CoopTasks
RangeTable == INSTANCE RangeTable WITH Text <- MCText

Init ==
    /\ part \in {"Context", "Loader", "Stack", "Lists", "MpscQ", "MpscIq",
                 "Swcoop", "RangeTable"}
    /\ Context!Init /\ Loader!Init /\ Stack!Init /\ Lists!Init
    /\ Swcoop!Init /\ RangeTable!Init
    /\ IF part = "MpscIq" THEN MpscIq!Init /\ allocated = {} /\ q_dying = "no"
       ELSE MpscQ!Init
    /\ part # "Loader" => file = CHOOSE f \in MCFiles : TRUE
    /\ part # "Stack" => os = "linux"

Next ==
    \/ /\ part = "Context" /\ Context!Next
       /\ UNCHANGED <<part, loaderVars, stackVars, listsVars, mpscqVars,
                      swcoopVars, rangeVars>>
    \/ /\ part = "Loader" /\ Loader!Next
       /\ UNCHANGED <<part, contextVars, stackVars, listsVars, mpscqVars,
                      swcoopVars, rangeVars>>
    \/ /\ part = "Stack" /\ Stack!Next
       /\ UNCHANGED <<part, contextVars, loaderVars, listsVars, mpscqVars,
                      swcoopVars, rangeVars>>
    \/ /\ part = "Lists" /\ Lists!Next
       /\ UNCHANGED <<part, contextVars, loaderVars, stackVars, mpscqVars,
                      swcoopVars, rangeVars>>
    \/ /\ part = "MpscQ" /\ MpscQ!Next
       /\ UNCHANGED <<part, contextVars, loaderVars, stackVars, listsVars,
                      swcoopVars, rangeVars>>
    \/ /\ part = "MpscIq" /\ MpscIq!Next
       /\ UNCHANGED <<part, contextVars, loaderVars, stackVars, listsVars,
                      allocated, q_dying, swcoopVars, rangeVars>>
    \/ /\ part = "Swcoop" /\ Swcoop!Next
       /\ UNCHANGED <<part, contextVars, loaderVars, stackVars, listsVars,
                      mpscqVars, rangeVars>>
    \/ /\ part = "RangeTable" /\ RangeTable!Next
       /\ UNCHANGED <<part, contextVars, loaderVars, stackVars, listsVars,
                      mpscqVars, swcoopVars>>

Spec == Init /\ [][Next]_vars

(* prs/pal/posix/context.c: a task finds its registers and its stack as it *)
(* left them, wherever it was interrupted.                                 *)
TasksAreUndisturbed == Context!TasksAreUndisturbed

(* prs/pal/linux/proc.c: a process that was loaded is what its file says.  *)
ImageIsLoaded == part = "Loader" => Loader!ImageIsLoaded

(* prs/alloc/stack.c: the next overflow of a stack can be dealt with.      *)
OverflowIsHandled == part = "Stack" => Stack!OverflowIsHandled

(* prs/lib/ds/dllist.c and idllist.c: the links spell out the sequence.    *)
ListsAreSequences == part = "Lists" => Lists!ListsAreSequences

(* prs/lib/ds/mpscq.c: no walk of the queue meets a freed node.            *)
LinksAreLive == part = "MpscQ" => MpscQ!LinksAreLive

(* prs/lib/ds/mpsciq.c: what its own check asserts of the links, ...       *)
IntegrityCheck == part = "MpscIq" => MpscIq!IntegrityCheck

(* ... and it is a queue: first in, first out, whichever node is removed.  *)
Fifo == INSTANCE NodeQueue WITH
    Nodes <- MpsciqNodes,
    q <- IF part = "MpscIq" THEN MpscIq!Oldest ELSE <<>>,
    first <- IF part = "MpscIq" THEN got ELSE Null
FifoSpec == Fifo!Spec

(* prs/sched/swcoop.c: the worker does not sleep on a ready task, ...      *)
ReadyIsNoticed == part = "Swcoop" => Swcoop!ReadyIsNoticed

(* ... and a task that runs is not preempted.                              *)
NeverPreempted == Swcoop!NeverPreempted

(* prs/proc.c: the text of a loaded process is recognised.                 *)
LoadedTextIsFound == part = "RangeTable" => RangeTable!LoadedTextIsFound

=============================================================================
