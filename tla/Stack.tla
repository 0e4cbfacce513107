------------------------------- MODULE Stack -------------------------------
(***************************************************************************)
(* Task stacks that grow (prs/alloc/stack.c), on pages of the platform's   *)
(* memory (prs/pal/posix/mem.c, prs/pal/windows/mem.c): the whole range is *)
(* reserved, its upper end is committed, and an access below it raises an  *)
(* exception whose handler commits more.  On Windows the handler runs on   *)
(* the same stack: a guard page raises the exception, and the pages under  *)
(* it are committed for the handler.                                       *)
(*                                                                         *)
(* An address is told by its depth, its distance from the end of the       *)
(* stack; page 1 is the uppermost.                                         *)
(***************************************************************************)
EXTENDS Integers

CONSTANTS PageSize,   \* prs_pal_os_get_page_size
          MaxPages,   \* pages of PRS_MAX_STACK_SIZE
          ExtraPages  \* PRS_STACK_EXTRA_PAGES on Windows

VARIABLES os,         \* "linux" or "windows"
          at,         \* where the task is
          page,       \* protection of each page
          stack_size, \* task->stack_size
          deepest,    \* the lowest page the task has used
          failed      \* depth of the access that raised the exception

vars == <<os, at, page, stack_size, deepest, failed>>

MaxSize == MaxPages * PageSize
AlignSize(n) == ((n + PageSize - 1) \div PageSize) * PageSize
PageOf(depth) == (depth + PageSize - 1) \div PageSize

Init ==
    /\ os \in {"linux", "windows"}
    /\ at = "create"
    /\ page = [k \in 1 .. MaxPages |-> "none"]
    /\ stack_size = 0 /\ deepest = 0 /\ failed = 0

(* prs_pal_mem_commit of the pages between two depths. *)
Commit(pages, from, limit, protect) ==
    [k \in DOMAIN pages |->
        IF k * PageSize \in from + 1 .. limit THEN protect ELSE pages[k]]

(* The committed pages, the guard page under them and the extra pages      *)
(* under that, once pages from depth from to depth limit are committed.    *)
Committed(from, limit) ==
    LET used == Commit(page, from, limit, "rw")
        guard == limit + PageSize
        extra == guard + ExtraPages * PageSize
    IN IF os = "linux" THEN used
       ELSE Commit(Commit(used, limit, guard, "guard"), guard, extra, "rw")

(* On Windows there has to be room for the guard and extra pages, too. *)
Room(size) ==
    size <= MaxSize - (IF os = "windows" THEN (1 + ExtraPages) * PageSize ELSE 0)

(* prs_stack_create. *)
Create(size) ==
    LET aligned_size == AlignSize(size) IN
    /\ at = "create"
    /\ IF Room(aligned_size)
       THEN /\ page' = Committed(0, aligned_size)
            /\ stack_size' = aligned_size
            /\ at' = "running"
       ELSE at' = "refused" /\ UNCHANGED <<page, stack_size>>
    /\ UNCHANGED <<os, deepest, failed>>

(* The task uses the stack down to depth.  On Windows a function that      *)
(* needs more than a page touches each one on its way.                     *)
Access(depth) ==
    LET k == PageOf(depth) IN
    /\ at = "running"
    /\ os = "windows" => k <= deepest + 1
    /\ IF page[k] = "rw"
       THEN /\ deepest' = IF k > deepest THEN k ELSE deepest
            /\ UNCHANGED <<at, page, failed>>
       ELSE /\ at' = "excp" /\ failed' = depth
            /\ page' = IF page[k] = "guard" THEN [page EXCEPT ![k] = "rw"] ELSE page
            /\ UNCHANGED deepest
    /\ UNCHANGED <<os, stack_size>>

(* The size prs_stack_grow grows to. *)
NewSize ==
    IF os = "windows" THEN stack_size + (1 + ExtraPages) * PageSize
    ELSE AlignSize(failed)

(* Seeded fault: what is committed is as much as the stack lacks, but from *)
(* the end of the stack on.                                                *)
GrowFromTop ==
    /\ at = "excp"
    /\ IF Room(NewSize)
       THEN /\ page' = Committed(0, NewSize - stack_size)
            /\ stack_size' = NewSize
            /\ at' = "running"
       ELSE at' = "exit" /\ UNCHANGED <<page, stack_size>>
    /\ failed' = 0
    /\ UNCHANGED <<os, deepest>>

(* The default exception handler and prs_stack_grow: the access is         *)
(* repeated, or the process exits.                                         *)
Grow ==
    /\ at = "excp"
    /\ IF Room(NewSize)
       THEN /\ page' = Committed(IF os = "windows" THEN stack_size ELSE 0, NewSize)
            /\ stack_size' = NewSize
            /\ at' = "running"
       ELSE at' = "exit" /\ UNCHANGED <<page, stack_size>>
    /\ failed' = 0
    /\ UNCHANGED <<os, deepest>>

(* prs_stack_destroy. *)
Destroy ==
    /\ at = "running"
    /\ at' = "destroyed"
    /\ page' = [k \in DOMAIN page |-> "none"]
    /\ UNCHANGED <<os, stack_size, deepest, failed>>

Next ==
    \/ \E size \in 1 .. MaxSize : Create(size)
    \/ \E depth \in 1 .. MaxSize : Access(depth)
    \/ Grow \/ Destroy

Spec == Init /\ [][Next]_vars

(***************************************************************************)
(* Properties.                                                             *)
(***************************************************************************)

(* A stack is always in a state in which the next overflow can be dealt    *)
(* with: all of it down to task->stack_size can be used, what lies below   *)
(* cannot without an exception, an exception on Windows finds stack for    *)
(* its handler under the page that raised it, and no task that stays       *)
(* within a Linux stack's range makes the process exit.                    *)
OverflowIsHandled ==
    /\ at \in {"running", "excp"} =>
          /\ stack_size <= MaxSize /\ deepest <= PageOf(stack_size)
          /\ \A k \in 1 .. PageOf(stack_size) : page[k] = "rw"
    /\ at = "running" /\ PageOf(stack_size) < MaxPages =>
          page[PageOf(stack_size) + 1] # "rw"
    /\ at = "excp" /\ os = "windows" =>
          \A k \in PageOf(failed) .. PageOf(failed) + ExtraPages : page[k] = "rw"
    /\ at = "exit" => os = "windows"

=============================================================================
