----------------------------- MODULE RangeTable -----------------------------
(***************************************************************************)
(* The table of the loaded processes' text (prs/proc.c).  The process      *)
(* service adds a process; the thread that drops its last reference        *)
(* removes it; meanwhile a worker's interrupt handler looks up an address. *)
(* None of them takes a lock.                                              *)
(***************************************************************************)
EXTENDS Integers, FiniteSets

CONSTANTS Text,      \* per process: its base and size
          MaxRanges, \* entries of range_table, PRS_MAX_OBJECTS in the code
          NoProc

Procs == DOMAIN Text
Slots == 0 .. MaxRanges - 1

VARIABLES
    base, size, count,  \* range_table and range_table_count
    slot,      \* proc->range_table_index
    loaded,    \* per process: "no", "adding", "yes", "deleting" or "gone"
    add,       \* the service's call: process and next step
    look,      \* the lookup: address, index, what was read of it, result
    steady,    \* ghost: processes in the table since the lookup began
    spoiled    \* ghost: processes given an entry that was still being removed

vars == <<base, size, count, slot, loaded, add, look, steady, spoiled>>

NoAdd == [proc |-> NoProc, at |-> "none"]
NoLook == [ip |-> 0, i |-> 0, count |-> 0, base |-> 0, at |-> "none"]

Init ==
    /\ base = [i \in Slots |-> 0]
    /\ size = [i \in Slots |-> 0]
    /\ count = 0
    /\ slot = [p \in Procs |-> 0]
    /\ loaded = [p \in Procs |-> "no"]
    /\ add = NoAdd
    /\ look = NoLook
    /\ steady = {} /\ spoiled = {}

(* prs_proc_range_table_add: the last free entry below count, or count. *)
Add(p) ==
    LET free == {i \in 0 .. count - 1 : base[i] = 0}
        index == IF free = {} THEN count
                 ELSE CHOOSE i \in free : \A j \in free : j <= i
    IN  /\ add = NoAdd
        /\ loaded[p] = "no"
        /\ index < MaxRanges
        /\ slot' = [slot EXCEPT ![p] = index]
        /\ spoiled' = IF \E q \in Procs : loaded[q] = "deleting" /\ slot[q] = index
                      THEN spoiled \cup {p} ELSE spoiled
        /\ loaded' = [loaded EXCEPT ![p] = "adding"]
        /\ add' = [proc |-> p, at |-> "size"]
        /\ UNCHANGED <<base, size, count, look, steady>>

(* Seeded fault: an entry just past the end does not count. *)
NewCountLate(i) == IF i > count THEN i + 1 ELSE count

NewCount(i) == IF i >= count THEN i + 1 ELSE count

(* The stores of the size, of the base and, for a new entry, of the count. *)
AddStore ==
    LET p == add.proc
        i == slot[p]
    IN  /\ \/ /\ add.at = "size"
              /\ size' = [size EXCEPT ![i] = Text[p].size]
              /\ add' = [add EXCEPT !.at = "base"]
              /\ UNCHANGED <<base, count, loaded>>
           \/ /\ add.at = "base"
              /\ base' = [base EXCEPT ![i] = Text[p].base]
              /\ add' = [add EXCEPT !.at = "count"]
              /\ UNCHANGED <<size, count, loaded>>
           \/ /\ add.at = "count"
              /\ count' = NewCount(i)
              /\ loaded' = [loaded EXCEPT ![p] = "yes"]
              /\ add' = NoAdd
              /\ UNCHANGED <<base, size>>
        /\ UNCHANGED <<slot, look, steady, spoiled>>

(* prs_proc_range_table_del *)
Del(p) ==
    /\ \/ /\ loaded[p] = "yes"
          /\ base' = [base EXCEPT ![slot[p]] = 0]
          /\ loaded' = [loaded EXCEPT ![p] = "deleting"]
          /\ UNCHANGED size
       \/ /\ loaded[p] = "deleting"
          /\ size' = [size EXCEPT ![slot[p]] = 0]
          /\ loaded' = [loaded EXCEPT ![p] = "gone"]
          /\ UNCHANGED base
    /\ steady' = steady \ {p}
    /\ UNCHANGED <<count, slot, add, look, spoiled>>

(* prs_proc_is_user_text loads the count, ... *)
Look(ip) ==
    /\ look.at \in {"none", "found", "not_found"}
    /\ look' = [ip |-> ip, i |-> 0, count |-> count, base |-> 0, at |-> "base"]
    /\ steady' = {p \in Procs : loaded[p] = "yes"}
    /\ UNCHANGED <<base, size, count, slot, loaded, add, spoiled>>

(* ... and for each entry the base and, if that is below, the size. *)
LookStep ==
    LET i == look.i
        advance == [look EXCEPT !.i = i + 1, !.at = "base", !.base = 0]
    IN  /\ \/ /\ look.at = "base"
              /\ look' = IF i >= look.count THEN [look EXCEPT !.at = "not_found"]
                         ELSE IF base[i] # 0 /\ base[i] < look.ip
                         THEN [look EXCEPT !.base = base[i], !.at = "size"]
                         ELSE advance
           \/ /\ look.at = "size"
              /\ look' = IF size[i] # 0 /\ look.ip < look.base + size[i]
                         THEN [look EXCEPT !.at = "found"] ELSE advance
        /\ UNCHANGED <<base, size, count, slot, loaded, add, steady, spoiled>>

Addresses == UNION {Text[p].base .. Text[p].base + Text[p].size - 1 : p \in Procs}

Next ==
    \/ \E p \in Procs : Add(p) \/ Del(p)
    \/ AddStore \/ LookStep
    \/ \E ip \in Addresses : Look(ip)

Spec == Init /\ [][Next]_vars

(* A lookup of an instruction of a process that stays in the table from    *)
(* its beginning to its end finds it, whatever is added and removed        *)
(* meanwhile; the first byte, which is no instruction, is not counted in.  *)
(* The one exception is a process whose entry was taken from a removal     *)
(* between its two stores (prs_proc_range_table_del stores the base first, *)
(* and prs_proc_range_table_add takes an entry without a base for free).   *)
LoadedTextIsFound ==
    look.at = "not_found" =>
       \A p \in steady \ spoiled :
          look.ip \notin Text[p].base + 1 .. Text[p].base + Text[p].size - 1

=============================================================================
