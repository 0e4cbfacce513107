-------------------------------- MODULE Pool --------------------------------
(***************************************************************************)
(* The pool of fixed-size entries (lib/ds/pool.c) under the log's ring and *)
(* the timer's entries.  The header of an entry holds the identifier it    *)
(* was last allocated with, the ALLOC bit and a reference count; one       *)
(* compare-and-swap changes all three.  An identifier is an index that is  *)
(* never reduced: modulo the number of entries it is a position, and the   *)
(* rest tells two allocations of the same entry apart.                     *)
(***************************************************************************)
EXTENDS Integers

CONSTANT MaxEntries                \* pool->max_entries

Index(id) == id % MaxEntries       \* prs_pool_get_entry
Entries == 0 .. MaxEntries - 1
NoId == 0                          \* PRS_POOL_ID_INVALID

ASSUME PoolAssumption == MaxEntries \in Nat \ {0, 1}

VARIABLES
    header,         \* per entry: PRS_POOL_GET_ID, _TEST_ALLOC, _GET_REFCNT
    write_index     \* pool->write_index

poolVars == <<header, write_index>>

(* prs_pool_create: the first entry is marked allocated, and stays so. *)
PoolHeader == [e \in Entries |-> [id |-> 0, alloc |-> e = 0, refcnt |-> 0]]

(* An entry prs_pool_alloc passes over: in use, or about to get the        *)
(* identifier it already had.                                              *)
PoolSkips(i) == header[Index(i)].alloc \/ header[Index(i)].id = i

(* The compare-and-swap of prs_pool_alloc, from the header it has read.    *)
PoolTakes(i, seen) == header[Index(i)] = seen

PoolTake(i) ==
    header' = [header EXCEPT ![Index(i)] =
                 [id |-> i, alloc |-> TRUE, refcnt |-> 0]]

(* prs_pool_lock_first *)
PoolLockFirst(id) == header' = [header EXCEPT ![Index(id)].refcnt = 1]

(* Fault: the identifier is not compared. *)
PoolLockableStale(id) ==
    id # NoId /\ header[Index(id)].alloc /\ header[Index(id)].refcnt > 0

(* prs_pool_lock: fails for an entry that was freed, or freed and          *)
(* allocated anew, or is not yet locked for the first time.                *)
PoolLockable(id) ==
    LET h == header[Index(id)]
    IN  id # NoId /\ h.id = id /\ h.alloc /\ h.refcnt > 0

PoolLock(id) ==
    header' = IF PoolLockable(id)
              THEN [header EXCEPT ![Index(id)].refcnt = @ + 1] ELSE header

(* prs_pool_unlock_internal: the last reference frees the entry. *)
PoolUnlock(id) ==
    header' = [header EXCEPT ![Index(id)].refcnt = @ - 1,
                             ![Index(id)].alloc = header[Index(id)].refcnt > 1]

=============================================================================
