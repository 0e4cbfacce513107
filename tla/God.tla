-------------------------------- MODULE God ---------------------------------
(***************************************************************************)
(* The global object directory (prs/god.c): a table of entries with an     *)
(* atomic header each, in which threads register objects, and lock and     *)
(* unlock them by ID without any other synchronisation.                    *)
(*                                                                         *)
(* A loop that ends with a compare-and-exchange of the header it decided   *)
(* on, and decides again on the header it finds otherwise, takes effect in *)
(* its last round: it is one action.  prs_god_alloc_and_lock, which moves  *)
(* on to the next entry when the exchange fails, is not.                   *)
(*                                                                         *)
(* A thread stands for one reference: it registers or locks an object,     *)
(* holds it, and gives it back.                                            *)
(***************************************************************************)
EXTENDS Naturals, FiniteSets

CONSTANTS Threads, Objects,
          MaxEntries,   \* god->max_entries
          IdSpace,      \* number of values of prs_object_id_t, 2^32 in the code
          MaxRefcnt,    \* PRS_GOD_HEADER_REFCNT
          NoObject      \* the null pointer

ASSUME GodAssumption ==
    /\ IsFiniteSet(Threads)
    /\ MaxEntries \in Nat \ {0}
    /\ IdSpace \in Nat \ {0}
    /\ MaxRefcnt \in Nat \ {0}
    /\ NoObject \notin Objects

VARIABLES
    header,       \* entry->header: the ID, the three flags and the counter
    object,       \* entry->object
    write_index,  \* god->write_index
    live,         \* objects that are registered and not yet freed
    issued,       \* IDs that prs_god_alloc_and_lock has returned
    pc,           \* per thread: where it is
    id,           \* per thread: the ID it works with, i while it allocates
    end,          \* per thread: local of prs_god_alloc_and_lock
    seen,         \* per thread: the header it has loaded
    ref           \* per thread: the object it registers or has locked

vars == <<header, object, write_index, live, issued, pc, id, end, seen, ref>>

Entries == 0 .. MaxEntries - 1
Ids == 0 .. IdSpace - 1

(* prs_god_get_entry *)
Entry(i) == i % MaxEntries

FreeHeader(i) == [id |-> i, reserved |-> FALSE, used |-> FALSE,
                  delete |-> FALSE, refcnt |-> 0]

(* The header of an entry that is given to a new object. *)
NewHeader(i, isUsed) == [id |-> i, reserved |-> TRUE, used |-> isUsed,
                         delete |-> FALSE, refcnt |-> 1]

(* prs_god_create: entry 0 is reserved for good. *)
Init ==
    /\ header = [e \in Entries |->
                   [FreeHeader(0) EXCEPT !.reserved = (e = 0), !.used = (e = 0)]]
    /\ object = [e \in Entries |-> NoObject]
    /\ write_index = 1 % IdSpace
    /\ live = {}
    /\ issued = {}
    /\ pc = [t \in Threads |-> "idle"]
    /\ id = [t \in Threads |-> 0]
    /\ end = [t \in Threads |-> 0]
    /\ seen = [t \in Threads |-> FreeHeader(0)]
    /\ ref = [t \in Threads |-> NoObject]

Goto(t, p) == pc' = [pc EXCEPT ![t] = p]

(* The end of a call that leaves t without a reference. *)
Leave(t) ==
    /\ Goto(t, "idle")
    /\ id' = [id EXCEPT ![t] = 0]
    /\ ref' = [ref EXCEPT ![t] = NoObject]

(***************************************************************************)
(* prs_god_alloc_and_lock                                                  *)
(***************************************************************************)

(* The end of the search wraps around like the index does. *)
AllocBegin(t, o) ==
    /\ pc[t] = "idle"
    /\ o \notin live
    /\ \A u \in Threads : ref[u] # o
    /\ Goto(t, "scan")
    /\ id' = [id EXCEPT ![t] = write_index]
    /\ end' = [end EXCEPT ![t] = (write_index + MaxEntries) % IdSpace]
    /\ ref' = [ref EXCEPT ![t] = o]
    /\ UNCHANGED <<header, object, write_index, live, issued, seen>>

NextIndex(t) == id' = [id EXCEPT ![t] = (@ + 1) % IdSpace]

(* The entry is passed over when it is reserved, or when its last ID was   *)
(* the one that it would get.                                              *)
AllocScan(t) ==
    LET h == header[Entry(id[t])] IN
    /\ pc[t] = "scan"
    /\ \/ /\ id[t] >= end[t]
          /\ Leave(t)
          /\ UNCHANGED seen
       \/ /\ id[t] < end[t]
          /\ h.reserved \/ h.id = id[t]
          /\ NextIndex(t)
          /\ UNCHANGED <<pc, seen, ref>>
       \/ /\ id[t] < end[t]
          /\ ~h.reserved /\ h.id # id[t]
          /\ seen' = [seen EXCEPT ![t] = h]
          /\ Goto(t, "cas")
          /\ UNCHANGED <<id, ref>>
    /\ UNCHANGED <<header, object, write_index, live, issued, end>>

AllocCas(t) ==
    LET e == Entry(id[t]) IN
    /\ pc[t] = "cas"
    /\ seen' = [seen EXCEPT ![t] = FreeHeader(0)]
    /\ \/ /\ header[e] = seen[t]
          /\ header' = [header EXCEPT ![e] = NewHeader(id[t], FALSE)]
          /\ Goto(t, "index")
          /\ UNCHANGED id
       \/ /\ header[e] # seen[t]
          /\ NextIndex(t)
          /\ Goto(t, "scan")
          /\ UNCHANGED header
    /\ UNCHANGED <<object, write_index, live, issued, end, ref>>

AllocIndex(t) ==
    /\ pc[t] = "index"
    /\ write_index' = (id[t] + 1) % IdSpace
    /\ Goto(t, "object")
    /\ UNCHANGED <<header, object, live, issued, id, end, seen, ref>>

(* Fault: the object is not stored. *)
AllocObjectForgotten(t) ==
    /\ pc[t] = "object"
    /\ Goto(t, "publish")
    /\ UNCHANGED <<header, object, write_index, live, issued, id, end, seen, ref>>

AllocObject(t) ==
    /\ pc[t] = "object"
    /\ object' = [object EXCEPT ![Entry(id[t])] = ref[t]]
    /\ Goto(t, "publish")
    /\ UNCHANGED <<header, write_index, live, issued, id, end, seen, ref>>

(* A store of the header computed before, with USED added. *)
AllocPublish(t) ==
    /\ pc[t] = "publish"
    /\ header' = [header EXCEPT ![Entry(id[t])] = NewHeader(id[t], TRUE)]
    /\ live' = live \cup {ref[t]}
    /\ issued' = issued \cup {id[t]}
    /\ Goto(t, "hold")
    /\ UNCHANGED <<object, write_index, id, end, seen, ref>>

(***************************************************************************)
(* References.                                                             *)
(***************************************************************************)

(* prs_god_lock_entry finds the object, and may count one more reference. *)
Lockable(h, i) ==
    /\ h.id = i
    /\ h.used
    /\ ~h.delete
    /\ h.refcnt # MaxRefcnt

(* prs_god_lock, prs_god_object_destroy and prs_god_print: an ID that is   *)
(* not lockable leaves no trace.  PRS_OBJECT_ID_INVALID is refused before. *)
Lock(t, i) ==
    /\ pc[t] = "idle"
    /\ Lockable(header[Entry(i)], i)
    /\ header' = [header EXCEPT ![Entry(i)].refcnt = @ + 1]
    /\ id' = [id EXCEPT ![t] = i]
    /\ Goto(t, "deref")
    /\ UNCHANGED <<object, write_index, live, issued, end, seen, ref>>

Deref(t) ==
    /\ pc[t] = "deref"
    /\ ref' = [ref EXCEPT ![t] = object[Entry(id[t])]]
    /\ Goto(t, "hold")
    /\ UNCHANGED <<header, object, write_index, live, issued, id, end, seen>>

(* Fault: the last unlock does not mark the entry. *)
UnlockedUnmarked(h) == [h EXCEPT !.refcnt = @ - 1]

(* The header that prs_god_unlock leaves behind. *)
Unlocked(h) ==
    IF h.refcnt = 1 THEN [h EXCEPT !.delete = TRUE, !.refcnt = 0]
                    ELSE [h EXCEPT !.refcnt = @ - 1]

(* prs_god_unlock by a thread that holds a reference: the last one frees   *)
(* the object.  The checks at the top of the loop never fail then.         *)
Unlock(t) ==
    LET e == Entry(id[t])
        h == header[e]
    IN  /\ pc[t] = "hold"
        /\ h.id = id[t] /\ h.used /\ h.refcnt # 0
        /\ header' = [header EXCEPT ![e] = Unlocked(h)]
        /\ IF h.refcnt = 1 THEN Goto(t, "free") /\ UNCHANGED <<id, ref>>
                           ELSE Leave(t)
        /\ UNCHANGED <<object, write_index, live, issued, end, seen>>

(* Fault: the object is freed whatever the other references. *)
TryUnlockShared(t) ==
    LET e == Entry(id[t])
        h == header[e]
    IN  /\ pc[t] = "hold"
        /\ h.id = id[t] /\ h.used
        /\ header' = [header EXCEPT ![e] = [h EXCEPT !.delete = TRUE, !.refcnt = 0]]
        /\ Goto(t, "free")
        /\ UNCHANGED <<object, write_index, live, issued, id, end, seen, ref>>

(* prs_god_try_unlock_final by a thread that holds a reference and keeps   *)
(* it when there are others (PRS_LOCKED).                                  *)
TryUnlockFinal(t) ==
    LET e == Entry(id[t])
        h == header[e]
    IN  /\ pc[t] = "hold"
        /\ h.id = id[t] /\ h.used /\ h.refcnt = 1
        /\ header' = [header EXCEPT ![e] = Unlocked(h)]
        /\ Goto(t, "free")
        /\ UNCHANGED <<object, write_index, live, issued, id, end, seen, ref>>

(* prs_god_free: ops->free destroys the object, whose memory may be that   *)
(* of a new object at once; only then the entry is freed, keeping its ID.  *)
FreeObject(t) ==
    /\ pc[t] = "free"
    /\ live' = live \ {object[Entry(id[t])]}
    /\ ref' = [ref EXCEPT ![t] = NoObject]
    /\ Goto(t, "clear")
    /\ UNCHANGED <<header, object, write_index, issued, id, end, seen>>

FreeEntry(t) ==
    /\ pc[t] = "clear"
    /\ header' = [header EXCEPT ![Entry(id[t])] = FreeHeader(@.id)]
    /\ Leave(t)
    /\ UNCHANGED <<object, write_index, live, issued, end, seen>>

Alloc(t) ==
    \/ AllocScan(t) \/ AllocCas(t) \/ AllocIndex(t) \/ AllocObject(t)
    \/ AllocPublish(t)

Next ==
    \E t \in Threads :
      \/ \E o \in Objects : AllocBegin(t, o)
      \/ Alloc(t)
      \/ \E i \in issued \ {0} : Lock(t, i)
      \/ Deref(t) \/ Unlock(t) \/ TryUnlockFinal(t)
      \/ FreeObject(t) \/ FreeEntry(t)

Spec == Init /\ [][Next]_vars

(***************************************************************************)
(* Properties.                                                             *)
(***************************************************************************)

Headers == [id : Ids, reserved : BOOLEAN, used : BOOLEAN, delete : BOOLEAN,
            refcnt : Nat]

(* The values the state can take. *)
TypeOK ==
    /\ header \in [Entries -> Headers]
    /\ object \in [Entries -> Objects \cup {NoObject}]
    /\ write_index \in Ids
    /\ live \subseteq Objects
    /\ issued \subseteq Ids
    /\ pc \in [Threads -> {"idle", "scan", "cas", "index", "object", "publish",
                           "deref", "hold", "free", "clear"}]
    /\ id \in [Threads -> Ids]
    /\ end \in [Threads -> Ids]
    /\ seen \in [Threads -> Headers]
    /\ ref \in [Threads -> Objects \cup {NoObject}]

(* t has a reference that the counter of entry e should count. *)
Counted == {"index", "object", "publish", "deref", "hold"}
Owners(e) == {t \in Threads : pc[t] \in Counted /\ Entry(id[t]) = e}

(* The counter in the header is the number of references there are.  Entry *)
(* 0 is never given out.                                                   *)
CountIsOwners ==
    \A e \in Entries : header[e].refcnt = Cardinality(Owners(e))

(* Nobody holds an object that was freed, or another object than the one   *)
(* in the entry of its ID, or an object under an ID that is out of date.   *)
HeldIsLive ==
    \A t \in Threads : pc[t] = "hold" =>
      /\ ref[t] \in live
      /\ ref[t] = object[Entry(id[t])]
      /\ header[Entry(id[t])].id = id[t]

(* ops->free is called for a registered object, by one thread at a time,   *)
(* while nobody holds it.                                                  *)
FreedOnce ==
    \A t \in Threads : pc[t] = "free" =>
      /\ object[Entry(id[t])] \in live
      /\ \A u \in Threads \ {t} :
           pc[u] \in Counted \cup {"free"} => Entry(id[u]) # Entry(id[t])

(***************************************************************************)
(* The inductive invariant.                                                *)
(***************************************************************************)

Allocating == {"scan", "cas", "index", "object", "publish"}
Filling == {"index", "object", "publish"}
Freeing == {"free", "clear"}

(* Entry e is t's to count on, or to itself. *)
Engaged(t, e) == pc[t] \in Counted \cup Freeing /\ Entry(id[t]) = e

(* The object in entry e can be locked. *)
InUse(e) == e # 0 /\ header[e].used /\ ~header[e].delete

EntryInv ==
    /\ header[0].reserved /\ header[0].id = 0
    /\ \A e \in Entries : InUse(e) =>
         header[e].reserved /\ header[e].refcnt # 0 /\ object[e] \in live
    /\ \A e, f \in Entries :
         InUse(e) /\ InUse(f) /\ object[e] = object[f] => e = f

(* t may rely on the header of its entry, and on being alone in it while   *)
(* it fills or frees the entry.                                            *)
EngagedInv ==
    \A t \in Threads :
      LET e == Entry(id[t])
          h == header[e]
      IN  /\ pc[t] \in Counted \cup Freeing => h.reserved /\ h.id = id[t] /\ id[t] # 0
          /\ pc[t] \in Filling => ~h.used /\ ~h.delete
          /\ pc[t] \in {"deref", "hold"} => h.used /\ ~h.delete
          /\ pc[t] \in Freeing => h.used /\ h.delete
          /\ pc[t] \in Filling \cup Freeing =>
               \A u \in Threads : Engaged(u, e) => u = t
          /\ pc[t] = "cas" => ~seen[t].reserved

(* What t knows of its object. *)
ObjectInv ==
    \A t \in Threads :
      LET e == Entry(id[t]) IN
      /\ pc[t] \in Allocating =>
           /\ ref[t] \in Objects \ live
           /\ \A u \in Threads : ref[u] = ref[t] => u = t
      /\ pc[t] = "publish" => object[e] = ref[t]
      /\ pc[t] = "hold" => ref[t] = object[e]
      /\ pc[t] \in {"idle", "deref", "clear"} => ref[t] = NoObject
      /\ pc[t] = "free" =>
           /\ object[e] \in live
           /\ \A f \in Entries : InUse(f) => object[f] # object[e]
           /\ \A u \in Threads :
                pc[u] = "free" /\ object[Entry(id[u])] = object[e] => u = t

(* What every step preserves, and what the properties above follow from.   *)
GodInv == TypeOK /\ CountIsOwners /\ EntryInv /\ EngagedInv /\ ObjectInv

(* The ID of a new object was never that of another one. *)
NewIdIsUnique ==
    \A t \in Threads : pc[t] = "publish" => id[t] \notin issued

Holds(t, o) == pc[t] \in {"deref", "hold"} /\ object[Entry(id[t])] = o
Holders == [o \in Objects |-> {t \in Threads : Holds(t, o)}]
Directory == INSTANCE RefDirectory WITH holders <- Holders

(* The directory does what RefDirectory promises: an object is acquired    *)
(* only while somebody holds it, and destroyed once, when nobody does.     *)
DirectorySpec == Directory!Spec

=============================================================================
