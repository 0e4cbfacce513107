------------------------------ MODULE GodProofs -----------------------------
(***************************************************************************)
(* GodInv is inductive: whatever the number of threads, objects, entries   *)
(* and IDs, the counter of an entry is the number of references to it, and *)
(* no reference outlives its object.  The directory refines RefDirectory.  *)
(***************************************************************************)
EXTENDS God, FiniteSetTheorems, TLAPS

(* prs_god_get_entry finds an entry for every ID, and an index that wraps  *)
(* around is an ID.                                                        *)
LEMMA ModRange ==
    ASSUME NEW n \in Nat, NEW m \in Nat \ {0} PROVE n % m \in 0 .. m - 1
  OBVIOUS

LEMMA EntryType == \A i \in Ids : Entry(i) \in Entries
  BY ModRange, GodAssumption DEF Entry, Entries, Ids

LEMMA IdType == \A n \in Nat : n % IdSpace \in Ids
  BY ModRange, GodAssumption DEF Ids

LEMMA ZeroEntry == Entry(0) = 0
  BY GodAssumption DEF Entry

(* What prs_god_unlock does to a header. *)
LEMMA UnlockedEffect ==
    ASSUME NEW h \in Headers, h.refcnt # 0
    PROVE  /\ Unlocked(h) \in Headers
           /\ Unlocked(h).id = h.id
           /\ Unlocked(h).reserved <=> h.reserved
           /\ Unlocked(h).used <=> h.used
           /\ Unlocked(h).delete <=> (h.delete \/ h.refcnt = 1)
           /\ Unlocked(h).refcnt = h.refcnt - 1
  <1>1. CASE h.refcnt = 1
    <2>1. Unlocked(h) = [h EXCEPT !.delete = TRUE, !.refcnt = 0]
      BY <1>1 DEF Unlocked
    <2>0. Unlocked(h) = [id |-> h.id, reserved |-> h.reserved, used |-> h.used,
                         delete |-> TRUE, refcnt |-> 0]
      BY Zenon, <2>1 DEF Headers
    <2>2. Unlocked(h) \in Headers /\ Unlocked(h).id = h.id /\ Unlocked(h).refcnt = 0
      BY <2>0 DEF Headers
    <2>3. /\ Unlocked(h).delete = TRUE
          /\ Unlocked(h).reserved = h.reserved /\ Unlocked(h).used = h.used
      BY <2>1
    <2> QED
      BY <1>1, <2>2, <2>3
  <1>2. CASE h.refcnt # 1
    <2>1. Unlocked(h) = [h EXCEPT !.refcnt = @ - 1]
      BY <1>2 DEF Unlocked
    <2> QED
      BY <1>2, <2>1 DEF Headers
  <1> QED
    BY <1>1, <1>2

(* The number of owners is a number. *)
LEMMA OwnersFinite ==
    \A e : IsFiniteSet(Owners(e)) /\ Cardinality(Owners(e)) \in Nat
  <1> TAKE e
  <1>1. Owners(e) \in SUBSET Threads
    BY DEF Owners
  <1>2. IsFiniteSet(Owners(e))
    BY <1>1, FS_Subset, GodAssumption
  <1> QED
    BY <1>2, FS_CardinalityType

(* A step that leaves every thread's claim on every entry alone. *)
LEMMA OwnersSame ==
    ASSUME CountIsOwners,
           \A u \in Threads, e \in Entries :
             (pc'[u] \in Counted /\ Entry(id'[u]) = e)
               <=> (pc[u] \in Counted /\ Entry(id[u]) = e),
           \A e \in Entries : header'[e].refcnt = header[e].refcnt
    PROVE  CountIsOwners'
  <1>1. \A e \in Entries : Owners(e)' = Owners(e)
    BY DEF Owners
  <1> QED
    BY <1>1 DEF CountIsOwners

(* A step of t that gains a reference to entry e. *)
LEMMA OwnersGain ==
    ASSUME CountIsOwners, NEW t \in Threads, NEW g \in Entries,
           header' = [header EXCEPT ![g] = header'[g]],
           DOMAIN header = Entries,
           header'[g].refcnt = header[g].refcnt + 1,
           pc[t] \notin Counted, pc'[t] \in Counted, Entry(id'[t]) = g,
           \A u \in Threads \ {t} : pc'[u] = pc[u] /\ id'[u] = id[u]
    PROVE  CountIsOwners'
  <1> SUFFICES ASSUME NEW e \in Entries
               PROVE  header'[e].refcnt = Cardinality(Owners(e)')
    BY DEF CountIsOwners
  <1>1. CASE e = g
    <2>1. Owners(e)' = Owners(e) \cup {t} /\ t \notin Owners(e)
      BY <1>1 DEF Owners
    <2>2. Cardinality(Owners(e)') = Cardinality(Owners(e)) + 1
      BY ZenonT(40), <2>1, OwnersFinite, FS_AddElement
    <2> QED
      BY <1>1, <2>2 DEF CountIsOwners
  <1>2. CASE e # g
    <2>1. Owners(e)' = Owners(e)
      BY <1>2 DEF Owners
    <2>2. header'[e] = header[e]
      BY <1>2
    <2> QED
      BY <2>1, <2>2 DEF CountIsOwners
  <1> QED
    BY <1>1, <1>2

(* A step of t that gives its reference to entry e back. *)
LEMMA OwnersLoss ==
    ASSUME CountIsOwners, NEW t \in Threads, NEW g \in Entries,
           header' = [header EXCEPT ![g] = header'[g]],
           DOMAIN header = Entries,
           header'[g].refcnt = header[g].refcnt - 1,
           pc[t] \in Counted, pc'[t] \notin Counted, Entry(id[t]) = g,
           \A u \in Threads \ {t} : pc'[u] = pc[u] /\ id'[u] = id[u]
    PROVE  CountIsOwners'
  <1> SUFFICES ASSUME NEW e \in Entries
               PROVE  header'[e].refcnt = Cardinality(Owners(e)')
    BY DEF CountIsOwners
  <1>1. CASE e = g
    <2>1. Owners(e)' = Owners(e) \ {t} /\ t \in Owners(e)
      BY <1>1 DEF Owners
    <2>2. Cardinality(Owners(e)') = Cardinality(Owners(e)) - 1
      BY ZenonT(40), <2>1, OwnersFinite, FS_RemoveElement
    <2> QED
      BY <1>1, <2>2 DEF CountIsOwners
  <1>2. CASE e # g
    <2>1. Owners(e)' = Owners(e)
      BY <1>2 DEF Owners
    <2>2. header'[e] = header[e]
      BY <1>2
    <2> QED
      BY <2>1, <2>2 DEF CountIsOwners
  <1> QED
    BY <1>1, <1>2

(* The initial state. *)
LEMMA GodInit == Init => GodInv
  <1> SUFFICES ASSUME Init PROVE GodInv
    OBVIOUS
  <1> USE GodAssumption
  <1>0. 0 \in Entries /\ 0 \in Ids /\ 1 % IdSpace \in Ids
    BY IdType DEF Entries
  <1>h. \A e \in Entries :
          /\ header[e] \in Headers
          /\ header[e].refcnt = 0
          /\ e # 0 => ~header[e].used
    BY ZenonT(40), <1>0 DEF Init, Headers, FreeHeader
  <1>z. header[0].reserved /\ header[0].id = 0
    BY ZenonT(40), <1>0 DEF Init, FreeHeader
  <1>1. TypeOK
    <2>1. header \in [Entries -> Headers]
      BY ZenonT(40), <1>h DEF Init
    <2>2. seen \in [Threads -> Headers]
      BY Zenon, <1>0 DEF Init, Headers, FreeHeader
    <2> QED
      BY ZenonT(40), <2>1, <2>2, <1>0 DEF Init, TypeOK
  <1>2. CountIsOwners
    <2>1. \A e \in Entries : Owners(e) = {}
      BY Zenon DEF Init, Owners, Counted
    <2> QED
      BY Zenon, <2>1, <1>h, FS_EmptySet DEF CountIsOwners
  <1>3. EntryInv
    BY <1>h, <1>z DEF EntryInv, InUse
  <1>4. EngagedInv /\ ObjectInv
    BY Zenon DEF Init, EngagedInv, ObjectInv, Counted, Freeing, Filling, Allocating
  <1> QED
    BY <1>1, <1>2, <1>3, <1>4 DEF GodInv

(* One reference fewer, and the last one marks the entry. *)
LEMMA UnlockStep ==
    ASSUME GodInv, NEW t \in Threads, Unlock(t)
    PROVE  GodInv'
  <1> USE GodAssumption
  <1>0. TypeOK /\ CountIsOwners /\ EntryInv /\ EngagedInv /\ ObjectInv
    BY DEF GodInv
  <1>e. \A u \in Threads : id[u] \in Ids /\ Entry(id[u]) \in Entries
    BY <1>0, EntryType DEF TypeOK
  <1>g. PICK g \in Entries : g = Entry(id[t]) /\ header[g] \in Headers
    BY <1>0, <1>e, EntryType DEF TypeOK
  <1>n. \A n \in Ids : (n + 1) % IdSpace \in Ids /\ (n + MaxEntries) % IdSpace \in Ids
    BY IdType DEF Ids
  <1>x. header' = [header EXCEPT ![g] = Unlocked(header[g])]
    BY <1>g DEF Unlock
  <1>o. /\ pc[t] = "hold" /\ header[g].refcnt # 0
        /\ UNCHANGED <<object, write_index, live, issued, end, seen>>
    BY <1>0, <1>g DEF Unlock
  <1>h. /\ header' = [header EXCEPT ![g] = header'[g]]
        /\ \A e \in Entries \ {g} : header'[e] = header[e]
        /\ header'[g] \in Headers
        /\ header'[g].id = header[g].id /\ (header'[g].reserved <=> header[g].reserved)
        /\ (header'[g].used <=> header[g].used)
        /\ (header'[g].delete <=> (header[g].delete \/ header[g].refcnt = 1))
        /\ header'[g].refcnt = header[g].refcnt - 1
    <2>1. header'[g] = Unlocked(header[g])
      BY <1>0, <1>g, <1>x DEF TypeOK
    <2> QED
      BY <1>0, <1>g, <1>o, <1>x, <2>1, UnlockedEffect DEF TypeOK
  <1>s. header[g].refcnt = 1 => \A u \in Threads : Engaged(u, g) => u = t
    <2>1. t \in Owners(g)
      BY <1>o, <1>g DEF Owners, Counted
    <2>2. header[g].refcnt = 1 => Owners(g) = {t}
      BY <1>0, <1>g, <2>1, OwnersFinite, FS_Singleton DEF CountIsOwners
    <2> QED
      BY <1>0, <1>o, <2>2, <1>g DEF EngagedInv, Engaged, Owners
  <1>p. /\ pc[t] = "hold"
        /\ pc' = [pc EXCEPT ![t] = IF header[g].refcnt = 1 THEN "free" ELSE "idle"]
        /\ id' = [id EXCEPT ![t] = IF header[g].refcnt = 1 THEN id[t] ELSE 0]
        /\ ref' = [ref EXCEPT ![t] = IF header[g].refcnt = 1 THEN ref[t] ELSE NoObject]
        /\ 0 \in Ids
        /\ UNCHANGED <<object, write_index, live, issued, end, seen>>
    BY <1>0, <1>o, <1>g DEF Unlock, Goto, Leave, TypeOK, Ids
  <1>z. g # 0
    BY <1>0, <1>g, <1>o DEF EntryInv, EngagedInv, Counted
  <1>y. InUse(g)
    BY <1>0, <1>g, <1>o, <1>z DEF InUse, EngagedInv
  <1>1. TypeOK'
    BY <1>0, <1>e, <1>g, <1>h, <1>p DEF TypeOK
  <1>2. CountIsOwners'
    BY <1>0, <1>g, <1>h, <1>p, <1>o, <1>s, OwnersLoss DEF TypeOK, Counted
  <1>u. /\ \A e \in Entries \ {g} : InUse(e)' <=> InUse(e)
        /\ InUse(g)' <=> header[g].refcnt # 1
        /\ 0 \in Entries
    BY <1>0, <1>g, <1>h, <1>p, <1>z, <1>o, <1>s DEF InUse, EngagedInv, Entries
  <1>3. EntryInv'
    BY <1>0, <1>e, <1>g, <1>h, <1>p, <1>z, <1>u, <1>y, <1>o, <1>s DEF Headers,
       EntryInv, Freeing
  <1>4. EngagedInv'
    <2>1. /\ \A u \in Threads \ {t} : pc'[u] = pc[u] /\ id'[u] = id[u] /\ seen'[u] = seen[u]
          /\ header[g].refcnt = 1 => pc'[t] = "free" /\ id'[t] = id[t]
          /\ header[g].refcnt # 1 => pc'[t] = "idle" /\ id'[t] = 0
      BY <1>0, <1>p DEF TypeOK
    <2>2. \A u \in Threads, e \in Entries : Engaged(u, e)' => Engaged(u, e)
      BY <1>0, <1>g, <1>p, <2>1 DEF Engaged, Counted, Freeing, Filling
    <2>3. CASE header[g].refcnt = 1
      <3>1. \A u \in Threads \ {t} : pc[u] \in Counted \cup Freeing =>
              header'[Entry(id'[u])] = header[Entry(id[u])]
        BY <1>e, <1>h, <1>s, <2>1, <2>3 DEF Engaged
      <3>2. /\ pc'[t] = "free" /\ id'[t] = id[t] /\ Entry(id'[t]) = g
            /\ header'[g].reserved /\ header'[g].id = id[t] /\ id[t] # 0
            /\ header'[g].used /\ header'[g].delete
        BY <1>0, <1>g, <1>h, <1>o, <2>1, <2>3 DEF EngagedInv, Counted
      <3>3. \A u \in Threads : Engaged(u, Entry(id[t]))' => u = t
        BY <1>g, <1>s, <2>2, <2>3, <3>2 DEF Engaged
      <3> SUFFICES ASSUME NEW u \in Threads
                   PROVE  (LET e == Entry(id[u])
                               h == header[e]
                           IN  /\ pc[u] \in Counted \cup Freeing =>
                                    h.reserved /\ h.id = id[u] /\ id[u] # 0
                               /\ pc[u] \in Filling => ~h.used /\ ~h.delete
                               /\ pc[u] \in {"deref", "hold"} => h.used /\ ~h.delete
                               /\ pc[u] \in Freeing => h.used /\ h.delete
                               /\ pc[u] \in Filling \cup Freeing =>
                                    \A v \in Threads : Engaged(v, e) => v = u
                               /\ pc[u] = "cas" => ~seen[u].reserved)'
        BY DEF EngagedInv
      <3>4. CASE u = t
        BY <3>2, <3>3, <3>4 DEF Counted, Freeing, Filling
      <3>5. CASE u # t
        <4>1. /\ pc'[u] = pc[u] /\ id'[u] = id[u] /\ seen'[u] = seen[u]
              /\ Entry(id[u]) \in Entries
              /\ pc[u] \in Counted \cup Freeing =>
                   header'[Entry(id'[u])] = header[Entry(id[u])]
              /\ \A v \in Threads : Engaged(v, Entry(id[u]))' => Engaged(v, Entry(id[u]))
          BY <1>e, <2>1, <2>2, <3>1, <3>5 DEF Engaged
        <4> QED
          BY <1>0, <4>1 DEF EngagedInv, Counted, Freeing, Filling
      <3> QED
        BY <3>4, <3>5
    <2>4. CASE header[g].refcnt # 1
      BY <1>0, <1>e, <1>g, <1>h, <1>p, <1>o, <2>1, <2>2, <2>4 DEF EngagedInv,
         Counted, Freeing, Filling
    <2> QED
      BY <2>3, <2>4
  <1>5. ObjectInv'
    BY <1>0, <1>e, <1>g, <1>p, <1>z, <1>u, <1>y, <1>o DEF TypeOK, EntryInv,
       ObjectInv, Allocating
  <1> QED
    BY <1>1, <1>2, <1>3, <1>4, <1>5 DEF GodInv

(* The last reference marks the entry. *)
LEMMA TryUnlockFinalStep ==
    ASSUME GodInv, NEW t \in Threads, TryUnlockFinal(t)
    PROVE  GodInv'
  <1> USE GodAssumption
  <1>0. TypeOK /\ CountIsOwners /\ EntryInv /\ EngagedInv /\ ObjectInv
    BY DEF GodInv
  <1>e. \A u \in Threads : id[u] \in Ids /\ Entry(id[u]) \in Entries
    BY <1>0, EntryType DEF TypeOK
  <1>g. PICK g \in Entries : g = Entry(id[t]) /\ header[g] \in Headers
    BY <1>0, <1>e, EntryType DEF TypeOK
  <1>n. \A n \in Ids : (n + 1) % IdSpace \in Ids /\ (n + MaxEntries) % IdSpace \in Ids
    BY IdType DEF Ids
  <1>x. header' = [header EXCEPT ![g] = Unlocked(header[g])]
    BY <1>g DEF TryUnlockFinal
  <1>o. /\ pc[t] = "hold" /\ header[g].refcnt # 0
        /\ UNCHANGED <<object, write_index, live, issued, end, seen>>
    BY <1>0, <1>g DEF TryUnlockFinal
  <1>h. /\ header' = [header EXCEPT ![g] = header'[g]]
        /\ \A e \in Entries \ {g} : header'[e] = header[e]
        /\ header'[g] \in Headers
        /\ header'[g].id = header[g].id /\ (header'[g].reserved <=> header[g].reserved)
        /\ (header'[g].used <=> header[g].used)
        /\ (header'[g].delete <=> (header[g].delete \/ header[g].refcnt = 1))
        /\ header'[g].refcnt = header[g].refcnt - 1
    <2>1. header'[g] = Unlocked(header[g])
      BY <1>0, <1>g, <1>x DEF TypeOK
    <2> QED
      BY <1>0, <1>g, <1>o, <1>x, <2>1, UnlockedEffect DEF TypeOK
  <1>s. header[g].refcnt = 1 => \A u \in Threads : Engaged(u, g) => u = t
    <2>1. t \in Owners(g)
      BY <1>o, <1>g DEF Owners, Counted
    <2>2. header[g].refcnt = 1 => Owners(g) = {t}
      BY <1>0, <1>g, <2>1, OwnersFinite, FS_Singleton DEF CountIsOwners
    <2> QED
      BY <1>0, <1>o, <2>2, <1>g DEF EngagedInv, Engaged, Owners
  <1>p. /\ pc[t] = "hold" /\ header[g].refcnt = 1
        /\ pc' = [pc EXCEPT ![t] = "free"]
        /\ UNCHANGED <<object, write_index, live, issued, id, end, seen, ref>>
    BY <1>g DEF TryUnlockFinal, Goto
  <1>z. g # 0
    BY <1>0, <1>g, <1>o DEF EntryInv, EngagedInv, Counted
  <1>y. InUse(g)
    BY <1>0, <1>g, <1>o, <1>z DEF InUse, EngagedInv
  <1>1. TypeOK'
    BY <1>0, <1>e, <1>g, <1>h, <1>p DEF TypeOK
  <1>2. CountIsOwners'
    BY <1>0, <1>g, <1>h, <1>p, <1>o, <1>s, OwnersLoss DEF TypeOK, Counted
  <1>u. /\ \A e \in Entries \ {g} : InUse(e)' <=> InUse(e)
        /\ InUse(g)' <=> FALSE
        /\ 0 \in Entries
    BY <1>0, <1>g, <1>h, <1>p, <1>z, <1>o, <1>s DEF InUse, Entries
  <1>3. EntryInv'
    BY <1>0, <1>e, <1>g, <1>h, <1>p, <1>z, <1>u, <1>y, <1>o, <1>s DEF EntryInv,
       ObjectInv
  <1>4. EngagedInv'
    BY <1>0, <1>e, <1>g, <1>h, <1>p, <1>o, <1>s DEF TypeOK, EngagedInv,
       Counted, Filling, Engaged
  <1>5. ObjectInv'
    BY <1>0, <1>e, <1>g, <1>p, <1>z, <1>u, <1>y, <1>o DEF EntryInv, ObjectInv,
       Allocating
  <1> QED
    BY <1>1, <1>2, <1>3, <1>4, <1>5 DEF GodInv

(* The entry is given back. *)
LEMMA FreeEntryStep ==
    ASSUME GodInv, NEW t \in Threads, FreeEntry(t)
    PROVE  GodInv'
  <1> USE GodAssumption
  <1>0. TypeOK /\ CountIsOwners /\ EntryInv /\ EngagedInv /\ ObjectInv
    BY DEF GodInv
  <1>e. \A u \in Threads : id[u] \in Ids /\ Entry(id[u]) \in Entries
    BY <1>0, EntryType DEF TypeOK
  <1>g. PICK g \in Entries : g = Entry(id[t]) /\ header[g] \in Headers
    BY <1>0, <1>e, EntryType DEF TypeOK
  <1>n. \A n \in Ids : (n + 1) % IdSpace \in Ids /\ (n + MaxEntries) % IdSpace \in Ids
    BY IdType DEF Ids
  <1>x. header' = [header EXCEPT ![g] = [id |-> header[g].id, reserved |-> FALSE, used |-> FALSE,
                 delete |-> FALSE, refcnt |-> 0]]
    BY <1>0, <1>g DEF FreeEntry, FreeHeader
  <1>h. /\ header' = [header EXCEPT ![g] = header'[g]]
        /\ \A e \in Entries \ {g} : header'[e] = header[e]
        /\ header'[g] \in Headers
        /\ header'[g].id = header[g].id /\ ~header'[g].reserved /\ ~header'[g].used
        /\ ~header'[g].delete /\ header'[g].refcnt = 0
    BY <1>0, <1>g, <1>e, <1>x DEF TypeOK, Headers
  <1>p. /\ pc[t] = "clear" /\ pc' = [pc EXCEPT ![t] = "idle"]
        /\ id' = [id EXCEPT ![t] = 0] /\ ref' = [ref EXCEPT ![t] = NoObject]
        /\ 0 \in Ids
        /\ UNCHANGED <<object, write_index, live, issued, end, seen>>
    BY DEF FreeEntry, Goto, Leave, Ids
  <1>k. header[g].refcnt = 0
    <2>1. Owners(g) = {}
      BY <1>0, <1>p, <1>g DEF Owners, EngagedInv, Counted, Filling, Freeing
    <2> QED
      BY <1>0, <1>g, <2>1, FS_EmptySet DEF CountIsOwners
  <1>1. TypeOK'
    BY <1>0, <1>e, <1>g, <1>h, <1>p DEF TypeOK
  <1>2. CountIsOwners'
    BY <1>0, <1>g, <1>h, <1>p, <1>k, OwnersSame DEF Counted
  <1>z. g # 0
    BY <1>0, <1>g, <1>p, <1>k DEF EntryInv, EngagedInv, Freeing
  <1>u. /\ \A e \in Entries \ {g} : InUse(e)' <=> InUse(e)
        /\ InUse(g)' <=> FALSE
        /\ 0 \in Entries
    BY <1>0, <1>g, <1>h, <1>p, <1>z, <1>k DEF InUse, Entries
  <1>3. EntryInv'
    BY <1>0, <1>e, <1>g, <1>h, <1>p, <1>z, <1>u, <1>k DEF EntryInv
  <1>4. EngagedInv'
    BY <1>0, <1>e, <1>g, <1>h, <1>p, <1>k DEF TypeOK, EngagedInv, Counted,
       Freeing, Filling, Engaged
  <1>5. ObjectInv'
    <2>1. /\ \A u \in Threads \ {t} : pc'[u] = pc[u] /\ id'[u] = id[u] /\ ref'[u] = ref[u]
          /\ pc'[t] = "idle" /\ id'[t] = 0 /\ ref'[t] = NoObject
      BY <1>0, <1>p DEF TypeOK
    <2>2. \A f \in Entries : InUse(f)' => InUse(f)
      BY <1>u
    <2> QED
      BY <1>0, <1>e, <1>p, <2>1, <2>2 DEF ObjectInv, Allocating
  <1> QED
    BY <1>1, <1>2, <1>3, <1>4, <1>5 DEF GodInv

(* One more reference to a registered object. *)
LEMMA LockStep ==
    ASSUME GodInv, NEW t \in Threads, NEW i \in issued \ {0}, Lock(t, i)
    PROVE  GodInv'
  <1> USE GodAssumption
  <1>0. TypeOK /\ CountIsOwners /\ EntryInv /\ EngagedInv /\ ObjectInv
    BY DEF GodInv
  <1>e. \A u \in Threads : id[u] \in Ids /\ Entry(id[u]) \in Entries
    BY <1>0, EntryType DEF TypeOK
  <1>g. PICK g \in Entries : g = Entry(i) /\ header[g] \in Headers
    BY <1>0, <1>e, EntryType DEF TypeOK
  <1>n. \A n \in Ids : (n + 1) % IdSpace \in Ids /\ (n + MaxEntries) % IdSpace \in Ids
    BY IdType DEF Ids
  <1>x. header' = [header EXCEPT ![g] = [header[g] EXCEPT !.refcnt = @ + 1]]
    BY <1>0, <1>g DEF Lock
  <1>h. /\ header' = [header EXCEPT ![g] = header'[g]]
        /\ \A e \in Entries \ {g} : header'[e] = header[e]
        /\ header'[g] \in Headers
        /\ header'[g].id = header[g].id /\ (header'[g].reserved <=> header[g].reserved)
        /\ (header'[g].used <=> header[g].used)
        /\ (header'[g].delete <=> header[g].delete)
        /\ header'[g].refcnt = header[g].refcnt + 1
    <2>1. header \in [Entries -> Headers] /\ header[g] \in Headers
      BY <1>0, <1>g, <1>e DEF TypeOK
    <2>2. header'[g] = [header[g] EXCEPT !.refcnt = @ + 1]
      BY <1>0, <1>g, <1>x, <1>e, <2>1
    <2>3. /\ header' = [header EXCEPT ![g] = header'[g]]
          /\ \A e \in Entries \ {g} : header'[e] = header[e]
      BY <1>0, <1>g, <1>x, <1>e, <2>1, <2>2
    <2> QED
      BY <2>1, <2>2, <2>3 DEF Headers
  <1>p. /\ pc[t] = "idle" /\ pc' = [pc EXCEPT ![t] = "deref"]
        /\ id' = [id EXCEPT ![t] = i] /\ i \in Ids /\ i # 0
        /\ header[g].id = i /\ InUse(g)
        /\ UNCHANGED <<object, write_index, live, issued, end, seen, ref>>
    BY <1>0, <1>g DEF Lock, Lockable, Goto, TypeOK, EntryInv, InUse
  <1>1. TypeOK'
    BY <1>0, <1>e, <1>g, <1>h, <1>p DEF TypeOK
  <1>2. CountIsOwners'
    BY <1>0, <1>g, <1>h, <1>p, OwnersGain DEF TypeOK, Counted
  <1>z. g # 0
    BY <1>0, <1>g, <1>p DEF InUse
  <1>u. /\ \A e \in Entries \ {g} : InUse(e)' <=> InUse(e)
        /\ InUse(g)' <=> TRUE
        /\ 0 \in Entries
    BY <1>0, <1>g, <1>h, <1>p, <1>z DEF InUse, Entries
  <1>3. EntryInv'
    <2>1. header'[g].refcnt # 0
      BY <1>g, <1>h DEF Headers
    <2> QED
      BY <1>0, <1>g, <1>h, <1>p, <1>z, <1>u, <2>1 DEF EntryInv
  <1>4. EngagedInv'
    <2>1. /\ \A u \in Threads \ {t} : pc'[u] = pc[u] /\ id'[u] = id[u] /\ seen'[u] = seen[u]
          /\ pc'[t] = "deref" /\ id'[t] = i /\ Entry(id'[t]) = g
      BY <1>0, <1>g, <1>p DEF TypeOK
    <2>2. /\ header[g].used /\ ~header[g].delete /\ header[g].reserved
          /\ \A e \in Entries : /\ header'[e].id = header[e].id
                               /\ (header'[e].reserved <=> header[e].reserved)
                               /\ (header'[e].used <=> header[e].used)
                               /\ (header'[e].delete <=> header[e].delete)
      BY <1>0, <1>g, <1>h, <1>p DEF InUse, EntryInv
    <2>3. \A u \in Threads \ {t} : pc[u] \in Filling \cup Freeing => Entry(id[u]) # g
      BY <1>0, <2>2 DEF EngagedInv
    <2>4. \A u \in Threads \ {t}, v \in Threads :
            pc[u] \in Filling \cup Freeing /\ Engaged(v, Entry(id[u]))' =>
              Engaged(v, Entry(id[u]))
      BY <2>1, <2>3 DEF Engaged
    <2>5. /\ pc'[t] \notin Filling \cup Freeing /\ pc'[t] # "cas"
          /\ header'[g].reserved /\ header'[g].id = id'[t] /\ id'[t] # 0
          /\ header'[g].used /\ ~header'[g].delete
      BY <1>g, <1>p, <2>1, <2>2 DEF Freeing, Filling
    <2>6. ASSUME NEW u \in Threads \ {t}, NEW f \in Entries, f = Entry(id[u])
          PROVE  /\ pc'[u] \in Counted \cup Freeing =>
                      header'[f].reserved /\ header'[f].id = id'[u] /\ id'[u] # 0
                 /\ pc'[u] \in Filling => ~header'[f].used /\ ~header'[f].delete
                 /\ pc'[u] \in {"deref", "hold"} => header'[f].used /\ ~header'[f].delete
                 /\ pc'[u] \in Freeing => header'[f].used /\ header'[f].delete
                 /\ pc'[u] = "cas" => ~seen'[u].reserved
      BY <1>0, <2>1, <2>2, <2>6 DEF EngagedInv
    <2>7. ASSUME NEW u \in Threads \ {t}, pc'[u] \in Filling \cup Freeing,
                 NEW v \in Threads, Engaged(v, Entry(id[u]))'
          PROVE  v = u
      BY <1>0, <2>1, <2>4, <2>7 DEF EngagedInv
    <2>8. \A u \in Threads \ {t} : Entry(id'[u]) = Entry(id[u])
      BY <2>1
    <2> QED
      BY <1>e, <2>1, <2>5, <2>6, <2>7, <2>8 DEF EngagedInv
  <1>5. ObjectInv'
    BY <1>0, <1>e, <1>g, <1>p, <1>z, <1>u DEF ObjectInv, Allocating
  <1> QED
    BY <1>1, <1>2, <1>3, <1>4, <1>5 DEF GodInv

(* Registration chooses an object that nobody knows. *)
LEMMA AllocBeginStep ==
    ASSUME GodInv, NEW t \in Threads, NEW o \in Objects, AllocBegin(t, o)
    PROVE  GodInv'
  <1> USE GodAssumption
  <1>0. TypeOK /\ CountIsOwners /\ EntryInv /\ EngagedInv /\ ObjectInv
    BY DEF GodInv
  <1>e. \A u \in Threads : id[u] \in Ids /\ Entry(id[u]) \in Entries
    BY <1>0, EntryType DEF TypeOK
  <1>g. PICK g \in Entries : g = Entry(id[t]) /\ header[g] \in Headers
    BY <1>0, <1>e, EntryType DEF TypeOK
  <1>n. \A n \in Ids : (n + 1) % IdSpace \in Ids /\ (n + MaxEntries) % IdSpace \in Ids
    BY IdType DEF Ids
  <1>1. TypeOK'
    BY <1>0, <1>e, <1>g, <1>n DEF AllocBegin, TypeOK, Goto
  <1>2. CountIsOwners'
    BY <1>0, <1>e, OwnersSame DEF AllocBegin, Goto, Counted
  <1>3. EntryInv'
    BY <1>0, <1>e, <1>g DEF AllocBegin, EntryInv, InUse
  <1>4. EngagedInv'
    BY <1>0, <1>e, <1>g DEF AllocBegin, Goto, EngagedInv, Counted, Freeing,
       Filling, Engaged
  <1>5. ObjectInv'
    BY <1>0, <1>e, <1>g DEF AllocBegin, TypeOK, Goto, InUse, ObjectInv
  <1> QED
    BY <1>1, <1>2, <1>3, <1>4, <1>5 DEF GodInv

(* The search looks at headers only. *)
LEMMA AllocScanStep ==
    ASSUME GodInv, NEW t \in Threads, AllocScan(t)
    PROVE  GodInv'
  <1> USE GodAssumption
  <1>0. TypeOK /\ CountIsOwners /\ EntryInv /\ EngagedInv /\ ObjectInv
    BY DEF GodInv
  <1>e. \A u \in Threads : id[u] \in Ids /\ Entry(id[u]) \in Entries
    BY <1>0, EntryType DEF TypeOK
  <1>g. PICK g \in Entries : g = Entry(id[t]) /\ header[g] \in Headers
    BY <1>0, <1>e, EntryType DEF TypeOK
  <1>n. \A n \in Ids : (n + 1) % IdSpace \in Ids /\ (n + MaxEntries) % IdSpace \in Ids
    BY IdType DEF Ids
  <1>1. TypeOK'
    <2>1. id' \in [Threads -> Ids]
      <3>1. 0 \in Ids /\ (id[t] + 1) % IdSpace \in Ids
        BY <1>e, <1>n DEF Ids
      <3> QED
        BY <3>1, <1>0 DEF AllocScan, TypeOK, NextIndex, Leave
    <2> QED
      BY <2>1, <1>0, <1>g DEF AllocScan, TypeOK, Goto, Leave
  <1>2. CountIsOwners'
    BY <1>0, <1>e, OwnersSame DEF AllocScan, TypeOK, Goto, Counted, NextIndex, Leave
  <1>3. EntryInv'
    BY <1>0, <1>e, <1>g DEF AllocScan, EntryInv, InUse
  <1>4. EngagedInv'
    BY <1>0, <1>e, <1>g DEF AllocScan, TypeOK, Goto, EngagedInv, Counted,
       Freeing, Filling, Engaged, NextIndex, Leave
  <1>5. ObjectInv'
    BY <1>0, <1>e, <1>g DEF AllocScan, TypeOK, Goto, InUse, ObjectInv,
       Allocating, NextIndex, Leave
  <1> QED
    BY <1>1, <1>2, <1>3, <1>4, <1>5 DEF GodInv

(* The exchange gives the entry, which nobody is engaged in, one owner. *)
LEMMA AllocCasStep ==
    ASSUME GodInv, NEW t \in Threads, AllocCas(t)
    PROVE  GodInv'
  <1> USE GodAssumption
  <1>0. TypeOK /\ CountIsOwners /\ EntryInv /\ EngagedInv /\ ObjectInv
    BY DEF GodInv
  <1>e. \A u \in Threads : id[u] \in Ids /\ Entry(id[u]) \in Entries
    BY <1>0, EntryType DEF TypeOK
  <1>g. PICK g \in Entries : g = Entry(id[t]) /\ header[g] \in Headers
    BY <1>0, <1>e, EntryType DEF TypeOK
  <1>n. \A n \in Ids : (n + 1) % IdSpace \in Ids /\ (n + MaxEntries) % IdSpace \in Ids
    BY IdType DEF Ids
  <1>a. CASE header[g] # seen[t]
    <2>1. /\ header' = header /\ pc' = [pc EXCEPT ![t] = "scan"]
          /\ id' = [id EXCEPT ![t] = (id[t] + 1) % IdSpace] /\ pc[t] = "cas"
          /\ seen' = [seen EXCEPT ![t] = FreeHeader(0)]
          /\ UNCHANGED <<object, write_index, live, issued, end, ref>>
      BY Zenon, <1>a, <1>0, <1>g DEF AllocCas, NextIndex, Goto, TypeOK
    <2>2. TypeOK'
      BY <1>0, <1>n, <2>1 DEF TypeOK, FreeHeader, Headers, Ids
    <2>3. CountIsOwners'
      BY <1>0, <2>1, OwnersSame DEF Counted
    <2>4. EntryInv'
      BY <1>0, <2>1 DEF EntryInv, InUse
    <2>5. EngagedInv'
      BY <1>0, <2>1 DEF TypeOK, EngagedInv, Counted, Freeing, Filling, Engaged
    <2>6. ObjectInv'
      BY <1>0, <2>1 DEF ObjectInv, InUse, Allocating
    <2> QED
      BY <2>2, <2>3, <2>4, <2>5, <2>6 DEF GodInv
  <1>b. CASE header[g] = seen[t]
    <2>x. header' = [header EXCEPT ![g] = [id |-> id[t], reserved |-> TRUE, used |-> FALSE,
                   delete |-> FALSE, refcnt |-> 1]]
      BY <1>0, <1>b, <1>g DEF AllocCas, NewHeader
    <2>h. /\ header' = [header EXCEPT ![g] = header'[g]]
          /\ \A e \in Entries \ {g} : header'[e] = header[e]
          /\ header'[g] \in Headers
          /\ header'[g].id = id[t] /\ header'[g].reserved /\ ~header'[g].used
          /\ ~header'[g].delete /\ header'[g].refcnt = 1
      BY <1>0, <1>g, <1>e, <2>x DEF TypeOK, Headers
    <2>p. /\ pc[t] = "cas" /\ pc' = [pc EXCEPT ![t] = "index"] /\ id' = id
          /\ seen' = [seen EXCEPT ![t] = FreeHeader(0)]
          /\ UNCHANGED <<object, write_index, live, issued, end, ref>>
      BY Zenon, <1>b, <1>g DEF AllocCas, Goto
    <2>f. FreeHeader(0) \in Headers
      BY DEF FreeHeader, Headers, Ids
    <2>r. ~header[g].reserved /\ g # 0
      BY <1>0, <1>b, <2>p DEF EngagedInv, EntryInv
    <2>i. id[t] # 0
      BY <2>r, ZeroEntry, <1>g
    <2>k. header[g].refcnt = 0
      <3>1. Owners(g) = {}
        BY <1>0, <2>r, <1>g DEF Owners, EngagedInv
      <3> QED
        BY <1>0, <1>g, <3>1, FS_EmptySet DEF CountIsOwners
    <2>1. TypeOK'
      BY <1>0, <1>e, <1>g, <2>h, <2>p, <2>f DEF TypeOK
    <2>2. CountIsOwners'
      BY <1>0, <1>g, <2>h, <2>p, <2>k, <2>r, <2>i, OwnersGain DEF TypeOK, Counted
    <2>z. g # 0
      BY <1>0, <1>g, <2>p, <2>k, <2>r, <2>i
    <2>u. /\ \A e \in Entries \ {g} : InUse(e)' <=> InUse(e)
          /\ InUse(g)' <=> FALSE
          /\ 0 \in Entries
      BY <1>0, <1>g, <2>h, <2>p, <2>z, <2>k, <2>r, <2>i DEF InUse, Entries
    <2>3. EntryInv'
      BY <1>0, <1>e, <1>g, <2>h, <2>p, <2>z, <2>u, <2>k, <2>r, <2>i DEF
         EntryInv
    <2>4. EngagedInv'
      BY <1>0, <1>e, <1>g, <2>h, <2>p, <2>k, <2>r, <2>i DEF TypeOK, EngagedInv,
         Counted, Freeing, Filling, Engaged
    <2>5. ObjectInv'
      BY <1>0, <1>e, <1>g, <2>p, <2>z, <2>u, <2>k, <2>r, <2>i DEF ObjectInv,
         Allocating
    <2> QED
      BY <2>1, <2>2, <2>3, <2>4, <2>5 DEF GodInv
  <1> QED
    BY <1>a, <1>b

(* The index is shared and no invariant depends on it. *)
LEMMA AllocIndexStep ==
    ASSUME GodInv, NEW t \in Threads, AllocIndex(t)
    PROVE  GodInv'
  <1> USE GodAssumption
  <1>0. TypeOK /\ CountIsOwners /\ EntryInv /\ EngagedInv /\ ObjectInv
    BY DEF GodInv
  <1>e. \A u \in Threads : id[u] \in Ids /\ Entry(id[u]) \in Entries
    BY <1>0, EntryType DEF TypeOK
  <1>g. PICK g \in Entries : g = Entry(id[t]) /\ header[g] \in Headers
    BY <1>0, <1>e, EntryType DEF TypeOK
  <1>n. \A n \in Ids : (n + 1) % IdSpace \in Ids /\ (n + MaxEntries) % IdSpace \in Ids
    BY IdType DEF Ids
  <1>1. TypeOK'
    BY <1>0, <1>e, <1>g, <1>n DEF AllocIndex, TypeOK, Goto
  <1>2. CountIsOwners'
    BY <1>0, <1>e, OwnersSame DEF AllocIndex, Goto, Counted
  <1>3. EntryInv'
    BY <1>0, <1>e, <1>g DEF AllocIndex, EntryInv, InUse
  <1>4. EngagedInv'
    BY <1>0, <1>e, <1>g DEF AllocIndex, Goto, EngagedInv, Counted, Freeing,
       Filling, Engaged
  <1>5. ObjectInv'
    BY <1>0, <1>e, <1>g DEF AllocIndex, Goto, InUse, ObjectInv, Allocating
  <1> QED
    BY <1>1, <1>2, <1>3, <1>4, <1>5 DEF GodInv

(* The object is written to an entry that nobody else uses. *)
LEMMA AllocObjectStep ==
    ASSUME GodInv, NEW t \in Threads, AllocObject(t)
    PROVE  GodInv'
  <1> USE GodAssumption
  <1>0. TypeOK /\ CountIsOwners /\ EntryInv /\ EngagedInv /\ ObjectInv
    BY DEF GodInv
  <1>e. \A u \in Threads : id[u] \in Ids /\ Entry(id[u]) \in Entries
    BY <1>0, EntryType DEF TypeOK
  <1>g. PICK g \in Entries : g = Entry(id[t]) /\ header[g] \in Headers
    BY <1>0, <1>e, EntryType DEF TypeOK
  <1>n. \A n \in Ids : (n + 1) % IdSpace \in Ids /\ (n + MaxEntries) % IdSpace \in Ids
    BY IdType DEF Ids
  <1>1. TypeOK'
    BY <1>0, <1>e, <1>g, <1>n DEF AllocObject, TypeOK, Goto
  <1>2. CountIsOwners'
    BY <1>0, <1>e, OwnersSame DEF AllocObject, Goto, Counted
  <1>3. EntryInv'
    BY <1>0, <1>e, <1>g DEF AllocObject, EntryInv, InUse, EngagedInv, Filling
  <1>4. EngagedInv'
    BY <1>0, <1>e, <1>g DEF AllocObject, Goto, EngagedInv, Counted, Freeing,
       Filling, Engaged
  <1>5. ObjectInv'
    BY <1>0, <1>e, <1>g DEF AllocObject, TypeOK, Goto, InUse, EngagedInv,
       ObjectInv, Counted, Freeing, Filling, Allocating, Engaged
  <1> QED
    BY <1>1, <1>2, <1>3, <1>4, <1>5 DEF GodInv

(* The object becomes lockable. *)
LEMMA AllocPublishStep ==
    ASSUME GodInv, NEW t \in Threads, AllocPublish(t)
    PROVE  GodInv'
  <1> USE GodAssumption
  <1>0. TypeOK /\ CountIsOwners /\ EntryInv /\ EngagedInv /\ ObjectInv
    BY DEF GodInv
  <1>e. \A u \in Threads : id[u] \in Ids /\ Entry(id[u]) \in Entries
    BY <1>0, EntryType DEF TypeOK
  <1>g. PICK g \in Entries : g = Entry(id[t]) /\ header[g] \in Headers
    BY <1>0, <1>e, EntryType DEF TypeOK
  <1>n. \A n \in Ids : (n + 1) % IdSpace \in Ids /\ (n + MaxEntries) % IdSpace \in Ids
    BY IdType DEF Ids
  <1>x. header' = [header EXCEPT ![g] = [id |-> id[t], reserved |-> TRUE, used |-> TRUE,
                 delete |-> FALSE, refcnt |-> 1]]
    BY <1>0, <1>g DEF AllocPublish, NewHeader
  <1>h. /\ header' = [header EXCEPT ![g] = header'[g]]
        /\ \A e \in Entries \ {g} : header'[e] = header[e]
        /\ header'[g] \in Headers
        /\ header'[g].id = id[t] /\ header'[g].reserved /\ header'[g].used
        /\ ~header'[g].delete /\ header'[g].refcnt = 1
    BY <1>0, <1>g, <1>e, <1>x DEF TypeOK, Headers
  <1>p. /\ pc[t] = "publish" /\ pc' = [pc EXCEPT ![t] = "hold"] /\ id' = id
        /\ live' = live \cup {ref[t]} /\ issued' = issued \cup {id[t]}
        /\ UNCHANGED <<object, write_index, end, seen, ref>>
    BY DEF AllocPublish, Goto
  <1>k. header[g].refcnt = 1
    <2>1. Owners(g) = {t}
      BY <1>0, <1>p, <1>g DEF Owners, EngagedInv, Engaged, Counted, Filling
    <2> QED
      BY ZenonT(40), <1>0, <1>g, <2>1, FS_Singleton DEF CountIsOwners
  <1>1. TypeOK'
    BY <1>0, <1>e, <1>g, <1>h, <1>p DEF TypeOK, ObjectInv, Allocating
  <1>2. CountIsOwners'
    BY <1>0, <1>g, <1>h, <1>p, <1>k, OwnersSame DEF Counted
  <1>z. g # 0
    BY <1>0, <1>g, <1>p, <1>k DEF EntryInv, EngagedInv, Counted
  <1>u. /\ \A e \in Entries \ {g} : InUse(e)' <=> InUse(e)
        /\ InUse(g)' <=> TRUE
        /\ 0 \in Entries
    BY <1>0, <1>g, <1>h, <1>p, <1>z, <1>k DEF InUse, Entries
  <1>3. EntryInv'
    BY <1>0, <1>e, <1>g, <1>h, <1>p, <1>z, <1>u, <1>k DEF EntryInv, ObjectInv,
       Allocating
  <1>4. EngagedInv'
    BY <1>0, <1>e, <1>g, <1>h, <1>p, <1>k DEF TypeOK, EngagedInv, Counted,
       Freeing, Filling, Engaged
  <1>5. ObjectInv'
    BY <1>0, <1>e, <1>g, <1>p, <1>z, <1>u, <1>k DEF TypeOK, ObjectInv,
       Allocating
  <1> QED
    BY <1>1, <1>2, <1>3, <1>4, <1>5 DEF GodInv

(* The object of a locked entry is live. *)
LEMMA DerefStep ==
    ASSUME GodInv, NEW t \in Threads, Deref(t)
    PROVE  GodInv'
  <1> USE GodAssumption
  <1>0. TypeOK /\ CountIsOwners /\ EntryInv /\ EngagedInv /\ ObjectInv
    BY DEF GodInv
  <1>e. \A u \in Threads : id[u] \in Ids /\ Entry(id[u]) \in Entries
    BY <1>0, EntryType DEF TypeOK
  <1>g. PICK g \in Entries : g = Entry(id[t]) /\ header[g] \in Headers
    BY <1>0, <1>e, EntryType DEF TypeOK
  <1>n. \A n \in Ids : (n + 1) % IdSpace \in Ids /\ (n + MaxEntries) % IdSpace \in Ids
    BY IdType DEF Ids
  <1>1. TypeOK'
    BY <1>0, <1>e, <1>g, <1>n DEF Deref, TypeOK, Goto
  <1>2. CountIsOwners'
    BY <1>0, <1>e, OwnersSame DEF Deref, Goto, Counted
  <1>3. EntryInv'
    BY <1>0, <1>e, <1>g DEF Deref, EntryInv, InUse
  <1>4. EngagedInv'
    BY <1>0, <1>e, <1>g DEF Deref, Goto, EngagedInv, Counted, Freeing, Filling,
       Engaged
  <1>5. ObjectInv'
    BY <1>0, <1>e, <1>g DEF Deref, TypeOK, Goto, EntryInv, InUse, EngagedInv,
       ObjectInv, Counted, Allocating
  <1> QED
    BY <1>1, <1>2, <1>3, <1>4, <1>5 DEF GodInv

(* Nobody else knows the object that is freed. *)
LEMMA FreeObjectStep ==
    ASSUME GodInv, NEW t \in Threads, FreeObject(t)
    PROVE  GodInv'
  <1> USE GodAssumption
  <1>0. TypeOK /\ CountIsOwners /\ EntryInv /\ EngagedInv /\ ObjectInv
    BY DEF GodInv
  <1>e. \A u \in Threads : id[u] \in Ids /\ Entry(id[u]) \in Entries
    BY <1>0, EntryType DEF TypeOK
  <1>g. PICK g \in Entries : g = Entry(id[t]) /\ header[g] \in Headers
    BY <1>0, <1>e, EntryType DEF TypeOK
  <1>n. \A n \in Ids : (n + 1) % IdSpace \in Ids /\ (n + MaxEntries) % IdSpace \in Ids
    BY IdType DEF Ids
  <1>1. TypeOK'
    BY <1>0, <1>e, <1>g, <1>n DEF FreeObject, TypeOK, Goto
  <1>2. CountIsOwners'
    BY <1>0, <1>e, OwnersSame DEF FreeObject, Goto, Counted
  <1>3. EntryInv'
    BY <1>0, <1>e, <1>g DEF FreeObject, EntryInv, InUse, ObjectInv
  <1>4. EngagedInv'
    BY <1>0, <1>e, <1>g DEF FreeObject, Goto, EngagedInv, Freeing, Filling,
       Engaged
  <1>5. ObjectInv'
    BY <1>0, <1>e, <1>g DEF FreeObject, TypeOK, Goto, InUse, ObjectInv,
       Allocating
  <1> QED
    BY <1>1, <1>2, <1>3, <1>4, <1>5 DEF GodInv

(* Every step preserves the invariant. *)
LEMMA GodStep == GodInv /\ [Next]_vars => GodInv'
  <1> SUFFICES ASSUME GodInv, [Next]_vars PROVE GodInv'
    OBVIOUS
  <1>1. CASE UNCHANGED vars
    <2>1. \A e : Owners(e)' = Owners(e)
      BY <1>1 DEF vars, Owners
    <2>2. \A e : InUse(e)' <=> InUse(e)
      BY <1>1 DEF vars, InUse
    <2>3. \A t, e : Engaged(t, e)' <=> Engaged(t, e)
      BY <1>1 DEF vars, Engaged
    <2>4. TypeOK' /\ CountIsOwners'
      BY <1>1, <2>1 DEF GodInv, vars, TypeOK, CountIsOwners
    <2>5. EntryInv' /\ EngagedInv' /\ ObjectInv'
      BY <1>1, <2>2, <2>3 DEF GodInv, vars, EntryInv, EngagedInv, ObjectInv
    <2> QED
      BY <2>4, <2>5 DEF GodInv
  <1>2. ASSUME NEW t \in Threads, NEW o \in Objects, AllocBegin(t, o) PROVE GodInv'
    BY <1>2, AllocBeginStep
  <1>3. ASSUME NEW t \in Threads, Alloc(t) PROVE GodInv'
    BY <1>3, AllocScanStep, AllocCasStep, AllocIndexStep, AllocObjectStep,
       AllocPublishStep DEF Alloc
  <1>4. ASSUME NEW t \in Threads, NEW i \in issued \ {0}, Lock(t, i) PROVE GodInv'
    BY <1>4, LockStep
  <1>5. ASSUME NEW t \in Threads, Deref(t) \/ Unlock(t) \/ TryUnlockFinal(t)
        PROVE  GodInv'
    BY <1>5, DerefStep, UnlockStep, TryUnlockFinalStep
  <1>6. ASSUME NEW t \in Threads, FreeObject(t) \/ FreeEntry(t) PROVE GodInv'
    BY <1>6, FreeObjectStep, FreeEntryStep
  <1> QED
    BY <1>1, <1>2, <1>3, <1>4, <1>5, <1>6 DEF Next

(* The invariant of prs/god.c holds for every number of threads, objects,  *)
(* entries and IDs.                                                        *)
THEOREM GodCorrect == Spec => []GodInv
  BY GodInit, GodStep, PTL DEF Spec

(* The state of the directory keeps its types. *)
THEOREM GodTypeCorrect == Spec => []TypeOK
  <1>1. GodInv => TypeOK
    BY DEF GodInv
  <1> QED
    BY <1>1, GodCorrect, PTL

(* The counter that prs_god_lock and prs_god_unlock maintain without a     *)
(* lock is always the number of references.                                *)
THEOREM CountCorrect == Spec => []CountIsOwners
  <1>1. GodInv => CountIsOwners
    BY DEF GodInv
  <1> QED
    BY <1>1, GodCorrect, PTL

(* The entry of a thread that holds an object is lockable. *)
LEMMA HeldInUse ==
    ASSUME GodInv, NEW t \in Threads, pc[t] \in {"deref", "hold"}
    PROVE  /\ Entry(id[t]) \in Entries /\ InUse(Entry(id[t]))
           /\ object[Entry(id[t])] \in live /\ header[Entry(id[t])].id = id[t]
  <1>1. Entry(id[t]) \in Entries
    BY EntryType DEF GodInv, TypeOK
  <1>2. Entry(id[t]) # 0
    BY DEF GodInv, EngagedInv, EntryInv, Counted
  <1>3. InUse(Entry(id[t]))
    BY <1>2 DEF GodInv, EngagedInv, InUse
  <1> QED
    BY <1>1, <1>3 DEF GodInv, EngagedInv, EntryInv, Counted

(* No thread holds a freed object, or another one than it asked for. *)
THEOREM HeldCorrect == Spec => []HeldIsLive
  <1>1. GodInv => HeldIsLive
    BY HeldInUse DEF GodInv, ObjectInv, HeldIsLive
  <1> QED
    BY <1>1, GodCorrect, PTL

(* The free callback runs once, when nobody holds the object. *)
THEOREM FreedCorrect == Spec => []FreedOnce
  <1>1. GodInv => FreedOnce
    BY DEF GodInv, ObjectInv, EngagedInv, FreedOnce, Freeing, Filling, Counted
  <1> QED
    BY <1>1, GodCorrect, PTL

(***************************************************************************)
(* The directory implements RefDirectory.                                  *)
(***************************************************************************)

(* A step that changes neither who holds what nor what is registered. *)
LEMMA HoldersSame ==
    ASSUME \A u \in Threads, o \in Objects : Holds(u, o)' <=> Holds(u, o)
    PROVE  Holders' = Holders
  BY Zenon DEF Holders

(* Allocation, up to the publication of the object, is invisible. *)
LEMMA AllocStutters ==
    ASSUME GodInv, NEW t \in Threads,
           \/ \E o \in Objects : AllocBegin(t, o)
           \/ AllocScan(t) \/ AllocCas(t) \/ AllocIndex(t)
    PROVE  live' = live /\ Holders' = Holders
  <1>1. live' = live /\ object' = object
    BY Zenon DEF AllocBegin, AllocScan, AllocCas, AllocIndex
  <1>2. /\ pc[t] \notin {"deref", "hold"} /\ pc'[t] \notin {"deref", "hold"}
        /\ \A u \in Threads \ {t} : pc'[u] = pc[u] /\ id'[u] = id[u]
    BY ZenonT(40) DEF GodInv, TypeOK, AllocBegin, AllocScan, AllocCas, AllocIndex, Goto, Leave, NextIndex
  <1>3. \A u \in Threads, o \in Objects : Holds(u, o)' <=> Holds(u, o)
    BY <1>1, <1>2 DEF Holds
  <1> QED
    BY <1>1, <1>3, HoldersSame

(* So is the store of the object, because nobody else uses the entry. *)
LEMMA ObjectStutters ==
    ASSUME GodInv, NEW t \in Threads, AllocObject(t)
    PROVE  live' = live /\ Holders' = Holders
  <1>1. \A u \in Threads : pc[u] \in {"deref", "hold"} => Entry(id[u]) # Entry(id[t])
    BY DEF GodInv, EngagedInv, AllocObject, Filling
  <1>2. \A u \in Threads : Entry(id[u]) \in Entries
    BY EntryType DEF GodInv, TypeOK
  <1>3. \A u \in Threads, o \in Objects : Holds(u, o)' <=> Holds(u, o)
    BY <1>1, <1>2 DEF AllocObject, Goto, Holds
  <1> QED
    BY <1>3, HoldersSame DEF AllocObject

(* Reading the object and giving the entry back are invisible too. *)
LEMMA DerefStutters ==
    ASSUME GodInv, NEW t \in Threads, Deref(t) \/ FreeEntry(t)
    PROVE  live' = live /\ Holders' = Holders
  <1>1. \A u \in Threads, o \in Objects : Holds(u, o)' <=> Holds(u, o)
    BY DEF GodInv, TypeOK, Deref, FreeEntry, Leave, Goto, Holds
  <1> QED
    BY <1>1, HoldersSame DEF Deref, FreeEntry

(* The publication registers the object. *)
LEMMA PublishRegisters ==
    ASSUME GodInv, NEW t \in Threads, AllocPublish(t)
    PROVE  /\ ref[t] \in Objects /\ ref[t] \notin live /\ live' = live \cup {ref[t]}
           /\ Holders' = [Holders EXCEPT ![ref[t]] = {t}]
  <1>1. ref[t] \in Objects /\ ref[t] \notin live /\ object[Entry(id[t])] = ref[t]
    BY DEF GodInv, ObjectInv, AllocPublish, Allocating
  <1>2. \A u \in Threads : ~Holds(u, ref[t])
    BY <1>1, HeldInUse DEF Holds
  <1>3. \A u \in Threads, o \in Objects :
          Holds(u, o)' <=> IF o = ref[t] THEN u = t ELSE Holds(u, o)
    BY <1>1, <1>2 DEF GodInv, TypeOK, AllocPublish, Goto, Holds
  <1>4. Holders' = [Holders EXCEPT ![ref[t]] = {t}]
    BY Zenon, <1>1, <1>3 DEF Holders
  <1> QED
    BY <1>1, <1>4 DEF AllocPublish

(* A lock acquires the object, which somebody holds. *)
LEMMA LockAcquires ==
    ASSUME GodInv, NEW t \in Threads, NEW i \in issued \ {0}, Lock(t, i)
    PROVE  \E o \in Objects :
             /\ Holders[o] # {} /\ live' = live
             /\ Holders' = [Holders EXCEPT ![o] = @ \cup {t}]
  <1>g. PICK g \in Entries : g = Entry(i)
    BY EntryType DEF GodInv, TypeOK
  <1>1. InUse(g) /\ header[g].id = i
    BY <1>g DEF GodInv, EntryInv, Lock, Lockable, InUse
  <1>2. object[g] \in Objects /\ header[g].refcnt # 0
    BY <1>1 DEF GodInv, EntryInv, TypeOK
  <1>3. PICK u \in Threads : u \in Owners(g)
    <2>1. Owners(g) # {}
      BY Zenon, <1>2, FS_EmptySet DEF GodInv, CountIsOwners
    <2> QED
      BY <2>1 DEF Owners
  <1>4. Holds(u, object[g])
    BY <1>1, <1>3 DEF GodInv, EngagedInv, InUse, Owners, Counted, Filling, Holds
  <1>5. \A v \in Threads, o \in Objects :
          Holds(v, o)' <=> Holds(v, o) \/ (v = t /\ o = object[g])
    BY <1>g DEF GodInv, TypeOK, Lock, Goto, Holds
  <1>6. Holders' = [Holders EXCEPT ![object[g]] = @ \cup {t}]
    BY Zenon, <1>2, <1>5 DEF Holders
  <1>7. Holders[object[g]] # {}
    BY Zenon, <1>2, <1>4 DEF Holders
  <1> QED
    BY Zenon, <1>2, <1>6, <1>7 DEF Lock

(* An unlock releases it. *)
LEMMA UnlockReleases ==
    ASSUME GodInv, NEW t \in Threads, Unlock(t) \/ TryUnlockFinal(t)
    PROVE  \E o \in Objects :
             /\ t \in Holders[o] /\ live' = live
             /\ Holders' = [Holders EXCEPT ![o] = @ \ {t}]
  <1>1. pc[t] = "hold" /\ pc'[t] \notin {"deref", "hold"}
    BY DEF GodInv, TypeOK, Unlock, TryUnlockFinal, Goto, Leave
  <1>2. PICK o \in Objects : object[Entry(id[t])] = o
    BY <1>1, HeldInUse DEF GodInv, TypeOK
  <1>3. /\ object' = object /\ live' = live
        /\ \A u \in Threads \ {t} : pc'[u] = pc[u] /\ id'[u] = id[u]
    BY DEF GodInv, TypeOK, Unlock, TryUnlockFinal, Goto, Leave
  <1>4. \A u \in Threads, q \in Objects :
          Holds(u, q)' <=> Holds(u, q) /\ ~(u = t /\ q = o)
    BY <1>1, <1>2, <1>3 DEF Holds
  <1>5. Holders' = [Holders EXCEPT ![o] = @ \ {t}]
    BY Zenon, <1>4 DEF Holders
  <1>6. t \in Holders[o]
    BY <1>1, <1>2 DEF Holders, Holds
  <1> QED
    BY Zenon, <1>3, <1>5, <1>6

(* The free callback destroys an object that nobody holds. *)
LEMMA FreeDestroys ==
    ASSUME GodInv, NEW t \in Threads, FreeObject(t)
    PROVE  \E o \in Objects :
             o \in live /\ Holders[o] = {} /\ live' = live \ {o} /\ Holders' = Holders
  <1>1. PICK o \in Objects : o = object[Entry(id[t])] /\ o \in live
    BY DEF GodInv, TypeOK, ObjectInv, FreeObject
  <1>2. \A u \in Threads : ~Holds(u, o)
    BY <1>1, HeldInUse DEF GodInv, ObjectInv, FreeObject, Holds
  <1>3. \A u \in Threads, q \in Objects : Holds(u, q)' <=> Holds(u, q)
    BY DEF FreeObject, Goto, Holds
  <1> QED
    BY <1>1, <1>2, <1>3, HoldersSame DEF FreeObject, Holders

(* The global object directory does what RefDirectory promises its users.  *)
THEOREM DirectoryCorrect == Spec => DirectorySpec
  <1>1. Init => Directory!Init
    <2>1. Init => Holders = [o \in Objects |-> {}]
      BY Zenon DEF Init, Holders, Holds
    <2> QED
      BY ZenonT(40), <2>1 DEF Init, Directory!Init
  <1>2. GodInv /\ [Next]_vars => [Directory!Next]_(Directory!dirVars)
    <2> SUFFICES ASSUME GodInv, [Next]_vars
                 PROVE  Directory!Next \/ (live' = live /\ Holders' = Holders)
      BY DEF Directory!dirVars
    <2>1. CASE UNCHANGED vars
      BY <2>1 DEF vars, Holders, Holds
    <2>2. ASSUME NEW t \in Threads, AllocPublish(t) PROVE Directory!Next
      BY <2>2, PublishRegisters DEF Directory!Next, Directory!Register
    <2>3. ASSUME NEW t \in Threads, NEW i \in issued \ {0}, Lock(t, i) PROVE Directory!Next
      BY <2>3, LockAcquires DEF Directory!Next, Directory!Acquire
    <2>4. ASSUME NEW t \in Threads, Unlock(t) \/ TryUnlockFinal(t) PROVE Directory!Next
      BY <2>4, UnlockReleases DEF Directory!Next, Directory!Release
    <2>5. ASSUME NEW t \in Threads, FreeObject(t) PROVE Directory!Next
      BY <2>5, FreeDestroys DEF Directory!Next, Directory!Destroy
    <2> QED
      BY <2>1, <2>2, <2>3, <2>4, <2>5, AllocStutters, ObjectStutters, DerefStutters
         DEF Next, Alloc
  <1> QED
    BY <1>1, <1>2, GodCorrect, PTL DEF Spec, DirectorySpec, Directory!Spec

=============================================================================
