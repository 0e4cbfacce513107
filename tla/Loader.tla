------------------------------- MODULE Loader -------------------------------
(***************************************************************************)
(* The process loader on Linux (prs/pal/linux/proc.c): prs_pal_proc_load   *)
(* reserves a region for an ELF file, copies its loadable segments there   *)
(* with the permissions they ask for, and links it to the shared libraries *)
(* that are loaded.  Every step may fail.                                  *)
(*                                                                         *)
(* A file is a record of what the loader reads of it: whether its header   *)
(* is right (ident), its program headers (phdrs), whether it has a dynamic *)
(* symbol table (dynsym), the libraries it needs, and its relocations, of  *)
(* the two types that are applied.  Addresses are those of the region,     *)
(* whose first one is 0; a word that was copied is told by the segment and *)
(* the offset in it.                                                       *)
(***************************************************************************)
EXTENDS Integers, FiniteSets, SequencesExt

CONSTANTS Files,      \* the files to load
          Exported,   \* symbols dlsym finds once their library is loaded
          PageSize

VARIABLES file,   \* the file, chosen at first
          at,     \* the place in prs_pal_proc_load
          i,      \* the program header or relocation it has come to
          proc,   \* proc->data was reserved, proc->size
          words,  \* contents of the region
          prot,   \* permissions of its pages
          libs,   \* libraries that are loaded
          held    \* what the loader has got and not given back

vars == <<file, at, i, proc, words, prot, libs, held>>

AlignSize(n) == ((n + PageSize - 1) \div PageSize) * PageSize
Page(a) == a \div PageSize
Zero == <<"zero", 0, 0>>

Loads == SelectSeq(file.phdrs, LAMBDA p : p.type = "LOAD")
vstart == Head(Loads).vaddr

Init ==
    /\ file \in Files
    /\ at = "open" /\ i = 1
    /\ proc = [data |-> FALSE, size |-> 0]
    /\ words = <<>> /\ prot = <<>>
    /\ libs = {} /\ held = {"proc"}

(* goto cleanup. *)
Cleanup == at' = "cleanup" /\ UNCHANGED <<i, proc, words, prot, libs, held>>

(* mmap failed, but returned no null pointer as is tested for, or a page   *)
(* does not allow what is done to it.                                      *)
Fault == at' = "fault" /\ UNCHANGED <<i, proc, words, prot, libs, held>>

(* The region and proc are given back, and nothing else. *)
Freed ==
    /\ at = "cleanup"
    /\ held' = held \ {"proc", "region"}
    /\ words' = <<>> /\ prot' = <<>>
    /\ at' = "failed"
    /\ UNCHANGED <<file, i, proc, libs>>

(* The file is opened, its size is found and it is mapped. *)
Open ==
    /\ at = "open"
    /\ \/ Cleanup
       \/ /\ at' = "map" /\ held' = held \cup {"fd"}
          /\ UNCHANGED <<i, proc, words, prot, libs>>
    /\ UNCHANGED file

Map ==
    /\ at = "map"
    /\ \/ Cleanup \/ Fault
       \/ /\ at' = "ident" /\ held' = held \cup {"file"}
          /\ UNCHANGED <<i, proc, words, prot, libs>>
    /\ UNCHANGED file

CheckIdent ==
    /\ at = "ident"
    /\ IF file.ident
       THEN at' = "size" /\ UNCHANGED <<i, proc, words, prot, libs, held>>
       ELSE Cleanup
    /\ UNCHANGED file

(* Seeded fault: the size of the last segment is taken from the file. *)
RegionSizeOfFile ==
    LET p == Last(Loads) IN AlignSize(p.vaddr - vstart + p.filesz)

(* The region reaches from the first segment to the end of the last. *)
RegionSize == LET p == Last(Loads) IN AlignSize(p.vaddr - vstart + p.memsz)

(* The region is reserved, without access. *)
Reserve ==
    /\ at = "size"
    /\ \/ Loads = <<>> /\ Cleanup
       \/ Loads # <<>> /\ Fault
       \/ /\ Loads # <<>>
          /\ proc' = [data |-> TRUE, size |-> RegionSize]
          /\ words' = [a \in 0 .. RegionSize - 1 |-> Zero]
          /\ prot' = [g \in 0 .. Page(RegionSize - 1) |-> {}]
          /\ held' = held \cup {"region"}
          /\ at' = "copy"
          /\ UNCHANGED <<i, libs>>
    /\ UNCHANGED file

(* prs_pal_mem_protect of size words from address a: whole pages. *)
Protect(a, size, flags) ==
    [g \in DOMAIN prot |-> IF g \in Page(a) .. Page(a + size - 1) THEN flags ELSE prot[g]]

(* One segment is copied, what the file does not have of it is zeroed, and *)
(* the pages it is in get the permissions it asks for.                     *)
Copy ==
    /\ at = "copy" /\ i <= Len(Loads)
    /\ LET p == Loads[i]
           pbase == p.vaddr - vstart
           unaligned == pbase % PageSize
       IN /\ words' = [a \in DOMAIN words |->
                 IF a \notin pbase .. pbase + p.memsz - 1 THEN words[a]
                 ELSE IF a < pbase + p.filesz THEN <<"file", i, a - pbase>> ELSE Zero]
          /\ prot' = Protect(pbase - unaligned, p.memsz + unaligned, p.flags)
    /\ i' = i + 1
    /\ UNCHANGED <<file, at, proc, libs, held>>

(* The symbol table is needed, the libraries are not: one that cannot be   *)
(* loaded is passed over.                                                  *)
FindSymbols ==
    /\ at = "copy" /\ i > Len(Loads)
    /\ IF file.dynsym
       THEN /\ at' = "relocate" /\ i' = 1
            /\ \E l \in SUBSET file.needed : libs' = l
            /\ UNCHANGED <<proc, words, prot, held>>
       ELSE Cleanup
    /\ UNCHANGED file

(* dlsym(RTLD_DEFAULT): a symbol of PRS or of a library that is loaded. *)
Dlsym(symbol) == \E e \in Exported : e.symbol = symbol /\ e.lib \in libs \cup {"prs"}

(* The word of a relocation gets the address of its symbol, on a page that *)
(* can be written; one whose symbol is not found is passed over.           *)
Relocate ==
    /\ at = "relocate" /\ i <= Len(file.rels)
    /\ LET r == file.rels[i]
           a == r.offset - vstart
           writable == a \in DOMAIN words /\ "W" \in prot[Page(a)]
       IN IF Dlsym(r.symbol) /\ ~writable THEN Fault
          ELSE /\ words' = IF Dlsym(r.symbol)
                           THEN [words EXCEPT ![a] = <<"symbol", r.symbol, 0>>]
                           ELSE words
               /\ i' = i + 1
               /\ UNCHANGED <<at, proc, prot, libs, held>>
    /\ UNCHANGED file

(* proc->entry is set and the process is returned. *)
Return ==
    /\ at = "relocate" /\ i > Len(file.rels)
    /\ at' = "loaded"
    /\ UNCHANGED <<file, i, proc, words, prot, libs, held>>

(* prs_pal_proc_destroy. *)
Destroy ==
    /\ at = "loaded"
    /\ held' = held \ {"proc", "region"}
    /\ words' = <<>> /\ prot' = <<>>
    /\ at' = "destroyed"
    /\ UNCHANGED <<file, i, proc, libs>>

Next ==
    \/ Open \/ Map \/ CheckIdent \/ Reserve \/ Copy \/ FindSymbols
    \/ Relocate \/ Return \/ Destroy \/ Freed

Spec == Init /\ [][Next]_vars

(***************************************************************************)
(* Properties.                                                             *)
(***************************************************************************)

(* The pages segment p is in. *)
Pages(p) == Page(p.vaddr - vstart) .. Page(p.vaddr - vstart + p.memsz - 1)

(* The word at offset o of segment k, once it is loaded: an address if     *)
(* there is a relocation for it whose symbol is known, or what the file    *)
(* has there, or zero.                                                     *)
Expected(k, o) ==
    LET rel == {r \in ToSet(file.rels) :
                   r.offset = Loads[k].vaddr + o /\ Dlsym(r.symbol)}
    IN IF rel # {} THEN <<"symbol", (CHOOSE r \in rel : TRUE).symbol, 0>>
       ELSE IF o < Loads[k].filesz THEN <<"file", k, o>> ELSE Zero

(* A process that prs_pal_proc_load returns is the one in the file: every  *)
(* word of every segment is where it is linked to be, with the contents of *)
(* the file, zero, or a resolved address, inside the reserved region; and  *)
(* its pages allow what it asks for unless a later segment shares them.    *)
ImageIsLoaded ==
    at = "loaded" =>
        \A k \in DOMAIN Loads :
            LET p == Loads[k] IN
            /\ \A o \in 0 .. p.memsz - 1 :
                  LET a == p.vaddr - vstart + o
                  IN a \in DOMAIN words /\ words[a] = Expected(k, o)
            /\ \A g \in Pages(p) :
                  \/ prot[g] = p.flags
                  \/ \E l \in k + 1 .. Len(Loads) : g \in Pages(Loads[l])

=============================================================================
