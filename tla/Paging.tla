-------------------------------- MODULE Paging --------------------------------
(***************************************************************************)
(* The two-level page tables, src/src/mm/paging.c, with the parts of the    *)
(* CPU they talk to: CR0.PG and the TLB.                                    *)
(*                                                                         *)
(* A range is mapped one page per step, and paging_init is the sequence of  *)
(* its stages, so a failure in the middle and the moment paging is switched *)
(* on are states of their own.  The CPU may cache a translation whenever    *)
(* paging is on.  Addresses are bytes of a space of ADDR_SPACE = 2^32       *)
(* bytes; uint64_t sums are exact, PAGING_ADDR_MASK is 32 bits wide.        *)
(***************************************************************************)
EXTENDS Integers, FiniteSets

CONSTANTS PAGE_SIZE,     \* PAGING_PAGE_SIZE
          ENTRIES,       \* PAGING_ENTRIES, of a table
          DIR_ENTRIES,   \* PAGING_ENTRIES, of the directory
          MAX_TABLES,    \* PAGING_MAX_TABLES
          IDENTITY_END,  \* PAGING_IDENTITY_MB in bytes
          KERNEL_END,    \* linker symbol _kernel_end
          Framebuffers,  \* the arguments <<fb_addr, fb_size>> of paging_init
          Ranges,        \* later identity mappings <<start, size, flags>>
          Pages          \* later single mappings <<virt, phys, flags>>

ADDR_SPACE == DIR_ENTRIES * ENTRIES * PAGE_SIZE

ASSUME PagingAssumption ==
    /\ {PAGE_SIZE, ENTRIES, DIR_ENTRIES} \subseteq Nat \ {0}
    /\ MAX_TABLES \in Nat
    /\ IDENTITY_END \in 1 .. ADDR_SPACE - PAGE_SIZE
    /\ KERNEL_END \in 0 .. ADDR_SPACE - PAGE_SIZE

NoTable == -1
WRITABLE == "WRITABLE"
USER == "USER"
Flags == SUBSET {WRITABLE, USER}

\* The arguments have the width of the code's parameters.
ASSUME ArgumentsAssumption ==
    LET Word == 0 .. ADDR_SPACE - 1
    IN  /\ Framebuffers \subseteq Word \X Word
        /\ Ranges \subseteq Word \X Word \X Flags
        /\ Pages \subseteq Word \X Word \X Flags

EMPTY == [present |-> FALSE]
Entry(phys, flags) == [present |-> TRUE, phys |-> phys, flags |-> flags]

VARIABLES pt,             \* page_directory, page_tables and tables_used
          paging_active,
          cr0_pg,         \* CR0.PG with CR3 loaded
          tlb,            \* translations the CPU holds: [page, entry]
          pc,             \* the stage of the call in progress
          stage,          \* the range paging_init is at: "low", "fb" or "none"
          fb,             \* paging_init's framebuffer <<addr, size>>
          range,          \* the range being mapped: [start, size, flags]
          addr, end,      \* the loop of paging_identity_map_range
          status          \* what the last call returned

vars == <<pt, paging_active, cr0_pg, tlb, pc, stage, fb, range, addr, end, status>>
loop == <<range, addr, end>>

VPages == 0 .. DIR_ENTRIES * ENTRIES - 1
align_down(a) == a - (a % PAGE_SIZE)

-----------------------------------------------------------------------------
\* Mutants of GetTable: a new table on every call; one table beyond the pool.
GetTable_Always(p, d) ==
    IF p.used >= MAX_TABLES
    THEN p
    ELSE [dir |-> [p.dir EXCEPT ![d] = p.used],
          tables |-> [p.tables EXCEPT ![p.used] = [i \in 0 .. ENTRIES - 1 |-> EMPTY]],
          used |-> p.used + 1]

GetTable_OneMore(p, d) ==
    IF p.dir[d] # NoTable \/ p.used > MAX_TABLES
    THEN p
    ELSE [p EXCEPT !.dir[d] = p.used, !.used = p.used + 1]

\* paging_get_table(dir_index): the paging structures afterwards, in which the
\* directory entry is still NoTable when the pool is empty.
GetTable(p, d) ==
    IF p.dir[d] # NoTable \/ p.used >= MAX_TABLES
    THEN p
    ELSE [dir |-> [p.dir EXCEPT ![d] = p.used],
          tables |-> [p.tables EXCEPT ![p.used] = [i \in 0 .. ENTRIES - 1 |-> EMPTY]],
          used |-> p.used + 1]

Aligned(a) == a % PAGE_SIZE = 0
\* Mutant of DirIndex: shifts the address by the page bits only.
DirIndex_ShortShift(virt) == (virt \div PAGE_SIZE) % DIR_ENTRIES

DirIndex(virt) == virt \div (ENTRIES * PAGE_SIZE)
TableIndex(virt) == (virt \div PAGE_SIZE) % ENTRIES

\* paging_map_page(virt, phys, flags): its return value and, when it succeeds,
\* its effect on the structures and the TLB.
MapPageStatus(virt, phys) ==
    CASE ~Aligned(virt) \/ ~Aligned(phys) -> "UNALIGNED"
      [] Aligned(virt) /\ Aligned(phys)
           /\ GetTable(pt, DirIndex(virt)).dir[DirIndex(virt)] = NoTable -> "NO_TABLES"
      [] OTHER -> "OK"

\* Mutant of MapPage: no INVLPG.
MapPage_NoInvlpg(virt, phys, flags) ==
    LET p == GetTable(pt, DirIndex(virt))
        t == p.dir[DirIndex(virt)]
    IN  /\ IF MapPageStatus(virt, phys) = "OK"
           THEN pt' = [p EXCEPT !.tables[t][TableIndex(virt)] = Entry(phys, flags)]
           ELSE UNCHANGED pt
        /\ UNCHANGED tlb

MapPage(virt, phys, flags) ==
    LET p == GetTable(pt, DirIndex(virt))
        t == p.dir[DirIndex(virt)]
    IN  IF MapPageStatus(virt, phys) = "OK"
        THEN /\ pt' = [p EXCEPT !.tables[t][TableIndex(virt)] = Entry(phys, flags)]
             /\ tlb' = IF paging_active
                       THEN {c \in tlb : c.page # virt \div PAGE_SIZE}   \* INVLPG
                       ELSE tlb
        ELSE UNCHANGED <<pt, tlb>>

-----------------------------------------------------------------------------
\* Mutant of EnterRange: the end is not rounded up.
EnterRange_EndDown(start, size, flags, from) ==
    /\ range' = [start |-> start, size |-> size, flags |-> flags]
    /\ IF size = 0
       THEN /\ pc' = "idle" /\ stage' = "none" /\ status' = "INVALID_RANGE"
            /\ UNCHANGED <<addr, end>>
       ELSE /\ pc' = "map" /\ stage' = from
            /\ addr' = align_down(start) /\ end' = align_down(start + size)
            /\ UNCHANGED status

\* The start of paging_identity_map_range(start, size, flags), called by
\* paging_init at stage `from' or by a client.  The rounded end is masked with
\* a 32-bit constant, so the test against 2^32 never fails.
EnterRange(start, size, flags, from) ==
    LET rounded == align_down(start + size + PAGE_SIZE - 1) % ADDR_SPACE
    IN  /\ range' = [start |-> start, size |-> size, flags |-> flags]
        /\ IF size = 0 \/ rounded > ADDR_SPACE
           THEN /\ pc' = "idle" /\ stage' = "none" /\ status' = "INVALID_RANGE"
                /\ UNCHANGED <<addr, end>>
           ELSE /\ pc' = "map" /\ stage' = from
                /\ addr' = align_down(start) /\ end' = rounded
                /\ UNCHANGED status

\* One iteration of the loop; an error ends the call, and leaves in place the
\* pages and the tables it has already added.
MapRangeStep ==
    /\ pc = "map" /\ addr < end
    /\ MapPage(addr, addr, range.flags)
    /\ LET st == MapPageStatus(addr, addr)
       IN  IF st = "OK"
           THEN addr' = addr + PAGE_SIZE /\ UNCHANGED <<pc, stage, status>>
           ELSE pc' = "idle" /\ stage' = "none" /\ status' = st /\ UNCHANGED addr
    /\ UNCHANGED <<paging_active, cr0_pg, fb, range, end>>

\* The loop is over: the call returns PAGING_OK to its client, or paging_init
\* goes on with the framebuffer (when it has one) and then with CR3 and CR0.
MapRangeDone ==
    /\ pc = "map" /\ addr >= end
    /\ \/ /\ stage = "none"
          /\ pc' = "idle" /\ status' = "OK"
          /\ UNCHANGED <<stage, loop>>
       \/ /\ stage = "low" /\ fb[2] # 0
          /\ EnterRange(fb[1], fb[2], {WRITABLE}, "fb")
       \/ /\ stage = "fb" \/ (stage = "low" /\ fb[2] = 0)
          /\ pc' = "enable"
          /\ UNCHANGED <<stage, loop, status>>
    /\ UNCHANGED <<pt, paging_active, cr0_pg, tlb, fb>>

\* Mutant of LowEnd: a kernel larger than the minimum is not covered.
LowEnd_Fixed == IDENTITY_END

LowEnd == IF KERNEL_END > IDENTITY_END THEN KERNEL_END ELSE IDENTITY_END

\* paging_init(fb_addr, fb_size) up to its first range.  kernel_main panics when
\* it fails, so it is called again only once paging is on.
PagingInit(framebuffer) ==
    /\ pc = "idle" /\ (status = "NONE" \/ paging_active)
    /\ IF paging_active \/ cr0_pg
       THEN /\ status' = "ALREADY_ON"
            /\ UNCHANGED <<pt, pc, stage, fb, loop>>
       ELSE /\ pt' = [pt EXCEPT !.dir = [d \in 0 .. DIR_ENTRIES - 1 |-> NoTable],
                                !.used = 0]
            /\ fb' = framebuffer
            /\ EnterRange(0, LowEnd, {WRITABLE}, "low")
    /\ UNCHANGED <<paging_active, cr0_pg, tlb>>

\* MOV to CR3 and CR0: paging is on, with an empty TLB.
EnablePaging ==
    /\ pc = "enable"
    /\ cr0_pg' = TRUE /\ tlb' = {}
    /\ pc' = "active"
    /\ UNCHANGED <<pt, paging_active, stage, fb, loop, status>>

SetActive ==
    /\ pc = "active"
    /\ paging_active' = TRUE
    /\ pc' = "idle" /\ stage' = "none" /\ status' = "OK"
    /\ UNCHANGED <<pt, cr0_pg, tlb, fb, loop>>

\* Later calls, made once paging is on (heap_init_from_pmm).  No client maps a
\* page of low memory or of the framebuffer elsewhere, or read-only.
IdentityMapRange(start, size, flags) ==
    /\ pc = "idle" /\ paging_active
    /\ EnterRange(start, size, flags, "none")
    /\ UNCHANGED <<pt, paging_active, cr0_pg, tlb, fb>>

MapOnePage(virt, phys, flags) ==
    /\ pc = "idle" /\ paging_active
    /\ MapPage(virt, phys, flags)
    /\ status' = MapPageStatus(virt, phys)
    /\ UNCHANGED <<paging_active, cr0_pg, pc, stage, fb, loop>>

\* What the MMU finds in the structures for a page.
Translation(p, page) ==
    LET t == p.dir[page \div ENTRIES]
    IN  IF t = NoTable THEN EMPTY ELSE p.tables[t][page % ENTRIES]

\* The CPU may load any present translation at any time.
TlbFill(page) ==
    /\ cr0_pg /\ Translation(pt, page).present
    /\ tlb' = tlb \cup {[page |-> page, entry |-> Translation(pt, page)]}
    /\ UNCHANGED <<pt, paging_active, cr0_pg, pc, stage, fb, loop, status>>

Init ==
    /\ pt = [dir |-> [d \in 0 .. DIR_ENTRIES - 1 |-> NoTable],
             tables |-> [t \in 0 .. MAX_TABLES - 1 |->
                           [i \in 0 .. ENTRIES - 1 |-> EMPTY]],
             used |-> 0]                                         \* .bss
    /\ paging_active = FALSE /\ cr0_pg = FALSE /\ tlb = {}
    /\ pc = "idle" /\ stage = "none" /\ fb = <<0, 0>>
    /\ range = [start |-> 0, size |-> 0, flags |-> {}]
    /\ addr = 0 /\ end = 0
    /\ status = "NONE"

Next ==
    \/ \E f \in Framebuffers : PagingInit(f)
    \/ MapRangeStep \/ MapRangeDone \/ EnablePaging \/ SetActive
    \/ \E r \in Ranges : IdentityMapRange(r[1], r[2], r[3])
    \/ \E m \in Pages : MapOnePage(m[1], m[2], m[3])
    \/ \E page \in VPages : TlbFill(page)

Spec == Init /\ [][Next]_vars

-----------------------------------------------------------------------------
(* Properties                                                               *)

TableIds == 0 .. MAX_TABLES - 1
EntryType == {EMPTY} \cup [present : {TRUE}, phys : 0 .. ADDR_SPACE - 1,
                           flags : Flags]

TypeOK ==
    /\ pt \in [dir : [0 .. DIR_ENTRIES - 1 -> TableIds \cup {NoTable}],
               tables : [TableIds -> [0 .. ENTRIES - 1 -> EntryType]],
               used : 0 .. MAX_TABLES]
    /\ paging_active \in BOOLEAN /\ cr0_pg \in BOOLEAN
    /\ tlb \subseteq [page : VPages, entry : EntryType]
    /\ pc \in {"idle", "map", "enable", "active"}
    /\ stage \in {"none", "low", "fb"}
    /\ addr \in 0 .. ADDR_SPACE /\ end \in 0 .. ADDR_SPACE - 1
    /\ status \in {"NONE", "OK", "UNALIGNED", "NO_TABLES", "INVALID_RANGE",
                   "ALREADY_ON"}

\* The pages that hold a byte of [start, start + size), and the mapping of a
\* page to itself.
Covered(start, size) ==
    {page \in VPages : /\ size > 0
                       /\ page * PAGE_SIZE < start + size
                       /\ start < (page + 1) * PAGE_SIZE}
Identity(page, flags) ==
    Translation(pt, page) = Entry(page * PAGE_SIZE, flags)

\* What paging_init's range and framebuffer fb occupy, and the promise of the
\* clients about it (heap_init_from_pmm maps pages the PMM has granted, which are
\* none of these, to themselves and writable).
Vital(framebuffer) ==
    Covered(0, LowEnd) \cup Covered(framebuffer[1], framebuffer[2])

\* A range whose rounded end is not beyond the last page (see EnterRange).
BelowTop(start, size) == start + size <= ADDR_SPACE - PAGE_SIZE

ASSUME ClientsAssumption ==
    \A f \in Framebuffers :
        /\ \A r \in Ranges : \/ r[3] = {WRITABLE}
                             \/ BelowTop(r[1], r[2]) /\ Covered(r[1], r[2]) \cap Vital(f) = {}
        /\ \A m \in Pages : \/ m[1] = m[2] /\ m[3] = {WRITABLE}
                            \/ m[1] \div PAGE_SIZE \notin Vital(f)
                            \/ ~Aligned(m[1]) \/ ~Aligned(m[2])

\* The pool of page tables: each table in use belongs to exactly one directory
\* entry and tables_used counts them, so no table is lost and no two 4 MB
\* areas share one, whatever the order of mappings and failures.
TablesOwnedOnce ==
    LET used == {d \in DOMAIN pt.dir : pt.dir[d] # NoTable}
    IN  /\ {pt.dir[d] : d \in used} = 0 .. pt.used - 1
        /\ Cardinality(used) = pt.used

\* "If it were left unmapped, the first pixel written after paging is switched
\* on would cause a Page Fault" (paging_init): from the instruction that sets
\* CR0.PG on, low memory, the kernel and the framebuffer are mapped to
\* themselves and writable.
PagingOnIsSafe ==
    cr0_pg =>
        \A page \in Covered(0, LowEnd) \cup Covered(0, KERNEL_END)
                    \cup Covered(fb[1], fb[2]) :
            Identity(page, {WRITABLE})

\* "Identity map of [start, start + size), extended to whole pages"
\* (paging.h): when the loop of paging_identity_map_range ends and the call is
\* about to return PAGING_OK, every page of the range is mapped to itself.
RangeMapped ==
    pc = "map" /\ addr >= end =>
        \A page \in Covered(range.start, range.size) :
            Identity(page, range.flags)

\* The TLB never holds a translation the tables no longer give.
TlbCoherent == \A c \in tlb : c.entry = Translation(pt, c.page)

\* Once paging is on, a call that fails changes no translation, one that
\* succeeds changes one page at a time, in a range the one at the cursor, and no
\* page is ever unmapped: installing a table for one area never disturbs another.
Changed == {page \in VPages : Translation(pt', page) # Translation(pt, page)}
OnlyNamedPageChanges ==
    [][cr0_pg =>
          /\ Cardinality(Changed) <= 1
          /\ pc = "map" => Changed \subseteq {addr \div PAGE_SIZE}
          /\ pc' = "idle" /\ status' # "OK" => Changed = {}
          /\ \A page \in Changed : Translation(pt', page).present]_vars
=============================================================================
