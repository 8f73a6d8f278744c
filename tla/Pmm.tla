--------------------------------- MODULE Pmm ---------------------------------
(***************************************************************************)
(* The physical memory manager, src/src/mm/pmm.c.                           *)
(*                                                                         *)
(* The allocator's statics are the record `pmm': `bitmap' is the set of the *)
(* bits that are 1 (occupied), `max_blocks' and `used_blocks' the counters. *)
(* `mbd' is the Multiboot description the boot loader left, `owned' (ghost) *)
(* the blocks handed out and not yet returned, `ret' what the last call     *)
(* asked for and was given.  A loop that sets or clears bits one after another  *)
(* is one set operation here; the search loops are refined in PmmSearch.    *)
(*                                                                         *)
(* Addresses are bytes of a space of ADDR_SPACE = 2^32 bytes (scaled down   *)
(* for TLC); every uint32_t sum of the code is taken modulo ADDR_SPACE and  *)
(* every uint64_t sum modulo UINT64.  A uint64_t sum of two 32-bit numbers  *)
(* cannot wrap and is written as it stands.                                 *)
(***************************************************************************)
EXTENDS BlockRuns, FiniteSets

CONSTANTS BLOCK_SIZE,      \* PMM_BLOCK_SIZE
          MAX_BLOCKS,      \* PMM_MAX_BLOCKS
          UINT64,          \* 2^64
          LOW_MEMORY,      \* 0x00100000, the first byte above low memory
          FALLBACK_END,    \* 32 MB, the memory assumed when nothing is reported
          KERNEL_START,    \* linker symbols _kernel_start and _kernel_end
          KERNEL_END,
          Boots,           \* the Multiboot descriptions considered
          Counts           \* the run lengths clients ask for

ADDR_SPACE == MAX_BLOCKS * BLOCK_SIZE

ASSUME SizesAssumption ==
    /\ BLOCK_SIZE \in Nat \ {0}
    /\ MAX_BLOCKS \in Nat \ {0}
    /\ UINT64 \in Nat /\ UINT64 >= 2 * ADDR_SPACE
    /\ LOW_MEMORY \in 1 .. ADDR_SPACE - BLOCK_SIZE
    /\ FALLBACK_END \in LOW_MEMORY .. ADDR_SPACE
    /\ KERNEL_START \in 0 .. ADDR_SPACE - 1
    /\ KERNEL_END \in 0 .. ADDR_SPACE - 1
    /\ Counts \subseteq Nat

\* What the widths of the fields guarantee.  multiboot_mem_init adds up the
\* lengths of the regions but never checks where one ends: `addr' + `len' may
\* pass 2^64.
Regions == [base : Nat, size : 0 .. ADDR_SPACE - 1]

ASSUME BootsAssumption ==
    \A m \in Boots :
        /\ m.present \in BOOLEAN
        /\ m.present =>
              /\ m.mmapOk \in BOOLEAN /\ m.hasMemory \in BOOLEAN
              /\ m.mem_upper \in Nat
              /\ \A e \in m.entries : {e.addr, e.len} \subseteq 0 .. UINT64 - 1
              /\ {m.info, m.mmap, m.mods, m.fb} \subseteq Regions

NULL == 0
NoMbd == [present |-> FALSE]

VARIABLES pmm, mbd, booted, owned, ret

vars == <<pmm, mbd, booted, owned, ret>>

Blocks == 0 .. MAX_BLOCKS - 1
Managed(p) == 0 .. p.max_blocks - 1
FreeOf(p) == Managed(p) \ p.bitmap

ADDR_TO_BLOCK(addr) == addr \div BLOCK_SIZE
BLOCK_TO_ADDR(block) == block * BLOCK_SIZE

-----------------------------------------------------------------------------
(* Bitmap operations                                                        *)

\* Mutant of SetBlocks: counts bits that were set already.
SetBlocks_CountsAll(p, S) ==
    [bitmap |-> p.bitmap \cup (S \cap Managed(p)), max_blocks |-> p.max_blocks,
     used_blocks |-> p.used_blocks + Cardinality(S \cap Managed(p))]

\* pmm_set_block over every block of S: bits at or above max_blocks are
\* ignored, and only a bit that changes is counted.
SetBlocks(p, S) ==
    LET new == (S \cap Managed(p)) \ p.bitmap
    IN  [bitmap |-> p.bitmap \cup new, max_blocks |-> p.max_blocks,
         used_blocks |-> p.used_blocks + Cardinality(new)]

\* pmm_unset_block over every block of S; the counter saturates at zero.
UnsetBlocks(p, S) ==
    LET old == S \cap Managed(p) \cap p.bitmap
    IN  [bitmap |-> p.bitmap \ old, max_blocks |-> p.max_blocks,
         used_blocks |-> IF p.used_blocks >= Cardinality(old)
                         THEN p.used_blocks - Cardinality(old) ELSE 0]

\* The blocks pmm_init_region releases: the base is rounded up in 32 bits, the
\* end down in 64 bits.  The size parameter is a 32-bit size_t.
ReleasedBy(r) ==
    IF r.size % ADDR_SPACE = 0 THEN {}
    ELSE LET size == r.size % ADDR_SPACE
             start == ((r.base + BLOCK_SIZE - 1) % ADDR_SPACE) \div BLOCK_SIZE
         IN  start .. (r.base + size) \div BLOCK_SIZE - 1

\* Mutant of ReservedBy: rounds the end down, as pmm_init_region does.
ReservedBy_EndDown(r) ==
    r.base \div BLOCK_SIZE .. (r.base + r.size) \div BLOCK_SIZE - 1

\* The blocks pmm_deinit_region reserves: every page the region touches.
ReservedBy(r) ==
    IF r.size % ADDR_SPACE = 0 THEN {}
    ELSE LET size == r.size % ADDR_SPACE
         IN  r.base \div BLOCK_SIZE
             .. (r.base + size + BLOCK_SIZE - 1) \div BLOCK_SIZE - 1

-----------------------------------------------------------------------------
(* pmm_init                                                                 *)

\* A Multiboot description.  `mmapOk' says that multiboot_mem_iterar_regioes
\* walks the map without an error; `entries' are then the map's regions, each
\* [addr, len, available].  `mem_upper' is already in bytes.  The table, module
\* list and framebuffer are regions [base, size].
Available(m) == {e \in m.entries : e.available}

\* The end of a region as both callbacks compute it, in 64 bits.
Fim(e) == (e.addr + e.len) % UINT64

HasMap(m) == m.present /\ m.mmapOk /\ \E e \in Available(m) : Fim(e) > 0

\* pmm_descobrir_teto_cb over the whole map.
Ceiling(m) ==
    CHOOSE top \in {Fim(e) : e \in Available(m)} :
        \A e \in Available(m) : Fim(e) <= top

Capped(blocks) == IF blocks > MAX_BLOCKS THEN MAX_BLOCKS ELSE blocks

InitialMax(m) ==
    CASE HasMap(m) ->
            Capped(ADDR_TO_BLOCK(IF Ceiling(m) > ADDR_SPACE THEN ADDR_SPACE
                                                            ELSE Ceiling(m)))
      [] ~HasMap(m) /\ m.present /\ m.hasMemory ->
            Capped(ADDR_TO_BLOCK((LOW_MEMORY + m.mem_upper) % ADDR_SPACE))
      [] OTHER -> ADDR_TO_BLOCK(FALLBACK_END)

\* The regions handed to pmm_init_region, entries clipped at 4 GB by
\* pmm_liberar_disponiveis_cb; where the sum wraps nothing is clipped.
InitialFree(m) ==
    CASE HasMap(m) ->
            {[base |-> e.addr,
              size |-> IF Fim(e) > ADDR_SPACE THEN ADDR_SPACE - e.addr ELSE e.len] :
                e \in {f \in Available(m) : f.addr < ADDR_SPACE}}
      [] ~HasMap(m) /\ m.present /\ m.hasMemory ->
            {[base |-> LOW_MEMORY, size |-> m.mem_upper]}
      [] OTHER ->
            {[base |-> LOW_MEMORY, size |-> FALLBACK_END - LOW_MEMORY]}

\* The regions handed to pmm_deinit_region afterwards.
InitialReserved(m) ==
    {[base |-> 0, size |-> LOW_MEMORY]}
    \cup {r \in {[base |-> KERNEL_START, size |-> KERNEL_END - KERNEL_START]} :
            KERNEL_END > KERNEL_START}
    \cup IF ~m.present THEN {}
         ELSE {m.info}
              \cup {r \in {m.mmap} : r.base # 0 /\ r.size # 0}
              \cup {r \in {m.mods} : m.hasMods /\ r.size # 0 /\ r.base # 0}
              \cup {r \in {m.fb} : m.hasFb /\ r.base < ADDR_SPACE /\ r.size # 0}

PmmAfterInit(m) ==
    LET full == [bitmap |-> Blocks, max_blocks |-> InitialMax(m),
                 used_blocks |-> InitialMax(m)]
        freed == UnsetBlocks(full, UNION {ReleasedBy(r) : r \in InitialFree(m)})
    IN  SetBlocks(freed, UNION {ReservedBy(r) : r \in InitialReserved(m)})

\* kernel_main calls pmm_init once, before anything can allocate or free.
PmmInit ==
    /\ ~booted
    /\ booted' = TRUE
    /\ mbd' \in Boots
    /\ pmm' = PmmAfterInit(mbd')
    /\ UNCHANGED <<owned, ret>>

-----------------------------------------------------------------------------
(* Allocation and release                                                   *)

\* Mutant of AllocBlocks: marks only the first block of the run.
AllocBlocks_MarksFirst(count) ==
    LET start == FirstRun(FreeOf(pmm), count)
    IN  /\ start >= 0
        /\ pmm' = SetBlocks(pmm, {start})
        /\ ret' = [count |-> count, ptr |-> BLOCK_TO_ADDR(start)]
        /\ owned' = owned \cup Run(start, count)
        /\ UNCHANGED <<mbd, booted>>

\* pmm_alloc_blocks(count); pmm_alloc_block is the case count = 1.
AllocBlocks(count) ==
    LET start == FirstRun(FreeOf(pmm), count)
    IN  /\ IF start < 0
           THEN /\ ret' = [count |-> count, ptr |-> NULL]
                /\ UNCHANGED <<pmm, owned>>
           ELSE /\ pmm' = SetBlocks(pmm, Run(start, count))
                /\ ret' = [count |-> count, ptr |-> BLOCK_TO_ADDR(start)]
                /\ owned' = owned \cup Run(start, count)
        /\ UNCHANGED <<mbd, booted>>

\* pmm_free_blocks(ptr, count); pmm_free_block is the case count = 1.  Clients
\* hand back blocks they own, blocks that are already free (a double free that
\* nobody reused) or blocks beyond the managed memory, never a reserved block.
FreeBlocks(ptr, count) ==
    LET run == Run(ADDR_TO_BLOCK(ptr), count)
    IN  /\ run \cap Managed(pmm) \subseteq owned \cup FreeOf(pmm)
        /\ IF ptr = NULL \/ count = 0
           THEN UNCHANGED <<pmm, owned>>
           ELSE /\ pmm' = UnsetBlocks(pmm, run)
                /\ owned' = owned \ run
        /\ UNCHANGED <<mbd, booted, ret>>

Init ==
    /\ pmm = [bitmap |-> {}, max_blocks |-> 0, used_blocks |-> 0]   \* .bss
    /\ mbd = NoMbd
    /\ booted = FALSE
    /\ owned = {}
    /\ ret = [count |-> 0, ptr |-> NULL]

Next ==
    \/ PmmInit
    \/ \E count \in Counts : AllocBlocks(count)
    \/ \E block \in Blocks, count \in Counts :
          FreeBlocks(BLOCK_TO_ADDR(block), count)

Spec == Init /\ [][Next]_vars

-----------------------------------------------------------------------------
(* Properties                                                               *)

\* Types of the statics, and of the ghost state.
TypeOK ==
    /\ pmm \in [bitmap : SUBSET Blocks, max_blocks : 0 .. MAX_BLOCKS,
                used_blocks : 0 .. MAX_BLOCKS]
    /\ booted \in BOOLEAN
    /\ owned \in SUBSET Blocks
    /\ ret \in [count : Nat, ptr : 0 .. ADDR_SPACE - 1]

\* pmm_used_blocks, maintained incrementally by pmm_set_block and
\* pmm_unset_block, always equals the number of occupied bits below
\* pmm_max_blocks, so the saturation at zero never hides a lost count and
\* pmm_get_free_blocks is exact.
Accounting ==
    pmm.used_blocks = Cardinality(pmm.bitmap \cap Managed(pmm))

\* Byte-level meaning of "may be handed out": the page lies wholly inside one
\* reported region of available memory and holds no byte of a critical region.
Bytes(r) == r.base .. r.base + r.size - 1
BlockBytes(b) == b * BLOCK_SIZE .. (b + 1) * BLOCK_SIZE - 1

ReportedFree(m) ==
    CASE HasMap(m) -> {[base |-> e.addr, size |-> e.len] : e \in Available(m)}
      [] ~HasMap(m) /\ m.present /\ m.hasMemory ->
            {[base |-> LOW_MEMORY, size |-> m.mem_upper]}
      [] OTHER -> {[base |-> LOW_MEMORY, size |-> FALLBACK_END - LOW_MEMORY]}

WhollyFree(m, b) == \E r \in ReportedFree(m) : BlockBytes(b) \subseteq Bytes(r)
Critical(m, b) == \E r \in InitialReserved(m) : BlockBytes(b) \cap Bytes(r) # {}
Allocatable(m) == {b \in Blocks : WhollyFree(m, b) /\ ~Critical(m, b)}

\* The memory maps for which 32-bit arithmetic does not wrap: no available
\* region starts inside the last page below 4 GB (pmm_init_region would round
\* its base up to 0) or spans all 4 GB (its size would be cut to 0), and the
\* legacy memory ends below 4 GB.
NoWrap(m) ==
    m.present =>
        /\ \A e \in Available(m) :
              e.addr < ADDR_SPACE =>
                  /\ e.addr + BLOCK_SIZE <= ADDR_SPACE
                  /\ e.addr > 0 \/ e.len < ADDR_SPACE
        /\ LOW_MEMORY + m.mem_upper < ADDR_SPACE

\* The memory maps for which 64-bit arithmetic does not wrap either: every
\* available region ends below 2^64.  On the others pmm_descobrir_teto_cb takes
\* the wrapped end for the top of memory and pages are lost.
NoWrap64(m) == m.present => \A e \in Available(m) : e.addr + e.len < UINT64

\* The bitmap is exact: after pmm_init the free blocks are the allocatable
\* ones that no client owns.  No reserved or unreported page, no page a client
\* holds is ever free, not even under a map with a region past 2^64; without
\* such a region no page is lost by rounding, clipping or a free.
BitmapExact ==
    booted /\ NoWrap(mbd) =>
        /\ owned \subseteq Allocatable(mbd)
        /\ FreeOf(pmm) \subseteq Allocatable(mbd) \ owned
        /\ NoWrap64(mbd) => Allocatable(mbd) \ owned \subseteq FreeOf(pmm)

\* The comments of pmm_init ("any unreported space or reserved memory will
\* never be accidentally allocated") and of pmm_init_region ("only whole free
\* pages are released"): a block that can be handed out lies inside a reported
\* region of available memory.
OnlyWholePagesReleased ==
    booted => \A b \in FreeOf(pmm) \cup owned : WhollyFree(mbd, b)

\* The manager is a block pool: a grant is a run nobody else has, and NULL is
\* returned only when no run of that length is free.  The pointer is the
\* block's address, so block 0 (whose address is NULL) must never be granted.
Pool == INSTANCE BlockPool WITH
            open <- booted,
            avail <- FreeOf(pmm),
            held <- owned,
            answer <- [count |-> ret.count,
                       block |-> IF ret.ptr = NULL THEN -1
                                 ELSE ADDR_TO_BLOCK(ret.ptr)]
PoolRefined == Pool!Spec
=============================================================================
