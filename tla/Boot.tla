---------------------------------- MODULE Boot ----------------------------------
(***************************************************************************)
(* The boot, kernel_main of src/kernel.c: the order in which the parser of  *)
(* the memory map, the PMM, the descriptor tables, paging and the heap are  *)
(* brought up, the panics that end it, and heap_init_from_pmm of            *)
(* src/src/mm/heap.c, which joins the heap, the PMM and paging.             *)
(*                                                                         *)
(* Interrupts stay disabled (CLI at the entry, and no STI in the kernel),   *)
(* so the only events besides the kernel's own steps are CPU faults, which  *)
(* may strike at any of them.  `stage' is where kernel_main is.             *)
(***************************************************************************)
EXTENDS MultibootMap, PanicScreen, Gdt

CONSTANTS BLOCK_SIZE, MAX_BLOCKS, LOW_MEMORY, FALLBACK_END,   \* Pmm
          KERNEL_START, KERNEL_END,
          ENTRIES, DIR_ENTRIES, MAX_TABLES, IDENTITY_END,     \* Paging
          ALIGNMENT, SIZEOF_BLOCK,                            \* Heap
          HEAP_INITIAL_SIZE,
          Descriptions   \* what the boot loader may pass to kernel_main

ADDR_SPACE == MAX_BLOCKS * BLOCK_SIZE

\* What the linker, the constants of the sources and the widths of the Multiboot
\* fields guarantee.  The sizes are those Pmm, Paging and Heap assume.
ASSUME BootAssumption ==
    /\ {BLOCK_SIZE, MAX_BLOCKS, ENTRIES, DIR_ENTRIES, ALIGNMENT, SIZEOF_BLOCK}
          \subseteq Nat \ {0}
    /\ UINT32 = ADDR_SPACE /\ VIDEO_SPACE = ADDR_SPACE
    /\ UINT64 >= 2 * ADDR_SPACE
    /\ DIR_ENTRIES * ENTRIES = MAX_BLOCKS /\ MAX_TABLES \in Nat
    /\ {LOW_MEMORY, IDENTITY_END} \subseteq 1 .. ADDR_SPACE - BLOCK_SIZE
    /\ {KERNEL_START, KERNEL_END} \subseteq 0 .. ADDR_SPACE - BLOCK_SIZE
    /\ FALLBACK_END \in LOW_MEMORY .. ADDR_SPACE
    /\ BLOCK_SIZE % ALIGNMENT = 0 /\ SIZEOF_BLOCK + ALIGNMENT <= ADDR_SPACE
    /\ HEAP_INITIAL_SIZE \in 0 .. ADDR_SPACE - 1

ASSUME DescriptionsAssumption ==
    \A d \in Descriptions :
        /\ d.present \in BOOLEAN
        /\ d.present =>
              /\ d.mmap \in Maps
              /\ <<d.fbAddr, d.pitch, d.width, d.height>> \in Geometries
              /\ {d.hasFb, d.format, d.hasMemory, d.hasMods} \subseteq BOOLEAN
              /\ d.mem_upper \in Nat
              /\ {d.info, d.mods} \subseteq [base : Nat, size : 0 .. ADDR_SPACE - 1]

VARIABLES mbd,           \* kernel_main's argument
          stage,         \* where kernel_main is
          gates,         \* the gates written into the IDT, once it is loaded
          pic,           \* how the 8259s are programmed
          pmm, pmm_mbd, pmm_booted, owned, pmm_ret,           \* Pmm
          pt, paging_active, cr0_pg, pg_pc, pg_stage, pg_fb,  \* Paging
          pg_range, pg_addr, pg_end, pg_status,
          heap_head, heap_lo, heap_hi, mem                    \* Heap

pmm_vars == <<pmm, pmm_mbd, pmm_booted, owned, pmm_ret>>
pg_vars == <<pt, paging_active, cr0_pg, pg_pc, pg_stage, pg_fb, pg_range,
             pg_addr, pg_end, pg_status>>
heap_vars == <<heap_head, heap_lo, heap_hi, mem>>
cpu == <<gates, pic>>
bvars == <<mbd, stage, cpu, gvars, mvars, svars, pmm_vars, pg_vars, heap_vars>>

P == INSTANCE Pmm WITH Boots <- {}, Counts <- {}, mbd <- pmm_mbd,
                       booted <- pmm_booted, ret <- pmm_ret
\* The TLB stays empty here: Paging shows that it never matters.
G == INSTANCE Paging WITH PAGE_SIZE <- BLOCK_SIZE, Framebuffers <- {},
                          Ranges <- {}, Pages <- {}, tlb <- {},
                          pc <- pg_pc, stage <- pg_stage, fb <- pg_fb,
                          range <- pg_range, addr <- pg_addr, end <- pg_end,
                          status <- pg_status
\* Nothing in the kernel calls kmalloc yet.
H == INSTANCE Heap WITH SIZE_SPACE <- ADDR_SPACE, InitArgs <- {}, Sizes <- {},
                        call <- [size |-> 0, need |-> 0], b <- 0, live <- {},
                        returned <- {}, ret <- [size |-> 0, ptr |-> 0]

WRITABLE == "WRITABLE"

-----------------------------------------------------------------------------
(* The frame buffer                                                         *)

\* kernel_panic, called with a message or from a fault.
Panic(regs) == KernelPanic(regs) /\ stage' = "panic"

\* The tests of kernel_main that come before panic_configurar_video: a
\* description with a frame buffer, below 4 GB, in the supported format.
Supported == /\ mbd.present /\ mbd.hasFb
             /\ mbd.fbAddr # 0 /\ mbd.fbAddr < ADDR_SPACE /\ mbd.format

ValidateVideo ==
    /\ stage = "video"
    /\ IF Supported
       THEN Configurar(mbd.fbAddr, mbd.pitch, mbd.width, mbd.height)
            /\ stage' = "geometry"
       ELSE Panic("none")
    /\ UNCHANGED <<mbd, cpu, gvars, mvars, pmm_vars, pg_vars, heap_vars>>

ValidateGeometry ==
    /\ stage = "geometry"
    /\ IF video.fb # 0 THEN stage' = "map" /\ UNCHANGED svars ELSE Panic("none")
    /\ UNCHANGED <<mbd, cpu, gvars, mvars, pmm_vars, pg_vars, heap_vars>>

FrameSize == (mbd.pitch * mbd.height) % ADDR_SPACE

-----------------------------------------------------------------------------
(* The memory map and the PMM                                               *)

ParseMap ==
    /\ stage = "map"
    /\ MemInit(mbd.mmap)
    /\ stage' = "parse"
    /\ UNCHANGED <<mbd, cpu, gvars, svars, pmm_vars, pg_vars, heap_vars>>

\* A walk over the map in progress: of multiboot_mem_parse, or one of pmm_init's.
WalkStep ==
    /\ stage \in {"parse", "ceiling", "release"}
    /\ ParseEntry \/ ParseDone \/ IterEntry \/ IterDone
    /\ UNCHANGED <<mbd, stage, cpu, gvars, svars, pmm_vars, pg_vars, heap_vars>>

\* multiboot_mem_init has returned; pmm_init starts looking for the highest
\* available address.
MapParsed ==
    /\ stage = "parse" /\ walk = "none"
    /\ IF mem_status = "OK"
       THEN stage' = "ceiling" /\ IterRegioes /\ UNCHANGED svars
       ELSE Panic("none") /\ UNCHANGED mvars
    /\ UNCHANGED <<mbd, cpu, gvars, pmm_vars, pg_vars, heap_vars>>

\* The description as pmm_init sees it: the regions its callbacks were given.
\* (An error of the walk sends it to multiboot_mem_iterar, the same walk.)
Seen ==
    [present |-> TRUE, mmapOk |-> mem_status = "OK",
     entries |-> {[addr |-> map.At[o].addr, len |-> map.At[o].len,
                   available |-> map.At[o].available] :
                     o \in {called[k] : k \in DOMAIN called}},
     hasMemory |-> mbd.hasMemory, mem_upper |-> mbd.mem_upper,
     info |-> mbd.info, mmap |-> [base |-> map.addr, size |-> map.length],
     hasMods |-> mbd.hasMods, mods |-> mbd.mods,
     hasFb |-> mbd.hasFb, fb |-> [base |-> mbd.fbAddr, size |-> FrameSize]]

\* The bitmap pmm_init leaves, after its last walk.
PmmInit ==
    /\ pmm_booted' = TRUE
    /\ pmm_mbd' = Seen
    /\ pmm' = P!PmmAfterInit(Seen)
    /\ stage' = "gdt"
    /\ UNCHANGED <<owned, pmm_ret>>

\* With available memory in the map, pmm_init walks it again to release the
\* regions; without, it falls back on the legacy fields.
CeilingFound ==
    /\ stage = "ceiling" /\ walk = "none"
    /\ IF P!HasMap(Seen)
       THEN stage' = "release" /\ IterRegioes /\ UNCHANGED pmm_vars
       ELSE PmmInit /\ UNCHANGED mvars
    /\ UNCHANGED <<mbd, cpu, gvars, svars, pg_vars, heap_vars>>

RegionsReleased ==
    /\ stage = "release" /\ walk = "none"
    /\ PmmInit
    /\ UNCHANGED <<mbd, cpu, gvars, mvars, svars, pg_vars, heap_vars>>

-----------------------------------------------------------------------------
(* Descriptor tables and the 8259s                                          *)

InstallGdt ==
    /\ stage = "gdt"
    /\ GdtInstalar
    /\ stage' = "idt"
    /\ UNCHANGED <<mbd, cpu, mvars, svars, pmm_vars, pg_vars, heap_vars>>

Gate(kind) == [kind |-> kind, sel |-> SELETOR_CODIGO_KERNEL]

\* Mutant of IdtInstall: isr_install is forgotten.
IdtInstall_NoIsr ==
    /\ stage = "idt"
    /\ gates' = {}
    /\ stage' = "irq"
    /\ UNCHANGED <<mbd, pic, gvars, mvars, svars, pmm_vars, pg_vars, heap_vars>>

\* LIDT of a table without gates.
IdtInstall ==
    /\ stage = "idt"
    /\ gates' = {}
    /\ stage' = "isr"
    /\ UNCHANGED <<mbd, pic, gvars, mvars, svars, pmm_vars, pg_vars, heap_vars>>

\* isr_install fills the gates of the 32 exceptions, irq_install those of the
\* 16 lines of the 8259s.
IsrInstall ==
    /\ stage = "isr"
    /\ gates' = gates \cup {Gate("exception")}
    /\ stage' = "irq"
    /\ UNCHANGED <<mbd, pic, gvars, mvars, svars, pmm_vars, pg_vars, heap_vars>>

IrqInstall ==
    /\ stage = "irq"
    /\ gates' = gates \cup {Gate("irq")}
    /\ stage' = "pic"
    /\ UNCHANGED <<mbd, pic, gvars, mvars, svars, pmm_vars, pg_vars, heap_vars>>

\* pic_init: both 8259s remapped to 0x20-0x2F, every line masked.
PicInit ==
    /\ stage = "pic"
    /\ pic' = [offset |-> "irq gates", masked |-> TRUE]
    /\ stage' = "paging"
    /\ UNCHANGED <<mbd, gates, gvars, mvars, svars, pmm_vars, pg_vars, heap_vars>>

-----------------------------------------------------------------------------
(* Paging and the heap                                                      *)

StartPaging ==
    /\ stage = "paging"
    /\ G!PagingInit(<<mbd.fbAddr, FrameSize>>)
    /\ stage' = "paging init"
    /\ UNCHANGED <<mbd, cpu, gvars, mvars, svars, pmm_vars, heap_vars>>

\* A step of paging_init, or of the call heap_init_from_pmm makes.
PagingStep ==
    /\ stage \in {"paging init", "heap map"}
    /\ G!MapRangeStep \/ G!MapRangeDone \/ G!EnablePaging \/ G!SetActive
    /\ UNCHANGED <<mbd, stage, cpu, gvars, mvars, svars, pmm_vars, heap_vars>>

PagingReturned ==
    /\ stage = "paging init" /\ pg_pc = "idle"
    /\ IF pg_status = "OK" THEN stage' = "heap" /\ UNCHANGED svars ELSE Panic("none")
    /\ UNCHANGED <<mbd, cpu, gvars, mvars, pmm_vars, pg_vars, heap_vars>>

\* heap_init_from_pmm's pages and bytes, in 32 bits.
HeapPages == ((HEAP_INITIAL_SIZE + BLOCK_SIZE - 1) % ADDR_SPACE) \div BLOCK_SIZE
HeapBytes == (HeapPages * BLOCK_SIZE) % ADDR_SPACE

\* heap_init_from_pmm asks the PMM for its pages ...
HeapAlloc ==
    /\ stage = "heap"
    /\ IF HEAP_INITIAL_SIZE = 0
       THEN stage' = "heap failed" /\ UNCHANGED pmm_vars
       ELSE P!AllocBlocks(HeapPages) /\ stage' = "heap pages"
    /\ UNCHANGED <<mbd, cpu, gvars, mvars, svars, pg_vars, heap_vars>>

\* ... maps them, since they may lie above the memory mapped at boot ...
HeapMap ==
    /\ stage = "heap pages"
    /\ IF pmm_ret.ptr = 0
       THEN stage' = "heap failed" /\ UNCHANGED pg_vars
       ELSE /\ G!IdentityMapRange(pmm_ret.ptr, HeapBytes, {WRITABLE})
            /\ stage' = "heap map"
    /\ UNCHANGED <<mbd, cpu, gvars, mvars, svars, pmm_vars, heap_vars>>

\* Mutant of HeapMapped: the pages are not given back.
HeapMapped_Leaks ==
    /\ stage = "heap map" /\ pg_pc = "idle"
    /\ IF pg_status = "OK"
       THEN /\ H!HeapInit(pmm_ret.ptr, HeapBytes)
            /\ stage' = "heap init"
       ELSE stage' = "heap failed" /\ UNCHANGED heap_vars
    /\ UNCHANGED <<mbd, cpu, gvars, mvars, svars, pg_vars, pmm_vars>>

\* ... and gives them to heap_init, or back to the PMM when the mapping failed.
HeapMapped ==
    /\ stage = "heap map" /\ pg_pc = "idle"
    /\ IF pg_status = "OK"
       THEN /\ H!HeapInit(pmm_ret.ptr, HeapBytes)
            /\ stage' = "heap init"
            /\ UNCHANGED pmm_vars
       ELSE /\ P!FreeBlocks(pmm_ret.ptr, HeapPages)
            /\ stage' = "heap failed"
            /\ UNCHANGED heap_vars
    /\ UNCHANGED <<mbd, cpu, gvars, mvars, svars, pg_vars>>

\* The result of heap_init_from_pmm: the terminal, or a panic.
HeapReturned ==
    /\ stage \in {"heap init", "heap failed"}
    /\ IF stage = "heap init" /\ heap_head # 0
       THEN stage' = "terminal" /\ UNCHANGED svars
       ELSE Panic("none")
    /\ UNCHANGED <<mbd, cpu, gvars, mvars, pmm_vars, pg_vars, heap_vars>>

-----------------------------------------------------------------------------
(* After the boot, and when it fails                                        *)

\* The command pmm takes a page from the allocator and gives it back.
CommandPmm ==
    /\ stage = "terminal"
    /\ P!AllocBlocks(1)
    /\ stage' = "pmm command"
    /\ UNCHANGED <<mbd, cpu, gvars, mvars, svars, pg_vars, heap_vars>>

CommandPmmFree ==
    /\ stage = "pmm command"
    /\ IF pmm_ret.ptr # 0 THEN P!FreeBlocks(pmm_ret.ptr, 1) ELSE UNCHANGED pmm_vars
    /\ stage' = "terminal"
    /\ UNCHANGED <<mbd, cpu, gvars, mvars, svars, pg_vars, heap_vars>>

\* The command exit powers the machine off, or halts it.
CommandExit ==
    /\ stage = "terminal"
    /\ stage' = "off"
    /\ UNCHANGED <<mbd, cpu, gvars, mvars, svars, pmm_vars, pg_vars, heap_vars>>

DrawPanic ==
    /\ stage = "panic"
    /\ DrawStep
    /\ UNCHANGED <<mbd, stage, cpu, gvars, mvars, pmm_vars, pg_vars, heap_vars>>

\* A CPU exception (the command panic raises one with UD2).  Without a gate the
\* processor finds no handler for it, nor for the double fault: it resets.  With
\* one, no handler being registered, isr_handler calls kernel_panic.
Fault(regs) ==
    /\ stage \notin {"off", "reset"} /\ ~parado
    /\ regs = "page fault" => cr0_pg
    /\ IF Gate("exception") \in gates
       THEN Panic(regs)
       ELSE stage' = "reset" /\ UNCHANGED svars
    /\ UNCHANGED <<mbd, cpu, gvars, mvars, pmm_vars, pg_vars, heap_vars>>

Init ==
    /\ mbd \in Descriptions
    /\ stage = "video"
    /\ gates = {} /\ pic = [offset |-> "firmware", masked |-> FALSE]
    /\ GdtInit /\ MInit /\ SInit
    /\ pmm = [bitmap |-> {}, max_blocks |-> 0, used_blocks |-> 0]
    /\ pmm_mbd = [present |-> FALSE] /\ pmm_booted = FALSE
    /\ owned = {} /\ pmm_ret = [count |-> 0, ptr |-> 0]
    /\ pt = [dir |-> [d \in 0 .. DIR_ENTRIES - 1 |-> G!NoTable],
             tables |-> [t \in 0 .. MAX_TABLES - 1 |->
                           [k \in 0 .. ENTRIES - 1 |-> G!EMPTY]],
             used |-> 0]
    /\ paging_active = FALSE /\ cr0_pg = FALSE
    /\ pg_pc = "idle" /\ pg_stage = "none" /\ pg_fb = <<0, 0>>
    /\ pg_range = [start |-> 0, size |-> 0, flags |-> {}]
    /\ pg_addr = 0 /\ pg_end = 0 /\ pg_status = "NONE"
    /\ heap_head = 0 /\ heap_lo = 0 /\ heap_hi = 0
    /\ mem = [a \in H!Slots |-> [size |-> 0, magic |-> H!JUNK, next |-> 0, prev |-> 0]]

\* The kernel's own steps up to the terminal, or to the end of a panic.
Kernel ==
    \/ ValidateVideo \/ ValidateGeometry
    \/ ParseMap \/ WalkStep \/ MapParsed \/ CeilingFound \/ RegionsReleased
    \/ InstallGdt \/ IdtInstall \/ IsrInstall \/ IrqInstall \/ PicInit
    \/ StartPaging \/ PagingStep \/ PagingReturned
    \/ HeapAlloc \/ HeapMap \/ HeapMapped \/ HeapReturned
    \/ CommandPmmFree \/ DrawPanic

Next ==
    \/ Kernel
    \/ CommandPmm \/ CommandExit
    \/ \E regs \in {"regs", "page fault"} : Fault(regs)

Spec == Init /\ [][Next]_bvars

\* One processor runs kernel_main and kernel_panic to their end.
FairSpec == Spec /\ WF_bvars(Kernel)

-----------------------------------------------------------------------------
(* Properties                                                               *)

TypeOK ==
    /\ stage \in {"video", "geometry", "map", "parse", "ceiling", "release",
                  "gdt", "idt", "isr", "irq", "pic", "paging", "paging init",
                  "heap", "heap pages", "heap map", "heap init", "heap failed",
                  "terminal", "pmm command", "panic", "reset", "off"}
    /\ gates \subseteq {Gate("exception"), Gate("irq")}
    /\ MapTypeOK /\ ScreenTypeOK
    /\ P!TypeOK /\ G!TypeOK /\ H!TypeOK

\* The address of every byte of a region, and the blocks they lie in.
BytesOf(start, size) == start .. start + size - 1
BlocksOf(start, size) ==
    {block \in 0 .. MAX_BLOCKS - 1 :
        P!BlockBytes(block) \cap BytesOf(start, size) # {}}

HeapBlocks == IF heap_head = 0 THEN {} ELSE BlocksOf(heap_lo, heap_hi - heap_lo)

\* heap_init_from_pmm keeps the three allocators in step.  The heap lies in
\* pages the PMM has granted and will not grant again, all of them mapped to
\* themselves and writable, away from low memory, the kernel, the Multiboot
\* structures and the frame buffer.  At the terminal these are the only pages
\* granted, so the command pmm leaks none; and when the mapping fails, whatever
\* part of it was done, every page is back.
HeapHoldsItsPages ==
    /\ HeapBlocks \subseteq owned
    /\ \A page \in HeapBlocks : G!Identity(page, {WRITABLE})
    /\ heap_head # 0 =>
          /\ heap_hi - heap_lo >= HEAP_INITIAL_SIZE
          /\ \A r \in P!InitialReserved(Seen) :
                BytesOf(heap_lo, heap_hi - heap_lo) \cap BytesOf(r.base, r.size) = {}
    /\ stage = "terminal" => owned = HeapBlocks
    /\ stage = "heap failed" => owned = {} /\ pmm = P!PmmAfterInit(Seen)

\* A fault finds a gate, the gate names the code segment of the kernel in the
\* table the processor has loaded, and so the machine has not been reset.  The
\* command gdt agrees that the tables are in order.
FaultsHandled ==
    /\ stage # "reset"
    /\ \E g \in gates : g.kind = "exception" /\ FlatSelector(g.sel)
    /\ FlatSelector(seg.cs) /\ FlatSelector(seg.ds) /\ EstadoValido

\* "Comes after idt/isr so that a page fault becomes a kernel panic"
\* (kernel.c:108): from the store to CR0 on, a fault is handled, and the frame
\* buffer its panic draws on can be written.
FaultsShown ==
    cr0_pg =>
        /\ FaultsHandled
        /\ video.fb # 0
        /\ \A page \in G!Covered(video.fb, video.pitch * video.altura) :
              G!Identity(page, {WRITABLE})

\* The boot ends: at the terminal, in a panic that has drawn its screen and
\* stopped, or in a reset; a fault inside the panic does not start it over.
BootSettles == <>(stage \in {"terminal", "off", "reset"} \/ parado)
=============================================================================
