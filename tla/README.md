# A TLA+ development of the VG OS kernel

VG OS is a 32-bit x86 teaching kernel: it boots through GRUB/Multiboot into a
graphical terminal.  One flow of control runs everything, interrupted by
exceptions and, once drivers exist, by hardware interrupts.  This directory
holds TLA+ modules translated from its sources, TLC configurations that check
them on small instances, and proofs checked by TLAPS.  Paths below are relative
to `src/`.

## 1. Inventory

| component | sources | state it keeps | operations | what makes it correct |
|---|---|---|---|---|
| Physical memory manager (PMM) | `src/mm/pmm.c` | `pmm_bitmap`, `pmm_max_blocks`, `pmm_used_blocks` | `pmm_init`, `pmm_alloc_block(s)`, `pmm_free_block(s)`, region and block functions, getters | after boot exactly the reported, uncritical pages are free; no page has two owners; refusals are honest; the counter is exact |
| Kernel heap | `src/mm/heap.c` | the block list in the heap's memory, `heap_head`, `heap_lo`, `heap_hi` | `heap_init`, `kmalloc`, `kfree`, `heap_init_from_pmm`, `heap_free_bytes` | blocks tile the heap, neighbours are coalesced, stale frees are harmless, a refusal means nothing fits |
| Paging | `src/mm/paging.c` | page directory, pool of 16 tables, `tables_used`, `paging_active`, CR0/CR3/TLB | `paging_init`, `paging_map_page`, `paging_identity_map_range` | the code running when CR0.PG is set is mapped; ranges are complete; the TLB is never stale; tables are not shared |
| Interrupt and exception dispatch | `isr/isr.c`, `isr/interrupts.s` | `handlers[48]` | `isr_handler`, `irq_handler`, the four register/unregister functions, `isr_install`, `irq_install` | no handler for a spurious interrupt, none lost, no reentry by accident, aborts are final |
| 8259 driver | `pic/pic.c` | the registers of the two chips | `pic_init`, `pic_send_eoi`, `pic_irq_espuria` | every line taken in service is ended, exactly once |
| Multiboot map parser | `src/mm/multiboot_mem.c` | `mem_info`, `saved_mbd`, `mem_info_initialized` | parse, init, two iterators, info | never reads past the map, terminates, both walks agree |
| Boot sequence | `kernel.c:63-113`, `boot/boot.s` | the order of initialisations | `kernel_main` | each part is initialised after what it needs; every failure ends in a panic |
| Terminal and commands | `kernel.c`, `comandos/comandos.c` | cursor, line buffer and clipboard of `LINHA_MAX` (1024) | the key loop, `comandos_executar` | the line on the screen is the line in the buffer; the buffers are never overrun |
| Keyboard driver | `keyboard/keyboard.c` | E0 prefix, shift, caps, ctrl, dead key | `teclado_ler` | modifiers follow the keys that are down; a character is that of the moment its key was touched |
| Kernel panic | `src/arch/x86/panic.c` | the video geometry, `panico_em_andamento`, `linha_y` | `panic_configurar_video`, `kernel_panic` | never returns, never starts over, never writes outside the framebuffer |
| GDT, TSS, IDT | `gdt/`, `src/arch/x86/idt.c` | descriptor tables | `gdt_instalar`, `tss_preparar`, `gdt_obter_estado`, `idt_set_gate` | fields are encoded where the CPU reads them |
| Rendering and boot header | `Render/render.c`, `kernel.c:114-186` | the frame buffer | `desenhar_logo`, `desenhar_char`, `desenhar_string`, the letters and the separator | the fixed sizes fit the frame; the terminal starts below the header and stays there |
| Font, logo, strings | `Render/font.h`, `images/`, `strutil.c` | none | data tables, pure helpers | (not modelled) |

How they interact.  `kernel_main` clears IF, checks the Multiboot video fields,
hands the memory map to the parser (`multiboot_mem_init`) and the PMM
(`pmm_init`, which walks it again through callbacks), installs GDT, IDT,
exception and IRQ stubs and the PIC, turns paging on, and gets the heap's pages
from the PMM and maps them (`heap_init_from_pmm`, the only client of the PMM and
of paging after boot).  It then polls the keyboard for ever.  A failure before
the terminal is a call of `kernel_panic`, which stops the machine.  Exceptions
enter through `interrupts.s` and reach `isr_handler`; hardware interrupts reach
`irq_handler`, which talks to the 8259s and calls the handler of the line.  In
this version no driver registers a handler or unmasks a line; the interfaces
`isr.h` and `pic.h` say what drivers will be allowed to do.

Hard behaviours: 32-bit arithmetic at 4 GB in the PMM, heap and paging; long
sequences of splits, merges and stale frees in the heap; a failure in the middle
of a mapping; the moment paging is switched on, and the TLB; nested and spurious
interrupts, NMIs inside stubs, non-specific EOI; the window between the test and
the store of a registration.  `PROJECT.json` lists each hazard at its line.

## 2. Plan

| order | modules | state |
|---|---|---|
| 1 | `Pmm` implements `BlockPool`; `PmmSearch` for its loops; proofs of both | done |
| 2 | `Heap` implements `HeapPool`; proofs | done |
| 3 | `Paging` and its proofs | done |
| 4 | `Interrupts` (dispatch, stubs, 8259s); proofs of its safety | done |
| 5 | `MultibootMap`: both walks over the map; proofs (in `Boot_proofs`) | done |
| 6 | `PanicScreen`: the panic's screen; proofs (in `Boot_proofs`) | done |
| 7 | `Gdt`; `Boot` composes 1 to 3, 5, 6 and `Gdt`, with `heap_init_from_pmm` and faults; proofs | done |
| 8 | `Keyboard`, `Terminal`; proofs of both (`Console_proofs`) | done |
| 9 | `Header`, which goes on as `Terminal`; proofs (in `Console_proofs`) | done |

What would come next: models of the drivers that will enable interrupts, once they
exist.

## 3. Modules and code

**`BlockRuns`** says what a run of free blocks is.  **`BlockPool`** is the
abstract manager: a pool opened once, runs granted and given back, a refusal
only when no run exists.

**`Pmm`** is `pmm.c`.  The record `pmm` holds the bitmap (as the set of its
1-bits) and the two counters; setting or clearing a series of bits is one set
operation (`SetBlocks`, `UnsetBlocks`) with the code's range test, its test that
the bit changes, and the saturating counter.  `ReleasedBy` and `ReservedBy` are
`pmm_init_region` and `pmm_deinit_region` with their roundings and widths;
`InitialMax`, `InitialFree` and `InitialReserved` are the branches of `pmm_init`.
`Fim` is the 64-bit sum `addr + len` of `pmm.c:207` and `:219`, which wraps: the parser
checks only the running sums of lengths, so an entry that passes 2^64 gets this far.
`AllocBlocks` and `FreeBlocks` are the allocation functions, the single-block
ones being the case `count = 1`.  `owned` is a ghost, what clients hold.
Clients give back what they own, what is already free, or blocks past the end;
they never free a reserved page, which the code would accept.  `pmm_init`'s
branches without a map are modelled although `kernel_main` panics before it
calls `pmm_init` when the map cannot be parsed.

**`PmmSearch`** is `pmm_first_free_block` and `pmm_first_free_blocks`, one step
per loop iteration; `Pmm` uses their result, `FirstRun`.

**`HeapPool`** is the abstract allocator of `heap.h`.  **`Heap`** is `heap.c`
without `heap_init_from_pmm`: `mem` holds the header word at every aligned
address, JUNK where none was ever written, and keeps the header of a block
merged away with its magic cleared, as memory does.  `kmalloc` is a call, one
step per list node (`KmallocSkip`), and a success or a failure; `kfree` is one
step, `MergeNext` then `MergePrev`.  Payload is not modelled: it is assumed never
to spell `MAGIC_USED` where a stale pointer would look for a header.

**`Paging`** is `paging.c` with CR0.PG and the TLB.  `PagingInit`, `MapRangeStep`
(one page), `MapRangeDone`, `EnablePaging` and `SetActive` are the stages of
`paging_init`; later calls start at `IdentityMapRange` and `MapOnePage`.
`EnterRange` computes the end of a range with the 32-bit mask of the code.  An
error ends the call and leaves what it has mapped.  `TlbFill` lets the CPU cache
any present translation at any time.

**`Interrupts`** is `isr.c`, `interrupts.s` and the run-time half of `pic.c`.
`frames` is the stack of interrupted contexts; the program counter of each is a
point of its stub: `entry` (before the spurious test), `eoi`, `call`, `handler`,
`sti`, `iret`.  The two 8259s are sets of lines (`irr`, `imr`, `isr`) with fixed
priorities, the cascade, non-specific EOI and spurious vectors.  `Inta` is the
delivery of a request; `IntaSpuriousMaster` and `IntaSpuriousSlave` deliver
when the line has fallen.  `Exception` pushes a frame in the kernel or a handler,
and an NMI or machine check also inside a stub; an NMI blocks others until the next
IRET.  `isr_common_stub` ends in two steps, `StubSti` and `Iret`, `irq_common_stub` in
`Iret`.  An STI that enables interrupts casts a shadow over the next instruction
(`sti_shadow`) in which no maskable interrupt is taken; `Interruptible` is "enabled and
out of that shadow".  Whether the CPU also holds back NMIs and machine checks there
depends on the processor (the manuals say "may"), so it is a constant, `STI_HOLDS_NMI`.
Registration by the kernel is `RegisterTest` and `RegisterStore`; registration by a
handler is one step, since interrupts are disabled in it (an NMI between its test and
its store is left out).  Drivers are clients: they register, mask and unmask, and a
handler may execute STI when the code it interrupted had interrupts enabled.

**`MultibootMap`** is `multiboot_mem.c`.  A map is a function from offsets to what
the code would read there as an entry, so that the boot loader's memory may hold
anything: a size field that is cut off, entries that overlap, lengths whose sum
wraps.  `MemInit`, `ParseEntry` and `ParseDone` are `multiboot_mem_init` with the
loop of `multiboot_mem_parse`, one step per iteration; `IterRegioes`, `IterEntry`
and `IterDone` are the iterator.  Each walk has its own copy of the tests of an entry,
`Malformed` and `IterMalformed`, as in the code, so that `WalksAgree` is also about the
two copies.  `reach` is a ghost, how far the walks have read;
`parsed` and `called` are the entries counted and those handed to the callback.

**`PanicScreen`** is `panic.c`.  `Configurar` is `panic_configurar_video` with all
its tests; `KernelPanic` is the entry of `kernel_panic`, which stops at once in a
second panic or without a frame; `ScriptOf` is the list of texts, separators and
gaps it draws, and `BeginText`, `Glyph`, `NewLine`, `TooManyLines` and `TextOver`
are `panic_texto`, character by character.  A text is a sequence of "glyph" and
"newline"; what `panic_valor` writes in one is left out.  `drawn` is a ghost, the
rectangle written last.

**`Gdt`** is `gdt.c`, `gdt_asm.s` and `tss.c`: descriptors are built field by field
(`Descriptor`), loaded (`Flush`), and read back as the processor does (`Base`,
`Limit`); `EstadoValido` is the test of the command `gdt`.

**`Boot`** is `kernel_main` up to the terminal.  It EXTENDS `MultibootMap`,
`PanicScreen` and `Gdt`, whose variables it keeps, and instantiates `Pmm`, `Paging`
and `Heap` over its own (`P`, `G`, `H`).  `stage` is where `kernel_main` is; each
action calls the operation the code calls there and goes on or panics as the code
does.  `CeilingFound` and `RegionsReleased` are the two walks `pmm_init` makes,
and `PmmInit` hands `Pmm` only the regions these walks have seen.
`HeapAlloc`, `HeapMap`, `HeapMapped` and `HeapReturned` are `heap_init_from_pmm`, the
rollback included.  `Fault` is a CPU exception, possible at every step: it enters
`kernel_panic` when its gate exists and resets the machine otherwise.  At the
terminal the command `pmm` takes and returns a page.  The TLB is empty here
(`Paging` shows that it does not matter) and nothing calls `kmalloc`.

**`Keyboard`** is `keyboard.c` with the keyboard and its user.  `Press`, `Repeat`
and `Release` put the bytes of a key in `queue`, with the E0 prefix and, around the
arrows, the false shifts a PS/2 keyboard sends; `ReadPrefix`, `ReadExtended`,
`ReadModifier`, `ReadOther` and `ReadChar` are the branches of `teclado_ler`.  The
ghost `expected` is what the user should get, computed when a key is touched from
the keys then held; the driver decodes the bytes later, from its flags.  One flag
stands for both keys of a modifier, so `expected` is given up once both have been
held together (`overlapped`).  Letters and marks that behave alike are one.

**`Terminal`** is the key loop of `kernel.c` with the rows the commands write.  The
line and the clipboard are their lengths; the ghost `cells` records where each
character of the line was drawn, which the code does not.  The command executed
is any whose name is as long as the line.

**`Header`** EXTENDS `Terminal` with what `kernel_main` draws before its loop: the black
background, the logo (`desenhar_logo`), the four letters row by row, the separator and
the first prompt character by character (`desenhar_string`).  A drawing is the
rectangle its stores reach, whatever bits the bitmap has set; sizes and places are
the definitions of the source under their names.  `frame` is a geometry that
`panic_configurar_video` accepted.  `drawn` (the last rectangle) and `shapes` (those of the
header) are ghosts.  When the prompt is drawn, `Terminal` goes on unchanged.

The operators named `X_...` right before a definition `X` are mutants: the form a
plausible bug would give `X`.  Each property is violated when the mutant listed
for it in `PROJECT.json` takes the place of `X`.  Nothing else uses them.

## 4. Runs

| run | instance | shows |
|---|---|---|
| `pmm` | pages of 4 bytes, 10 pages; maps with every alignment of both ends of a region, regions across and above the top, regions that pass 2^64 (80 here) and wrap to 0, into low memory, into themselves or above another region; three framebuffer positions, legacy memory, nothing; runs of 0 to 3 blocks | the bitmap is exact, the counter agrees, `BlockPool` is implemented |
| `pmm_search` | two words of 4 bits, every bitmap, every `max_blocks`, counts 0 to 4 | the loops return `FirstRun` and return |
| `heap` | 2-byte alignment and headers, addresses 0 to 31, an unaligned region of 16 usable bytes and one too small; sizes 0, 1, 4 and one whose rounding wraps; frees of live, stale, NULL and foreign pointers | the list tiles the heap, is coalesced and acyclic, stale frees change nothing, first fit, `HeapPool` is implemented |
| `paging` | 2-byte pages, 4 directory entries, 2-entry tables, a pool of 3 | tables are owned once, low memory and framebuffer are mapped when PG is set, ranges are complete, the TLB is coherent, a step changes one page |
| `interrupts` | two 8259s of 3 lines, 4 exceptions, 3 frames, 3 events; a CPU with `STI_HOLDS_NMI` | EOIs balance, spurious interrupts are told exactly, reentry only by STI, aborts are final, no registration is replaced |
| `interrupts_live` | the same with one exception and an NMI | the 8259s are released and pending lines are delivered |
| `boot` | 16 pages of 16 bytes, tables of 2 pages and a pool of 5; 15 maps: RAM in one piece, in two, too small, above 4 GB, none, one with a region past 2^64, and maps cut off, overlong, overflowing or empty; 7 frames, in low memory's table, in tables of their own, in the RAM, and 11 that must be refused; faults at every step | the walks stay in the map, agree and total exactly; the heap's pages are owned, mapped and clear of everything reserved, or given back; a fault after CR0.PG is shown; the panic screen stays in its frame; the boot ends |
| `keyboard` | 12 keys: both shifts and CTRLs, CAPS LOCK, a dead key, space, backspace, keypad ENTER, an arrow, two letters; 3 held at once | no modifier sticks; characters are typed as held |
| `terminal` | LINHA_MAX 24; the modes 1920x1080 and 1024x768 (rows padded); the narrowest frames with room for the header, of one terminal row and of two, whose memory ends at the last address; smaller ones the code accepts, with two cells after the prompt, with none, a wider one, and one that ends above the terminal | line and screen agree; header and prompt lie in the frame, apart from each other; the terminal never draws over the header |
| `pmm_last_page`, `paging_top`, `interrupts_race` | the instances above with the inputs of a finding | see section 6 |

The bounds.  Page and word sizes, alignments and the number of lines are scaled
down so that every position relative to a boundary occurs: region ends at each
offset in a page, ranges over a table border, a last bitmap word that is partly
used, a pool of tables one too small for the mappings asked for, a heap that
three blocks fill.  In `boot` the largest frame or the heap exhausts the pool of
tables half way through a range, and a screen of 3 by 5 pixels holds one line of
text.  In `keyboard` a key may be touched while a byte still waits (`MaxQueue = 1`),
so that up to five bytes of two keys are in flight; three keys held are both keys
of a modifier and a third.  In `terminal` a line of 24 spans every row of the small
screens and `MAX_Y` stops commands once the cursor has left all of them; the sizes of the
header are the code's own, and 2^30 stands for 2^32, which TLC cannot represent.
`MaxFrames = 3` admits an NMI inside the stub of an interrupt
inside a handler; `MaxEvents = 3` admits a spurious interrupt, a real one and an
exception.

All runs of `Interrupts` set `STI_HOLDS_NMI = TRUE`.  With `FALSE` the code does not keep
what `isr.h` promises ("O handler roda com interrupcoes mascaraveis desabilitadas"): give
`MCInterrupts.cfg` that value with `MainHandlers <- NmiHandlers`, `IsrHandlers = {}`,
`Faults = {0, 2}`, `Devices = {0, 2}` and `MaxEvents = 4`, and TLC finds
`NestedOnlyIfOpened` violated (and `PicBalanced`, checked alone, too).  A fault that
comes while interrupts are disabled, in the kernel or in the handler of an interrupt,
is handled; its stub executes STI; an NMI comes before the IRET, and its own IRET returns
with interrupts enabled and no shadow; a pending line is then nested in a frame whose
handler never enabled interrupts.  `irq_common_stub` has no STI before its IRET and
explains why (`interrupts.s:152`); without that STI in `isr_common_stub` the assumption
would not be needed.

Deadlock is not checked where the system may stop: a search that has
returned, a boot that has panicked or been switched off, or a client that has nothing left to ask.

Fairness.  `PmmSearch` and `kmalloc`'s loop are straight-line code, weakly fair
once entered.  `Interrupts!FairSpec` makes the CPU execute its stubs, assumes
that handlers return ("keep it short and non-blocking", `isr.h`), and that the
CPU takes an enabled interrupt; devices, drivers and the kernel owe nothing.
`Boot!FairSpec` makes the one processor execute `kernel_main` and `kernel_panic` to
their end (`Kernel`, which excludes faults and the user's commands); interrupts are
disabled, so nothing else can run.  The other safety runs assume no fairness.

## 5. Proofs

`Pmm_proofs` (with `ArithLemmas`, facts on rounding and cardinality) proves for
every page size, memory size, kernel position and set of memory maps that satisfy
the named assumptions:

* `TypeCorrect` and `AccountingCorrect`, from the inductive invariant `IInv`: the
  types, the equation between counter and bitmap, the fact that bits at or above
  `max_blocks` stay set after boot, that block 0 is never free, and that owned
  blocks are occupied.  The last two are what `TypeOK` and `Accounting` lack to be
  inductive and what the refinement needs.
* `BitmapIsExact`.  The property itself speaks of maps that satisfy `NoWrap`, since for
  the others it is false (finding 1).  For all of these no page is free that is reserved,
  unreported or held; that no page is lost it says only of maps that satisfy `NoWrap64`
  too (see section 7).  The byte-level definition of "allocatable" is related to the
  rounded block ranges of the code by the division lemmas.
* `PoolImplemented`: initial states map to initial states, each action to one of
  `BlockPool` or a stutter.  It needs neither.

`PmmSearch_proofs` proves `SearchIsCorrect` from the loop invariants: everything
before the cursor holds no free bit (word search), and the streak is the maximal
free run that ends at the cursor while no earlier run is long enough.  `SearchAdvances`
says that every iteration ends the search or moves it on, below a fixed end.

Four theorems of this kind are the safety half of termination, which is as far as the
prover goes: `SearchAdvances`, `KmallocAdvances` (the next block lies further up the
heap, so no history of splits, merges and stale frees leaves a cycle), `RangeAdvances`
(the end of a range is a page boundary, so a cursor that moves by pages meets it and
cannot wrap past it) and `WalksAdvance` (an entry that is not malformed has a size, and
offset and size do not wrap in 32 bits).  With the fairness of the processor they are
why the loops end; that conclusion itself TLC checks.

`Interrupts_proofs` proves `TypeCorrect`, `PicIsBalanced`, `NestingByConsent`,
`SpuriousTestIsExact` and `FatalStaysFinal` for every number of lines, exceptions,
handlers and nested frames, with any cascade line but the master's last.  None of
these properties is inductive alone, and the invariant has two layers.  `TInv` has the
types, what a frame has been through (`Handled`) and that a shadow of STI lies on an
IRET; it holds on every CPU, and `TypeCorrect`, `FatalStaysFinal` and `NeverReplaced`
need no more.  `IInv` adds what one frame may be (`Sound`: an
interrupt was taken with interrupts enabled, and is real unless it came on a last
line), that a frame which owes an EOI has nothing above it that would return with
interrupts enabled (`Service`), and that whoever saved an enabled flag inside a
handler found it opened by that handler (`Opened`).  It is inductive under the assumption
`STI_HOLDS_NMI`, which `PicIsBalanced`, `NestingByConsent` and `SpuriousTestIsExact`
therefore name: an exception in the shadow of STI would save an enabled flag over code
that nothing may interrupt (`ExceptionPreserves` is the one lemma that uses it).  The central consequence is
`TopOwesAlone`: when the code an interrupt broke into had interrupts enabled, no
frame below owes a bit.  So the bit `pic_irq_espuria` reads can only be the one
delivered with this frame, and a non-specific EOI can only end that one.  Each
action pushes a frame, replaces the innermost or pops it; `PushKeeps`,
`ReplaceKeeps` and `PopKeeps` say once for each what keeps the invariant.
`NeverReplaced` is about the registration of handlers and has a hypothesis,
`OwnVectors`: no handler registers another for a vector the kernel registers too.
Then what `vetor_registrar` tested still holds when it stores (`StillFree`); without it
the property is false (finding 3).

`Paging_proofs` proves `TypeCorrect`, `TablesAlwaysOwnedOnce`, `TlbAlwaysCoherent`,
`OnlyNamedPage`, `PagingOnAlwaysSafe` and `RangeAlwaysMapped` for every page and table size, pool and set of arguments of 32-bit
width (`ArgumentsAssumption`).  `PInv` adds that the tables in use are those below
`used`, each in one directory entry (`Owned`), that the TLB is empty while CR0.PG
is clear and that nothing is mapped between CR0.PG and `paging_active`
(`TlbPhase`: what makes the missing INVLPG of that window harmless), and that the
loop stands on a page border (`Loop`).  Two lemmas say what taking a table and
writing an entry do to ownership and to the translations; `PageOf` ties the
directory and table index of an address to its page.  `VInv` says what is mapped: the
pages of the range before the cursor (`Reached`), low memory once its stage is over, and
the frame buffer once `paging_init` is.  `CoveredBetween` relates the pages that hold a
byte of a range to the rounded start and end of the loop; it needs a range that does
not reach the last page (`BelowTop`), and so do the two theorems about ranges, since
they are false otherwise (finding 2).  Clients promise not to remap what `paging_init`
maps (`ClientsAssumption`): `heap_init_from_pmm` maps pages to themselves and writable.

`Heap_proofs` proves every safety property of the heap, and that it implements
`HeapPool`, for every alignment, header size, width, region and set of sizes
`HeapAssumption` admits (a region starts above 0 and low enough for its start to be
aligned up, as every page the PMM hands out does).  The invariant `HInv` speaks of all
headers at once and not of walks along the list: `Tiled` says of every header that its
block lies in the heap, that `next` is the end of the block and a header again, that
`prev` is a header whose block ends here, and that no block starts inside another.
Splitting, `Absorb` (what both merges do) and marking are each shown to keep `Tiled`
for any memory.  The list of the property `ListTilesHeap` is then a matter of
ordering, and `NoFreePair` needs to be broken only inside `kfree`, where the freed
block is the only one that can have a free neighbour (`PairsHave`, `PairsEnd`).  The
words of a stale header never hold `MAGIC_USED`, which is `OnlyLiveFrees`.  For the
refinement the abstract blocks are the used headers; a refusal is honest because
every block the search went past does not fit (`FirstFitAlways`), and an abstract run
of free bytes lies inside one free block, the list being coalesced.

`Console_proofs` is about the three components of the console.  The terminal: number the
cells of the screen row by row from the margin of the prompt.  Character `k` of the
line is in cell `12 + k` and the cursor after the last one, which has two places on
the screen at the end of a row (`CursorIn`); `TInv` says so, and each branch of
`inserir_char` and of backspace keeps it because it moves the cursor by one cell or
between those two places.  The keyboard: `After` and `Value` are `teclado_ler` as a
decoder from a byte and flags to flags and a character, and `Yields(s, q, t, out)` says
that the bytes `q` take it from `s` to `t` and give `out`.  `KInv` says that the bytes
that wait take the driver's flags to those of the keys held (`Settled`) and, until both
keys of a modifier have been held together, give exactly `expected`.  Touching a key
appends its bytes to both sides of that statement, reading one removes it from both,
so that the length of the queue does not matter.

The header: `HeaderShapes` is the set of its fifty rectangles, all that `shapes` may ever
hold; `ShapeBounds` places them in any accepted frame and `ShapesApart` shows that two of
them have a border between them.  `HeadInv` says which one is being drawn and which
are done.  `HeaderRefinesTerminal` carries the terminal's invariant over, and a cell the
terminal may write lies at or below `text_y`, which is below every shape
(`HeaderAlwaysKept`).  `HeaderAlwaysInFrame` needs the frame to have room (`HoldsHeader`,
644 by 319); `EndInMemory` is the step from a rectangle inside the frame to the
addresses of its stores.

`Boot_proofs` first proves the two parts of the boot whose specifications it
extends.  Of the parser, `MapTypeCorrect`, `ReadsStayInMap` and `WalksAgreeAlways`,
for every map `IsMap` admits, whatever it holds.  Both walks visit a `Chain` of
offsets: the first is 0, each other one follows the entry before it, all well
formed.  The map determines the chain, so the second walk, which has visited the
beginning of the chain the first one counted (`Following`), can neither fail nor
stop elsewhere.

`TotalsAlwaysExact` is about sums over all entries, and nothing here does induction over
data.  The sum of a sequence of numbers is therefore read as the number of points
below its graph: `SumAppend`, that a further entry adds its length, follows from
theorems on cardinality, and the one induction it needs is on the first
counterexample of a set of numbers (`NatMinimum`).  The invariant `TotalsHold` says that
the running totals are those of the entries parsed, which a sum that wraps would end
with an error.

Of the panic screen, `PanicStaysInFrame`, for every geometry, text and font size
that `PanicAssumption` admits (the smallest frame holds one character between the
margins).  `SInv` carries the validity of the geometry to the stores, and keeps that
a separator comes only after a text, so that `linha_y - 3` does not wrap.

Then it proves that the boot implements both,
`BootRefinesParser` and `BootRefinesScreen`: every step is a step of each or leaves
it alone.  What was proved of them holds of the kernel (`BootReadsInMap`,
`BootTotalsExact`, `BootPanicInFrame`).  `PagingAfterGates` reads off the order of `kernel_main` (`Order`,
by stage) that with CR0.PG set the gate of a fault, the flat code segment it names
and a validated frame are there.

The second half of `Boot_proofs` puts the memory together.  `PP`, `GP` and `HP` are
`Pmm_proofs`, `Paging_proofs` and `Heap_proofs` instantiated with every argument
`kernel_main` could pass (any description, any frame, any range, any region), and
`BootAssumption` and `DescriptionsAssumption` imply what those modules assume of
their constants (`PmmSizes`, `PmmDescriptions`, `PagingSizes`, `PagingArguments`,
`HeapSizes`).  `BootRefinesPmm`, `BootRefinesPaging` and `BootRefinesHeap` show that
each step of the boot is a step of each part or leaves it alone; so their invariants
hold in the kernel.  `CInv` joins those with `Wired`, what one part has handed to the
next: the frame `panic.c` accepted is the one of the description and is inside the
address space, the regions the callback was given are entries of the map, and
`pmm_init` has not run before its turn.  Both the refinement steps (is
`paging_init`'s frame in range?  is the pointer the heap gives back one that
`pmm_alloc_blocks` returned?) and the invariants of the parts need the others, so they
are proved in one induction (`CInvNext`).  From it follow:

* `BootTypeCorrect`;
* `FaultsAlwaysShown`: `paging_init` is called with the size `kernel_main` computes
  from the accepted geometry, and `FrameMapped` and `VInv` give the mapping of every page
  the panic writes.  The hypothesis `BelowTop` leaves out a frame that reaches the
  last page below 4 GB: `paging_init` then maps nothing of it (finding 2), and the
  statement is false.
* `HeapAlwaysHoldsItsPages`, by `AllocInv`, which follows the run from the grant on:
  granted and nothing mapped (`Granted`), mapped up to the loop's cursor (`Mapping`), then
  either the heap's (`HeapAt`) or given back, the bitmap being what `pmm_init` left
  (`SetThenUnset`).  At the terminal nothing else is granted (`OnlyHeapGranted`), which
  is why a `pmm` command can only take blocks outside the run.  It needs no
  `BelowTop`: for a run that ends at 4 GB, `heap_init` finds that its end wraps and
  leaves no heap, and the property then claims nothing of the run.

Only model-checked: the five liveness properties (`SearchReturns`, `KmallocReturns`,
`PicReleased`, `PendingServed`, `BootSettles`), since liveness under fairness is out of the
prover's reach.  Every other property of a passing run is stated by a theorem; the types of
`Boot` and `Keyboard` (`BootTypeCorrect`, `KeyboardTypeCorrect`) are only proved.

## 6. Findings

1. `pmm_last_page`: `pmm_init_region` rounds the base up in 32 bits
   (`src/mm/pmm.c:171`); for a region that starts inside the last page below 4 GB
   the sum wraps, the loop starts at block 0, and every page below the end of
   managed memory is released, reported or not.  Low memory and the kernel are
   reserved again afterwards; holes and device memory are not.
2. `paging_top`: the end of a range is masked with a 32-bit constant
   (`src/mm/paging.c:88`), so a range that ends at 4 GB maps nothing and
   `PAGING_OK` is returned; `PAGING_ERR_INVALID_RANGE` cannot be returned for a
   range above 4 GB.  A framebuffer there would be left unmapped by `paging_init`.
3. `interrupts_race`: `vetor_registrar` tests and stores in two steps; a handler
   dispatched in between that takes the same vector is silently replaced.

## 7. Not modelled

* **Data tables and colours.**  `images/logo/logo.c` (7664 lines) and `Render/font.h`
  (786) are tables of numbers, three quarters of the repository's lines: there is no
  state or control in them that a property could be about.  This is why the share of
  source lines a definition stands for is small although every file with logic is
  modelled.  `Header` has what the drawing functions do with them: the rectangles they
  write.  Which pixels of a rectangle are lit, and in which colour, is left out.
* **Regions that pass 2^64.**  The code accepts them and takes the wrapped end for the
  top of memory (`pmm.c:207`), so that pages above it are lost, or, when every end wraps to
  0, the old fields are used instead of the map.  This is modelled and among the inputs
  of `pmm` and `boot`, but it is no finding, since nothing in the repository says what
  such a map should give: `BitmapExact` then says only that no wrong page is free.
* **NMIs in the table.**  A handler that registers another is interrupted by nothing
  maskable, and its test and store are one step of `Interrupts`; an NMI between them whose
  handler takes the same entry would be finding 3 once more.
* **Frames too small for the header.**  `panic_configurar_video` accepts 48 by 56, and no
  code compares the header with the frame; in such a frame the header is drawn
  beyond its borders.  `HeaderInFrame` claims the frame only from 644 by 319 on.
  `HeaderKept` and the properties of the panic screen and of the line hold there too.
* **Text.**  What is printed, `escrever_hex`, `escrever_uint`, `panic_valor` and
  `strutil.c`; commands are told by the length of the line, so that the model may
  run a command the line only resembles.
* **The frame buffer in the last page below 4 GB** is not among `boot`'s inputs: the
  range ends at 4 GB and would meet finding 2 again.
* **Screens whose width less 100 is a multiple of 16** (852 pixels) are excluded from
  `Terminal` by `TerminalAssumption`: `kernel.c:243` then takes the end of a full row
  one cell too far, and backspace across the wrap erases an empty cell.
* **Rows below the frame.**  Commands move the cursor without testing the height
  (`comandos.c:130`), so near the bottom the prompt ends below the frame, and at the
  last row it is drawn over the line before it; on a frame of less than 295 rows the
  terminal starts below it.  `LineOnScreen` claims that the line stays in the frame
  only where the prompt does.
* Register contents of a frame, the port writes of `pic_init`, `outw` at power-off, the
  encoding of page table entries and gates: data that no property depends on.  IF is
  never set by this version of the kernel, so `Boot` has no hardware interrupts;
  `Interrupts` models them for the drivers to come.  `idt/idt.c` is an older copy of
  `src/arch/x86/idt.c`.
