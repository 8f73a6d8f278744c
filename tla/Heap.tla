--------------------------------- MODULE Heap ---------------------------------
(***************************************************************************)
(* The kernel heap, src/src/mm/heap.c: a first-fit allocator over a list of *)
(* blocks whose headers live in the heap's own memory.                      *)
(*                                                                         *)
(* `mem' holds the header-sized word at every aligned address: the fields   *)
(* the code last wrote there, or JUNK where no header was ever written (the *)
(* pages come from the PMM uncleared).  Payload written by clients is not   *)
(* modelled; it is assumed never to spell MAGIC_USED at an address whose    *)
(* pointer is freed again after its block was merged away.                  *)
(* kmalloc is one step per list node; kfree is one step.  Nothing in the    *)
(* kernel calls either from an interrupt handler, so calls do not overlap.  *)
(***************************************************************************)
EXTENDS Integers

CONSTANTS ALIGNMENT,      \* 16
          SIZEOF_BLOCK,   \* sizeof(block_t)
          SIZE_SPACE,     \* 2^32: size_t and uintptr_t are 32 bits wide
          InitArgs,       \* the arguments <<start, size>> of heap_init
          Sizes           \* the sizes passed to kmalloc

ASSUME HeapAssumption ==
    /\ ALIGNMENT \in Nat \ {0} /\ SIZEOF_BLOCK \in Nat \ {0}
    /\ SIZE_SPACE \in Nat /\ SIZE_SPACE % ALIGNMENT = 0
    /\ SIZEOF_BLOCK + ALIGNMENT <= SIZE_SPACE
    \* heap_init_from_pmm passes the address of a page: rounding it up does not wrap.
    /\ InitArgs \subseteq (1 .. SIZE_SPACE - ALIGNMENT) \X (0 .. SIZE_SPACE - 1)
    /\ Sizes \subseteq 0 .. SIZE_SPACE - 1

NULL == 0
MAGIC_USED == "MAGIC_USED"
MAGIC_FREE == "MAGIC_FREE"
ZERO == "0"             \* the magic of a header that was merged away
JUNK == "junk"          \* memory that never held a header

ALIGN_DOWN(x) == x - (x % ALIGNMENT)
ALIGN_UP(x) == ALIGN_DOWN((x + ALIGNMENT - 1) % SIZE_SPACE)
HEADER_SIZE == ALIGN_UP(SIZEOF_BLOCK)
MIN_SPLIT == HEADER_SIZE + ALIGNMENT

Slots == {a \in 0 .. SIZE_SPACE - 1 : a % ALIGNMENT = 0}

VARIABLES heap_head, heap_lo, heap_hi,
          mem,        \* the header at every slot
          call,       \* the kmalloc in progress: its size and rounded need
          b,          \* kmalloc's list cursor
          live,       \* ghost: pointers returned by kmalloc and not freed
          returned,   \* ghost: every pointer kmalloc has ever returned
          ret         \* the size asked for and pointer returned by the last kmalloc

heap == <<heap_head, heap_lo, heap_hi>>
vars == <<heap_head, heap_lo, heap_hi, mem, call, b, live, returned, ret>>

Idle == [size |-> 0, need |-> 0]

-----------------------------------------------------------------------------
\* heap_init(start, size): a region too small for one block leaves no heap.
\* heap_init_from_pmm calls it once, before any kmalloc.
HeapInit(start, size) ==
    LET lo == ALIGN_UP(start)
        hi == ALIGN_DOWN((start + size) % SIZE_SPACE)
    IN  /\ heap_head = NULL
        /\ IF hi <= lo \/ hi - lo < MIN_SPLIT
           THEN UNCHANGED <<heap, mem>>
           ELSE /\ heap_lo' = lo /\ heap_hi' = hi /\ heap_head' = lo
                /\ mem' = [mem EXCEPT ![lo] =
                             [size |-> hi - lo - HEADER_SIZE, magic |-> MAGIC_FREE,
                              next |-> NULL, prev |-> NULL]]
        /\ UNCHANGED <<call, b, live, returned, ret>>

Return(size, ptr) ==
    /\ ret' = [size |-> size, ptr |-> ptr]
    /\ call' = Idle
    /\ b' = NULL

\* kmalloc(size) up to the loop: the early returns, then the cursor at the head.
KmallocCall(size) ==
    /\ call = Idle
    /\ LET need == ALIGN_UP(size)
       IN  IF size = 0 \/ heap_head = NULL \/ need < size
           THEN Return(size, NULL)
           ELSE /\ call' = [size |-> size, need |-> need]
                /\ b' = heap_head
                /\ UNCHANGED ret
    /\ UNCHANGED <<heap, mem, live, returned>>

Walking == call # Idle
\* Mutant of Fits: refuses an exact fit.
Fits_Strict(a) == mem[a].magic = MAGIC_FREE /\ mem[a].size > call.need

Fits(a) == mem[a].magic = MAGIC_FREE /\ mem[a].size >= call.need

\* Mutant of KmallocSkip: may pass over a block that fits.
KmallocSkip_Any ==
    /\ Walking /\ b # NULL
    /\ b' = mem[b].next
    /\ UNCHANGED <<heap, mem, call, live, returned, ret>>

\* The loop skips a block that is used or too small.
KmallocSkip ==
    /\ Walking /\ b # NULL /\ ~Fits(b)
    /\ b' = mem[b].next
    /\ UNCHANGED <<heap, mem, call, live, returned, ret>>

\* The loop ran off the list.
KmallocFail ==
    /\ Walking /\ b = NULL
    /\ Return(call.size, NULL)
    /\ UNCHANGED <<heap, mem, live, returned>>

\* Mutant of Split: links the block to its tail before the tail copies `next'.
Split_LinksEarly(m, a, need) ==
    LET rest == a + HEADER_SIZE + need
        tail == [size |-> m[a].size - need - HEADER_SIZE, magic |-> MAGIC_FREE,
                 next |-> rest, prev |-> a]
    IN  [m EXCEPT ![rest] = tail, ![a].next = rest, ![a].size = need]

\* The header memory after splitting block a at `need' bytes.
Split(m, a, need) ==
    LET rest == a + HEADER_SIZE + need
        tail == [size |-> m[a].size - need - HEADER_SIZE, magic |-> MAGIC_FREE,
                 next |-> m[a].next, prev |-> a]
        m1 == [m EXCEPT ![rest] = tail]
        m2 == IF m[a].next # NULL THEN [m1 EXCEPT ![m[a].next].prev = rest] ELSE m1
    IN  [m2 EXCEPT ![a].next = rest, ![a].size = need]

\* Mutant of KmallocTake: splits even when no room is left for a header.
KmallocTake_AlwaysSplits ==
    /\ Walking /\ b # NULL /\ Fits(b)
    /\ mem' = [Split(mem, b, call.need) EXCEPT ![b].magic = MAGIC_USED]
    /\ live' = live \cup {b + HEADER_SIZE}
    /\ returned' = returned \cup {b + HEADER_SIZE}
    /\ Return(call.size, b + HEADER_SIZE)
    /\ UNCHANGED heap

KmallocTake ==
    /\ Walking /\ b # NULL /\ Fits(b)
    /\ LET cut == IF mem[b].size >= call.need + MIN_SPLIT
                  THEN Split(mem, b, call.need) ELSE mem
           ptr == b + HEADER_SIZE
       IN  /\ mem' = [cut EXCEPT ![b].magic = MAGIC_USED]
           /\ live' = live \cup {ptr}
           /\ returned' = returned \cup {ptr}
           /\ Return(call.size, ptr)
    /\ UNCHANGED heap

\* Block p grows over n, the block after it; n's magic is wiped.
Absorb(m, p, n) ==
    LET m1 == [m EXCEPT ![p].size = @ + HEADER_SIZE + m[n].size,
                        ![p].next = m[n].next]
        m2 == IF m[n].next # NULL THEN [m1 EXCEPT ![m[n].next].prev = p] ELSE m1
    IN  [m2 EXCEPT ![n].magic = ZERO]

\* Mutant of MergeNext: leaves the back link of the block after next.
MergeNext_NoBackLink(m, a) ==
    LET n == m[a].next
    IN  IF n # NULL /\ m[n].magic = MAGIC_FREE
        THEN [m EXCEPT ![a].size = @ + HEADER_SIZE + m[n].size,
                       ![a].next = m[n].next, ![n].magic = ZERO]
        ELSE m

\* Merge the next block into a if it is free.
MergeNext(m, a) ==
    LET n == m[a].next
    IN  IF n # NULL /\ m[n].magic = MAGIC_FREE THEN Absorb(m, a, n) ELSE m

\* Mutant of MergePrev: never merges backwards.
MergePrev_Never(m, a) == m

\* Merge a into the previous block if that one is free.
MergePrev(m, a) ==
    LET p == m[a].prev
    IN  IF p # NULL /\ m[p].magic = MAGIC_FREE THEN Absorb(m, p, a) ELSE m

\* Mutant of Kfree: trusts any pointer into the heap.
Kfree_NoMagic(ptr) ==
    /\ call = Idle
    /\ ptr # NULL /\ ptr >= heap_lo + HEADER_SIZE /\ ptr < heap_hi
    /\ LET a == ptr - HEADER_SIZE
       IN  mem' = MergePrev(MergeNext([mem EXCEPT ![a].magic = MAGIC_FREE], a), a)
    /\ live' = live \ {ptr}
    /\ UNCHANGED <<heap, call, b, returned, ret>>

\* kfree(ptr): NULL, a pointer outside the heap, or one whose header does not
\* say MAGIC_USED is ignored.
Kfree(ptr) ==
    /\ call = Idle
    /\ IF \/ ptr = NULL
          \/ ptr < heap_lo + HEADER_SIZE \/ ptr >= heap_hi
          \/ mem[ptr - HEADER_SIZE].magic # MAGIC_USED
       THEN UNCHANGED <<mem, live>>
       ELSE LET a == ptr - HEADER_SIZE
                marked == [mem EXCEPT ![a].magic = MAGIC_FREE]
            IN  /\ mem' = MergePrev(MergeNext(marked, a), a)
                /\ live' = live \ {ptr}
    /\ UNCHANGED <<heap, call, b, returned, ret>>

Init ==
    /\ heap_head = NULL /\ heap_lo = 0 /\ heap_hi = 0
    /\ mem = [a \in Slots |-> [size |-> 0, magic |-> JUNK,
                               next |-> NULL, prev |-> NULL]]
    /\ call = Idle /\ b = NULL
    /\ live = {} /\ returned = {}
    /\ ret = [size |-> 0, ptr |-> NULL]

\* Clients free what they own, free again a pointer they once owned, free NULL,
\* or pass a pointer outside the heap (SIZE_SPACE - ALIGNMENT).
Next ==
    \/ \E arg \in InitArgs : HeapInit(arg[1], arg[2])
    \/ \E size \in Sizes : KmallocCall(size)
    \/ KmallocSkip \/ KmallocFail \/ KmallocTake
    \/ \E ptr \in returned \cup {NULL, SIZE_SPACE - ALIGNMENT} : Kfree(ptr)

Spec == Init /\ [][Next]_vars

\* kmalloc's loop is straight-line code: once entered it runs on.
FairSpec == Spec /\ WF_vars(KmallocSkip \/ KmallocFail \/ KmallocTake)
-----------------------------------------------------------------------------
(* Properties                                                               *)

TypeOK ==
    /\ heap_head \in Slots /\ heap_lo \in Slots /\ heap_hi \in Slots
    /\ mem \in [Slots -> [size : 0 .. SIZE_SPACE - 1,
                          magic : {MAGIC_USED, MAGIC_FREE, ZERO, JUNK},
                          next : Slots, prev : Slots]]
    /\ call \in [size : 0 .. SIZE_SPACE - 1, need : Slots]
    /\ b \in Slots
    /\ live \subseteq returned /\ returned \subseteq Slots

Headers == {a \in Slots : mem[a].magic \in {MAGIC_USED, MAGIC_FREE}}
End(a) == a + HEADER_SIZE + mem[a].size

\* The comment above block_t: the list is ordered by address, its blocks are
\* contiguous, so `next' is the physical neighbour.  They tile [lo, hi) from
\* the head to the end, and `prev' is the inverse of `next'.
ListTilesHeap ==
    heap_head # NULL =>
        /\ heap_head = heap_lo /\ heap_lo \in Headers
        /\ mem[heap_lo].prev = NULL
        /\ \A a \in Headers :
              /\ heap_lo <= a /\ End(a) <= heap_hi
              /\ IF End(a) = heap_hi
                 THEN mem[a].next = NULL
                 ELSE /\ mem[a].next = End(a) /\ End(a) \in Headers
                      /\ mem[End(a)].prev = a
              /\ a # heap_lo => \E p \in Headers : End(p) = a

\* kfree coalesces completely: no two neighbours are both free, whatever the
\* order of the frees.
NoAdjacentFree ==
    \A a \in Headers :
        mem[a].magic = MAGIC_FREE /\ mem[a].next # NULL =>
            mem[mem[a].next].magic = MAGIC_USED

\* A free that is not of a live pointer (a double free, also of a block merged
\* away or split again since, NULL, a foreign pointer) changes no header: memory
\* changes only when the heap is initialised or a pointer becomes live or dead.
OnlyLiveFreesAct == [][heap_head # NULL /\ live' = live => mem' = mem]_vars

\* First fit: the block kmalloc takes is the lowest free block that is large
\* enough at that moment.
FirstFit ==
    [][\A ptr \in live' \ live :
          \A a \in Headers : a < ptr - HEADER_SIZE => ~Fits(a)]_vars

\* kmalloc returns: the list the loop walks has no cycle.
KmallocReturns == Walking ~> ~Walking

\* The heap implements the allocator of heap.h.  In particular NULL is returned
\* only when no stretch of unused bytes can hold a header and the request.
Pool == INSTANCE HeapPool WITH
            Align <- ALIGNMENT,
            Header <- HEADER_SIZE,
            Slack <- MIN_SPLIT,
            Addresses <- 0 .. SIZE_SPACE - 1,
            Sizes <- Sizes,
            region <- heap_lo .. heap_hi - 1,
            live <- {[ptr |-> p, len |-> mem[p - HEADER_SIZE].size] : p \in live},
            answer <- ret
HeapPoolRefined == Pool!Spec
=============================================================================
