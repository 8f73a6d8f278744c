----------------------------- MODULE MultibootMap -----------------------------
(***************************************************************************)
(* The parser of the Multiboot memory map, src/src/mm/multiboot_mem.c: the  *)
(* walk over entries of variable size that multiboot_mem_init makes to add  *)
(* up the regions, and the walk multiboot_mem_iterar_regioes makes later to *)
(* hand them to a callback.  One step is one iteration of a loop.           *)
(*                                                                         *)
(* The boot loader's memory is the function `At' of a map.  It may hold     *)
(* anything; `reach' records how far the code has read.                     *)
(***************************************************************************)
EXTENDS Integers, Sequences, Functions

CONSTANTS UINT32,        \* 2^32
          UINT64,        \* 2^64
          WORD,          \* sizeof(uint32_t), the size field of an entry
          ENTRY_MIN_SIZE, \* MULTIBOOT_MMAP_ENTRY_MIN_SIZE
          Maps           \* the maps a boot loader may leave

ASSUME MultibootAssumption ==
    {UINT32, UINT64, WORD, ENTRY_MIN_SIZE} \subseteq Nat \ {0}

\* What the code reads when it takes the bytes at an offset for an entry.
Entry == [size : 0 .. UINT32 - 1, addr : 0 .. UINT64 - 1,
          len : 0 .. UINT64 - 1, available : BOOLEAN]

IsMap(m) == /\ m.flag \in BOOLEAN
            /\ m.length \in 0 .. UINT32 - 1 /\ m.addr \in 0 .. UINT32 - 1
            /\ m.At \in [0 .. m.length - 1 -> Entry]

ASSUME MapsAssumption == \A m \in Maps : IsMap(m)

VARIABLES map,           \* the map: flag, length, address, contents
          mem_info,      \* available and reserved bytes, number of regions
          saved_mbd,     \* saved_mbd and mem_info_initialized are set
          walk,          \* the loop in progress, "none", "parse" or "iter"
          offset,        \* its cursor
          mem_status,    \* what the last walk returned
          parsed,        \* ghost: offsets of the entries parse has counted
          called,        \* ghost: offsets of the entries the callback was given
          reach          \* ghost: bytes of the map read, 0 .. reach - 1

mvars == <<map, mem_info, saved_mbd, walk, offset, mem_status, parsed, called, reach>>
ghosts == <<parsed, called, reach>>

\* No map before kernel_main passes one.
NoMap == [flag |-> FALSE, length |-> 0, addr |-> 0, At |-> <<>>]

-----------------------------------------------------------------------------
\* The tests in front of both loops: what a walk returns at once, or "OK".
EarlyStatus(m) ==
    CASE ~m.flag -> "NO_MMAP"
      [] m.flag /\ (m.length = 0 \/ m.addr = 0) -> "INVALID_MAP"
      [] OTHER -> "OK"

\* Mutant of Malformed: compares with what remains including the size field.
Malformed_NoWord(o) ==
    \/ map.length - o < WORD
    \/ map.At[o].size < ENTRY_MIN_SIZE
    \/ map.At[o].size > map.length - o

\* The tests of an iteration of the parser: the size field itself must lie in the map, and
\* the entry it announces must hold the fields and end inside the map.
Malformed(o) ==
    \/ map.length - o < WORD
    \/ map.At[o].size < ENTRY_MIN_SIZE
    \/ map.At[o].size > map.length - o - WORD

\* Mutant of IterMalformed: takes the smallest entry for too small.
IterMalformed_MinSize(o) ==
    \/ map.length - o < WORD
    \/ map.At[o].size <= ENTRY_MIN_SIZE
    \/ map.At[o].size > map.length - o - WORD

\* The iterator has its own copy of them.
IterMalformed(o) ==
    \/ map.length - o < WORD
    \/ map.At[o].size < ENTRY_MIN_SIZE
    \/ map.At[o].size > map.length - o - WORD

After(o) == (o + map.At[o].size + WORD) % UINT32

\* How far an iteration at o has read: nothing, the size, or the fixed fields.
ReadTo(o, malformed) ==
    LET last == CASE map.length - o < WORD -> 0
                  [] map.length - o >= WORD /\ malformed -> o + WORD
                  [] OTHER -> o + WORD + ENTRY_MIN_SIZE
    IN  IF last > reach THEN last ELSE reach

\* multiboot_mem_init after multiboot_mem_parse has returned.
ReturnParse(status) ==
    /\ walk' = "none" /\ mem_status' = status
    /\ saved_mbd' = (status = "OK")

\* multiboot_mem_init up to the loop of multiboot_mem_parse.  kernel_main has
\* tested its pointer.
MemInit(m) ==
    /\ walk = "none"
    /\ map' = m
    /\ mem_info' = [available |-> 0, reserved |-> 0, count |-> 0]
    /\ parsed' = <<>> /\ called' = <<>> /\ reach' = 0 /\ offset' = 0
    /\ IF EarlyStatus(m) = "OK"
       THEN walk' = "parse" /\ UNCHANGED <<saved_mbd, mem_status>>
       ELSE ReturnParse(EarlyStatus(m))

Field(available) == IF available THEN "available" ELSE "reserved"

\* Mutant of Overflows: forgets the sum of the lengths.
Overflows_CountOnly(e) == mem_info.count = UINT32 - 1

\* add_u64 and the test of the counter.
Overflows(e) == \/ mem_info.count = UINT32 - 1
                \/ UINT64 - 1 - mem_info[Field(e.available)] < e.len

\* One iteration of the loop of multiboot_mem_parse.
ParseEntry ==
    /\ walk = "parse" /\ offset < map.length
    /\ reach' = ReadTo(offset, Malformed(offset))
    /\ LET e == map.At[offset]
       IN  \/ /\ Malformed(offset)
              /\ ReturnParse("MALFORMED")
              /\ UNCHANGED <<mem_info, offset, parsed>>
           \/ /\ ~Malformed(offset) /\ Overflows(e)
              /\ ReturnParse("OVERFLOW")
              /\ UNCHANGED <<mem_info, offset, parsed>>
           \/ /\ ~Malformed(offset) /\ ~Overflows(e)
              /\ mem_info' = [mem_info EXCEPT
                                ![Field(e.available)] = (@ + e.len) % UINT64,
                                !.count = @ + 1]
              /\ offset' = After(offset)
              /\ parsed' = Append(parsed, offset)
              /\ UNCHANGED <<walk, mem_status, saved_mbd>>
    /\ UNCHANGED <<map, called>>

ParseDone ==
    /\ walk = "parse" /\ offset >= map.length
    /\ ReturnParse("OK")
    /\ UNCHANGED <<map, mem_info, offset, ghosts>>

\* multiboot_mem_iterar_regioes up to its loop.
IterRegioes ==
    /\ walk = "none"
    /\ IF ~saved_mbd
       THEN mem_status' = "NO_MMAP" /\ UNCHANGED <<walk, offset, called>>
       ELSE IF EarlyStatus(map) # "OK"
       THEN mem_status' = EarlyStatus(map) /\ UNCHANGED <<walk, offset, called>>
       ELSE walk' = "iter" /\ offset' = 0 /\ called' = <<>> /\ UNCHANGED mem_status
    /\ UNCHANGED <<map, mem_info, saved_mbd, parsed, reach>>

\* One iteration: the callback is given the entry.
IterEntry ==
    /\ walk = "iter" /\ offset < map.length
    /\ reach' = ReadTo(offset, IterMalformed(offset))
    /\ IF IterMalformed(offset)
       THEN /\ walk' = "none" /\ mem_status' = "MALFORMED"
            /\ UNCHANGED <<offset, called>>
       ELSE /\ called' = Append(called, offset)
            /\ offset' = After(offset)
            /\ UNCHANGED <<walk, mem_status>>
    /\ UNCHANGED <<map, mem_info, saved_mbd, parsed>>

IterDone ==
    /\ walk = "iter" /\ offset >= map.length
    /\ walk' = "none" /\ mem_status' = "OK"
    /\ UNCHANGED <<map, mem_info, saved_mbd, offset, ghosts>>

MInit ==
    /\ map = NoMap
    /\ mem_info = [available |-> 0, reserved |-> 0, count |-> 0]      \* .bss
    /\ saved_mbd = FALSE
    /\ walk = "none" /\ offset = 0 /\ mem_status = "NONE"
    /\ parsed = <<>> /\ called = <<>> /\ reach = 0

MNext ==
    \/ \E m \in Maps : MemInit(m)
    \/ ParseEntry \/ ParseDone
    \/ IterRegioes \/ IterEntry \/ IterDone

MSpec == MInit /\ [][MNext]_mvars

-----------------------------------------------------------------------------
(* Properties                                                               *)

MapTypeOK ==
    /\ IsMap(map)
    /\ mem_info \in [available : 0 .. UINT64 - 1, reserved : 0 .. UINT64 - 1,
                     count : 0 .. UINT32 - 1]
    /\ saved_mbd \in BOOLEAN
    /\ walk \in {"none", "parse", "iter"}
    /\ offset \in 0 .. UINT32 - 1
    /\ mem_status \in {"NONE", "OK", "NO_MMAP", "INVALID_MAP", "MALFORMED",
                       "OVERFLOW"}
    /\ parsed \in Seq(Nat) /\ called \in Seq(Nat)
    /\ reach \in Nat

\* No walk reads a byte outside the map, whatever the map holds: a size field
\* that is cut off, too small, or announces more than what remains stops the
\* walk before the entry is read.
ReadsInMap == reach <= map.length

\* A walk that pmm_init makes after a successful multiboot_mem_init does not
\* fail and gives its callback exactly the entries that were counted, in their
\* order: what was validated is what is used, although each walk makes the tests
\* of an entry with code of its own.
WalksAgree ==
    [][walk = "iter" /\ walk' = "none" =>
          mem_status' = "OK" /\ called' = parsed]_mvars

\* The lengths of the entries counted that are of one kind.
Lengths(kind) ==
    [i \in DOMAIN parsed |-> IF Field(map.At[parsed[i]].available) = kind
                             THEN map.At[parsed[i]].len ELSE 0]

Totals == /\ mem_info.count = Len(parsed)
          /\ mem_info.available = SumFunction(Lengths("available"))
          /\ mem_info.reserved = SumFunction(Lengths("reserved"))

\* multiboot_mem_get_info tells the truth: after a successful parse the count
\* and the two totals are those of the map's entries, none of them wrapped.
TotalsExact == saved_mbd /\ walk # "parse" => Totals
=============================================================================
