------------------------------ MODULE Pmm_proofs ------------------------------
(***************************************************************************)
(* Theorems about the physical memory manager (module Pmm), for every page  *)
(* size, address space, kernel placement, memory map and set of clients.    *)
(***************************************************************************)
EXTENDS Pmm, ArithLemmas, FiniteSetTheorems, TLAPS

PmmType == [bitmap : SUBSET Blocks, max_blocks : 0 .. MAX_BLOCKS,
            used_blocks : Nat]

Exact(p) == p.used_blocks = Cardinality(p.bitmap \cap Managed(p))

-----------------------------------------------------------------------------
(* Lemmas about the bitmap operations                                       *)

\* The managed part of a bitmap is finite and no larger than max_blocks.
LEMMA ManagedFinite ==
    ASSUME NEW p \in PmmType, NEW S \in SUBSET Managed(p)
    PROVE  /\ IsFiniteSet(S)
           /\ Cardinality(S) \in 0 .. p.max_blocks
           /\ S \subseteq Blocks
<1>1. p.max_blocks \in 0 .. MAX_BLOCKS /\ MAX_BLOCKS \in Nat
  BY SizesAssumption DEF PmmType
<1>2. IsFiniteSet(Managed(p)) /\ Cardinality(Managed(p)) = p.max_blocks
  <2> DEFINE last == p.max_blocks - 1
  <2>1. last \in Int /\ 0 \in Int
    BY <1>1
  <2> HIDE DEF last
  <2>2. /\ IsFiniteSet(0 .. last)
        /\ Cardinality(0 .. last) = IF 0 > last THEN 0 ELSE last - 0 + 1
    BY <2>1, FS_Interval
  <2> QED
    BY <1>1, <2>2 DEF Managed, last
<1>3. IsFiniteSet(S) /\ Cardinality(S) <= p.max_blocks
  BY <1>2, FS_Subset
<1>4. Cardinality(S) \in Nat
  BY <1>3, FS_CardinalityType
<1>5. S \subseteq Blocks
  BY <1>1 DEF Managed, Blocks
<1> QED
  BY <1>1, <1>3, <1>4, <1>5

\* pmm_set_block over a set keeps the types and an exact counter exact, and
\* takes exactly the managed blocks of that set out of the free ones.
LEMMA SetBlocksLemma ==
    ASSUME NEW p \in PmmType, NEW S, Exact(p), NEW q, q = SetBlocks(p, S)
    PROVE  /\ q \in PmmType
           /\ Exact(q)
           /\ q.max_blocks = p.max_blocks
           /\ FreeOf(q) = FreeOf(p) \ S
<1> DEFINE new == (S \cap Managed(p)) \ p.bitmap
           old == p.bitmap \cap Managed(p)
<1>1. IsFiniteSet(new) /\ Cardinality(new) \in Nat /\ new \subseteq Blocks
  BY ManagedFinite
<1>2. IsFiniteSet(old)
  BY ManagedFinite
<1>3. q = [bitmap |-> p.bitmap \cup new, max_blocks |-> p.max_blocks,
           used_blocks |-> p.used_blocks + Cardinality(new)]
  BY DEF SetBlocks
<1>4. old \cap new = {}
  OBVIOUS
<1>5. Managed(q) = Managed(p)
  BY <1>3 DEF Managed
<1>6. q.bitmap \cap Managed(q) = old \cup new
  BY <1>3, <1>5
<1>7. p.used_blocks = Cardinality(old)
  BY DEF Exact
<1>8. q \in PmmType
  BY <1>1, <1>3 DEF PmmType
<1>9. FreeOf(q) = FreeOf(p) \ S
  BY <1>3, <1>5 DEF FreeOf
<1> HIDE DEF new, old
<1>10. Cardinality(old \cup new) = Cardinality(old) + Cardinality(new)
  BY <1>1, <1>2, <1>4, CardDisjointUnion
<1>11. q.used_blocks = Cardinality(old) + Cardinality(new)
  BY <1>3, <1>7
<1>12. Exact(q)
  BY <1>6, <1>10, <1>11 DEF Exact
<1>13. q.max_blocks = p.max_blocks
  BY <1>3
<1> QED
  BY <1>8, <1>9, <1>12, <1>13

\* pmm_unset_block over a set keeps an exact counter exact, so it never meets
\* the saturation at zero, and frees exactly the managed blocks of that set.
LEMMA UnsetBlocksLemma ==
    ASSUME NEW p \in PmmType, NEW S, Exact(p), NEW q, q = UnsetBlocks(p, S)
    PROVE  /\ q \in PmmType
           /\ Exact(q)
           /\ q.max_blocks = p.max_blocks
           /\ FreeOf(q) = FreeOf(p) \cup (S \cap Managed(p))
<1> DEFINE used == p.bitmap \cap Managed(p)
           old == S \cap Managed(p) \cap p.bitmap
<1>1. IsFiniteSet(used) /\ old \in SUBSET used
  BY ManagedFinite
<1>2. q = [bitmap |-> p.bitmap \ old, max_blocks |-> p.max_blocks,
           used_blocks |-> IF p.used_blocks >= Cardinality(old)
                           THEN p.used_blocks - Cardinality(old) ELSE 0]
  BY DEF UnsetBlocks
<1>3. p.used_blocks = Cardinality(used)
  BY DEF Exact
<1>4. Managed(q) = Managed(p)
  BY <1>2 DEF Managed
<1>5. q.bitmap \cap Managed(q) = used \ old
  BY <1>2, <1>4
<1>6. FreeOf(q) = FreeOf(p) \cup (S \cap Managed(p))
  BY <1>2, <1>4 DEF FreeOf
<1>7. q.bitmap \in SUBSET Blocks /\ q.max_blocks \in 0 .. MAX_BLOCKS
  BY <1>2 DEF PmmType
<1> HIDE DEF used, old
<1>8. /\ Cardinality(used \ old) = Cardinality(used) - Cardinality(old)
      /\ Cardinality(used) \in Nat /\ Cardinality(old) \in Nat
      /\ Cardinality(old) <= Cardinality(used)
  BY <1>1, CardRemoveSubset
<1>9. /\ q.used_blocks = Cardinality(used) - Cardinality(old)
      /\ q.used_blocks \in Nat
  BY <1>2, <1>3, <1>8
<1>10. Exact(q)
  BY <1>5, <1>8, <1>9 DEF Exact
<1>11. q \in PmmType
  BY <1>2, <1>7, <1>9 DEF PmmType
<1> QED
  BY <1>2, <1>6, <1>10, <1>11

-----------------------------------------------------------------------------
(* Lemmas about the search and about pmm_init                               *)

\* A search that succeeds returns the lowest start of a free run.
LEMMA FirstRunLemma ==
    ASSUME NEW free \in SUBSET Nat, NEW n \in Nat
    PROVE  \/ /\ FirstRun(free, n) = -1
              /\ n = 0 \/ RunStarts(free, n) = {}
           \/ /\ n > 0
              /\ FirstRun(free, n) \in RunStarts(free, n)
<1>1. CASE n = 0 \/ RunStarts(free, n) = {}
  BY <1>1 DEF FirstRun
<1>2. CASE n # 0 /\ RunStarts(free, n) # {}
  <2>1. RunStarts(free, n) \in SUBSET Nat
    BY DEF RunStarts
  <2>2. \E s \in RunStarts(free, n) : \A t \in RunStarts(free, n) : s <= t
    BY <1>2, <2>1, NatMinimum
  <2> QED
    BY <1>2, <2>2 DEF FirstRun
<1> QED
  BY <1>1, <1>2

LEMMA AddrSpaceType ==
    /\ ADDR_SPACE \in Nat \ {0}
    /\ BLOCK_SIZE \in Nat \ {0}
    /\ BLOCK_SIZE <= ADDR_SPACE
  BY SizesAssumption DEF ADDR_SPACE

\* pmm_descobrir_teto_cb finds the highest of the ends it computes.
LEMMA CeilingIsHighest ==
    ASSUME NEW m \in Boots, HasMap(m)
    PROVE  /\ Ceiling(m) \in Nat
           /\ \A e \in Available(m) : /\ {e.addr, e.len} \subseteq 0 .. UINT64 - 1
                                     /\ Fim(e) \in 0 .. UINT64 - 1
                                     /\ Fim(e) <= Ceiling(m)
<1> USE SizesAssumption, AddrSpaceType
<1> DEFINE T == {UINT64 - Fim(e) : e \in Available(m)}
<1>1. \A e \in Available(m) : {e.addr, e.len} \subseteq 0 .. UINT64 - 1
  BY BootsAssumption DEF HasMap, Available
<1>2. ASSUME NEW e \in Available(m) PROVE Fim(e) \in 0 .. UINT64 - 1
  <2>1. PICK sum \in Int : sum = e.addr + e.len
    BY <1>1
  <2>2. sum % UINT64 \in 0 .. UINT64 - 1
    BY <2>1, DivMod
  <2> QED
    BY <2>1, <2>2 DEF Fim
<1>3. T \in SUBSET Nat /\ T # {}
  BY <1>2 DEF HasMap
<1>4. PICK t \in T : \A u \in T : t <= u
  <2> HIDE DEF T
  <2> QED
    BY <1>3, NatMinimum
<1>5. PICK e \in Available(m) : t = UINT64 - Fim(e)
  OBVIOUS
<1>6. \A f \in Available(m) : Fim(f) <= Fim(e)
  <2> TAKE f \in Available(m)
  <2>1. t <= UINT64 - Fim(f)
    BY <1>4
  <2> QED
    BY <1>2, <1>5, <2>1
<1>7. \E top \in {Fim(f) : f \in Available(m)} :
          \A f \in Available(m) : Fim(f) <= top
  BY <1>6
<1>8. /\ Ceiling(m) \in {Fim(f) : f \in Available(m)}
      /\ \A f \in Available(m) : Fim(f) <= Ceiling(m)
  BY <1>7 DEF Ceiling
<1> QED
  BY <1>1, <1>2, <1>8

\* The limit pmm_init computes never exceeds the bitmap.
LEMMA InitialMaxType ==
    ASSUME NEW m \in Boots
    PROVE  /\ InitialMax(m) \in 0 .. MAX_BLOCKS
           /\ HasMap(m) => Ceiling(m) \in Nat
<1> USE SizesAssumption, AddrSpaceType
<1>1. ASSUME NEW a \in Nat
      PROVE  Capped(ADDR_TO_BLOCK(a)) \in 0 .. MAX_BLOCKS
  <2>1. a \div BLOCK_SIZE \in Nat
    BY DivMod, DivFloor
  <2> QED
    BY <2>1 DEF Capped, ADDR_TO_BLOCK
<1>2. HasMap(m) => Ceiling(m) \in Nat
  BY CeilingIsHighest
<1>3. CASE HasMap(m)
  BY <1>1, <1>2, <1>3 DEF InitialMax
<1>4. CASE ~HasMap(m) /\ m.present /\ m.hasMemory
  <2> DEFINE top == LOW_MEMORY + m.mem_upper
  <2>1. top \in Int
    BY <1>4, BootsAssumption
  <2> HIDE DEF top
  <2>2. top % ADDR_SPACE \in 0 .. ADDR_SPACE - 1
    BY <2>1, DivMod
  <2> QED
    BY <1>1, <1>2, <1>4, <2>2 DEF InitialMax, top
<1>5. CASE ~HasMap(m) /\ ~(m.present /\ m.hasMemory)
  <2>1. FALLBACK_END \in Nat /\ FALLBACK_END <= MAX_BLOCKS * BLOCK_SIZE
    BY DEF ADDR_SPACE
  <2>2. FALLBACK_END \div BLOCK_SIZE \in 0 .. MAX_BLOCKS
    BY <2>1, DivBound
  <2> QED
    BY <1>5, <2>2 DEF InitialMax, ADDR_TO_BLOCK
<1> QED
  BY <1>2, <1>3, <1>4, <1>5

\* pmm_init leaves well-typed statics, an exact counter, free exactly the
\* blocks released and not reserved again, and block 0 is never free.
LEMMA InitLemma ==
    ASSUME NEW m \in Boots, NEW q, q = PmmAfterInit(m)
    PROVE  /\ q \in PmmType
           /\ Exact(q)
           /\ q.max_blocks = InitialMax(m)
           /\ FreeOf(q) = ((0 .. InitialMax(m) - 1)
                            \cap UNION {ReleasedBy(r) : r \in InitialFree(m)})
                          \ UNION {ReservedBy(r) : r \in InitialReserved(m)}
           /\ 0 \notin FreeOf(q)
<1> DEFINE max == InitialMax(m)
           full == [bitmap |-> Blocks, max_blocks |-> max, used_blocks |-> max]
           released == UNION {ReleasedBy(r) : r \in InitialFree(m)}
           reserved == UNION {ReservedBy(r) : r \in InitialReserved(m)}
           freed == UnsetBlocks(full, released)
<1>1. max \in 0 .. MAX_BLOCKS /\ MAX_BLOCKS \in Nat
  BY InitialMaxType, SizesAssumption
<1>2. full \in PmmType /\ FreeOf(full) = {} /\ Managed(full) = 0 .. max - 1
  BY <1>1 DEF PmmType, FreeOf, Managed, Blocks
<1>3. Exact(full)
  <2>1. Managed(full) \cap full.bitmap = Managed(full)
    BY <1>1 DEF Managed, Blocks
  <2>2. full.bitmap \cap Managed(full) = 0 .. (max - 1)
    BY <1>2, <2>1
  <2>3. Cardinality(0 .. (max - 1)) = max
    <3> DEFINE last == max - 1
    <3>1. last \in Int /\ 0 \in Int
      BY <1>1
    <3> HIDE DEF last
    <3>2. Cardinality(0 .. last) = IF 0 > last THEN 0 ELSE last - 0 + 1
      BY <3>1, FS_Interval
    <3> QED
      BY <1>1, <3>2 DEF last
  <2> QED
    BY <2>2, <2>3 DEF Exact
<1> HIDE DEF full, released, reserved, max
<1>4. /\ freed \in PmmType
      /\ Exact(freed)
      /\ freed.max_blocks = max
      /\ FreeOf(freed) = (0 .. max - 1) \cap released
  <2>1. full.max_blocks = max
    BY DEF full
  <2> QED
    BY <1>2, <1>3, <2>1, UnsetBlocksLemma
<1> HIDE DEF freed
<1>5. q = SetBlocks(freed, reserved)
  BY DEF PmmAfterInit, freed, released, reserved, full, max
<1>6. /\ q \in PmmType
      /\ Exact(q)
      /\ q.max_blocks = max
      /\ FreeOf(q) = ((0 .. max - 1) \cap released) \ reserved
  BY <1>4, <1>5, SetBlocksLemma
<1>7. 0 \in reserved
  <2> DEFINE low == [base |-> 0, size |-> LOW_MEMORY]
  <2>1. low \in InitialReserved(m)
    BY DEF InitialReserved
  <2>2. LOW_MEMORY \in 1 .. ADDR_SPACE - 1 /\ ADDR_SPACE \in Nat
    BY SizesAssumption, AddrSpaceType
  <2>3. LOW_MEMORY % ADDR_SPACE = LOW_MEMORY
    BY <2>2
  <2>4. 1 <= (0 + LOW_MEMORY + BLOCK_SIZE - 1) \div BLOCK_SIZE
    BY <2>2, AddrSpaceType, DivFloor
  <2>5. 0 \div BLOCK_SIZE = 0
    BY AddrSpaceType, MulDiv
  <2>6. (0 + LOW_MEMORY + BLOCK_SIZE - 1) \div BLOCK_SIZE \in Int
    BY <2>2, AddrSpaceType, DivMod
  <2>7. 0 \in ReservedBy(low)
    BY <2>2, <2>3, <2>4, <2>5, <2>6 DEF ReservedBy
  <2> QED
    BY <2>1, <2>7 DEF reserved
<1> QED
  BY <1>6, <1>7 DEF max, released, reserved

-----------------------------------------------------------------------------
(* The inductive invariant                                                  *)

\* What the client side adds to the types: owned blocks are occupied managed
\* blocks, block 0 (whose address is NULL) is never handed out, and nothing is
\* managed before pmm_init.
IInv ==
    /\ pmm \in PmmType
    /\ Exact(pmm)
    /\ booted \in BOOLEAN
    /\ owned \subseteq pmm.bitmap \cap Managed(pmm)
    /\ 0 \notin FreeOf(pmm) \cup owned
    /\ \E n \in Nat, b \in Blocks : ret = [count |-> n, ptr |-> BLOCK_TO_ADDR(b)]
    /\ ~booted => pmm.max_blocks = 0

LEMMA InitIInv == Init => IInv
<1> SUFFICES ASSUME Init PROVE IInv
  OBVIOUS
<1>1. pmm \in PmmType /\ Managed(pmm) = {} /\ pmm.bitmap = {}
  BY SizesAssumption DEF Init, PmmType, Managed
<1>2. Exact(pmm)
  BY <1>1, FS_EmptySet DEF Exact, Init
<1>3. 0 \in Blocks /\ ret = [count |-> 0, ptr |-> BLOCK_TO_ADDR(0)]
  BY SizesAssumption DEF Init, Blocks, BLOCK_TO_ADDR, NULL
<1> QED
  BY <1>1, <1>2, <1>3 DEF IInv, Init, FreeOf

\* A successful search names a run of free managed blocks.
LEMMA FoundRun ==
    ASSUME IInv, NEW n \in Nat, NEW s, s = FirstRun(FreeOf(pmm), n)
    PROVE  \/ s = -1 /\ (n = 0 \/ RunStarts(FreeOf(pmm), n) = {})
           \/ /\ n > 0 /\ s \in RunStarts(FreeOf(pmm), n)
              /\ s \in Blocks \ {0}
              /\ Run(s, n) \subseteq FreeOf(pmm)
<1>1. FreeOf(pmm) \in SUBSET Nat /\ FreeOf(pmm) \subseteq Blocks \ {0}
  BY SizesAssumption DEF IInv, FreeOf, Managed, PmmType, Blocks
<1> QED
  BY <1>1, FirstRunLemma DEF RunStarts

LEMMA NextIInv == IInv /\ [Next]_vars => IInv'
<1> SUFFICES ASSUME IInv, [Next]_vars PROVE IInv'
  OBVIOUS
<1>1. CASE PmmInit
  <2>1. mbd' \in Boots /\ pmm' = PmmAfterInit(mbd')
    BY <1>1 DEF PmmInit
  <2>2. pmm' \in PmmType /\ Exact(pmm') /\ 0 \notin FreeOf(pmm')
    BY <2>1, InitLemma
  <2>3. Managed(pmm) = {} /\ owned = {}
    BY <1>1 DEF IInv, PmmInit, Managed
  <2>4. owned' = {} /\ ret' = ret /\ booted' = TRUE
    BY <1>1, <2>3 DEF PmmInit
  <2>5. (\E n \in Nat, b \in Blocks : ret = [count |-> n, ptr |-> BLOCK_TO_ADDR(b)])'
    BY <2>4 DEF IInv, Blocks, BLOCK_TO_ADDR
  <2>6. (owned \subseteq pmm.bitmap \cap Managed(pmm))'
    BY <2>4
  <2>7. (0 \notin FreeOf(pmm) \cup owned)'
    BY <2>2, <2>4 DEF FreeOf, Managed
  <2>8. (pmm \in PmmType)' /\ Exact(pmm)'
    BY <2>2 DEF Exact, Managed
  <2> QED
    BY <2>4, <2>5, <2>6, <2>7, <2>8 DEF IInv
<1>2. ASSUME NEW n \in Counts, AllocBlocks(n) PROVE IInv'
  <2> DEFINE s == FirstRun(FreeOf(pmm), n)
  <2>1. n \in Nat
    BY SizesAssumption
  <2>2. CASE s < 0
    <3>1. UNCHANGED <<pmm, owned, booted>> /\ ret' = [count |-> n, ptr |-> BLOCK_TO_ADDR(0)]
      BY <1>2, <2>2, SizesAssumption DEF AllocBlocks, NULL, BLOCK_TO_ADDR
    <3>2. 0 \in Blocks
      BY SizesAssumption DEF Blocks
    <3> QED
      BY <2>1, <3>1, <3>2 DEF IInv, FreeOf, Managed, Exact
  <2>3. CASE ~(s < 0)
    <3>1. s \in Blocks \ {0} /\ Run(s, n) \subseteq FreeOf(pmm)
      BY <2>1, <2>3, FoundRun
    <3>2. /\ pmm' = SetBlocks(pmm, Run(s, n))
          /\ ret' = [count |-> n, ptr |-> BLOCK_TO_ADDR(s)]
          /\ owned' = owned \cup Run(s, n)
          /\ booted' = booted
      BY <1>2, <2>3 DEF AllocBlocks
    <3>3. /\ pmm' \in PmmType
          /\ Exact(pmm')
          /\ pmm'.max_blocks = pmm.max_blocks
          /\ FreeOf(pmm') = FreeOf(pmm) \ Run(s, n)
      BY <3>2, SetBlocksLemma DEF IInv
    <3>4. owned' \subseteq pmm'.bitmap \cap Managed(pmm')
      BY <3>1, <3>2, <3>3 DEF IInv, FreeOf, Managed
    <3> QED
      BY <2>1, <3>1, <3>2, <3>3, <3>4 DEF IInv, Exact, FreeOf, Managed
  <2> QED
    BY <2>2, <2>3
<1>3. ASSUME NEW b \in Blocks, NEW n \in Counts,
             FreeBlocks(BLOCK_TO_ADDR(b), n)
      PROVE  IInv'
  <2> DEFINE run == Run(ADDR_TO_BLOCK(BLOCK_TO_ADDR(b)), n)
  <2>1. CASE UNCHANGED <<pmm, owned>>
    BY <1>3, <2>1 DEF FreeBlocks, IInv, FreeOf, Managed, Exact
  <2>2. CASE pmm' = UnsetBlocks(pmm, run) /\ owned' = owned \ run
    <3>1. /\ pmm' \in PmmType
          /\ Exact(pmm')
          /\ pmm'.max_blocks = pmm.max_blocks
          /\ FreeOf(pmm') = FreeOf(pmm) \cup (run \cap Managed(pmm))
      BY <2>2, UnsetBlocksLemma DEF IInv
    <3>2. run \cap Managed(pmm) \subseteq owned \cup FreeOf(pmm)
      BY <1>3 DEF FreeBlocks
    <3> QED
      BY <1>3, <2>2, <3>1, <3>2 DEF IInv, FreeBlocks, FreeOf, Managed, Exact
  <2> QED
    BY <1>3, <2>1, <2>2 DEF FreeBlocks
<1>4. CASE UNCHANGED vars
  BY <1>4 DEF IInv, vars, FreeOf, Managed, Exact
<1> QED
  BY <1>1, <1>2, <1>3, <1>4 DEF Next

\* Every reachable state satisfies the inductive invariant.
THEOREM Invariance == Spec => []IInv
<1> QED
  BY InitIInv, NextIInv, PTL DEF Spec

LEMMA IInvType == IInv => TypeOK
<1> SUFFICES ASSUME IInv PROVE TypeOK
  OBVIOUS
<1>1. pmm.used_blocks \in 0 .. pmm.max_blocks
  <2> DEFINE used == pmm.bitmap \cap Managed(pmm)
  <2>1. used \in SUBSET Managed(pmm) /\ pmm \in PmmType
    BY DEF IInv
  <2>2. Cardinality(used) \in 0 .. pmm.max_blocks
    BY <2>1, ManagedFinite
  <2> QED
    BY <2>2 DEF IInv, Exact
<1>2. pmm \in [bitmap : SUBSET Blocks, max_blocks : 0 .. MAX_BLOCKS,
               used_blocks : 0 .. MAX_BLOCKS]
  BY <1>1, SizesAssumption DEF IInv, PmmType
<1>3. owned \in SUBSET Blocks
  BY DEF IInv, PmmType
<1>4. ret \in [count : Nat, ptr : 0 .. ADDR_SPACE - 1]
  <2>1. PICK n \in Nat, b \in Blocks :
          ret = [count |-> n, ptr |-> b * BLOCK_SIZE]
    BY DEF IInv, BLOCK_TO_ADDR
  <2>2. b \in Nat /\ b + 1 <= MAX_BLOCKS /\ BLOCK_SIZE \in Nat \ {0}
        /\ MAX_BLOCKS \in Nat
    BY SizesAssumption DEF Blocks
  <2>3. (b + 1) * BLOCK_SIZE <= MAX_BLOCKS * BLOCK_SIZE
    BY <2>2
  <2> QED
    BY <2>1, <2>2, <2>3 DEF ADDR_SPACE
<1> QED
  BY <1>2, <1>3, <1>4 DEF TypeOK, IInv

-----------------------------------------------------------------------------
(* Theorems                                                                 *)

\* The statics keep their types: in particular pmm_used_blocks and
\* pmm_max_blocks stay within the bitmap and a returned pointer is an address.
THEOREM TypeCorrect == Spec => []TypeOK
<1> QED
  BY IInvType, Invariance, PTL

\* The incremental counter always equals the number of occupied bits: no
\* sequence of boots, allocations, frees and double frees makes it drift.
THEOREM AccountingCorrect == Spec => []Accounting
<1>1. IInv => Accounting
  BY DEF IInv, Exact, Accounting
<1> QED
  BY <1>1, Invariance, PTL

\* The bitmap allocator implements the abstract block pool: grants are free
\* runs that become held, NULL means that no such run exists, frees only
\* return what was held.
THEOREM PoolImplemented == Spec => PoolRefined
<1>1. Init => Pool!Init
  <2> SUFFICES ASSUME Init PROVE Pool!Init
    OBVIOUS
  <2>1. Managed(pmm) = {}
    BY DEF Init, Managed
  <2> QED
    BY <2>1 DEF Init, Pool!Init, FreeOf, Pool!NoBlock, NULL
<1>2. IInv /\ IInv' /\ [Next]_vars => [Pool!Next]_(Pool!vars)
  <2> SUFFICES ASSUME IInv, IInv', [Next]_vars
               PROVE  [Pool!Next]_(Pool!vars)
    OBVIOUS
  <2>1. FreeOf(pmm') \subseteq Blocks
    BY SizesAssumption DEF IInv, FreeOf, Managed, Blocks, PmmType
  <2>2. CASE PmmInit
    <3>1. Pool!Open
      BY <2>1, <2>2 DEF PmmInit, Pool!Open, FreeOf, Managed
    <3> QED
      BY <3>1 DEF Pool!Next
  <2>3. ASSUME NEW n \in Counts, AllocBlocks(n)
        PROVE  Pool!Grant(n) \/ Pool!Refuse(n)
    <3> DEFINE s == FirstRun(FreeOf(pmm), n)
    <3>1. n \in Nat
      BY SizesAssumption
    <3>2. CASE s < 0
      <4>1. n = 0 \/ RunStarts(FreeOf(pmm), n) = {}
        BY <3>1, <3>2, FoundRun DEF Blocks
      <4>2. UNCHANGED <<pmm, owned, booted>>
            /\ ret' = [count |-> n, ptr |-> NULL]
        BY <2>3, <3>2 DEF AllocBlocks
      <4> QED
        BY <4>1, <4>2 DEF Pool!Refuse, Pool!RunStarts, Pool!Run, RunStarts, Run,
                          Pool!NoBlock, FreeOf, Managed
    <3>3. CASE ~(s < 0)
      <4>1. /\ n > 0 /\ s \in RunStarts(FreeOf(pmm), n)
            /\ s \in Blocks \ {0}
        BY <3>1, <3>3, FoundRun
      <4>2. /\ pmm' = SetBlocks(pmm, Run(s, n))
            /\ ret' = [count |-> n, ptr |-> BLOCK_TO_ADDR(s)]
            /\ owned' = owned \cup Run(s, n)
            /\ booted' = booted
        BY <2>3, <3>3 DEF AllocBlocks
      <4>3. FreeOf(pmm') = FreeOf(pmm) \ Run(s, n)
        BY <4>2, SetBlocksLemma DEF IInv
      <4>4. ret'.ptr # NULL /\ ADDR_TO_BLOCK(ret'.ptr) = s /\ ret'.count = n
        <5>1. s \in Nat \ {0} /\ BLOCK_SIZE \in Nat \ {0}
          BY <4>1, SizesAssumption DEF Blocks
        <5>2. s * BLOCK_SIZE # 0
          BY <5>1
        <5> QED
          BY <4>2, <5>1, <5>2, MulDiv DEF BLOCK_TO_ADDR, ADDR_TO_BLOCK, NULL
      <4>5. [count |-> ret.count,
             block |-> IF ret.ptr = NULL THEN -1 ELSE ADDR_TO_BLOCK(ret.ptr)]'
            = [count |-> n, block |-> s]
        BY <4>4
      <4>6. Pool!Run(s, n) = Run(s, n)
            /\ Pool!RunStarts(FreeOf(pmm), n) = RunStarts(FreeOf(pmm), n)
        BY DEF Pool!Run, Run, Pool!RunStarts, RunStarts
      <4> HIDE DEF s
      <4> QED
        BY <4>1, <4>2, <4>3, <4>5, <4>6 DEF Pool!Grant
    <3> QED
      BY <3>2, <3>3
  <2>4. ASSUME NEW b \in Blocks, NEW n \in Counts,
               FreeBlocks(BLOCK_TO_ADDR(b), n)
        PROVE  [Pool!GiveBack]_(Pool!vars)
    <3> DEFINE run == Run(ADDR_TO_BLOCK(BLOCK_TO_ADDR(b)), n)
    <3>1. UNCHANGED <<booted, ret>>
      BY <2>4 DEF FreeBlocks
    <3>2. CASE UNCHANGED <<pmm, owned>>
      BY <3>1, <3>2 DEF Pool!vars, FreeOf, Managed
    <3>3. CASE pmm' = UnsetBlocks(pmm, run) /\ owned' = owned \ run
      <4>1. FreeOf(pmm') = FreeOf(pmm) \cup (run \cap Managed(pmm))
        BY <3>3, UnsetBlocksLemma DEF IInv
      <4>2. /\ run \cap Managed(pmm) \subseteq owned \cup FreeOf(pmm)
            /\ owned \subseteq Managed(pmm)
        BY <2>4 DEF FreeBlocks, IInv
      <4>3. FreeOf(pmm') = FreeOf(pmm) \cup (run \cap owned)
        BY <4>1, <4>2
      <4>4. owned' = owned \ (run \cap owned)
        BY <3>3
      <4>5. Pool!GiveBack
        BY <3>1, <4>3, <4>4 DEF Pool!GiveBack
      <4> QED
        BY <4>5
    <3> QED
      BY <2>4, <3>2, <3>3 DEF FreeBlocks
  <2>5. CASE UNCHANGED vars
    BY <2>5 DEF vars, Pool!vars, FreeOf, Managed
  <2> QED
    BY <2>2, <2>3, <2>4, <2>5 DEF Next, Pool!Next
<1> QED
  BY <1>1, <1>2, Invariance, PTL DEF Spec, PoolRefined, Pool!Spec

-----------------------------------------------------------------------------
(* The bitmap against its byte-level meaning                                *)

\* A page lies inside a region iff both its ends do.
LEMMA BlockInside ==
    ASSUME NEW b \in Nat, NEW base \in Nat, NEW size \in Nat
    PROVE  BlockBytes(b) \subseteq Bytes([base |-> base, size |-> size])
           <=> base <= b * BLOCK_SIZE /\ (b + 1) * BLOCK_SIZE <= base + size
<1> DEFINE lo == b * BLOCK_SIZE
           hi == (b + 1) * BLOCK_SIZE
<1>1. lo \in Nat /\ hi \in Nat /\ lo < hi
  BY SizesAssumption
<1>2. /\ BlockBytes(b) = lo .. hi - 1
      /\ Bytes([base |-> base, size |-> size]) = base .. base + size - 1
  BY DEF BlockBytes, Bytes
<1> HIDE DEF lo, hi
<1>3. lo .. hi - 1 \subseteq base .. base + size - 1
      <=> base <= lo /\ hi <= base + size
  BY <1>1
<1> QED
  BY <1>2, <1>3 DEF lo, hi

\* A page touches a region iff each starts before the other ends.
LEMMA BlockTouches ==
    ASSUME NEW b \in Nat, NEW base \in Nat, NEW size \in Nat
    PROVE  BlockBytes(b) \cap Bytes([base |-> base, size |-> size]) # {}
           <=> /\ size > 0
               /\ b * BLOCK_SIZE < base + size
               /\ base < (b + 1) * BLOCK_SIZE
<1> DEFINE lo == b * BLOCK_SIZE
           hi == (b + 1) * BLOCK_SIZE
<1>1. lo \in Nat /\ hi \in Nat /\ lo < hi
  BY SizesAssumption
<1>2. /\ BlockBytes(b) = lo .. hi - 1
      /\ Bytes([base |-> base, size |-> size]) = base .. base + size - 1
  BY DEF BlockBytes, Bytes
<1> HIDE DEF lo, hi
<1>3. (lo .. hi - 1) \cap (base .. base + size - 1) # {}
      <=> size > 0 /\ lo < base + size /\ base < hi
  <2>1. ASSUME size > 0, lo < base + size, base < hi
        PROVE  (IF lo <= base THEN base ELSE lo)
                  \in (lo .. hi - 1) \cap (base .. base + size - 1)
    BY <1>1, <2>1
  <2>2. ASSUME NEW x \in (lo .. hi - 1) \cap (base .. base + size - 1)
        PROVE  size > 0 /\ lo < base + size /\ base < hi
    BY <1>1
  <2> QED
    BY <2>1, <2>2
<1> QED
  BY <1>2, <1>3 DEF lo, hi

\* pmm_init_region releases exactly the pages inside the region when its base
\* is not in the last page, where the 32-bit rounding wraps.
LEMMA ReleasedMeaning ==
    ASSUME NEW b \in Nat, NEW base \in Nat, NEW size \in 0 .. ADDR_SPACE - 1,
           base + BLOCK_SIZE <= ADDR_SPACE
    PROVE  b \in ReleasedBy([base |-> base, size |-> size])
           <=> BlockBytes(b) \subseteq Bytes([base |-> base, size |-> size])
<1> DEFINE r == [base |-> base, size |-> size]
           start == (base + BLOCK_SIZE - 1) \div BLOCK_SIZE
           end == (base + size) \div BLOCK_SIZE
<1> USE AddrSpaceType
<1>1. size % ADDR_SPACE = size
  OBVIOUS
<1>2. (base + BLOCK_SIZE - 1) % ADDR_SPACE = base + BLOCK_SIZE - 1
  <2>1. base + BLOCK_SIZE - 1 \in 0 .. ADDR_SPACE - 1
    OBVIOUS
  <2> QED
    BY <2>1
<1>3. ReleasedBy(r) = IF size = 0 THEN {} ELSE start .. end - 1
  BY <1>1, <1>2 DEF ReleasedBy
<1>4. start \in Int /\ end \in Int
  BY DivMod
<1>5. start <= b <=> base <= b * BLOCK_SIZE
  BY DivCeil
<1>6. b + 1 <= end <=> (b + 1) * BLOCK_SIZE <= base + size
  BY DivFloor
<1>7. b \in start .. end - 1 <=> start <= b /\ b + 1 <= end
  BY <1>4
<1>8. b * BLOCK_SIZE \in Nat /\ b * BLOCK_SIZE < (b + 1) * BLOCK_SIZE
      /\ (b + 1) * BLOCK_SIZE \in Nat
  OBVIOUS
<1> HIDE DEF start, end
<1>9. CASE size = 0
  BY <1>3, <1>8, <1>9, BlockInside
<1>10. CASE size # 0
  BY <1>3, <1>5, <1>6, <1>7, <1>10, BlockInside
<1> QED
  BY <1>9, <1>10

\* pmm_deinit_region reserves exactly the pages the region touches.
LEMMA ReservedMeaning ==
    ASSUME NEW b \in Nat, NEW base \in Nat, NEW size \in 0 .. ADDR_SPACE - 1
    PROVE  b \in ReservedBy([base |-> base, size |-> size])
           <=> BlockBytes(b) \cap Bytes([base |-> base, size |-> size]) # {}
<1> DEFINE r == [base |-> base, size |-> size]
           start == base \div BLOCK_SIZE
           end == (base + size + BLOCK_SIZE - 1) \div BLOCK_SIZE
<1> USE AddrSpaceType
<1>1. size % ADDR_SPACE = size
  OBVIOUS
<1>2. ReservedBy(r) = IF size = 0 THEN {} ELSE start .. end - 1
  BY <1>1 DEF ReservedBy
<1>3. start \in Int /\ end \in Int
  BY DivMod
<1>4. b + 1 <= start <=> (b + 1) * BLOCK_SIZE <= base
  BY DivFloor
<1>5. end <= b <=> base + size <= b * BLOCK_SIZE
  <2> DEFINE top == base + size
  <2>1. top \in Int
    OBVIOUS
  <2> HIDE DEF top
  <2>2. (top + BLOCK_SIZE - 1) \div BLOCK_SIZE <= b <=> top <= b * BLOCK_SIZE
    BY <2>1, DivCeil
  <2> QED
    BY <2>2 DEF top
<1>6. b \in start .. end - 1 <=> ~(b + 1 <= start) /\ ~(end <= b)
  BY <1>3
<1>7. b * BLOCK_SIZE \in Nat /\ (b + 1) * BLOCK_SIZE \in Nat
  OBVIOUS
<1> HIDE DEF start, end
<1>8. b \in ReservedBy(r) <=> /\ size # 0
                              /\ ~((b + 1) * BLOCK_SIZE <= base)
                              /\ ~(base + size <= b * BLOCK_SIZE)
  BY <1>2, <1>4, <1>5, <1>6
<1> QED
  BY <1>7, <1>8, BlockTouches

\* Every region pmm_init reserves is a pair of 32-bit numbers.
LEMMA ReservedType ==
    ASSUME NEW m \in Boots, NEW r \in InitialReserved(m)
    PROVE  \E base \in Nat, size \in 0 .. ADDR_SPACE - 1 :
               r = [base |-> base, size |-> size]
<1>1. [base |-> 0, size |-> LOW_MEMORY] \in Regions
  BY SizesAssumption, AddrSpaceType DEF Regions
<1>2. KERNEL_END > KERNEL_START =>
        [base |-> KERNEL_START, size |-> KERNEL_END - KERNEL_START] \in Regions
  BY SizesAssumption, AddrSpaceType DEF Regions
<1>3. m.present => {m.info, m.mmap, m.mods, m.fb} \subseteq Regions
  BY BootsAssumption
<1>4. r \in Regions
  BY <1>1, <1>2, <1>3 DEF InitialReserved
<1> QED
  BY <1>4 DEF Regions

\* A block below the bitmap's end that lies inside a region ending at `top' is
\* below the limit computed from `top'.
LEMMA BelowLimit ==
    ASSUME NEW b \in Blocks, NEW top \in Nat, (b + 1) * BLOCK_SIZE <= top
    PROVE  /\ b < Capped(ADDR_TO_BLOCK(top))
           /\ b < Capped(ADDR_TO_BLOCK(IF top > ADDR_SPACE THEN ADDR_SPACE
                                                           ELSE top))
<1>1. b + 1 \in Int /\ b + 1 <= MAX_BLOCKS /\ MAX_BLOCKS \in Nat /\ b \in Nat
  BY SizesAssumption DEF Blocks
<1>2. (b + 1) * BLOCK_SIZE <= ADDR_SPACE
  BY <1>1, SizesAssumption DEF ADDR_SPACE
<1>3. ASSUME NEW a \in Nat, (b + 1) * BLOCK_SIZE <= a
      PROVE  b < Capped(ADDR_TO_BLOCK(a))
  <2> DEFINE n == b + 1
             q == a \div BLOCK_SIZE
  <2>1. n \in Int /\ n * BLOCK_SIZE <= a
    BY <1>1, <1>3
  <2>2. q \in Int
    BY AddrSpaceType, DivMod
  <2> HIDE DEF n
  <2>3. n <= q
    BY <2>1, AddrSpaceType, DivFloor
  <2> HIDE DEF q
  <2>4. b < Capped(q)
    BY <1>1, <2>2, <2>3 DEF Capped, n
  <2> QED
    BY <2>4 DEF ADDR_TO_BLOCK, q
<1> QED
  BY <1>2, <1>3, AddrSpaceType

\* What pmm_liberar_disponiveis_cb releases of one available region lies inside
\* the region; where no sum wraps it is every block that does.
LEMMA EntryReleased ==
    ASSUME NEW m \in Boots, NoWrap(m), NEW b \in Blocks, HasMap(m),
           NEW e \in Available(m),
           NEW cut, cut = IF Fim(e) > ADDR_SPACE THEN ADDR_SPACE - e.addr ELSE e.len,
           NEW whole, whole = [base |-> e.addr, size |-> e.len],
           NEW clipped, clipped = [base |-> e.addr, size |-> cut]
    PROVE  /\ e.addr < ADDR_SPACE /\ b \in ReleasedBy(clipped)
              => BlockBytes(b) \subseteq Bytes(whole)
           /\ NoWrap64(m) /\ BlockBytes(b) \subseteq Bytes(whole)
              => /\ e.addr < ADDR_SPACE /\ b \in ReleasedBy(clipped)
                 /\ b < InitialMax(m)
<1> USE SizesAssumption, AddrSpaceType
<1>1. PICK n, w : n = b * BLOCK_SIZE /\ w = (b + 1) * BLOCK_SIZE
  OBVIOUS
<1>2. /\ b \in Nat /\ n \in Nat /\ w \in Nat /\ n < w /\ w = n + BLOCK_SIZE
      /\ w <= ADDR_SPACE
  BY <1>1 DEF Blocks, ADDR_SPACE
<1>3. /\ e.addr \in 0 .. UINT64 - 1 /\ e.len \in 0 .. UINT64 - 1
      /\ Fim(e) \in 0 .. UINT64 - 1 /\ Fim(e) <= Ceiling(m) /\ Ceiling(m) \in Nat
  BY CeilingIsHighest
<1>4. e.addr + e.len < UINT64 => Fim(e) = e.addr + e.len
  <2>1. PICK sum \in Nat : sum = e.addr + e.len
    BY <1>3
  <2>2. sum < UINT64 => sum % UINT64 = sum
    OBVIOUS
  <2> QED
    BY <2>1, <2>2 DEF Fim
<1>5. e.addr < ADDR_SPACE => e.addr + BLOCK_SIZE <= ADDR_SPACE
                             /\ (e.addr > 0 \/ e.len < ADDR_SPACE)
  BY DEF NoWrap, HasMap
<1>6. BlockBytes(b) \subseteq Bytes(whole) <=> e.addr <= n /\ w <= e.addr + e.len
  BY <1>1, <1>2, <1>3, BlockInside
<1>7. ASSUME e.addr < ADDR_SPACE, NEW size, size = cut % ADDR_SPACE
      PROVE  /\ size \in 0 .. ADDR_SPACE - 1
             /\ b \in ReleasedBy(clipped) <=> e.addr <= n /\ w <= e.addr + size
  <2>1. cut \in Nat
    BY <1>3, <1>7
  <2>2. size \in 0 .. ADDR_SPACE - 1
    <3>1. cut \in Int /\ ADDR_SPACE \in Nat \ {0}
      BY <2>1
    <3>2. cut % ADDR_SPACE \in 0 .. ADDR_SPACE - 1
      BY ONLY <3>1, DivMod
    <3> QED
      BY <1>7, <3>2
  <2>3. size % ADDR_SPACE = size
    BY <2>2
  <2>4. ReleasedBy(clipped) = ReleasedBy([base |-> e.addr, size |-> size])
    BY <1>7, <2>3 DEF ReleasedBy
  <2>5. b \in ReleasedBy([base |-> e.addr, size |-> size])
        <=> BlockBytes(b) \subseteq Bytes([base |-> e.addr, size |-> size])
    BY <1>2, <1>3, <1>5, <1>7, <2>2, ReleasedMeaning
  <2>6. BlockBytes(b) \subseteq Bytes([base |-> e.addr, size |-> size])
        <=> e.addr <= n /\ w <= e.addr + size
    BY <1>1, <1>2, <1>3, <2>2, BlockInside
  <2> QED
    BY <2>2, <2>4, <2>5, <2>6
<1>8. PICK size : size = cut % ADDR_SPACE
  OBVIOUS
<1>9. ASSUME e.addr + e.len < UINT64, e.addr < ADDR_SPACE
      PROVE  /\ cut \in 0 .. ADDR_SPACE - 1 /\ size = cut
             /\ w <= e.addr + cut <=> w <= e.addr + e.len
  <2>1. cut \in 0 .. ADDR_SPACE - 1
    BY <1>3, <1>4, <1>5, <1>9
  <2>2. size = cut
    BY <1>8, <2>1
  <2> QED
    BY <1>2, <1>3, <1>4, <1>9, <2>1, <2>2
<1>10. ASSUME e.addr < ADDR_SPACE, b \in ReleasedBy(clipped)
       PROVE  BlockBytes(b) \subseteq Bytes(whole)
  <2>1. size \in 0 .. ADDR_SPACE - 1 /\ e.addr <= n /\ w <= e.addr + size
    BY <1>7, <1>8, <1>10
  <2>2. w <= e.addr + e.len
    BY <1>2, <1>3, <1>9, <1>10, <2>1
  <2> QED
    BY <1>6, <2>1, <2>2
<1>11. ASSUME NoWrap64(m), BlockBytes(b) \subseteq Bytes(whole)
       PROVE  e.addr < ADDR_SPACE /\ b \in ReleasedBy(clipped) /\ b < InitialMax(m)
  <2>1. e.addr + e.len < UINT64
    BY <1>11 DEF NoWrap64, HasMap
  <2>2. e.addr <= n /\ w <= e.addr + e.len
    BY <1>6, <1>11
  <2>3. e.addr < ADDR_SPACE
    BY <1>2, <1>3, <2>2
  <2>4. b \in ReleasedBy(clipped)
    BY <1>7, <1>8, <1>9, <2>1, <2>2, <2>3
  <2>5. w <= Ceiling(m)
    BY <1>2, <1>3, <1>4, <2>1, <2>2
  <2>6. b < Capped(ADDR_TO_BLOCK(IF Ceiling(m) > ADDR_SPACE THEN ADDR_SPACE
                                                            ELSE Ceiling(m)))
    BY <1>1, <1>3, <2>5, BelowLimit
  <2> QED
    BY <2>3, <2>4, <2>6 DEF InitialMax
<1> QED
  BY <1>10, <1>11

\* When no 32-bit sum wraps, the blocks below the limit that pmm_init releases
\* lie inside one reported available region; when no 64-bit sum wraps either,
\* they are exactly those blocks.
LEMMA ReleasedIsWhollyFree ==
    ASSUME NEW m \in Boots, NoWrap(m), NEW b \in Blocks
    PROVE  /\ b \in UNION {ReleasedBy(r) : r \in InitialFree(m)} => WhollyFree(m, b)
           /\ NoWrap64(m) /\ WhollyFree(m, b)
              => /\ b < InitialMax(m)
                 /\ b \in UNION {ReleasedBy(r) : r \in InitialFree(m)}
<1> USE SizesAssumption, AddrSpaceType
<1>1. /\ b \in Nat /\ MAX_BLOCKS \in Nat /\ b + 1 <= MAX_BLOCKS
      /\ b * BLOCK_SIZE \in Nat /\ (b + 1) * BLOCK_SIZE \in Nat
      /\ b * BLOCK_SIZE < (b + 1) * BLOCK_SIZE
  BY DEF Blocks
<1>3. CASE HasMap(m)
  <2> DEFINE whole(e) == [base |-> e.addr, size |-> e.len]
             cut(e) == IF Fim(e) > ADDR_SPACE THEN ADDR_SPACE - e.addr ELSE e.len
             clipped(e) == [base |-> e.addr, size |-> cut(e)]
             low == {e \in Available(m) : e.addr < ADDR_SPACE}
  <2>1. InitialFree(m) = {clipped(e) : e \in low}
    BY <1>3 DEF InitialFree
  <2>2. ReportedFree(m) = {whole(e) : e \in Available(m)}
    BY <1>3 DEF ReportedFree
  <2>3. ASSUME NEW e \in Available(m)
        PROVE  /\ e \in low /\ b \in ReleasedBy(clipped(e))
                  => BlockBytes(b) \subseteq Bytes(whole(e))
               /\ NoWrap64(m) /\ BlockBytes(b) \subseteq Bytes(whole(e))
                  => e \in low /\ b \in ReleasedBy(clipped(e)) /\ b < InitialMax(m)
    BY <1>3, EntryReleased
  <2> HIDE DEF whole, clipped, cut
  <2> QED
    BY <2>1, <2>2, <2>3 DEF WhollyFree
<1>4. ASSUME NEW size \in 0 .. ADDR_SPACE - 1, LOW_MEMORY + size <= ADDR_SPACE,
             InitialFree(m) = {[base |-> LOW_MEMORY, size |-> size]},
             ReportedFree(m) = {[base |-> LOW_MEMORY, size |-> size]},
             InitialMax(m) = Capped(ADDR_TO_BLOCK(LOW_MEMORY + size))
      PROVE  /\ b \in UNION {ReleasedBy(r) : r \in InitialFree(m)} => WhollyFree(m, b)
             /\ WhollyFree(m, b)
                => /\ b < InitialMax(m)
                   /\ b \in UNION {ReleasedBy(r) : r \in InitialFree(m)}
  <2> DEFINE r == [base |-> LOW_MEMORY, size |-> size]
  <2>1. BlockBytes(b) \subseteq Bytes(r)
        <=> LOW_MEMORY <= b * BLOCK_SIZE
            /\ (b + 1) * BLOCK_SIZE <= LOW_MEMORY + size
    BY <1>1, BlockInside
  <2>2. b \in ReleasedBy(r) <=> BlockBytes(b) \subseteq Bytes(r)
    BY <1>1, ReleasedMeaning
  <2>3. BlockBytes(b) \subseteq Bytes(r) => b < InitialMax(m)
    BY <1>1, <1>4, <2>1, BelowLimit
  <2> QED
    BY <1>4, <2>2, <2>3 DEF WhollyFree
<1>5. CASE ~HasMap(m) /\ m.present /\ m.hasMemory
  <2>1. /\ m.mem_upper \in Nat
        /\ LOW_MEMORY + m.mem_upper \in 0 .. ADDR_SPACE - 1
    BY <1>5, BootsAssumption DEF NoWrap
  <2>2. (LOW_MEMORY + m.mem_upper) % ADDR_SPACE = LOW_MEMORY + m.mem_upper
    BY <2>1
  <2> QED
    BY <1>4, <1>5, <2>1, <2>2 DEF InitialFree, ReportedFree, InitialMax
<1>6. CASE ~HasMap(m) /\ ~(m.present /\ m.hasMemory)
  <2> DEFINE size == FALLBACK_END - LOW_MEMORY
  <2>1. size \in 0 .. ADDR_SPACE - 1 /\ LOW_MEMORY + size = FALLBACK_END
    OBVIOUS
  <2>2. FALLBACK_END \div BLOCK_SIZE \in 0 .. MAX_BLOCKS
    BY <1>1, DivBound DEF ADDR_SPACE
  <2>3. Capped(ADDR_TO_BLOCK(FALLBACK_END)) = ADDR_TO_BLOCK(FALLBACK_END)
    BY <2>2 DEF Capped, ADDR_TO_BLOCK
  <2> QED
    BY <1>4, <1>6, <2>1, <2>3 DEF InitialFree, ReportedFree, InitialMax
<1> QED
  BY <1>3, <1>5, <1>6

\* pmm_init leaves free only allocatable blocks, and where no 64-bit sum wraps
\* all of them.
LEMMA InitExact ==
    ASSUME NEW m \in Boots, NoWrap(m), NEW q, q = PmmAfterInit(m)
    PROVE  /\ FreeOf(q) \subseteq Allocatable(m)
           /\ NoWrap64(m) => Allocatable(m) \subseteq FreeOf(q)
<1> DEFINE released == UNION {ReleasedBy(r) : r \in InitialFree(m)}
           reserved == UNION {ReservedBy(r) : r \in InitialReserved(m)}
<1>1. FreeOf(q) = ((0 .. InitialMax(m) - 1) \cap released) \ reserved
  BY InitLemma
<1>2. InitialMax(m) \in 0 .. MAX_BLOCKS /\ MAX_BLOCKS \in Nat
  BY InitialMaxType, SizesAssumption
<1>3. 0 .. InitialMax(m) - 1 = {b \in Blocks : b < InitialMax(m)}
  BY <1>2 DEF Blocks
<1>4. \A b \in Blocks :
        /\ b \in released => WhollyFree(m, b)
        /\ NoWrap64(m) /\ WhollyFree(m, b) => b < InitialMax(m) /\ b \in released
  BY ReleasedIsWhollyFree
<1>5. \A b \in Blocks : Critical(m, b) <=> b \in reserved
  <2> TAKE b \in Blocks
  <2>1. b \in Nat
    BY <1>2 DEF Blocks
  <2>2. \A r \in InitialReserved(m) :
          BlockBytes(b) \cap Bytes(r) # {} <=> b \in ReservedBy(r)
    <3> TAKE r \in InitialReserved(m)
    <3>1. PICK base \in Nat, size \in 0 .. ADDR_SPACE - 1 :
            r = [base |-> base, size |-> size]
      BY ReservedType
    <3> QED
      BY <2>1, <3>1, ReservedMeaning
  <2> QED
    BY <2>2 DEF Critical
<1> HIDE DEF released, reserved
<1> QED
  BY <1>1, <1>3, <1>4, <1>5 DEF Allocatable

\* Before pmm_init nothing is owned; after it the chosen map is one of Boots.
ExactInv ==
    /\ IInv
    /\ booted => mbd \in Boots
    /\ BitmapExact

LEMMA NextExact ==
    ASSUME ExactInv, IInv', [Next]_vars
    PROVE  ExactInv'
<1>1. CASE PmmInit
  <2>1. mbd' \in Boots /\ pmm' = PmmAfterInit(mbd') /\ owned' = owned
    BY <1>1 DEF PmmInit
  <2>2. NoWrap(mbd') => /\ FreeOf(pmm') \subseteq Allocatable(mbd')
                        /\ NoWrap64(mbd') => Allocatable(mbd') \subseteq FreeOf(pmm')
    BY <2>1, InitExact
  <2>3. owned = {}
    BY <1>1 DEF PmmInit, ExactInv, IInv, Managed
  <2> QED
    BY <2>1, <2>2, <2>3 DEF ExactInv, BitmapExact
<1>2. ASSUME NEW n \in Counts, AllocBlocks(n) PROVE ExactInv'
  <2> DEFINE s == FirstRun(FreeOf(pmm), n)
  <2>1. CASE s < 0
    <3>1. UNCHANGED <<pmm, owned, mbd, booted>>
      BY <1>2, <2>1 DEF AllocBlocks
    <3> QED
      BY <3>1 DEF ExactInv, BitmapExact, FreeOf, Managed
  <2>2. CASE ~(s < 0)
    <3>1. Run(s, n) \subseteq FreeOf(pmm)
      BY <2>2, FoundRun, SizesAssumption DEF ExactInv
    <3>2. /\ pmm' = SetBlocks(pmm, Run(s, n))
          /\ owned' = owned \cup Run(s, n)
          /\ UNCHANGED <<mbd, booted>>
      BY <1>2, <2>2 DEF AllocBlocks
    <3>3. FreeOf(pmm') = FreeOf(pmm) \ Run(s, n)
      BY <3>2, SetBlocksLemma DEF ExactInv, IInv
    <3>4. ASSUME booted, NoWrap(mbd)
          PROVE  /\ owned' \subseteq Allocatable(mbd)
                 /\ FreeOf(pmm') \subseteq Allocatable(mbd) \ owned'
                 /\ NoWrap64(mbd) => Allocatable(mbd) \ owned' \subseteq FreeOf(pmm')
      BY <3>1, <3>2, <3>3, <3>4 DEF ExactInv, BitmapExact
    <3> QED
      BY <3>2, <3>4 DEF ExactInv, BitmapExact
  <2> QED
    BY <2>1, <2>2
<1>3. ASSUME NEW b \in Blocks, NEW n \in Counts,
             FreeBlocks(BLOCK_TO_ADDR(b), n)
      PROVE  ExactInv'
  <2> DEFINE run == Run(ADDR_TO_BLOCK(BLOCK_TO_ADDR(b)), n)
  <2>1. UNCHANGED <<mbd, booted>>
    BY <1>3 DEF FreeBlocks
  <2>2. CASE UNCHANGED <<pmm, owned>>
    BY <2>1, <2>2 DEF ExactInv, BitmapExact, FreeOf, Managed
  <2>3. CASE pmm' = UnsetBlocks(pmm, run) /\ owned' = owned \ run
    <3>1. FreeOf(pmm') = FreeOf(pmm) \cup (run \cap Managed(pmm))
      BY <2>3, UnsetBlocksLemma DEF ExactInv, IInv
    <3>2. /\ run \cap Managed(pmm) \subseteq owned \cup FreeOf(pmm)
          /\ owned \subseteq Managed(pmm)
      BY <1>3 DEF FreeBlocks, ExactInv, IInv
    <3>3. ASSUME booted, NoWrap(mbd)
          PROVE  /\ owned' \subseteq Allocatable(mbd)
                 /\ FreeOf(pmm') \subseteq Allocatable(mbd) \ owned'
                 /\ NoWrap64(mbd) => Allocatable(mbd) \ owned' \subseteq FreeOf(pmm')
      BY <2>3, <3>1, <3>2, <3>3 DEF ExactInv, BitmapExact
    <3> QED
      BY <2>1, <3>3 DEF ExactInv, BitmapExact
  <2> QED
    BY <1>3, <2>2, <2>3 DEF FreeBlocks
<1>4. CASE UNCHANGED vars
  BY <1>4 DEF ExactInv, BitmapExact, vars, FreeOf, Managed
<1> QED
  BY <1>1, <1>2, <1>3, <1>4 DEF Next

\* Under every memory map on which 32-bit arithmetic does not wrap, the free
\* blocks are at all times whole pages of reported available memory that hold
\* nothing critical and that no client owns; unless a region passes 2^64 and
\* pmm_descobrir_teto_cb loses sight of memory, they are all such pages.
THEOREM BitmapIsExact ==
    Spec => []BitmapExact
<1>1. Init => ExactInv
  BY InitIInv DEF Init, ExactInv, BitmapExact
<1>2. ExactInv /\ IInv' /\ [Next]_vars => ExactInv'
  BY NextExact
<1>3. ExactInv => BitmapExact
  BY DEF ExactInv
<1> QED
  BY <1>1, <1>2, <1>3, Invariance, PTL DEF Spec
=============================================================================
