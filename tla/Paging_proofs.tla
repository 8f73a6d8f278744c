----------------------------- MODULE Paging_proofs -----------------------------
(***************************************************************************)
(* Proofs about Paging, for tables, directories and pools of any size.  The *)
(* structures are changed in two ways only, a table taken from the pool and *)
(* an entry written in a table that is owned; one lemma each says what that *)
(* does to the ownership of the tables and to the translations.             *)
(***************************************************************************)
EXTENDS Paging, ArithLemmas, FiniteSetTheorems

Dirs == 0 .. DIR_ENTRIES - 1
Slots == 0 .. ENTRIES - 1
Word == 0 .. ADDR_SPACE - 1

PtType == [dir : [Dirs -> TableIds \cup {NoTable}],
           tables : [TableIds -> [Slots -> EntryType]],
           used : 0 .. MAX_TABLES]

UsedDirs(p) == {d \in Dirs : p.dir[d] # NoTable}

\* Each table in use belongs to one directory entry, and they are counted.
Owned(p) ==
    /\ p \in PtType
    /\ IsFiniteSet(UsedDirs(p)) /\ Cardinality(UsedDirs(p)) = p.used
    /\ {p.dir[d] : d \in UsedDirs(p)} = 0 .. p.used - 1
    /\ \A c, d \in UsedDirs(p) : p.dir[c] = p.dir[d] => c = d

\* The TLB is used between the store to CR0 and paging_active only by code that
\* maps nothing.
TlbPhase ==
    /\ ~cr0_pg => tlb = {}
    /\ cr0_pg /\ ~paging_active => pc = "active"

\* The loop stands on a page of the address space.
Loop ==
    /\ range.flags \in Flags
    /\ pc = "map" => addr % PAGE_SIZE = 0
    /\ fb \in Word \X Word

PInv == TypeOK /\ Owned(pt) /\ TlbPhase /\ Loop /\ TlbCoherent

-----------------------------------------------------------------------------
(* Addresses                                                                *)

LEMMA Sizes ==
    /\ PAGE_SIZE \in Nat \ {0} /\ ENTRIES \in Nat \ {0} /\ DIR_ENTRIES \in Nat \ {0}
    /\ MAX_TABLES \in Nat
    /\ ADDR_SPACE \in Nat \ {0} /\ PAGE_SIZE <= ADDR_SPACE
    /\ ADDR_SPACE = (DIR_ENTRIES * ENTRIES) * PAGE_SIZE
    /\ DIR_ENTRIES * ENTRIES \in Nat \ {0}
<1>1. /\ PAGE_SIZE \in Nat \ {0} /\ ENTRIES \in Nat \ {0}
      /\ DIR_ENTRIES \in Nat \ {0} /\ MAX_TABLES \in Nat
  BY PagingAssumption
<1>2. \A a, b \in Nat \ {0} : a * b \in Nat \ {0} /\ b <= a * b
  OBVIOUS
<1> QED
  BY <1>1, <1>2 DEF ADDR_SPACE

\* The page of an address, its directory entry and its slot in the table.
LEMMA PageOf ==
    ASSUME NEW a \in Word
    PROVE  /\ a \div PAGE_SIZE \in VPages
           /\ DirIndex(a) \in Dirs /\ TableIndex(a) \in Slots
           /\ DirIndex(a) = (a \div PAGE_SIZE) \div ENTRIES
           /\ TableIndex(a) = (a \div PAGE_SIZE) % ENTRIES
<1> DEFINE page == a \div PAGE_SIZE
           n == DIR_ENTRIES * ENTRIES
<1>1. /\ PAGE_SIZE \in Nat \ {0} /\ ENTRIES \in Nat \ {0} /\ DIR_ENTRIES \in Nat \ {0}
      /\ n \in Nat \ {0} /\ ADDR_SPACE = n * PAGE_SIZE /\ a \in Nat /\ a < n * PAGE_SIZE
  BY Sizes DEF Word
<1>0. page \in Int /\ \A k \in Int : k <= page <=> k * PAGE_SIZE <= a
  <2>1. a \in Int
    BY <1>1
  <2> QED
    BY <1>1, <2>1, DivFloor, DivMod
<1>2. page \in 0 .. n - 1
  <2> HIDE DEF page
  <2>1. 0 <= page
    <3>1. 0 * PAGE_SIZE <= a
      BY <1>1
    <3> QED
      BY <1>0, <3>1
  <2>2. ~(n <= page)
    <3>1. n \in Int /\ ~(n * PAGE_SIZE <= a)
      BY <1>1
    <3> QED
      BY <1>0, <3>1
  <2> QED
    BY <1>0, <1>1, <2>1, <2>2
<1>3. page \div ENTRIES \in Dirs
  <2> HIDE DEF page, n
  <2>1. page \in Int /\ page < n /\ 0 <= page
    BY <1>1, <1>2
  <2>2. page \div ENTRIES \in Int /\ 0 <= page \div ENTRIES
    <3>1. 0 \in Int /\ 0 * ENTRIES <= page
      BY <1>1, <2>1
    <3> QED
      BY <1>1, <2>1, <3>1, DivFloor, DivMod
  <2>3. ~(DIR_ENTRIES <= page \div ENTRIES)
    BY <1>1, <2>1, DivFloor DEF n
  <2> QED
    BY <1>1, <2>2, <2>3 DEF Dirs
<1>4. page % ENTRIES \in Slots
  <2> HIDE DEF page
  <2> QED
    BY <1>1, <1>2, DivMod DEF Slots
<1>5. a \div (ENTRIES * PAGE_SIZE) = page \div ENTRIES
  <2> DEFINE q == page \div ENTRIES
             r == a \div (ENTRIES * PAGE_SIZE)
  <2>1. ENTRIES * PAGE_SIZE \in Nat \ {0} /\ q \in Int /\ r \in Int
    BY <1>1, <1>2, DivMod
  <2>2. \A m \in Int : m <= r <=> m * (ENTRIES * PAGE_SIZE) <= a
    BY <1>1, <2>1, DivFloor
  <2>3. \A m \in Int : m <= q <=> (m * ENTRIES) * PAGE_SIZE <= a
    <3> TAKE m \in Int
    <3>1. m <= q <=> m * ENTRIES <= page
      BY <1>1, <1>2, DivFloor
    <3>2. m * ENTRIES <= page <=> (m * ENTRIES) * PAGE_SIZE <= a
      <4> HIDE DEF page
      <4>1. m * ENTRIES \in Int
        BY <1>1
      <4> QED
        BY <1>0, <4>1
    <3> QED
      BY <3>1, <3>2
  <2>4. \A m \in Int : (m * ENTRIES) * PAGE_SIZE = m * (ENTRIES * PAGE_SIZE)
    BY <1>1
  <2> HIDE DEF q, r
  <2>5. \A m \in Int : m <= q <=> m <= r
    BY <2>2, <2>3, <2>4
  <2>6. q = r
    BY <2>1, <2>5
  <2> QED
    BY <2>6 DEF q, r
<1> QED
  BY <1>1, <1>2, <1>3, <1>4, <1>5 DEF DirIndex, TableIndex, VPages

\* Where a page is in the tables; two pages of one table differ in the slot.
LEMMA PageInTable ==
    ASSUME NEW v \in VPages
    PROVE  /\ v \div ENTRIES \in Dirs /\ v % ENTRIES \in Slots
           /\ \A w \in VPages :
                 w \div ENTRIES = v \div ENTRIES /\ w % ENTRIES = v % ENTRIES => w = v
<1>1. /\ ENTRIES \in Nat \ {0} /\ DIR_ENTRIES \in Nat \ {0}
      /\ v \in Nat /\ v < DIR_ENTRIES * ENTRIES
  <2>1. DIR_ENTRIES * ENTRIES \in Nat
    BY Sizes
  <2> QED
    BY <2>1, Sizes DEF VPages
<1>2. v % ENTRIES \in Slots /\ v \div ENTRIES \in Int
  BY <1>1, DivMod DEF Slots
<1>3. \A k \in Int : k <= v \div ENTRIES <=> k * ENTRIES <= v
  BY <1>1, DivFloor
<1>4. 0 <= v \div ENTRIES
  <2>1. 0 * ENTRIES <= v
    BY <1>1
  <2> QED
    BY <1>3, <2>1
<1>5. ~(DIR_ENTRIES <= v \div ENTRIES)
  <2>1. DIR_ENTRIES \in Int /\ ~(DIR_ENTRIES * ENTRIES <= v)
    BY <1>1
  <2> QED
    BY <1>3, <2>1
<1>6. \A w \in Nat : w = (ENTRIES * (w \div ENTRIES)) + (w % ENTRIES)
  BY <1>1, DivMod
<1>7. VPages \subseteq Nat
  BY DEF VPages
<1> QED
  BY <1>1, <1>2, <1>4, <1>5, <1>6, <1>7 DEF Dirs

\* Rounding an address down gives the start of a page at or below it.
LEMMA AlignDown ==
    ASSUME NEW a \in Nat
    PROVE  align_down(a) \in 0 .. a /\ align_down(a) % PAGE_SIZE = 0
<1>1. PAGE_SIZE \in Nat \ {0}
  BY Sizes
<1>2. /\ a \div PAGE_SIZE \in Int /\ a % PAGE_SIZE \in 0 .. PAGE_SIZE - 1
      /\ a = (PAGE_SIZE * (a \div PAGE_SIZE)) + (a % PAGE_SIZE)
  BY <1>1, DivMod
<1>3. align_down(a) = PAGE_SIZE * (a \div PAGE_SIZE)
  <2>1. PAGE_SIZE * (a \div PAGE_SIZE) \in Int
    BY <1>1, <1>2
  <2> QED
    BY <1>2, <2>1 DEF align_down
<1>4. 0 <= a \div PAGE_SIZE
  BY <1>1, DivFloor
<1>5. \A n \in Nat : PAGE_SIZE * n \in Nat /\ (PAGE_SIZE * n) % PAGE_SIZE = 0
  BY <1>1
<1> QED
  BY <1>1, <1>2, <1>3, <1>4, <1>5

\* From a page of the address space the next one starts inside it, or at its end.
LEMMA NextPage ==
    ASSUME NEW a \in Word, a % PAGE_SIZE = 0
    PROVE  a + PAGE_SIZE \in 0 .. ADDR_SPACE /\ (a + PAGE_SIZE) % PAGE_SIZE = 0
<1> DEFINE k == a \div PAGE_SIZE
           n == DIR_ENTRIES * ENTRIES
<1>1. PAGE_SIZE \in Nat \ {0} /\ n \in Nat /\ ADDR_SPACE = n * PAGE_SIZE /\ a \in Nat
  BY Sizes DEF Word
<1>2. k \in Int /\ a = PAGE_SIZE * k
  BY <1>1, DivMod
<1>3. ~(n <= k)
  BY <1>1, DivFloor DEF Word
<1> HIDE DEF k, n
<1>4. k + 1 <= n
  BY <1>1, <1>2, <1>3
<1>5. (k + 1) * PAGE_SIZE <= n * PAGE_SIZE
  <2>1. \A b, c \in Int : b <= c => b * PAGE_SIZE <= c * PAGE_SIZE
    BY <1>1
  <2> QED
    BY <1>1, <1>2, <1>4, <2>1
<1>6. a + PAGE_SIZE = (k + 1) * PAGE_SIZE
  BY <1>1, <1>2
<1>7. \A m \in Int : (m * PAGE_SIZE) % PAGE_SIZE = 0
  BY <1>1
<1> QED
  BY <1>1, <1>2, <1>5, <1>6, <1>7

-----------------------------------------------------------------------------
(* The two changes to the structures                                        *)

\* The table a directory entry gets from paging_get_table.
LEMMA TableTaken ==
    ASSUME NEW p, Owned(p), NEW d \in Dirs
    PROVE  /\ Owned(GetTable(p, d))
           /\ \A page \in VPages : Translation(GetTable(p, d), page) = Translation(p, page)
<1> DEFINE q == GetTable(p, d)
<1>1. /\ p \in PtType /\ p.dir \in [Dirs -> TableIds \cup {NoTable}]
      /\ p.tables \in [TableIds -> [Slots -> EntryType]] /\ p.used \in 0 .. MAX_TABLES
  BY DEF Owned, PtType
<1>2. CASE p.dir[d] # NoTable \/ p.used >= MAX_TABLES
  BY <1>2 DEF GetTable
<1>3. CASE ~(p.dir[d] # NoTable \/ p.used >= MAX_TABLES)
  <2>1. /\ p.dir[d] = NoTable /\ p.used \in TableIds /\ p.used + 1 \in 0 .. MAX_TABLES
        /\ p.used \in Nat
    BY <1>1, <1>3, Sizes DEF TableIds
  <2>2. q = [dir |-> [p.dir EXCEPT ![d] = p.used],
             tables |-> [p.tables EXCEPT ![p.used] = [i \in Slots |-> EMPTY]],
             used |-> p.used + 1]
    BY <1>3 DEF GetTable, Slots
  <2> HIDE DEF q
  <2>3. q \in PtType
    <3>1. q.dir \in [Dirs -> TableIds \cup {NoTable}]
      BY <1>1, <2>1, <2>2
    <3>2. q.tables \in [TableIds -> [Slots -> EntryType]]
      BY <1>1, <2>1, <2>2 DEF EntryType
    <3> QED
      BY <2>1, <2>2, <3>1, <3>2 DEF PtType
  <2>4. /\ UsedDirs(q) = UsedDirs(p) \cup {d} /\ d \notin UsedDirs(p)
        /\ q.dir[d] = p.used /\ \A c \in UsedDirs(p) : q.dir[c] = p.dir[c]
    BY <1>1, <2>1, <2>2 DEF UsedDirs, NoTable
  <2>5. IsFiniteSet(UsedDirs(q)) /\ Cardinality(UsedDirs(q)) = q.used
    <3>1. IsFiniteSet(UsedDirs(p)) /\ Cardinality(UsedDirs(p)) = p.used
      BY DEF Owned
    <3>2. IsFiniteSet(UsedDirs(p) \cup {d})
          /\ Cardinality(UsedDirs(p) \cup {d}) = Cardinality(UsedDirs(p)) + 1
      BY <2>4, <3>1, FS_AddElement
    <3> QED
      BY <2>2, <2>4, <3>1, <3>2
  <2>6. \A c \in UsedDirs(p) : p.dir[c] \in 0 .. p.used - 1
    BY DEF Owned
  <2>7. {q.dir[c] : c \in UsedDirs(q)} = 0 .. q.used - 1
    <3>1. {q.dir[c] : c \in UsedDirs(q)} = {p.dir[c] : c \in UsedDirs(p)} \cup {p.used}
      BY <2>4
    <3>2. {p.dir[c] : c \in UsedDirs(p)} = 0 .. p.used - 1
      BY DEF Owned
    <3>3. (0 .. p.used - 1) \cup {p.used} = 0 .. q.used - 1
      BY <2>1, <2>2
    <3> QED
      BY <3>1, <3>2, <3>3
  <2>8. \A b, c \in UsedDirs(q) : q.dir[b] = q.dir[c] => b = c
    BY <2>1, <2>4, <2>6 DEF Owned
  <2>9. \A page \in VPages : Translation(q, page) = Translation(p, page)
    <3> TAKE page \in VPages
    <3>1. page \div ENTRIES \in Dirs /\ page % ENTRIES \in Slots
      BY PageInTable
    <3>2. CASE page \div ENTRIES = d
      BY <2>1, <2>2, <1>1, <3>1, <3>2 DEF Translation, NoTable, TableIds
    <3>3. CASE page \div ENTRIES # d /\ p.dir[page \div ENTRIES] = NoTable
      BY <1>1, <2>2, <3>1, <3>3 DEF Translation
    <3>4. CASE page \div ENTRIES # d /\ p.dir[page \div ENTRIES] # NoTable
      <4>1. p.dir[page \div ENTRIES] \in 0 .. p.used - 1
        BY <2>6, <3>1, <3>4 DEF UsedDirs
      <4>2. p.dir[page \div ENTRIES] \in TableIds /\ p.dir[page \div ENTRIES] # p.used
        BY <1>1, <3>1, <3>4, <4>1
      <4> QED
        BY <1>1, <2>2, <3>1, <3>4, <4>2 DEF Translation
    <3> QED
      BY <3>2, <3>3, <3>4
  <2> QED
    BY <2>3, <2>5, <2>7, <2>8, <2>9 DEF Owned, q
<1> QED
  BY <1>2, <1>3

\* No table is in use.
LEMMA NothingOwned ==
    ASSUME NEW p \in PtType, p.dir = [d \in Dirs |-> NoTable], p.used = 0
    PROVE  Owned(p)
<1>1. UsedDirs(p) = {}
  BY DEF UsedDirs
<1> QED
  BY <1>1, FS_EmptySet DEF Owned

\* A set without two elements.
LEMMA AtMostOne ==
    ASSUME NEW S, NEW e, S \subseteq {e}
    PROVE  Cardinality(S) <= 1
<1>1. CASE S = {}
  BY <1>1, FS_EmptySet
<1>2. CASE S = {e}
  BY <1>2, FS_Singleton
<1> QED
  BY <1>1, <1>2

\* The entry a page gets in the table its directory entry owns.
LEMMA EntryWritten ==
    ASSUME NEW p, Owned(p), NEW v \in VPages, p.dir[v \div ENTRIES] # NoTable,
           NEW e \in EntryType
    PROVE  LET q == [p EXCEPT !.tables[p.dir[v \div ENTRIES]][v % ENTRIES] = e]
           IN  /\ Owned(q)
               /\ \A page \in VPages :
                     Translation(q, page) = IF page = v THEN e ELSE Translation(p, page)
<1> DEFINE d == v \div ENTRIES
           t == p.dir[d]
           q == [p EXCEPT !.tables[t][v % ENTRIES] = e]
<1>1. /\ p \in PtType /\ p.dir \in [Dirs -> TableIds \cup {NoTable}]
      /\ p.tables \in [TableIds -> [Slots -> EntryType]] /\ p.used \in 0 .. MAX_TABLES
  BY DEF Owned, PtType
<1>2. d \in Dirs /\ v % ENTRIES \in Slots /\ t \in TableIds
  BY <1>1, PageInTable
<1>3. /\ q \in PtType /\ q.dir = p.dir /\ q.used = p.used
      /\ q.tables = [p.tables EXCEPT ![t][v % ENTRIES] = e]
  BY <1>1, <1>2 DEF PtType
<1> HIDE DEF q
<1>4. Owned(q)
  BY <1>3 DEF Owned, UsedDirs
<1>5. \A page \in VPages :
         Translation(q, page) = IF page = v THEN e ELSE Translation(p, page)
  <2> TAKE page \in VPages
  <2>1. page \div ENTRIES \in Dirs /\ page % ENTRIES \in Slots
    BY PageInTable
  <2>2. CASE page = v
    BY <1>1, <1>2, <1>3, <2>2 DEF Translation
  <2>3. CASE page # v /\ page \div ENTRIES = d
    <3>1. page % ENTRIES # v % ENTRIES
      BY <2>3, PageInTable
    <3> QED
      BY <1>1, <1>2, <1>3, <2>1, <2>3, <3>1 DEF Translation
  <2>4. CASE page \div ENTRIES # d /\ p.dir[page \div ENTRIES] = NoTable
    BY <1>2, <1>3, <2>4 DEF Translation
  <2>5. CASE page \div ENTRIES # d /\ p.dir[page \div ENTRIES] # NoTable
    <3>1. p.dir[page \div ENTRIES] \in TableIds /\ p.dir[page \div ENTRIES] # t
      BY <1>1, <1>2, <2>1, <2>5 DEF Owned, UsedDirs
    <3> QED
      BY <1>1, <1>2, <1>3, <2>1, <2>5, <3>1 DEF Translation
  <2> QED
    BY <2>2, <2>3, <2>4, <2>5
<1> QED
  BY <1>4, <1>5 DEF q

\* paging_map_page changes the translation of its page, and of no other.
LEMMA PageMapped ==
    ASSUME Owned(pt), NEW virt \in Word, NEW phys \in Word, NEW flags \in Flags,
           MapPage(virt, phys, flags)
    PROVE  /\ Owned(pt)'
           /\ IF MapPageStatus(virt, phys) = "OK"
              THEN /\ \A page \in VPages :
                         Translation(pt', page) =
                            IF page = virt \div PAGE_SIZE THEN Entry(phys, flags)
                            ELSE Translation(pt, page)
                   /\ tlb' = IF paging_active
                             THEN {c \in tlb : c.page # virt \div PAGE_SIZE} ELSE tlb
              ELSE UNCHANGED <<pt, tlb>>
<1> DEFINE v == virt \div PAGE_SIZE
           p == GetTable(pt, DirIndex(virt))
<1>1. /\ v \in VPages /\ DirIndex(virt) \in Dirs
      /\ DirIndex(virt) = v \div ENTRIES /\ TableIndex(virt) = v % ENTRIES
  BY PageOf
<1>2. Owned(p) /\ \A page \in VPages : Translation(p, page) = Translation(pt, page)
  BY <1>1, TableTaken
<1>3. Entry(phys, flags) \in EntryType
  BY DEF Entry, EntryType, Word
<1>4. CASE MapPageStatus(virt, phys) = "OK"
  <2>1. p.dir[v \div ENTRIES] # NoTable
    BY <1>1, <1>4 DEF MapPageStatus
  <2>2. /\ pt' = [p EXCEPT !.tables[p.dir[v \div ENTRIES]][v % ENTRIES]
                               = Entry(phys, flags)]
        /\ tlb' = IF paging_active
                  THEN {c \in tlb : c.page # virt \div PAGE_SIZE} ELSE tlb
    BY <1>1, <1>4 DEF MapPage
  <2> HIDE DEF v, p
  <2>3. /\ Owned(pt')
        /\ \A page \in VPages :
              Translation(pt', page) = IF page = v THEN Entry(phys, flags)
                                       ELSE Translation(p, page)
    BY <1>1, <1>2, <1>3, <2>1, <2>2, EntryWritten
  <2> QED
    BY <1>2, <1>4, <2>2, <2>3 DEF Owned, UsedDirs, v
<1>5. CASE MapPageStatus(virt, phys) # "OK"
  <2>1. UNCHANGED <<pt, tlb>>
    BY <1>5 DEF MapPage
  <2> QED
    BY <1>5, <2>1 DEF Owned, UsedDirs
<1> QED
  BY <1>4, <1>5

-----------------------------------------------------------------------------
(* The steps                                                                *)

LEMMA PInvInit == Init => PInv
<1> SUFFICES ASSUME Init PROVE PInv
  OBVIOUS
<1>1. /\ pt.dir = [d \in Dirs |-> NoTable] /\ pt.used = 0
      /\ pt.tables = [t \in TableIds |-> [i \in Slots |-> EMPTY]]
      /\ pt = [dir |-> pt.dir, tables |-> pt.tables, used |-> pt.used]
  BY DEF Init, Dirs, TableIds, Slots
<1>2. pt \in PtType
  <2>1. /\ pt.dir \in [Dirs -> TableIds \cup {NoTable}]
        /\ pt.tables \in [TableIds -> [Slots -> EntryType]]
        /\ pt.used \in 0 .. MAX_TABLES
    BY <1>1, Sizes DEF EntryType
  <2> QED
    BY <1>1, <2>1 DEF PtType
<1>3. Owned(pt)
  BY <1>1, <1>2, NothingOwned
<1>4. 0 \in Word /\ 0 \in 0 .. ADDR_SPACE /\ {} \in Flags
  BY Sizes DEF Word, Flags
<1>5. TypeOK
  <2>1. end \in 0 .. ADDR_SPACE - 1 /\ addr \in 0 .. ADDR_SPACE
    BY <1>4 DEF Init, Word
  <2> QED
    BY <1>2, <2>1 DEF Init, TypeOK, PtType, Dirs, Slots
<1> QED
  BY <1>3, <1>4, <1>5 DEF Init, PInv, TlbPhase, Loop, TlbCoherent

\* What a step that leaves the structures and the CPU alone keeps.
LEMMA StructuresKept ==
    ASSUME PInv, UNCHANGED pt
    PROVE  Owned(pt)' /\ (UNCHANGED tlb => TlbCoherent')
  BY DEF PInv, Owned, UsedDirs, TlbCoherent, Translation

LEMMA PtTyped ==
    ASSUME Owned(pt)
    PROVE  pt \in [dir : [0 .. DIR_ENTRIES - 1 -> TableIds \cup {NoTable}],
                   tables : [TableIds -> [0 .. ENTRIES - 1 -> EntryType]],
                   used : 0 .. MAX_TABLES]
  BY DEF Owned, PtType, Dirs, Slots

\* The start of a range leaves the loop on a page of the address space.
LEMMA RangeEntered ==
    ASSUME NEW start \in Word, NEW size \in Word, NEW flags \in Flags,
           NEW from \in {"none", "low", "fb"}, EnterRange(start, size, flags, from),
           addr \in 0 .. ADDR_SPACE, end \in Word,
           status \in {"NONE", "OK", "UNALIGNED", "NO_TABLES", "INVALID_RANGE",
                       "ALREADY_ON"}
    PROVE  /\ range'.flags \in Flags /\ pc' \in {"idle", "map"}
           /\ stage' \in {"none", "low", "fb"}
           /\ addr' \in 0 .. ADDR_SPACE /\ end' \in Word
           /\ status' \in {"NONE", "OK", "UNALIGNED", "NO_TABLES", "INVALID_RANGE",
                           "ALREADY_ON"}
           /\ pc' = "map" => addr' % PAGE_SIZE = 0
<1>1. ADDR_SPACE \in Nat \ {0} /\ start \in Nat /\ size \in Nat /\ PAGE_SIZE \in Nat \ {0}
  BY Sizes DEF Word
<1>2. align_down(start) \in 0 .. ADDR_SPACE /\ align_down(start) % PAGE_SIZE = 0
  BY <1>1, AlignDown DEF Word
<1>3. align_down(start + size + PAGE_SIZE - 1) % ADDR_SPACE \in Word
  <2>1. start + size + PAGE_SIZE - 1 \in Nat
    BY <1>1
  <2>2. align_down(start + size + PAGE_SIZE - 1) \in Int
    BY <2>1, AlignDown
  <2> QED
    BY <1>1, <2>2, DivMod DEF Word
<1> QED
  BY <1>2, <1>3 DEF EnterRange

\* The flags paging_init maps with, and the end of its first range.
LEMMA LowRange == LowEnd \in Word /\ 0 \in Word /\ {WRITABLE} \in Flags
<1>1. ADDR_SPACE \in Nat \ {0} /\ PAGE_SIZE \in Nat \ {0} /\ PAGE_SIZE <= ADDR_SPACE
  BY Sizes
<1>2. IDENTITY_END \in Nat /\ IDENTITY_END <= ADDR_SPACE - PAGE_SIZE
      /\ KERNEL_END \in Nat /\ KERNEL_END <= ADDR_SPACE - PAGE_SIZE
  BY <1>1, PagingAssumption
<1> QED
  BY <1>1, <1>2 DEF LowEnd, Word, Flags

LEMMA PInvPagingInit ==
    ASSUME PInv, NEW f \in Framebuffers, PagingInit(f)
    PROVE  PInv'
<1>1. UNCHANGED <<paging_active, cr0_pg, tlb>> /\ pc = "idle"
  BY DEF PagingInit
<1>2. TypeOK /\ end \in Word /\ addr \in 0 .. ADDR_SPACE
  BY DEF PInv, TypeOK, Word
<1>3. CASE paging_active \/ cr0_pg
  <2>1. UNCHANGED <<pt, pc, stage, fb, range, addr, end>> /\ status' = "ALREADY_ON"
    BY <1>3 DEF PagingInit, loop
  <2>2. TypeOK'
    BY <1>1, <1>2, <2>1 DEF TypeOK
  <2> QED
    BY <1>1, <2>1, <2>2, StructuresKept DEF PInv, TlbPhase, Loop
<1>4. CASE ~(paging_active \/ cr0_pg)
  <2>1. /\ pt' = [pt EXCEPT !.dir = [d \in Dirs |-> NoTable], !.used = 0]
        /\ fb' = f /\ EnterRange(0, LowEnd, {WRITABLE}, "low")
    BY <1>4 DEF PagingInit, Dirs
  <2>2. Owned(pt)'
    <3>1. pt \in PtType
      BY DEF PInv, Owned
    <3>2. pt' \in PtType /\ pt'.dir = [d \in Dirs |-> NoTable] /\ pt'.used = 0
      <4> DEFINE nodir == [d \in Dirs |-> NoTable]
      <4>1. nodir \in [Dirs -> TableIds \cup {NoTable}]
        OBVIOUS
      <4>2. 0 \in 0 .. MAX_TABLES
        BY PagingAssumption
      <4>3. pt' = [dir |-> nodir, tables |-> pt.tables, used |-> 0]
        BY <2>1, <3>1, Zenon DEF PtType
      <4>4. pt.tables \in [TableIds -> [Slots -> EntryType]]
        BY <3>1 DEF PtType
      <4> HIDE DEF nodir
      <4>5. pt' \in PtType /\ pt'.dir = nodir /\ pt'.used = 0
        BY <4>1, <4>2, <4>3, <4>4 DEF PtType
      <4> QED
        BY <4>5 DEF nodir
    <3> QED
      BY <3>2, NothingOwned DEF Owned, UsedDirs
  <2>3. /\ range'.flags \in Flags /\ pc' \in {"idle", "map"}
        /\ stage' \in {"none", "low", "fb"}
        /\ addr' \in 0 .. ADDR_SPACE /\ end' \in Word
        /\ status' \in {"NONE", "OK", "UNALIGNED", "NO_TABLES", "INVALID_RANGE",
                        "ALREADY_ON"}
        /\ pc' = "map" => addr' % PAGE_SIZE = 0
    BY <1>2, <2>1, LowRange, RangeEntered DEF TypeOK
  <2>4. fb' \in Word \X Word
    BY <2>1, ArgumentsAssumption DEF Word
  <2>5. tlb = {}
    BY <1>4 DEF PInv, TlbPhase
  <2>6. TypeOK'
    <3>1. pt' \in [dir : [0 .. DIR_ENTRIES - 1 -> TableIds \cup {NoTable}],
                   tables : [TableIds -> [0 .. ENTRIES - 1 -> EntryType]],
                   used : 0 .. MAX_TABLES]
      BY <2>2 DEF Owned, PtType, Dirs, Slots
    <3> QED
      BY <1>1, <1>2, <2>3, <3>1 DEF TypeOK, Word
  <2> QED
    BY <1>1, <1>4, <2>2, <2>3, <2>4, <2>5, <2>6 DEF PInv, TlbPhase, Loop, TlbCoherent
<1> QED
  BY <1>3, <1>4

\* A page mapped leaves the TLB coherent: INVLPG removes the only translation
\* that changes, or paging is off and the TLB is empty.
LEMMA MappingKeeps ==
    ASSUME PInv, NEW virt \in Word, NEW phys \in Word, NEW flags \in Flags,
           MapPage(virt, phys, flags), pc # "active"
    PROVE  /\ Owned(pt)' /\ TlbCoherent'
           /\ tlb' \subseteq tlb
<1>1. TlbCoherent /\ Owned(pt) /\ tlb \subseteq [page : VPages, entry : EntryType]
  BY DEF PInv, TypeOK
<1>2. /\ Owned(pt)'
      /\ IF MapPageStatus(virt, phys) = "OK"
         THEN /\ \A page \in VPages :
                    Translation(pt', page) =
                       IF page = virt \div PAGE_SIZE THEN Entry(phys, flags)
                       ELSE Translation(pt, page)
              /\ tlb' = IF paging_active
                        THEN {c \in tlb : c.page # virt \div PAGE_SIZE} ELSE tlb
         ELSE UNCHANGED <<pt, tlb>>
  BY <1>1, PageMapped
<1>3. CASE MapPageStatus(virt, phys) # "OK"
  BY <1>2, <1>3, StructuresKept
<1>4. CASE MapPageStatus(virt, phys) = "OK" /\ paging_active
  BY <1>1, <1>2, <1>4 DEF TlbCoherent
<1>5. CASE MapPageStatus(virt, phys) = "OK" /\ ~paging_active
  <2>1. tlb = {}
    BY <1>5 DEF PInv, TlbPhase
  <2> QED
    BY <1>2, <1>5, <2>1 DEF TlbCoherent
<1> QED
  BY <1>3, <1>4, <1>5

Statuses == {"NONE", "OK", "UNALIGNED", "NO_TABLES", "INVALID_RANGE", "ALREADY_ON"}

LEMMA StatusTyped ==
    ASSUME NEW virt, NEW phys
    PROVE  MapPageStatus(virt, phys) \in Statuses
  BY DEF MapPageStatus, Statuses

LEMMA PInvMapRangeStep ==
    ASSUME PInv, MapRangeStep
    PROVE  PInv'
<1>1. /\ pc = "map" /\ addr < end /\ MapPage(addr, addr, range.flags)
      /\ UNCHANGED <<paging_active, cr0_pg, fb, range, end>>
  BY DEF MapRangeStep
<1>2. /\ addr \in Word /\ range.flags \in Flags /\ addr % PAGE_SIZE = 0 /\ TypeOK
      /\ TlbPhase
  <2>1. ADDR_SPACE \in Nat
    BY Sizes
  <2> QED
    BY <1>1, <2>1 DEF PInv, TypeOK, Loop, Word
<1>3. Owned(pt)' /\ TlbCoherent' /\ tlb' \subseteq tlb
  BY <1>1, <1>2, MappingKeeps
<1>4. /\ pc' \in {"map", "idle"} /\ stage' \in {"none", "low", "fb"}
      /\ status' \in Statuses
      /\ addr' \in 0 .. ADDR_SPACE /\ addr' % PAGE_SIZE = 0
  <2>1. CASE MapPageStatus(addr, addr) = "OK"
    <3>1. addr' = addr + PAGE_SIZE /\ UNCHANGED <<pc, stage, status>>
      BY <2>1 DEF MapRangeStep
    <3> QED
      BY <1>1, <1>2, <3>1, NextPage DEF TypeOK, Statuses
  <2>2. CASE MapPageStatus(addr, addr) # "OK"
    <3>1. /\ pc' = "idle" /\ stage' = "none" /\ status' = MapPageStatus(addr, addr)
          /\ UNCHANGED addr
      BY <2>2 DEF MapRangeStep
    <3> QED
      BY <1>2, <3>1, StatusTyped DEF TypeOK
  <2> QED
    BY <2>1, <2>2
<1>5. TypeOK'
  BY <1>1, <1>2, <1>3, <1>4 DEF TypeOK, Owned, PtType, Dirs, Slots, Statuses
<1>6. TlbPhase'
  BY <1>1, <1>2, <1>3 DEF TlbPhase
<1> QED
  BY <1>1, <1>3, <1>4, <1>5, <1>6 DEF PInv, Loop

LEMMA PInvMapRangeDone ==
    ASSUME PInv, MapRangeDone
    PROVE  PInv'
<1>1. pc = "map" /\ UNCHANGED <<pt, paging_active, cr0_pg, tlb, fb>>
  BY DEF MapRangeDone
<1>2. TypeOK /\ TlbPhase /\ Loop /\ end \in Word /\ addr \in 0 .. ADDR_SPACE
  BY DEF PInv, TypeOK, Word
<1>3. /\ range'.flags \in Flags /\ pc' \in {"idle", "map", "enable"}
      /\ stage' \in {"none", "low", "fb"}
      /\ addr' \in 0 .. ADDR_SPACE /\ end' \in Word
      /\ status' \in Statuses
      /\ pc' = "map" => addr' % PAGE_SIZE = 0
  <2>1. CASE EnterRange(fb[1], fb[2], {WRITABLE}, "fb")
    <3>1. fb[1] \in Word /\ fb[2] \in Word
      BY <1>2 DEF Loop
    <3> QED
      BY <1>2, <2>1, <3>1, LowRange, RangeEntered DEF TypeOK, Statuses
  <2>2. CASE /\ pc' \in {"idle", "enable"} /\ UNCHANGED <<stage, loop>>
             /\ status' \in {"OK", status}
    BY <1>2, <2>2 DEF loop, TypeOK, Loop, Statuses
  <2> QED
    BY <2>1, <2>2 DEF MapRangeDone
<1>4. TypeOK'
  BY <1>1, <1>2, <1>3 DEF TypeOK, Word, Statuses
<1> QED
  BY <1>1, <1>2, <1>3, <1>4, StructuresKept DEF PInv, TlbPhase, Loop

LEMMA PInvEnable ==
    ASSUME PInv, EnablePaging \/ SetActive
    PROVE  PInv'
<1>1. /\ UNCHANGED <<pt, fb, range, addr, end>>
      /\ pc' \in {"active", "idle"} /\ stage' \in {stage, "none"}
      /\ status' \in {status, "OK"}
      /\ paging_active' \in BOOLEAN /\ cr0_pg' \in BOOLEAN
      /\ tlb' = {} \/ tlb' = tlb
  BY DEF EnablePaging, SetActive, loop, PInv, TypeOK
<1>2. TypeOK'
  BY <1>1 DEF PInv, TypeOK
<1>3. TlbCoherent'
  BY <1>1, StructuresKept DEF TlbCoherent
<1>4. TlbPhase'
  BY DEF EnablePaging, SetActive, PInv, TlbPhase
<1> QED
  BY <1>1, <1>2, <1>3, <1>4, StructuresKept DEF PInv, Loop

LEMMA PInvIdentityMapRange ==
    ASSUME PInv, NEW r \in Ranges, IdentityMapRange(r[1], r[2], r[3])
    PROVE  PInv'
<1>1. /\ EnterRange(r[1], r[2], r[3], "none") /\ pc = "idle" /\ paging_active
      /\ UNCHANGED <<pt, paging_active, cr0_pg, tlb, fb>>
  BY DEF IdentityMapRange
<1>2. r[1] \in Word /\ r[2] \in Word /\ r[3] \in Flags
  BY ArgumentsAssumption DEF Word
<1>3. TypeOK /\ end \in Word /\ addr \in 0 .. ADDR_SPACE
  BY DEF PInv, TypeOK, Word
<1>4. /\ range'.flags \in Flags /\ pc' \in {"idle", "map"}
      /\ stage' \in {"none", "low", "fb"}
      /\ addr' \in 0 .. ADDR_SPACE /\ end' \in Word
      /\ status' \in Statuses
      /\ pc' = "map" => addr' % PAGE_SIZE = 0
  BY <1>1, <1>2, <1>3, RangeEntered DEF TypeOK, Statuses
<1>5. TypeOK'
  BY <1>1, <1>3, <1>4 DEF TypeOK, Word, Statuses
<1> QED
  BY <1>1, <1>4, <1>5, StructuresKept DEF PInv, TlbPhase, Loop

LEMMA PInvMapOnePage ==
    ASSUME PInv, NEW m \in Pages, MapOnePage(m[1], m[2], m[3])
    PROVE  PInv'
<1>1. /\ MapPage(m[1], m[2], m[3]) /\ pc = "idle"
      /\ status' = MapPageStatus(m[1], m[2])
      /\ UNCHANGED <<paging_active, cr0_pg, pc, stage, fb, range, addr, end>>
  BY DEF MapOnePage, loop
<1>2. m[1] \in Word /\ m[2] \in Word /\ m[3] \in Flags
  BY ArgumentsAssumption DEF Word
<1>3. Owned(pt)' /\ TlbCoherent' /\ tlb' \subseteq tlb
  BY <1>1, <1>2, MappingKeeps
<1>4. TypeOK'
  BY <1>1, <1>3, StatusTyped DEF PInv, TypeOK, Owned, PtType, Dirs, Slots, Statuses
<1> QED
  BY <1>1, <1>3, <1>4 DEF PInv, TlbPhase, Loop

LEMMA PInvTlbFill ==
    ASSUME PInv, NEW page \in VPages, TlbFill(page)
    PROVE  PInv'
<1>1. /\ cr0_pg /\ tlb' = tlb \cup {[page |-> page, entry |-> Translation(pt, page)]}
      /\ UNCHANGED <<pt, paging_active, cr0_pg, pc, stage, fb, range, addr, end, status>>
  BY DEF TlbFill, loop
<1>2. Translation(pt, page) \in EntryType
  <2>1. /\ pt.dir \in [Dirs -> TableIds \cup {NoTable}]
        /\ pt.tables \in [TableIds -> [Slots -> EntryType]]
    BY DEF PInv, Owned, PtType
  <2>2. page \div ENTRIES \in Dirs /\ page % ENTRIES \in Slots
    BY PageInTable
  <2> QED
    BY <2>1, <2>2 DEF Translation, EntryType
<1>3. TypeOK'
  BY <1>1, <1>2 DEF PInv, TypeOK
<1>4. TlbCoherent'
  BY <1>1 DEF PInv, TlbCoherent, Translation
<1> QED
  BY <1>1, <1>3, <1>4, StructuresKept DEF PInv, TlbPhase, Loop

LEMMA PInvNext ==
    ASSUME PInv, [Next]_vars
    PROVE  PInv'
<1>1. CASE UNCHANGED vars
  BY <1>1, StructuresKept DEF vars, PInv, TypeOK, TlbPhase, Loop
<1> QED
  BY <1>1, PInvPagingInit, PInvMapRangeStep, PInvMapRangeDone, PInvEnable,
     PInvIdentityMapRange, PInvMapOnePage, PInvTlbFill DEF Next

-----------------------------------------------------------------------------
(* Theorems                                                                 *)

THEOREM PInvAlways == Spec => []PInv
<1> QED
  BY PInvInit, PInvNext, PTL DEF Spec

\* The variables of the paging code have their types.
THEOREM TypeCorrect == Spec => []TypeOK
<1>1. PInv => TypeOK
  BY DEF PInv
<1> QED
  BY <1>1, PInvAlways, PTL

\* Each page table in use belongs to exactly one directory entry, whatever the
\* mappings, failures and the size of the pool.
THEOREM TablesAlwaysOwnedOnce == Spec => []TablesOwnedOnce
<1>1. PInv => TablesOwnedOnce
  <2>1. ASSUME Owned(pt) PROVE TablesOwnedOnce
    <3>1. {d \in DOMAIN pt.dir : pt.dir[d] # NoTable} = UsedDirs(pt)
      BY <2>1 DEF Owned, PtType, UsedDirs
    <3> QED
      BY <2>1, <3>1 DEF Owned, TablesOwnedOnce
  <2> QED
    BY <2>1 DEF PInv
<1> QED
  BY <1>1, PInvAlways, PTL

\* The TLB never holds a translation the tables no longer give.
THEOREM TlbAlwaysCoherent == Spec => []TlbCoherent
<1>1. PInv => TlbCoherent
  BY DEF PInv
<1> QED
  BY <1>1, PInvAlways, PTL

\* A step that maps a page changes at most the translation of that page, and one
\* that fails changes none.
LEMMA OnePageChanges ==
    ASSUME PInv, NEW virt \in Word, NEW phys \in Word, NEW flags \in Flags,
           MapPage(virt, phys, flags)
    PROVE  /\ Changed \subseteq {virt \div PAGE_SIZE} /\ Cardinality(Changed) <= 1
           /\ \A page \in Changed : Translation(pt', page).present
           /\ MapPageStatus(virt, phys) # "OK" => Changed = {}
<1>1. Owned(pt)
  BY DEF PInv
<1>2. CASE MapPageStatus(virt, phys) = "OK"
  <2>1. \A page \in VPages :
           Translation(pt', page) = IF page = virt \div PAGE_SIZE THEN Entry(phys, flags)
                                    ELSE Translation(pt, page)
    BY <1>1, <1>2, PageMapped
  <2>2. Changed \subseteq {virt \div PAGE_SIZE}
    BY <2>1 DEF Changed
  <2>3. Cardinality(Changed) <= 1
    BY <2>2, AtMostOne
  <2> QED
    BY <1>2, <2>1, <2>2, <2>3 DEF Changed, Entry
<1>3. CASE MapPageStatus(virt, phys) # "OK"
  <2>1. UNCHANGED pt
    BY <1>1, <1>3, PageMapped
  <2>2. Changed = {}
    BY <2>1 DEF Changed
  <2> QED
    BY <2>2, AtMostOne
<1> QED
  BY <1>2, <1>3

\* Once paging is on, a step changes the translation of the page it is about and
\* of no other, a failure of none, and no page is unmapped.
THEOREM OnlyNamedPage == Spec => OnlyNamedPageChanges
<1> DEFINE A == cr0_pg =>
                  /\ Cardinality(Changed) <= 1
                  /\ pc = "map" => Changed \subseteq {addr \div PAGE_SIZE}
                  /\ pc' = "idle" /\ status' # "OK" => Changed = {}
                  /\ \A page \in Changed : Translation(pt', page).present
<1>1. ASSUME UNCHANGED pt PROVE A
  <2>1. Changed = {}
    BY <1>1 DEF Changed
  <2> QED
    BY <2>1, AtMostOne
<1>2. ASSUME PInv, Next, cr0_pg PROVE A
  <2>1. ASSUME NEW f \in Framebuffers, PagingInit(f) PROVE A
    BY <1>1, <1>2, <2>1 DEF PagingInit
  <2>2. CASE MapRangeStep
    <3>1. addr \in Word /\ range.flags \in Flags /\ MapPage(addr, addr, range.flags)
          /\ pc = "map"
      <4>1. ADDR_SPACE \in Nat
        BY Sizes
      <4> QED
        BY <1>2, <2>2, <4>1 DEF MapRangeStep, PInv, TypeOK, Loop, Word
    <3>2. /\ Changed \subseteq {addr \div PAGE_SIZE} /\ Cardinality(Changed) <= 1
          /\ \A page \in Changed : Translation(pt', page).present
          /\ MapPageStatus(addr, addr) # "OK" => Changed = {}
      BY <1>2, <3>1, OnePageChanges
    <3>3. MapPageStatus(addr, addr) = "OK" => pc' = "map"
      BY <2>2 DEF MapRangeStep
    <3> QED
      BY <3>2, <3>3
  <2>3. ASSUME NEW m \in Pages, MapOnePage(m[1], m[2], m[3]) PROVE A
    <3>1. m[1] \in Word /\ m[2] \in Word /\ m[3] \in Flags
      BY ArgumentsAssumption DEF Word
    <3>2. /\ Cardinality(Changed) <= 1
          /\ \A page \in Changed : Translation(pt', page).present
          /\ MapPageStatus(m[1], m[2]) # "OK" => Changed = {}
      BY <1>2, <2>3, <3>1, OnePageChanges DEF MapOnePage
    <3>3. pc = "idle" /\ status' = MapPageStatus(m[1], m[2])
      BY <2>3 DEF MapOnePage
    <3> QED
      BY <3>2, <3>3
  <2>4. CASE \/ MapRangeDone \/ EnablePaging \/ SetActive
             \/ \E r \in Ranges : IdentityMapRange(r[1], r[2], r[3])
             \/ \E page \in VPages : TlbFill(page)
    BY <1>1, <2>4 DEF MapRangeDone, EnablePaging, SetActive, IdentityMapRange, TlbFill
  <2> QED
    BY <1>2, <2>1, <2>2, <2>3, <2>4 DEF Next
<1>3. PInv /\ [Next]_vars => [A]_vars
  BY <1>2
<1>4. [][A]_vars => OnlyNamedPageChanges
  BY DEF OnlyNamedPageChanges
<1> HIDE DEF A
<1> QED
  BY <1>3, <1>4, PInvAlways, PTL DEF Spec
-----------------------------------------------------------------------------
(* What is mapped.  A call has mapped the pages of its range up to the      *)
(* cursor; paging_init keeps the ranges it has finished.                    *)

\* The pages of [start, start + size) before the cursor.
Reached(start, size, flags) ==
    \A page \in Covered(start, size) : page * PAGE_SIZE < addr => Identity(page, flags)

\* The call in progress has the end its range asks for, and maps the range of
\* the stage it is called from, which is a client's only after the boot.
Cursor ==
    /\ range.start \in Word /\ range.size \in Word /\ range.size > 0
    /\ BelowTop(range.start, range.size) =>
          /\ end = align_down(range.start + range.size + PAGE_SIZE - 1)
          /\ align_down(range.start) <= addr
          /\ Reached(range.start, range.size, range.flags)
    /\ stage = "low" => range.start = 0 /\ range.size = LowEnd /\ range.flags = {WRITABLE}
    /\ stage = "fb" => /\ range.start = fb[1] /\ range.size = fb[2]
                       /\ range.flags = {WRITABLE}
    /\ stage = "none" => \E r \in Ranges : /\ range.start = r[1] /\ range.size = r[2]
                                           /\ range.flags = r[3]

AllIdentity(pages) == \A page \in pages : Identity(page, {WRITABLE})

VInv ==
    /\ fb \in Framebuffers \/ (~cr0_pg /\ pc = "idle")
    /\ paging_active \/ pc = "active" => cr0_pg
    /\ pc = "map" => Cursor
    /\ pc = "enable" \/ (pc = "map" /\ stage # "none") => ~cr0_pg /\ ~paging_active
    /\ cr0_pg \/ pc = "enable" \/ (pc = "map" /\ stage = "fb") =>
          AllIdentity(Covered(0, LowEnd))
    /\ (cr0_pg \/ pc = "enable") /\ BelowTop(fb[1], fb[2]) =>
          AllIdentity(Covered(fb[1], fb[2]))

\* The pages of a range are those between its start and its end, both rounded,
\* and the end has the width of an address when nothing lies in the last page.
LEMMA CoveredBetween ==
    ASSUME NEW start \in Nat, NEW size \in Nat, size > 0,
           BelowTop(start, size),
           NEW e, e = align_down(start + size + PAGE_SIZE - 1)
    PROVE  /\ e \in Word /\ e % ADDR_SPACE = e
           /\ \A page \in VPages :
                 page \in Covered(start, size) <=>
                    align_down(start) <= page * PAGE_SIZE /\ page * PAGE_SIZE < e
<1> PICK top, q, f : /\ top = start + size + PAGE_SIZE - 1
                     /\ q = top \div PAGE_SIZE /\ f = start \div PAGE_SIZE
  OBVIOUS
<1>1. /\ PAGE_SIZE \in Nat \ {0} /\ ADDR_SPACE \in Nat \ {0} /\ PAGE_SIZE <= ADDR_SPACE
      /\ top \in Nat /\ top <= ADDR_SPACE - 1
  BY Sizes DEF BelowTop
<1>0. e = align_down(top) /\ top \in Int /\ start \in Int
  BY <1>1
<1>2. e \in 0 .. top
  BY <1>0, <1>1, AlignDown
<1>3. e \in Word /\ e % ADDR_SPACE = e
  <2>1. e \in Nat /\ e < ADDR_SPACE
    BY <1>1, <1>2
  <2>2. e % ADDR_SPACE = e
    BY <1>1, <2>1, SmallMod
  <2> QED
    BY <1>1, <2>1, <2>2 DEF Word
<1>4. q \in Int /\ f \in Int /\ e = q * PAGE_SIZE /\ align_down(start) = f * PAGE_SIZE
  <2>1. /\ q \in Int /\ top = (PAGE_SIZE * q) + (top % PAGE_SIZE)
        /\ top % PAGE_SIZE \in 0 .. PAGE_SIZE - 1
    BY <1>0, <1>1, DivMod
  <2>2. /\ f \in Int /\ start = (PAGE_SIZE * f) + (start % PAGE_SIZE)
        /\ start % PAGE_SIZE \in 0 .. PAGE_SIZE - 1
    BY <1>0, <1>1, DivMod
  <2>3. e = top - (top % PAGE_SIZE) /\ align_down(start) = start - (start % PAGE_SIZE)
    BY <1>0 DEF align_down
  <2>4. /\ PAGE_SIZE * q \in Int /\ PAGE_SIZE * q = q * PAGE_SIZE
        /\ PAGE_SIZE * f \in Int /\ PAGE_SIZE * f = f * PAGE_SIZE
    BY <1>1, <2>1, <2>2
  <2>5. top \in Int /\ start \in Int
    BY <1>1
  <2> QED
    BY <2>1, <2>2, <2>3, <2>4, <2>5
<1>5. ASSUME NEW page \in VPages
      PROVE  page \in Covered(start, size) <=>
                align_down(start) <= page * PAGE_SIZE /\ page * PAGE_SIZE < e
  <2>1. page \in Int /\ page * PAGE_SIZE \in Int
    BY <1>1, Sizes DEF VPages
  <2>2. (page + 1) * PAGE_SIZE = page * PAGE_SIZE + PAGE_SIZE
    BY <1>1, <2>1
  <2>3. page * PAGE_SIZE < start + size <=> (page + 1) * PAGE_SIZE <= top
    BY <1>1, <2>1, <2>2
  <2>0. page + 1 \in Int
    BY <2>1
  <2>4. page + 1 <= q <=> (page + 1) * PAGE_SIZE <= top
    BY <1>0, <1>1, <2>0, DivFloor
  <2>5. page + 1 <= f <=> (page + 1) * PAGE_SIZE <= start
    BY <1>0, <1>1, <2>0, DivFloor
  <2>6. page + 1 <= q <=> page * PAGE_SIZE < q * PAGE_SIZE
    BY <1>1, <1>4, <2>1
  <2>7. page + 1 <= f <=> ~(f * PAGE_SIZE <= page * PAGE_SIZE)
    BY <1>1, <1>4, <2>1
  <2>8. start < (page + 1) * PAGE_SIZE <=> ~((page + 1) * PAGE_SIZE <= start)
    BY <1>1, <2>1, <2>2
  <2>9. page \in Covered(start, size) <=>
           page * PAGE_SIZE < start + size /\ start < (page + 1) * PAGE_SIZE
    BY DEF Covered
  <2> QED
    BY <1>4, <2>3, <2>4, <2>5, <2>6, <2>7, <2>8, <2>9
<1> QED
  BY <1>3, <1>5

\* A range in no page at all.
LEMMA NothingCovered ==
    ASSUME NEW start \in Nat
    PROVE  Covered(start, 0) = {}
  BY DEF Covered

\* The page at an address on a page border, and the pages up to it.
LEMMA PageAt ==
    ASSUME NEW a \in Word, a % PAGE_SIZE = 0
    PROVE  /\ a \div PAGE_SIZE \in VPages /\ (a \div PAGE_SIZE) * PAGE_SIZE = a
           /\ \A page \in VPages :
                 page * PAGE_SIZE < a + PAGE_SIZE =>
                    page * PAGE_SIZE < a \/ page = a \div PAGE_SIZE
<1> DEFINE p == a \div PAGE_SIZE
<1>1. PAGE_SIZE \in Nat \ {0} /\ a \in Int /\ VPages \subseteq Int
  BY Sizes DEF Word, VPages
<1>2. p \in VPages
  BY PageOf
<1>3. p \in Int /\ a = PAGE_SIZE * p
  BY <1>1, DivMod
<1> HIDE DEF p
<1>4. p * PAGE_SIZE = a
  BY <1>1, <1>3
<1>5. ASSUME NEW page \in VPages, page * PAGE_SIZE < a + PAGE_SIZE
      PROVE  page * PAGE_SIZE < a \/ page = p
  <2>1. page \in Int
    BY <1>1
  <2>2. ~(p + 1 <= page)
    <3>1. p + 1 <= page => (p + 1) * PAGE_SIZE <= page * PAGE_SIZE
      BY <1>1, <1>3, <2>1
    <3>2. (p + 1) * PAGE_SIZE = a + PAGE_SIZE
      BY <1>1, <1>3, <1>4
    <3>3. page * PAGE_SIZE \in Int
      BY <1>1, <2>1
    <3> QED
      BY <1>1, <1>5, <3>1, <3>2, <3>3
  <2>3. page < p => page * PAGE_SIZE < p * PAGE_SIZE
    BY <1>1, <1>3, <2>1
  <2> QED
    BY <1>3, <1>4, <2>1, <2>2, <2>3
<1> QED
  BY <1>2, <1>4, <1>5 DEF p
\* A mapping leaves a page as it was, unless it maps that page differently.
LEMMA IdentityKept ==
    ASSUME Owned(pt), NEW virt \in Word, NEW phys \in Word, NEW flags \in Flags,
           MapPage(virt, phys, flags), NEW page \in VPages, NEW fl, Identity(page, fl),
           \/ MapPageStatus(virt, phys) # "OK" \/ page # virt \div PAGE_SIZE
           \/ phys = page * PAGE_SIZE /\ flags = fl
    PROVE  Identity(page, fl)'
<1>1. CASE MapPageStatus(virt, phys) # "OK"
  <2>1. UNCHANGED pt
    BY <1>1, PageMapped
  <2> QED
    BY <2>1 DEF Identity, Translation
<1>2. CASE MapPageStatus(virt, phys) = "OK"
  <2>1. Translation(pt', page) = IF page = virt \div PAGE_SIZE THEN Entry(phys, flags)
                                 ELSE Translation(pt, page)
    BY <1>2, PageMapped
  <2> QED
    BY <1>2, <2>1 DEF Identity, Translation
<1> QED
  BY <1>1, <1>2

\* Mapping an aligned page to itself, writable, leaves every such page so.
LEMMA WritableKept ==
    ASSUME Owned(pt), NEW a \in Word, a % PAGE_SIZE = 0,
           MapPage(a, a, {WRITABLE}), NEW pages \in SUBSET VPages, AllIdentity(pages)
    PROVE  AllIdentity(pages)'
<1>1. (a \div PAGE_SIZE) * PAGE_SIZE = a
  BY PageAt
<1>2. {WRITABLE} \in Flags
  BY LowRange
<1>3. ASSUME NEW page \in pages PROVE Identity(page, {WRITABLE})'
  BY <1>1, <1>2, <1>3, IdentityKept DEF AllIdentity
<1> QED
  BY <1>3 DEF AllIdentity

LEMMA CoveredPages ==
    ASSUME NEW start, NEW size
    PROVE  Covered(start, size) \subseteq VPages
  BY DEF Covered

\* A range that was entered, with nothing mapped yet.
LEMMA RangeStarts ==
    ASSUME NEW start \in Word, NEW size \in Word, size > 0,
           NEW flags, NEW from, EnterRange(start, size, flags, from)
    PROVE  /\ pc' = "map" /\ stage' = from
           /\ range' = [start |-> start, size |-> size, flags |-> flags]
           /\ BelowTop(start, size) =>
                 /\ end' = align_down(start + size + PAGE_SIZE - 1)
                 /\ align_down(start) <= addr'
                 /\ Reached(start, size, flags)'
<1> PICK e, w, first : /\ e = align_down(start + size + PAGE_SIZE - 1)
                       /\ w = e % ADDR_SPACE /\ first = align_down(start)
  OBVIOUS
<1>1. start \in Nat /\ size \in Nat /\ ADDR_SPACE \in Nat \ {0} /\ PAGE_SIZE \in Nat \ {0}
  BY Sizes DEF Word
<1>2. w \in Word
  <2>1. start + size + PAGE_SIZE - 1 \in Nat
    BY <1>1
  <2>2. e \in Int
    BY <2>1, AlignDown
  <2> QED
    BY <1>1, <2>2, DivMod DEF Word
<1>3. ~(size = 0 \/ w > ADDR_SPACE)
  BY <1>1, <1>2 DEF Word
<1>4. /\ pc' = "map" /\ stage' = from /\ addr' = first /\ end' = w
      /\ range' = [start |-> start, size |-> size, flags |-> flags]
  BY <1>2, <1>3 DEF EnterRange
<1>5. first \in Nat
  BY <1>1, AlignDown
<1>6. ASSUME BelowTop(start, size)
      PROVE  w = e /\ Reached(start, size, flags)'
  <2>1. /\ w = e
        /\ \A page \in VPages : page \in Covered(start, size) => first <= page * PAGE_SIZE
    BY <1>1, <1>6, CoveredBetween
  <2>2. \A page \in Covered(start, size) : ~(page * PAGE_SIZE < first)
    <3> TAKE page \in Covered(start, size)
    <3>1. page \in VPages /\ page * PAGE_SIZE \in Int
      BY <1>1, Sizes DEF Covered, VPages
    <3> QED
      BY <1>5, <2>1, <3>1
  <2> QED
    BY <1>4, <2>1, <2>2 DEF Reached
<1> QED
  BY <1>4, <1>5, <1>6

LEMMA LowRangeFits == LowEnd > 0 /\ BelowTop(0, LowEnd)
<1>1. ADDR_SPACE \in Nat \ {0} /\ PAGE_SIZE \in Nat \ {0}
  BY Sizes
<1> QED
  BY <1>1, PagingAssumption DEF LowEnd, BelowTop

LEMMA VInvInit == Init => VInv
  BY DEF Init, VInv

\* A step that changes no translation keeps what is mapped.
LEMMA SameIdentity ==
    ASSUME UNCHANGED pt, NEW pages, AllIdentity(pages)
    PROVE  AllIdentity(pages)'
  BY DEF AllIdentity, Identity, Translation

LEMMA VInvPagingInit ==
    ASSUME PInv, VInv, NEW f \in Framebuffers, PagingInit(f)
    PROVE  VInv'
<1>1. UNCHANGED <<paging_active, cr0_pg, tlb>> /\ pc = "idle"
  BY DEF PagingInit
<1>2. CASE paging_active \/ cr0_pg
  <2>1. UNCHANGED <<pt, pc, stage, fb, range, addr, end>>
    BY <1>2 DEF PagingInit, loop
  <2>2. AllIdentity(Covered(0, LowEnd)) => AllIdentity(Covered(0, LowEnd))'
    BY <2>1, SameIdentity
  <2>3. AllIdentity(Covered(fb[1], fb[2])) => AllIdentity(Covered(fb[1], fb[2]))'
    BY <2>1 DEF AllIdentity, Identity, Translation
  <2> QED
    BY <1>1, <2>1, <2>2, <2>3 DEF VInv
<1>3. CASE ~(paging_active \/ cr0_pg)
  <2>1. fb' = f /\ EnterRange(0, LowEnd, {WRITABLE}, "low")
    BY <1>3 DEF PagingInit
  <2>2. /\ pc' = "map" /\ stage' = "low"
        /\ range' = [start |-> 0, size |-> LowEnd, flags |-> {WRITABLE}]
        /\ end' = align_down(0 + LowEnd + PAGE_SIZE - 1)
        /\ align_down(0) <= addr'
        /\ Reached(0, LowEnd, {WRITABLE})'
    BY <2>1, LowRange, LowRangeFits, RangeStarts
  <2>3. Cursor'
    BY <2>2, LowRange, LowRangeFits, Zenon DEF Cursor, Reached
  <2> QED
    BY <1>1, <1>3, <2>1, <2>2, <2>3 DEF VInv
<1> QED
  BY <1>2, <1>3
\* The cursor moves over a page it has mapped.
LEMMA CursorMoves ==
    ASSUME PInv, Cursor, pc = "map", addr < end, MapPage(addr, addr, range.flags),
           MapPageStatus(addr, addr) = "OK", addr' = addr + PAGE_SIZE,
           UNCHANGED <<range, end, stage, fb>>
    PROVE  Cursor'
<1>1. Owned(pt) /\ addr \in Word /\ addr % PAGE_SIZE = 0 /\ range.flags \in Flags
  <2>1. ADDR_SPACE \in Nat
    BY Sizes
  <2> QED
    BY <2>1 DEF PInv, TypeOK, Loop, Word
<1> PICK p, start, size, flags :
       /\ p = addr \div PAGE_SIZE
       /\ start = range.start /\ size = range.size /\ flags = range.flags
  OBVIOUS
<1>2. /\ p \in VPages /\ p * PAGE_SIZE = addr
      /\ \A page \in VPages :
            page * PAGE_SIZE < addr + PAGE_SIZE => page * PAGE_SIZE < addr \/ page = p
  BY <1>1, PageAt
<1>3. ASSUME BelowTop(start, size) PROVE Reached(start, size, flags)'
  <2>1. ASSUME NEW page \in Covered(start, size), page * PAGE_SIZE < addr + PAGE_SIZE
        PROVE  Identity(page, flags)'
    <3>1. page \in VPages
      BY CoveredPages
    <3>2. CASE page = p
      <4>1. Translation(pt', page) = Entry(addr, flags)
        BY <1>1, <3>1, <3>2, PageMapped
      <4> QED
        BY <1>2, <3>2, <4>1 DEF Identity, Translation
    <3>3. CASE page # p
      <4>1. page * PAGE_SIZE < addr
        BY <1>2, <2>1, <3>1, <3>3
      <4>2. Identity(page, flags)
        BY <1>3, <4>1 DEF Cursor, Reached
      <4> QED
        BY <1>1, <3>1, <3>3, <4>2, IdentityKept
    <3> QED
      BY <3>2, <3>3
  <2> QED
    BY <2>1 DEF Reached
<1>4. ASSUME BelowTop(start, size) PROVE align_down(start) <= addr + PAGE_SIZE
  <2>1. start \in Nat
    BY Sizes DEF Cursor, Word
  <2>2. align_down(start) \in Int /\ addr \in Int /\ PAGE_SIZE \in Nat
    BY <1>1, <2>1, AlignDown, Sizes DEF Word
  <2> QED
    BY <1>4, <2>2 DEF Cursor
<1> QED
  BY <1>3, <1>4 DEF Cursor, Reached

\* The range is mapped when its loop ends.
LEMMA CursorAtEnd ==
    ASSUME PInv, Cursor, addr >= end, BelowTop(range.start, range.size)
    PROVE  \A page \in Covered(range.start, range.size) : Identity(page, range.flags)
<1> PICK start, size, e :
       /\ start = range.start /\ size = range.size
       /\ e = align_down(start + size + PAGE_SIZE - 1)
  OBVIOUS
<1>1. /\ start \in Nat /\ size \in Nat /\ size > 0 /\ e = end
      /\ BelowTop(start, size)
  BY Sizes DEF Cursor, Word
<1>2. /\ e \in Word
      /\ \A page \in VPages :
            page \in Covered(start, size) =>
               align_down(start) <= page * PAGE_SIZE /\ page * PAGE_SIZE < e
  BY <1>1, CoveredBetween
<1> TAKE page \in Covered(range.start, range.size)
<1>3. page \in VPages /\ page * PAGE_SIZE < e
  BY <1>2, CoveredPages
<1>4. page * PAGE_SIZE \in Int /\ addr \in Int /\ e \in Int
  BY <1>2, <1>3, Sizes DEF VPages, Word, PInv, TypeOK
<1>5. page * PAGE_SIZE < addr
  BY <1>1, <1>3, <1>4
<1> QED
  BY <1>5 DEF Cursor, Reached

\* What a client maps leaves low memory and the framebuffer as they are.
LEMMA ClientKeeps ==
    ASSUME PInv, NEW virt \in Word, NEW phys \in Word, NEW flags \in Flags,
           MapPage(virt, phys, flags), NEW f, NEW pages \in SUBSET Vital(f),
           AllIdentity(pages),
           \/ virt = phys /\ flags = {WRITABLE}
           \/ virt \div PAGE_SIZE \notin Vital(f)
           \/ ~Aligned(virt) \/ ~Aligned(phys)
    PROVE  AllIdentity(pages)'
<1>0. Owned(pt)
  BY DEF PInv
<1>2. Vital(f) \subseteq VPages
  BY CoveredPages DEF Vital
<1>3. ASSUME NEW page \in pages PROVE Identity(page, {WRITABLE})'
  <2>1. page \in VPages /\ page \in Vital(f) /\ Identity(page, {WRITABLE})
    BY <1>2 DEF AllIdentity
  <2>2. CASE MapPageStatus(virt, phys) # "OK" \/ page # virt \div PAGE_SIZE
    BY <1>0, <2>1, <2>2, IdentityKept
  <2>3. CASE MapPageStatus(virt, phys) = "OK" /\ page = virt \div PAGE_SIZE
    <3>1. Aligned(virt) /\ Aligned(phys)
      BY <2>3 DEF MapPageStatus
    <3>2. virt = phys /\ flags = {WRITABLE}
      BY <2>1, <2>3, <3>1
    <3>3. page * PAGE_SIZE = virt
      BY <2>3, <3>1, PageAt DEF Aligned
    <3> QED
      BY <1>0, <2>1, <3>2, <3>3, IdentityKept
  <2> QED
    BY <2>2, <2>3
<1> QED
  BY <1>3 DEF AllIdentity

\* The framebuffer of this boot is one of those the clients stay clear of.
LEMMA ClientKeepsBoth ==
    ASSUME PInv, VInv, cr0_pg, NEW virt \in Word, NEW phys \in Word, NEW flags \in Flags,
           MapPage(virt, phys, flags), UNCHANGED fb,
           \/ virt = phys /\ flags = {WRITABLE}
           \/ virt \div PAGE_SIZE \notin Vital(fb)
           \/ ~Aligned(virt) \/ ~Aligned(phys)
    PROVE  /\ AllIdentity(Covered(0, LowEnd))'
           /\ BelowTop(fb[1], fb[2]) => AllIdentity(Covered(fb[1], fb[2]))'
<1> PICK f, low, frame : /\ f = fb /\ low = Covered(0, LowEnd)
                         /\ frame = Covered(f[1], f[2])
  OBVIOUS
<1>1. low \in SUBSET Vital(f) /\ frame \in SUBSET Vital(f)
  BY DEF Vital
<1>2. AllIdentity(low) /\ (BelowTop(f[1], f[2]) => AllIdentity(frame))
  BY DEF VInv
<1>3. AllIdentity(low)' /\ (AllIdentity(frame) => AllIdentity(frame)')
  BY <1>1, <1>2, ClientKeeps
<1> QED
  BY <1>2, <1>3

LEMMA VInvMapRangeStep ==
    ASSUME PInv, VInv, MapRangeStep
    PROVE  VInv'
<1>1. /\ pc = "map" /\ addr < end /\ MapPage(addr, addr, range.flags)
      /\ UNCHANGED <<paging_active, cr0_pg, fb, range, end>>
  BY DEF MapRangeStep
<1>2. Owned(pt) /\ addr \in Word /\ addr % PAGE_SIZE = 0 /\ range.flags \in Flags
  <2>1. ADDR_SPACE \in Nat
    BY Sizes
  <2> QED
    BY <1>1, <2>1 DEF PInv, TypeOK, Loop, Word
<1>3. /\ Cursor /\ stage \in {"none", "low", "fb"}
      /\ stage # "none" => ~cr0_pg /\ ~paging_active
  BY <1>1 DEF VInv, PInv, TypeOK
<1>4. CASE stage = "none"
  <2>1. /\ cr0_pg => AllIdentity(Covered(0, LowEnd))'
        /\ cr0_pg /\ BelowTop(fb[1], fb[2]) => AllIdentity(Covered(fb[1], fb[2]))'
    <3>1. SUFFICES ASSUME cr0_pg
                   PROVE  /\ AllIdentity(Covered(0, LowEnd))'
                          /\ BelowTop(fb[1], fb[2]) =>
                                AllIdentity(Covered(fb[1], fb[2]))'
      OBVIOUS
    <3>2. fb \in Framebuffers
      BY <3>1 DEF VInv
    <3>3. PICK r \in Ranges : /\ range.start = r[1] /\ range.size = r[2]
                              /\ range.flags = r[3]
      BY <1>3, <1>4 DEF Cursor
    <3>4. range.flags = {WRITABLE} \/ addr \div PAGE_SIZE \notin Vital(fb)
      <4>1. ASSUME BelowTop(range.start, range.size)
            PROVE  addr \div PAGE_SIZE \in Covered(range.start, range.size)
        <5> PICK start, size, e, p :
               /\ start = range.start /\ size = range.size /\ p = addr \div PAGE_SIZE
               /\ e = align_down(start + size + PAGE_SIZE - 1)
          OBVIOUS
        <5>1. /\ start \in Nat /\ size \in Nat /\ size > 0 /\ e = end
              /\ BelowTop(start, size) /\ align_down(start) <= addr
          BY <1>3, <4>1, Sizes DEF Cursor, Word
        <5>2. \A page \in VPages :
                 align_down(start) <= page * PAGE_SIZE /\ page * PAGE_SIZE < e
                    => page \in Covered(start, size)
          BY <5>1, CoveredBetween
        <5>3. p \in VPages /\ p * PAGE_SIZE = addr
          BY <1>2, PageAt
        <5> QED
          BY <1>1, <5>1, <5>2, <5>3
      <4>2. \/ r[3] = {WRITABLE}
            \/ BelowTop(r[1], r[2]) /\ Covered(r[1], r[2]) \cap Vital(fb) = {}
        BY <3>2, ClientsAssumption
      <4> QED
        BY <3>3, <4>1, <4>2
    <3> QED
      BY <1>1, <1>2, <3>1, <3>4, ClientKeepsBoth
  <2>2. CASE MapPageStatus(addr, addr) = "OK"
    <3>1. addr' = addr + PAGE_SIZE /\ UNCHANGED <<pc, stage, status>>
      BY <2>2 DEF MapRangeStep
    <3>2. Cursor'
      BY <1>1, <1>3, <2>2, <3>1, CursorMoves
    <3> QED
      BY <1>1, <1>4, <2>1, <3>1, <3>2 DEF VInv
  <2>3. CASE MapPageStatus(addr, addr) # "OK"
    <3>1. pc' = "idle" /\ stage' = "none"
      BY <2>3 DEF MapRangeStep
    <3> QED
      BY <1>1, <1>4, <2>1, <3>1 DEF VInv
  <2> QED
    BY <2>2, <2>3
<1>5. CASE stage # "none"
  <2>1. range.flags = {WRITABLE} /\ ~cr0_pg /\ ~paging_active
    BY <1>3, <1>5 DEF Cursor
  <2>2. CASE MapPageStatus(addr, addr) = "OK"
    <3>1. addr' = addr + PAGE_SIZE /\ UNCHANGED <<pc, stage, status>>
      BY <2>2 DEF MapRangeStep
    <3>2. Cursor'
      BY <1>1, <1>3, <2>2, <3>1, CursorMoves
    <3>3. AllIdentity(Covered(0, LowEnd)) => AllIdentity(Covered(0, LowEnd))'
      BY <1>1, <1>2, <2>1, CoveredPages, WritableKept
    <3> QED
      BY <1>1, <1>5, <2>1, <3>1, <3>2, <3>3 DEF VInv
  <2>3. CASE MapPageStatus(addr, addr) # "OK"
    <3>1. pc' = "idle" /\ stage' = "none"
      BY <2>3 DEF MapRangeStep
    <3> QED
      BY <1>1, <2>1, <3>1 DEF VInv
  <2> QED
    BY <2>2, <2>3
<1> QED
  BY <1>4, <1>5

LEMMA VInvMapRangeDone ==
    ASSUME PInv, VInv, MapRangeDone
    PROVE  VInv'
<1>1. pc = "map" /\ addr >= end /\ UNCHANGED <<pt, paging_active, cr0_pg, tlb, fb>>
  BY DEF MapRangeDone
<1>2. Cursor
  BY <1>1 DEF VInv
<1>3. /\ AllIdentity(Covered(0, LowEnd)) => AllIdentity(Covered(0, LowEnd))'
      /\ AllIdentity(Covered(fb[1], fb[2])) => AllIdentity(Covered(fb[1], fb[2]))'
  BY <1>1 DEF AllIdentity, Identity, Translation
<1>4. CASE stage = "none" /\ pc' = "idle" /\ UNCHANGED stage
  BY <1>1, <1>3, <1>4 DEF VInv
<1>5. stage = "low" => AllIdentity(Covered(0, LowEnd))
  BY <1>1, <1>2, CursorAtEnd, LowRangeFits DEF Cursor, AllIdentity
<1>6. CASE stage = "low" /\ fb[2] # 0 /\ EnterRange(fb[1], fb[2], {WRITABLE}, "fb")
  <2>0. fb \in Framebuffers
    BY <1>1 DEF VInv
  <2>1. /\ fb[1] \in Word /\ fb[2] \in Word /\ fb[2] > 0
    <3>1. fb[1] \in Word /\ fb[2] \in Word
      BY <2>0, ArgumentsAssumption DEF Word
    <3> QED
      BY <1>6, <3>1 DEF Word
  <2>2. /\ pc' = "map" /\ stage' = "fb"
        /\ range' = [start |-> fb[1], size |-> fb[2], flags |-> {WRITABLE}]
        /\ BelowTop(fb[1], fb[2]) =>
              /\ end' = align_down(fb[1] + fb[2] + PAGE_SIZE - 1)
              /\ align_down(fb[1]) <= addr'
              /\ Reached(fb[1], fb[2], {WRITABLE})'
    <3>1. PICK start, size : start = fb[1] /\ size = fb[2]
      OBVIOUS
    <3>2. /\ pc' = "map" /\ stage' = "fb"
          /\ range' = [start |-> start, size |-> size, flags |-> {WRITABLE}]
          /\ BelowTop(start, size) =>
                /\ end' = align_down(start + size + PAGE_SIZE - 1)
                /\ align_down(start) <= addr'
                /\ Reached(start, size, {WRITABLE})'
      BY <1>6, <2>1, <3>1, RangeStarts
    <3> QED
      BY <1>1, <3>1, <3>2
  <2>3. Cursor'
    BY <1>1, <2>1, <2>2 DEF Cursor, Reached
  <2> QED
    BY <1>1, <1>3, <1>5, <1>6, <2>0, <2>2, <2>3 DEF VInv
<1>7. CASE (stage = "fb" \/ (stage = "low" /\ fb[2] = 0)) /\ pc' = "enable" /\ UNCHANGED stage
  <2>1. ASSUME BelowTop(fb[1], fb[2]) PROVE AllIdentity(Covered(fb[1], fb[2]))
    <3>1. CASE stage = "fb"
      BY <1>1, <1>2, <2>1, <3>1, CursorAtEnd DEF Cursor, AllIdentity
    <3>2. CASE fb[2] = 0
      BY <3>2 DEF AllIdentity, Covered
    <3> QED
      BY <1>7, <3>1, <3>2
  <2>2. AllIdentity(Covered(0, LowEnd))
    BY <1>1, <1>5, <1>7 DEF VInv
  <2> QED
    BY <1>1, <1>3, <1>7, <2>1, <2>2 DEF VInv
<1> QED
  BY <1>4, <1>6, <1>7 DEF MapRangeDone

LEMMA VInvOthers ==
    ASSUME PInv, VInv,
           \/ EnablePaging \/ SetActive \/ UNCHANGED vars
           \/ \E page \in VPages : TlbFill(page)
    PROVE  VInv'
<1>1. UNCHANGED <<pt, fb, range, addr, end>>
  BY DEF EnablePaging, SetActive, TlbFill, loop, vars
<1>2. /\ AllIdentity(Covered(0, LowEnd)) => AllIdentity(Covered(0, LowEnd))'
      /\ AllIdentity(Covered(fb[1], fb[2])) => AllIdentity(Covered(fb[1], fb[2]))'
      /\ UNCHANGED stage /\ Cursor => Cursor'
  BY <1>1 DEF AllIdentity, Identity, Translation, Cursor, Reached
<1> QED
  BY <1>1, <1>2 DEF EnablePaging, SetActive, TlbFill, vars, VInv

LEMMA VInvIdentityMapRange ==
    ASSUME PInv, VInv, NEW r \in Ranges,
           IdentityMapRange(r[1], r[2], r[3])
    PROVE  VInv'
<1>1. /\ EnterRange(r[1], r[2], r[3], "none") /\ pc = "idle" /\ paging_active
      /\ UNCHANGED <<pt, paging_active, cr0_pg, tlb, fb>>
  BY DEF IdentityMapRange
<1>2. /\ AllIdentity(Covered(0, LowEnd)) => AllIdentity(Covered(0, LowEnd))'
      /\ AllIdentity(Covered(fb[1], fb[2])) => AllIdentity(Covered(fb[1], fb[2]))'
  BY <1>1 DEF AllIdentity, Identity, Translation
<1>3. r[1] \in Word /\ r[2] \in Word
  BY ArgumentsAssumption DEF Word
<1>4. CASE r[2] = 0
  <2>1. pc' = "idle" /\ stage' = "none"
    BY <1>1, <1>4 DEF EnterRange
  <2> QED
    BY <1>1, <1>2, <2>1 DEF VInv
<1>5. CASE r[2] # 0
  <2>1. r[2] > 0
    BY <1>3, <1>5 DEF Word
  <2>2. /\ pc' = "map" /\ stage' = "none"
        /\ range' = [start |-> r[1], size |-> r[2], flags |-> r[3]]
        /\ BelowTop(r[1], r[2]) =>
              /\ end' = align_down(r[1] + r[2] + PAGE_SIZE - 1)
              /\ align_down(r[1]) <= addr'
              /\ Reached(r[1], r[2], r[3])'
    BY <1>1, <1>3, <2>1, RangeStarts
  <2>3. Cursor'
    BY <1>3, <2>1, <2>2 DEF Cursor, Reached
  <2> QED
    BY <1>1, <1>2, <2>2, <2>3 DEF VInv
<1> QED
  BY <1>4, <1>5

LEMMA VInvMapOnePage ==
    ASSUME PInv, VInv, NEW m \in Pages, MapOnePage(m[1], m[2], m[3])
    PROVE  VInv'
<1>1. /\ MapPage(m[1], m[2], m[3]) /\ pc = "idle" /\ paging_active
      /\ UNCHANGED <<paging_active, cr0_pg, pc, stage, fb, range, addr, end>>
  BY DEF MapOnePage, loop
<1>2. cr0_pg /\ fb \in Framebuffers
  BY <1>1 DEF VInv
<1>3. m[1] \in Word /\ m[2] \in Word /\ m[3] \in Flags
  BY ArgumentsAssumption DEF Word
<1>4. \/ m[1] = m[2] /\ m[3] = {WRITABLE}
      \/ m[1] \div PAGE_SIZE \notin Vital(fb)
      \/ ~Aligned(m[1]) \/ ~Aligned(m[2])
  BY <1>2, ClientsAssumption
<1>5. /\ AllIdentity(Covered(0, LowEnd))'
      /\ BelowTop(fb[1], fb[2]) => AllIdentity(Covered(fb[1], fb[2]))'
  BY <1>1, <1>2, <1>3, <1>4, ClientKeepsBoth
<1> QED
  BY <1>1, <1>2, <1>5 DEF VInv

LEMMA VInvNext ==
    ASSUME PInv, VInv, [Next]_vars
    PROVE  VInv'
  BY VInvPagingInit, VInvMapRangeStep, VInvMapRangeDone, VInvOthers,
     VInvIdentityMapRange, VInvMapOnePage DEF Next

LEMMA VInvAlways == Spec => []VInv
<1>1. PInv /\ VInv /\ [Next]_vars => VInv'
  BY VInvNext
<1> QED
  BY <1>1, VInvInit, PInvAlways, PTL DEF Spec

\* From the store to CR0 on, low memory, the kernel and the framebuffer are
\* mapped to themselves and writable, and no later mapping changes that, for any
\* framebuffer that does not reach the last page (there paging_init leaves it
\* unmapped).
THEOREM PagingOnAlwaysSafe == Spec => [](BelowTop(fb[1], fb[2]) => PagingOnIsSafe)
<1>1. VInv /\ BelowTop(fb[1], fb[2]) => PagingOnIsSafe
  <2>1. \A page \in Covered(0, KERNEL_END) : page \in Covered(0, LowEnd)
    <3>1. /\ KERNEL_END \in Nat /\ LowEnd \in Nat /\ KERNEL_END <= LowEnd
          /\ PAGE_SIZE \in Nat \ {0}
      BY PagingAssumption, LowRange, Sizes DEF LowEnd, Word
    <3>2. ASSUME NEW page \in VPages, page * PAGE_SIZE < 0 + KERNEL_END
          PROVE  page * PAGE_SIZE < 0 + LowEnd
      <4>1. page * PAGE_SIZE \in Int
        BY <3>1, Sizes DEF VPages
      <4> QED
        BY <3>1, <3>2, <4>1
    <3>3. KERNEL_END > 0 => LowEnd > 0
      BY <3>1
    <3> QED
      BY <3>2, <3>3 DEF Covered
  <2> QED
    BY <2>1 DEF VInv, AllIdentity, PagingOnIsSafe
<1> QED
  BY <1>1, VInvAlways, PTL

LEMMA RangeIsMapped ==
    PInv /\ VInv /\ BelowTop(range.start, range.size) => RangeMapped
  BY CursorAtEnd DEF VInv, RangeMapped

\* When the loop of paging_identity_map_range ends, its whole range is mapped to
\* itself, for any range that does not reach the last page.
THEOREM RangeAlwaysMapped ==
    Spec => [](BelowTop(range.start, range.size) => RangeMapped)
<1> QED
  BY RangeIsMapped, PInvAlways, VInvAlways, PTL

-----------------------------------------------------------------------------
(* The loop of paging_identity_map_range ends                               *)

LEMMA ExactMultiple ==
    ASSUME NEW a \in Nat, a % PAGE_SIZE = 0
    PROVE  \E m \in Int : a = PAGE_SIZE * m
<1>1. PAGE_SIZE \in Nat \ {0} /\ a \in Int
  BY Sizes
<1>2. /\ a \div PAGE_SIZE \in Int
      /\ a = (PAGE_SIZE * (a \div PAGE_SIZE)) + (a % PAGE_SIZE)
  BY <1>1, DivMod
<1>3. a = PAGE_SIZE * (a \div PAGE_SIZE)
  <2>1. PAGE_SIZE * (a \div PAGE_SIZE) \in Int
    BY <1>1, <1>2
  <2> QED
    BY <1>2, <2>1
<1> QED
  BY <1>2, <1>3

\* The end of a range is rounded to a page, and stays so when it is cut to the
\* width of an address.
LEMMA EndRounded ==
    ASSUME NEW start \in Nat, NEW size \in Nat, NEW w,
           w = align_down(start + size + PAGE_SIZE - 1) % ADDR_SPACE
    PROVE  w % PAGE_SIZE = 0
<1> PICK a, n : a = align_down(start + size + PAGE_SIZE - 1) /\ n = DIR_ENTRIES * ENTRIES
  OBVIOUS
<1>1. /\ PAGE_SIZE \in Nat \ {0} /\ ADDR_SPACE \in Nat \ {0} /\ n \in Nat
      /\ ADDR_SPACE = n * PAGE_SIZE
  BY Sizes
<1>2. start + size + PAGE_SIZE - 1 \in Nat
  BY <1>1
<1>3. a \in Nat /\ a % PAGE_SIZE = 0
  BY <1>2, AlignDown
<1>4. PICK m \in Int : a = PAGE_SIZE * m
  BY <1>1, <1>3, ExactMultiple
<1>5. PICK q \in Int : a = (ADDR_SPACE * q) + w
  <2>1. a \in Int
    BY <1>3
  <2>2. /\ a \div ADDR_SPACE \in Int /\ w = a % ADDR_SPACE
        /\ a = (ADDR_SPACE * (a \div ADDR_SPACE)) + (a % ADDR_SPACE)
    BY <1>1, <1>4, <2>1, DivMod
  <2> QED
    BY <2>2
<1>6. w \in Int
  <2>1. a \in Int
    BY <1>3
  <2>2. a % ADDR_SPACE \in 0 .. ADDR_SPACE - 1
    BY <1>1, <2>1, DivMod
  <2> QED
    BY <1>1, <2>2
<1>7. ADDR_SPACE * q = (n * q) * PAGE_SIZE
  BY <1>1, <1>5
<1>8. PICK k \in Int : k = m - (n * q)
  BY <1>1
<1>9. w = k * PAGE_SIZE
  <2>1. k * PAGE_SIZE = (m * PAGE_SIZE) - ((n * q) * PAGE_SIZE)
    BY <1>1, <1>8
  <2> QED
    BY <1>1, <1>4, <1>5, <1>6, <1>7, <2>1
<1>10. \A j \in Int : (j * PAGE_SIZE) % PAGE_SIZE = 0
  BY <1>1
<1> QED
  BY <1>9, <1>10

\* Below a page boundary there is room for the rest of the page.
LEMMA RoomForPage ==
    ASSUME NEW a \in Nat, NEW e \in Nat, a % PAGE_SIZE = 0, e % PAGE_SIZE = 0, a < e
    PROVE  a + PAGE_SIZE <= e
<1>1. PAGE_SIZE \in Nat \ {0}
  BY Sizes
<1>2. PICK k, m \in Int : a = PAGE_SIZE * k /\ e = PAGE_SIZE * m
  BY ExactMultiple
<1>3. k < m
  <2>1. \A b, c \in Int : b >= c => PAGE_SIZE * b >= PAGE_SIZE * c
    BY <1>1
  <2> QED
    BY <1>2, <2>1
<1>4. PAGE_SIZE * (k + 1) <= PAGE_SIZE * m
  <2>1. \A b, c \in Int : b <= c => PAGE_SIZE * b <= PAGE_SIZE * c
    BY <1>1
  <2> QED
    BY <1>2, <1>3, <2>1
<1>5. PAGE_SIZE * (k + 1) = PAGE_SIZE * k + PAGE_SIZE
  BY <1>1, <1>2
<1> QED
  BY <1>2, <1>4, <1>5

LEMMA EnteredAligned ==
    ASSUME NEW start \in Nat, NEW size \in Nat, NEW flags, NEW from,
           EnterRange(start, size, flags, from), end % PAGE_SIZE = 0
    PROVE  end' % PAGE_SIZE = 0
<1> PICK w : w = align_down(start + size + PAGE_SIZE - 1) % ADDR_SPACE
  OBVIOUS
<1>1. w % PAGE_SIZE = 0
  BY EndRounded
<1>2. end' = end \/ end' = w
  BY DEF EnterRange
<1> QED
  BY <1>1, <1>2

\* Each iteration of paging_identity_map_range moves the cursor on by one page,
\* without wrapping and without passing the end, which is a page boundary and
\* does not move: the loop ends, also for a range whose end was cut to 32 bits.
THEOREM RangeAdvances ==
    Spec => [][pc = "map" /\ pc' = "map" /\ addr < end =>
                  /\ end' = end /\ addr' \in {addr, addr + PAGE_SIZE} /\ addr' <= end
                  /\ addr' = addr => UNCHANGED <<pt, stage, range>>]_vars
<1> DEFINE Later == pc = "map" /\ pc' = "map" /\ addr < end =>
                      /\ end' = end /\ addr' \in {addr, addr + PAGE_SIZE} /\ addr' <= end
                      /\ addr' = addr => UNCHANGED <<pt, stage, range>>
           EndAligned == end % PAGE_SIZE = 0
<1>1. ASSUME PInv, EndAligned, Next
      PROVE  Later /\ EndAligned'
  <2>0. addr \in Nat /\ end \in Nat /\ PAGE_SIZE \in Nat \ {0} /\ fb[1] \in Nat /\ fb[2] \in Nat
    BY <1>1, Sizes DEF PInv, TypeOK, Loop, Word
  <2>1. ASSUME NEW f \in Framebuffers, PagingInit(f) PROVE Later /\ EndAligned'
    <3>1. 0 \in Nat /\ LowEnd \in Nat
      BY LowRange, Sizes DEF Word
    <3>2. pc # "map"
      BY <2>1 DEF PagingInit
    <3>3. end' = end \/ EnterRange(0, LowEnd, {WRITABLE}, "low")
      BY <2>1 DEF PagingInit, loop
    <3> QED
      BY <1>1, <3>1, <3>2, <3>3, EnteredAligned
  <2>2. CASE MapRangeStep
    <3>1. UNCHANGED <<end, range>> /\ pc = "map" /\ addr < end
      BY <2>2 DEF MapRangeStep
    <3>2. addr + PAGE_SIZE <= end /\ addr # addr + PAGE_SIZE
        <4>1. addr % PAGE_SIZE = 0 /\ end % PAGE_SIZE = 0
        BY <1>1, <3>1 DEF PInv, Loop
      <4>2. addr + PAGE_SIZE <= end
        BY <2>0, <3>1, <4>1, RoomForPage
      <4> QED
        BY <2>0, <4>2
    <3>3. pc' = "map" => addr' = addr + PAGE_SIZE
      BY <2>2 DEF MapRangeStep
    <3> QED
      BY <1>1, <3>1, <3>2, <3>3
  <2>3. CASE MapRangeDone
    <3>1. ~(addr < end)
      BY <2>0, <2>3 DEF MapRangeDone
    <3>2. end' = end \/ EnterRange(fb[1], fb[2], {WRITABLE}, "fb")
      BY <2>3 DEF MapRangeDone, loop
    <3> QED
      BY <1>1, <2>0, <3>1, <3>2, EnteredAligned
  <2>4. ASSUME NEW r \in Ranges, IdentityMapRange(r[1], r[2], r[3])
        PROVE  Later /\ EndAligned'
    <3>1. r[1] \in Nat /\ r[2] \in Nat
      BY <2>4, ArgumentsAssumption, Sizes
    <3>2. pc # "map" /\ EnterRange(r[1], r[2], r[3], "none")
      BY <2>4 DEF IdentityMapRange
    <3> QED
      BY <1>1, <3>1, <3>2, EnteredAligned
  <2>5. CASE EnablePaging \/ SetActive
    BY <1>1, <2>5 DEF EnablePaging, SetActive, loop
  <2>6. ASSUME NEW m \in Pages, MapOnePage(m[1], m[2], m[3]) PROVE Later /\ EndAligned'
    BY <1>1, <2>6 DEF MapOnePage, loop
  <2>7. ASSUME NEW page \in VPages, TlbFill(page) PROVE Later /\ EndAligned'
    BY <1>1, <2>0, <2>7 DEF TlbFill, loop
  <2> QED
    BY <1>1, <2>1, <2>2, <2>3, <2>4, <2>5, <2>6, <2>7 DEF Next
<1>2. Init => EndAligned
  <2>1. 0 % PAGE_SIZE = 0
    BY Sizes
  <2> QED
    BY <2>1 DEF Init
<1>3. EndAligned /\ UNCHANGED vars => EndAligned'
  BY DEF vars
<1> HIDE DEF Later, EndAligned
<1>4. PInv /\ EndAligned /\ [Next]_vars => EndAligned' /\ (Later \/ UNCHANGED vars)
  BY <1>1, <1>3
<1>5. Spec => [][Later]_vars
  BY <1>2, <1>4, PInvAlways, PTL DEF Spec
<1> QED
  BY <1>5 DEF Later
=============================================================================
