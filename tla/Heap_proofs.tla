------------------------------ MODULE Heap_proofs ------------------------------
(***************************************************************************)
(* Proofs about Heap.  The operators below take the header memory and the   *)
(* bounds of the heap as parameters, so that a lemma about one of the       *)
(* code's list operations says what it does to any memory.                  *)
(***************************************************************************)
EXTENDS Heap, ArithLemmas

Magics == {MAGIC_USED, MAGIC_FREE, ZERO, JUNK}
HeaderType == [size : 0 .. SIZE_SPACE - 1, magic : Magics, next : Slots, prev : Slots]
MemType == [Slots -> HeaderType]

HeadersOf(m) == {a \in Slots : m[a].magic \in {MAGIC_USED, MAGIC_FREE}}
UsedIn(m) == {a \in Slots : m[a].magic = MAGIC_USED}
EndIn(m, a) == a + HEADER_SIZE + m[a].size

\* A block lies in the heap, and its links lead to its neighbours.
Linked(m, lo, hi, a) ==
    /\ lo <= a /\ EndIn(m, a) <= hi /\ m[a].size % ALIGNMENT = 0
    /\ IF EndIn(m, a) = hi THEN m[a].next = NULL
       ELSE m[a].next = EndIn(m, a) /\ EndIn(m, a) \in HeadersOf(m)
    /\ IF a = lo THEN m[a].prev = NULL
       ELSE m[a].prev \in HeadersOf(m) /\ EndIn(m, m[a].prev) = a

\* The blocks tile [lo, hi): linked, and none starts inside another.
Tiled(m, lo, hi) ==
    /\ m \in MemType /\ lo \in Slots /\ hi \in Slots /\ lo > 0
    /\ lo \in HeadersOf(m)
    /\ \A a \in HeadersOf(m) : Linked(m, lo, hi, a)
    /\ \A a, c \in HeadersOf(m) : a < c => EndIn(m, a) <= c

\* Block c and the one after it are both free.
FreePair(m, c) ==
    /\ c \in HeadersOf(m) /\ m[c].magic = MAGIC_FREE
    /\ m[c].next # NULL /\ m[m[c].next].magic = MAGIC_FREE

NoFreePair(m) == \A c : ~FreePair(m, c)

\* The pairs there are contain block a; a is the second of the pair.
PairsHave(m, a) == \A c : FreePair(m, c) => c = a \/ m[c].next = a
PairsEnd(m, a) == \A c : FreePair(m, c) => m[c].next = a

Marked(m, a, magic) == [m EXCEPT ![a].magic = magic]

-----------------------------------------------------------------------------
(* Aligned numbers                                                          *)

LEMMA Constants ==
    /\ ALIGNMENT \in Nat /\ ALIGNMENT > 0 /\ SIZE_SPACE \in Nat
    /\ SIZE_SPACE % ALIGNMENT = 0 /\ ALIGNMENT <= SIZE_SPACE
  BY HeapAssumption

Aligned(x) == x \in Int /\ x % ALIGNMENT = 0

LEMMA AlignedSum ==
    ASSUME NEW x, NEW y, Aligned(x), Aligned(y)
    PROVE  Aligned(x + y) /\ Aligned(x - y)
<1> USE DEF Aligned
<1>1. ALIGNMENT \in Nat \ {0}
  BY Constants
<1>2. /\ x \div ALIGNMENT \in Int /\ y \div ALIGNMENT \in Int
      /\ x = ALIGNMENT * (x \div ALIGNMENT) /\ y = ALIGNMENT * (y \div ALIGNMENT)
  BY <1>1, DivMod
<1>3. \A k \in Int : (ALIGNMENT * k) % ALIGNMENT = 0
  BY <1>1
<1>4. /\ x + y = ALIGNMENT * ((x \div ALIGNMENT) + (y \div ALIGNMENT))
      /\ x - y = ALIGNMENT * ((x \div ALIGNMENT) - (y \div ALIGNMENT))
  BY <1>1, <1>2
<1> QED
  BY <1>2, <1>3, <1>4

\* Two aligned numbers are equal or at least ALIGNMENT apart.
LEMMA AlignedGap ==
    ASSUME NEW x, NEW y, Aligned(x), Aligned(y), x < y
    PROVE  x + ALIGNMENT <= y
<1> USE DEF Aligned
<1>1. (y - x) % ALIGNMENT = 0
  BY AlignedSum
<1>2. \A d \in Nat : d < ALIGNMENT => d % ALIGNMENT = d
  BY Constants
<1> QED
  BY <1>1, <1>2, Constants

LEMMA AlignDown ==
    ASSUME NEW x \in Nat
    PROVE  /\ ALIGN_DOWN(x) \in Nat /\ ALIGN_DOWN(x) % ALIGNMENT = 0
           /\ ALIGN_DOWN(x) <= x /\ x < ALIGN_DOWN(x) + ALIGNMENT
<1>1. ALIGNMENT \in Nat \ {0}
  BY Constants
<1>2. /\ x \div ALIGNMENT \in Int /\ x % ALIGNMENT \in 0 .. ALIGNMENT - 1
      /\ x = ALIGNMENT * (x \div ALIGNMENT) + (x % ALIGNMENT)
  BY <1>1, DivMod
<1>3. ALIGN_DOWN(x) = ALIGNMENT * (x \div ALIGNMENT)
  BY <1>1, <1>2 DEF ALIGN_DOWN
<1>4. (ALIGNMENT * (x \div ALIGNMENT)) % ALIGNMENT = 0
  BY <1>1, <1>2
<1>5. x \div ALIGNMENT >= 0
  BY <1>1
<1>6. ALIGNMENT * (x \div ALIGNMENT) \in Nat
  BY <1>1, <1>2, <1>5
<1> QED
  BY <1>1, <1>2, <1>3, <1>4, <1>6

\* Rounding up, where the sum does not wrap.
LEMMA AlignUp ==
    ASSUME NEW x \in Nat, x + ALIGNMENT - 1 < SIZE_SPACE
    PROVE  /\ ALIGN_UP(x) \in Slots
           /\ x <= ALIGN_UP(x) /\ ALIGN_UP(x) < x + ALIGNMENT
<1>1. x + ALIGNMENT - 1 \in Nat /\ (x + ALIGNMENT - 1) % SIZE_SPACE = x + ALIGNMENT - 1
  BY Constants
<1>2. ALIGN_UP(x) = ALIGN_DOWN(x + ALIGNMENT - 1)
  BY <1>1 DEF ALIGN_UP
<1>3. /\ ALIGN_UP(x) \in Nat /\ ALIGN_UP(x) % ALIGNMENT = 0
      /\ ALIGN_UP(x) <= x + ALIGNMENT - 1 /\ x + ALIGNMENT - 1 < ALIGN_UP(x) + ALIGNMENT
  BY <1>1, <1>2, AlignDown
<1>4. x <= ALIGN_UP(x) /\ ALIGN_UP(x) < x + ALIGNMENT /\ ALIGN_UP(x) \in 0 .. SIZE_SPACE - 1
  BY <1>3, Constants
<1> QED
  BY <1>3, <1>4 DEF Slots

LEMMA HeaderSize ==
    /\ HEADER_SIZE \in Nat /\ HEADER_SIZE % ALIGNMENT = 0 /\ HEADER_SIZE >= ALIGNMENT
    /\ MIN_SPLIT \in Nat /\ MIN_SPLIT = HEADER_SIZE + ALIGNMENT
<1>1. HEADER_SIZE \in Slots /\ SIZEOF_BLOCK <= HEADER_SIZE
  BY AlignUp, HeapAssumption DEF HEADER_SIZE
<1>2. 0 % ALIGNMENT = 0
  BY Constants
<1>3. HEADER_SIZE \in Nat /\ HEADER_SIZE % ALIGNMENT = 0 /\ 0 < HEADER_SIZE
  BY <1>1, HeapAssumption DEF Slots
<1>4. 0 + ALIGNMENT <= HEADER_SIZE
  BY <1>2, <1>3, AlignedGap DEF Aligned
<1> QED
  BY <1>3, <1>4, Constants DEF MIN_SPLIT

LEMMA SlotsAre ==
    /\ NULL \in Slots /\ Slots \subseteq Nat
    /\ \A a \in Slots : a % ALIGNMENT = 0 /\ a <= SIZE_SPACE - ALIGNMENT
<1>1. 0 % ALIGNMENT = 0
  BY Constants
<1>2. NULL \in Slots
  BY <1>1, Constants DEF NULL, Slots
<1>3. ASSUME NEW a \in Slots
      PROVE  a % ALIGNMENT = 0 /\ a <= SIZE_SPACE - ALIGNMENT
  <2>1. a \in Nat /\ a % ALIGNMENT = 0 /\ a < SIZE_SPACE
    BY Constants DEF Slots
  <2>2. a \in Int /\ SIZE_SPACE \in Int /\ SIZE_SPACE % ALIGNMENT = 0 /\ ALIGNMENT \in Int
    BY <2>1, Constants
  <2>3. a + ALIGNMENT <= SIZE_SPACE
    BY <2>1, <2>2, AlignedGap DEF Aligned
  <2> QED
    BY <2>1, <2>2, <2>3
<1> QED
  BY <1>2, <1>3 DEF Slots

-----------------------------------------------------------------------------
(* Neighbours                                                               *)

LEMMA BlockFacts ==
    ASSUME NEW m, NEW lo, NEW hi, Tiled(m, lo, hi), NEW a \in HeadersOf(m)
    PROVE  /\ a \in Slots /\ a \in Nat /\ lo \in Nat /\ hi \in Nat
           /\ 0 < lo /\ lo <= a /\ m[a] \in HeaderType /\ m[a].size \in Nat
           /\ EndIn(m, a) = a + HEADER_SIZE + m[a].size
           /\ a < EndIn(m, a) /\ EndIn(m, a) <= hi /\ EndIn(m, a) \in Slots
           /\ a + HEADER_SIZE \in Slots
<1>a. a \in Slots /\ lo \in Slots /\ hi \in Slots /\ m \in MemType
      /\ Linked(m, lo, hi, a) /\ 0 < lo
  BY DEF Tiled, HeadersOf
<1>b. m[a] \in HeaderType
  BY <1>a DEF MemType
<1>1. /\ a \in Slots /\ a \in Nat /\ lo \in Nat /\ hi \in Nat
      /\ 0 < lo /\ lo <= a /\ m[a] \in HeaderType /\ m[a].size \in Nat
  BY <1>a, <1>b, SlotsAre, Constants DEF Linked, HeaderType
<1>2. /\ EndIn(m, a) = a + HEADER_SIZE + m[a].size /\ EndIn(m, a) <= hi
      /\ m[a].size % ALIGNMENT = 0 /\ a % ALIGNMENT = 0
  BY <1>a, SlotsAre DEF Linked, EndIn
<1>3. hi <= SIZE_SPACE - ALIGNMENT
  BY SlotsAre DEF Tiled
<1>4. Aligned(a) /\ Aligned(HEADER_SIZE) /\ Aligned(m[a].size)
  BY <1>1, <1>2, HeaderSize DEF Aligned
<1>5. Aligned(a + HEADER_SIZE) /\ Aligned(a + HEADER_SIZE + m[a].size)
  BY <1>4, AlignedSum
<1>6. /\ a + HEADER_SIZE \in 0 .. SIZE_SPACE - 1
      /\ a + HEADER_SIZE + m[a].size \in 0 .. SIZE_SPACE - 1
  BY <1>1, <1>2, <1>3, HeaderSize, Constants
<1>7. EndIn(m, a) \in Slots /\ a + HEADER_SIZE \in Slots
  BY <1>2, <1>5, <1>6 DEF Slots, Aligned
<1> QED
  BY <1>1, <1>2, <1>7, HeaderSize, Constants

\* `next' is the physical neighbour, and `prev' its inverse.
LEMMA NextBlock ==
    ASSUME NEW m, NEW lo, NEW hi, Tiled(m, lo, hi), NEW a \in HeadersOf(m),
           m[a].next # NULL
    PROVE  /\ m[a].next \in HeadersOf(m) /\ m[a].next = EndIn(m, a)
           /\ a < m[a].next /\ m[m[a].next].prev = a
<1> DEFINE n == m[a].next
<1>1. n = EndIn(m, a) /\ n \in HeadersOf(m) /\ a < n
  BY BlockFacts DEF Tiled, Linked
<1>2. n # lo
  BY <1>1, BlockFacts
<1>3. m[n].prev \in HeadersOf(m) /\ EndIn(m, m[n].prev) = n
  BY <1>1, <1>2 DEF Tiled, Linked
<1> DEFINE p == m[n].prev
<1>4. p < a => EndIn(m, p) <= a
  BY <1>3 DEF Tiled
<1>5. a < p => EndIn(m, a) <= p
  BY <1>3 DEF Tiled
<1>6. /\ p \in Nat /\ p < EndIn(m, p) /\ a \in Nat /\ n \in Nat
      /\ EndIn(m, a) \in Nat /\ EndIn(m, p) \in Nat
  BY <1>1, <1>3, BlockFacts, SlotsAre
<1>7. p = a
  BY <1>1, <1>3, <1>4, <1>5, <1>6
<1> QED
  BY <1>1, <1>7

LEMMA PrevBlock ==
    ASSUME NEW m, NEW lo, NEW hi, Tiled(m, lo, hi), NEW a \in HeadersOf(m),
           m[a].prev # NULL
    PROVE  /\ m[a].prev \in HeadersOf(m) /\ m[a].prev < a
           /\ m[m[a].prev].next = a
<1> DEFINE p == m[a].prev
<1>1. p \in HeadersOf(m) /\ EndIn(m, p) = a
  BY DEF Tiled, Linked
<1>2. /\ p \in Nat /\ a \in Nat /\ hi \in Nat /\ p < EndIn(m, p)
      /\ a < EndIn(m, a) /\ EndIn(m, a) <= hi /\ EndIn(m, a) \in Nat
  BY <1>1, BlockFacts, SlotsAre
<1>3. EndIn(m, p) # hi /\ Linked(m, lo, hi, p)
  BY <1>1, <1>2 DEF Tiled
<1> QED
  BY <1>1, <1>2, <1>3 DEF Linked

-----------------------------------------------------------------------------
(* The operations on the list                                               *)

\* Writing a magic of a block keeps the list.
LEMMA MagicWritten ==
    ASSUME NEW m, NEW lo, NEW hi, Tiled(m, lo, hi), NEW a \in HeadersOf(m),
           NEW magic \in {MAGIC_USED, MAGIC_FREE},
           NEW w, w = Marked(m, a, magic)
    PROVE  /\ Tiled(w, lo, hi) /\ HeadersOf(w) = HeadersOf(m)
           /\ w[a].magic = magic /\ w[a].next = m[a].next
           /\ w[a].size = m[a].size
           /\ \A c \in Slots : c # a => w[c] = m[c]
<1>1. a \in Slots /\ m \in MemType
  BY DEF HeadersOf, Tiled
<1>0. w = [m EXCEPT ![a].magic = magic]
  BY DEF Marked
<1>2. w \in MemType
  BY <1>0, <1>1 DEF MemType, HeaderType, Magics
<1>3. w[a] = [m[a] EXCEPT !.magic = magic] /\ \A c \in Slots : c # a => w[c] = m[c]
  BY <1>0, <1>1 DEF MemType, HeaderType
<1>4. \A c \in Slots : /\ w[c].size = m[c].size /\ w[c].next = m[c].next
                       /\ w[c].prev = m[c].prev
  BY <1>1, <1>3 DEF MemType, HeaderType
<1>5. HeadersOf(w) = HeadersOf(m)
  BY <1>1, <1>3 DEF HeadersOf, MemType, HeaderType
<1>6. \A c \in Slots : EndIn(w, c) = EndIn(m, c)
  BY <1>4 DEF EndIn
<1>7. ASSUME NEW c \in HeadersOf(w)
      PROVE  Linked(w, lo, hi, c)
  <2>1. Linked(m, lo, hi, c) /\ c \in Slots
    BY <1>5 DEF Tiled, HeadersOf
  <2>2. c # lo => m[c].prev \in Slots
    BY <2>1 DEF Linked, HeadersOf
  <2> QED
    BY <1>4, <1>5, <1>6, <2>1, <2>2 DEF Linked
<1>8. Tiled(w, lo, hi)
  BY <1>2, <1>5, <1>6, <1>7 DEF Tiled, HeadersOf
<1>9. w[a].magic = magic
  BY <1>1, <1>3 DEF MemType, HeaderType
<1> QED
  BY <1>1, <1>3, <1>4, <1>5, <1>8, <1>9
\* What Absorb writes, field by field.
LEMMA AbsorbWrites ==
    ASSUME NEW m \in MemType, NEW p \in Slots, NEW n \in Slots,
           p # n, m[n].next # n, m[n].next # p,
           m[p].size + HEADER_SIZE + m[n].size \in 0 .. SIZE_SPACE - 1,
           NEW w, w = Absorb(m, p, n)
    PROVE  /\ w \in MemType /\ w[n].magic = ZERO
           /\ w[p].size = m[p].size + HEADER_SIZE + m[n].size
           /\ w[p].magic = m[p].magic /\ w[p].next = m[n].next
           /\ w[p].prev = m[p].prev
           /\ \A c \in Slots \ {p, n} :
                 /\ w[c].size = m[c].size /\ w[c].magic = m[c].magic
                 /\ w[c].next = m[c].next
                 /\ w[c].prev = IF c = m[n].next /\ c # NULL THEN p ELSE m[c].prev
<1> DEFINE m1 == [m EXCEPT ![p].size = @ + HEADER_SIZE + m[n].size,
                           ![p].next = m[n].next]
           m2 == IF m[n].next # NULL THEN [m1 EXCEPT ![m[n].next].prev = p] ELSE m1
<1>0. w = [m2 EXCEPT ![n].magic = ZERO]
  BY DEF Absorb
<1>1. m[n] \in HeaderType /\ m[p] \in HeaderType /\ m[n].next \in Slots
  BY DEF MemType, HeaderType
<1>2. /\ m1 \in MemType
      /\ m1[p] = [m[p] EXCEPT !.size = @ + HEADER_SIZE + m[n].size,
                              !.next = m[n].next]
      /\ \A c \in Slots \ {p} : m1[c] = m[c]
  BY <1>1 DEF MemType, HeaderType
<1> HIDE DEF m1
<1>3. /\ m2 \in MemType
      /\ m2[p] = m1[p]
      /\ \A c \in Slots \ {p} :
            m2[c] = IF c = m[n].next /\ c # NULL
                    THEN [m[c] EXCEPT !.prev = p] ELSE m[c]
  BY <1>1, <1>2 DEF MemType, HeaderType
<1> HIDE DEF m2
<1>4. /\ w \in MemType /\ w[n].magic = ZERO
      /\ \A c \in Slots \ {n} : w[c] = m2[c]
  BY <1>0, <1>3 DEF MemType, HeaderType, Magics
<1>5. /\ w[p] = [m[p] EXCEPT !.size = @ + HEADER_SIZE + m[n].size, !.next = m[n].next]
      /\ \A c \in Slots \ {p, n} :
            w[c] = IF c = m[n].next /\ c # NULL
                   THEN [m[c] EXCEPT !.prev = p] ELSE m[c]
  BY <1>2, <1>3, <1>4
<1>6. /\ w[p].size = m[p].size + HEADER_SIZE + m[n].size
      /\ w[p].magic = m[p].magic /\ w[p].next = m[n].next /\ w[p].prev = m[p].prev
  BY <1>1, <1>5 DEF HeaderType
<1>7. ASSUME NEW c \in Slots \ {p, n}
      PROVE  /\ w[c].size = m[c].size /\ w[c].magic = m[c].magic
             /\ w[c].next = m[c].next
             /\ w[c].prev = IF c = m[n].next /\ c # NULL THEN p ELSE m[c].prev
  <2>1. m[c] \in HeaderType
    BY DEF MemType
  <2> QED
    BY <1>5, <2>1 DEF HeaderType
<1> QED
  BY <1>4, <1>6, <1>7

\* Absorbing the next block takes it out of the list and changes no other block
\* but its back link.
LEMMA BlockAbsorbed ==
    ASSUME NEW m, NEW lo, NEW hi, Tiled(m, lo, hi),
           NEW p \in HeadersOf(m), NEW n \in HeadersOf(m), m[p].next = n,
           NEW w, w = Absorb(m, p, n)
    PROVE  /\ Tiled(w, lo, hi)
           /\ HeadersOf(w) = HeadersOf(m) \ {n} /\ w[n].magic = ZERO
           /\ w[p].magic = m[p].magic /\ w[p].next = m[n].next
           /\ w[p].prev = m[p].prev
           /\ \A c \in Slots \ {p, n} :
                 /\ w[c].size = m[c].size /\ w[c].magic = m[c].magic
                 /\ w[c].next = m[c].next
<1> DEFINE k == m[n].next
<1>1. /\ p \in Slots /\ n \in Slots /\ p \in Nat /\ n \in Nat /\ hi \in Nat
      /\ n # NULL /\ m[p].size \in Nat /\ m[n].size \in Nat
      /\ EndIn(m, n) = n + HEADER_SIZE + m[n].size /\ EndIn(m, n) <= hi
      /\ EndIn(m, p) = p + HEADER_SIZE + m[p].size
      /\ EndIn(m, n) \in Nat /\ n < EndIn(m, n) /\ m \in MemType
      /\ Linked(m, lo, hi, p) /\ Linked(m, lo, hi, n)
  <2>1. n # NULL
    BY BlockFacts DEF NULL
  <2>2. m \in MemType /\ Linked(m, lo, hi, p) /\ Linked(m, lo, hi, n)
    BY DEF Tiled
  <2>3. EndIn(m, n) \in Nat
    BY BlockFacts, SlotsAre
  <2> QED
    BY <2>1, <2>2, <2>3, BlockFacts
<1>2. n = EndIn(m, p) /\ p < n /\ m[n].prev = p
  BY <1>1, NextBlock
<1>3. k # NULL => k \in HeadersOf(m) /\ k = EndIn(m, n) /\ n < k /\ m[k].prev = n
  BY NextBlock
<1>4. m[n].next # n /\ m[n].next # p
  <2>1. 0 < p
    BY BlockFacts
  <2>2. k \in Slots /\ (k # NULL => n < k)
    BY <1>1, <1>3 DEF MemType, HeaderType
  <2> QED
    BY <1>1, <1>2, <2>1, <2>2, SlotsAre DEF NULL
<1>5. /\ m[p].size + HEADER_SIZE + m[n].size \in 0 .. SIZE_SPACE - 1
      /\ p + HEADER_SIZE + (m[p].size + HEADER_SIZE + m[n].size) = EndIn(m, n)
  <2>1. hi < SIZE_SPACE
    BY Constants DEF Tiled, Slots
  <2> QED
    BY <1>1, <1>2, <2>1, HeaderSize, Constants
<1>6. p # n
  BY <1>1, <1>2
<1>7. /\ w \in MemType /\ w[n].magic = ZERO
      /\ w[p].size = m[p].size + HEADER_SIZE + m[n].size
      /\ w[p].magic = m[p].magic /\ w[p].next = k /\ w[p].prev = m[p].prev
  BY <1>1, <1>4, <1>5, <1>6, AbsorbWrites
<1>8. \A c \in Slots \ {p, n} :
         /\ w[c].size = m[c].size /\ w[c].magic = m[c].magic
         /\ w[c].next = m[c].next
         /\ w[c].prev = IF c = k /\ c # NULL THEN p ELSE m[c].prev
  BY <1>1, <1>4, <1>5, <1>6, AbsorbWrites
<1>9. HeadersOf(w) = HeadersOf(m) \ {n}
  BY <1>1, <1>6, <1>7, <1>8 DEF HeadersOf, MAGIC_USED, MAGIC_FREE, ZERO
<1>10. /\ EndIn(w, p) = EndIn(m, n)
       /\ \A c \in Slots \ {p, n} : EndIn(w, c) = EndIn(m, c)
  BY <1>5, <1>7, <1>8 DEF EndIn
<1>11. m[p].size % ALIGNMENT = 0 /\ m[n].size % ALIGNMENT = 0
  BY <1>1 DEF Linked
<1>12. w[p].size % ALIGNMENT = 0
  <2>1. Aligned(m[p].size) /\ Aligned(HEADER_SIZE) /\ Aligned(m[n].size)
    BY <1>1, <1>11, HeaderSize DEF Aligned
  <2>2. Aligned(m[p].size + HEADER_SIZE + m[n].size)
    BY <2>1, AlignedSum
  <2> QED
    BY <1>7, <2>2 DEF Aligned
<1>13. Linked(w, lo, hi, p)
  <2>1. lo <= p /\ EndIn(w, p) <= hi /\ w[p].size % ALIGNMENT = 0
    BY <1>1, <1>10, <1>12 DEF Linked
  <2>2. IF EndIn(w, p) = hi THEN w[p].next = NULL
        ELSE w[p].next = EndIn(w, p) /\ EndIn(w, p) \in HeadersOf(w)
    BY <1>1, <1>7, <1>9, <1>10 DEF Linked
  <2>3. IF p = lo THEN w[p].prev = NULL
        ELSE w[p].prev \in HeadersOf(w) /\ EndIn(w, w[p].prev) = p
    <3>1. CASE p = lo
      BY <1>1, <1>7, <3>1 DEF Linked
    <3>2. CASE p # lo
      <4>1. m[p].prev \in HeadersOf(m) /\ EndIn(m, m[p].prev) = p
        BY <1>1, <3>2 DEF Linked
      <4>2. m[p].prev # n /\ m[p].prev # p /\ m[p].prev \in Slots
        BY <1>1, <1>2, <4>1 DEF HeadersOf
      <4> QED
        BY <1>7, <1>9, <1>10, <3>2, <4>1, <4>2
    <3> QED
      BY <3>1, <3>2
  <2> QED
    BY <2>1, <2>2, <2>3 DEF Linked
<1>14. ASSUME NEW c \in HeadersOf(w), c # p
       PROVE  Linked(w, lo, hi, c)
  <2>1. c \in HeadersOf(m) /\ c \in Slots \ {p, n} /\ Linked(m, lo, hi, c)
    BY <1>9, <1>14 DEF Tiled, HeadersOf
  <2>2. lo <= c /\ EndIn(w, c) <= hi /\ w[c].size % ALIGNMENT = 0
    BY <1>8, <1>10, <2>1 DEF Linked
  <2>3. EndIn(m, c) # n
    <3>1. EndIn(m, c) = n => m[c].next = n
      BY <1>1, <2>1 DEF Linked
    <3>2. m[c].next = n => m[n].prev = c
      BY <1>1, <2>1, NextBlock
    <3> QED
      BY <1>2, <1>14, <3>1, <3>2
  <2>4. IF EndIn(w, c) = hi THEN w[c].next = NULL
        ELSE w[c].next = EndIn(w, c) /\ EndIn(w, c) \in HeadersOf(w)
    BY <1>8, <1>9, <1>10, <2>1, <2>3 DEF Linked
  <2>5. CASE c = k
    <3>1. c # NULL /\ c # lo /\ w[c].prev = p /\ EndIn(m, n) = c
      <4>1. c # NULL
        BY <2>1, BlockFacts DEF NULL
      <4>2. lo <= n /\ n < c /\ lo \in Nat /\ c \in Nat
        BY <1>3, <2>1, <2>5, <4>1, BlockFacts
      <4> QED
        BY <1>1, <1>3, <1>8, <2>1, <2>5, <4>1, <4>2
    <3>2. p \in HeadersOf(w)
      BY <1>1, <1>2, <1>9
    <3> QED
      BY <1>10, <2>2, <2>4, <3>1, <3>2 DEF Linked
  <2>6. CASE c # k
    <3>1. w[c].prev = m[c].prev
      BY <1>8, <2>1, <2>6
    <3>2. CASE c = lo
      BY <2>1, <2>2, <2>4, <3>1, <3>2 DEF Linked
    <3>3. CASE c # lo
      <4> DEFINE q == m[c].prev
      <4>1. q \in HeadersOf(m) /\ EndIn(m, q) = c /\ q \in Slots
        BY <2>1, <3>3 DEF Linked, HeadersOf
      <4>2. c # hi
        <5>1. c < EndIn(m, c) /\ EndIn(m, c) <= hi /\ c \in Nat /\ hi \in Nat
              /\ EndIn(m, c) \in Nat
          BY <2>1, BlockFacts, SlotsAre
        <5> QED
          BY <5>1
      <4>3. Linked(m, lo, hi, q)
        BY <4>1 DEF Tiled
      <4>4. m[q].next = c
        BY <4>1, <4>2, <4>3 DEF Linked
      <4>5. q # n /\ q # p
        BY <2>1, <2>6, <4>4
      <4>6. q \in HeadersOf(w) /\ EndIn(w, q) = c
        BY <1>9, <1>10, <4>1, <4>5
      <4> QED
        BY <2>2, <2>4, <3>1, <3>3, <4>6 DEF Linked
    <3> QED
      BY <3>2, <3>3
  <2> QED
    BY <2>5, <2>6
<1>15. ASSUME NEW a \in HeadersOf(w), NEW c \in HeadersOf(w), a < c
       PROVE  EndIn(w, a) <= c
  <2>1. a \in HeadersOf(m) /\ c \in HeadersOf(m) /\ a # n /\ c # n
        /\ a \in Slots /\ c \in Slots /\ a \in Nat /\ c \in Nat
    BY <1>9, SlotsAre DEF HeadersOf
  <2>2. CASE a # p
    BY <1>10, <1>15, <2>1, <2>2 DEF Tiled
  <2>3. CASE a = p
    <3>1. n <= c
      BY <1>2, <1>15, <2>1, <2>3 DEF Tiled
    <3>2. n < c
      BY <1>1, <2>1, <3>1
    <3> QED
      BY <1>10, <2>1, <2>3, <3>2 DEF Tiled
  <2> QED
    BY <2>2, <2>3
<1>16. lo \in HeadersOf(w)
  <2>1. lo \in HeadersOf(m) /\ lo \in Nat /\ lo <= p
    BY <1>1, SlotsAre DEF Tiled, Linked
  <2> QED
    BY <1>1, <1>2, <1>9, <2>1
<1>17. Tiled(w, lo, hi)
  BY <1>7, <1>13, <1>14, <1>15, <1>16 DEF Tiled
<1> QED
  BY <1>7, <1>8, <1>9, <1>17
\* What Split writes, field by field.
LEMMA SplitWrites ==
    ASSUME NEW m \in MemType, NEW a \in Slots, NEW need \in 0 .. SIZE_SPACE - 1,
           NEW rest \in Slots, rest = a + HEADER_SIZE + need,
           rest # a, m[a].next # a, m[a].next # rest,
           m[a].size - need - HEADER_SIZE \in 0 .. SIZE_SPACE - 1,
           NEW w, w = Split(m, a, need)
    PROVE  /\ w \in MemType
           /\ w[a].size = need /\ w[a].magic = m[a].magic
           /\ w[a].next = rest /\ w[a].prev = m[a].prev
           /\ w[rest].size = m[a].size - need - HEADER_SIZE
           /\ w[rest].magic = MAGIC_FREE
           /\ w[rest].next = m[a].next /\ w[rest].prev = a
           /\ \A c \in Slots \ {a, rest} :
                 /\ w[c].size = m[c].size /\ w[c].magic = m[c].magic
                 /\ w[c].next = m[c].next
                 /\ w[c].prev = IF c = m[a].next /\ c # NULL THEN rest ELSE m[c].prev
<1> DEFINE tail == [size |-> m[a].size - need - HEADER_SIZE, magic |-> MAGIC_FREE,
                    next |-> m[a].next, prev |-> a]
           m1 == [m EXCEPT ![rest] = tail]
           m2 == IF m[a].next # NULL THEN [m1 EXCEPT ![m[a].next].prev = rest] ELSE m1
<1>0. w = [m2 EXCEPT ![a].next = rest, ![a].size = need]
  BY DEF Split
<1>1. m[a] \in HeaderType /\ m[a].next \in Slots
  BY DEF MemType, HeaderType
<1>2. tail \in HeaderType
  BY <1>1 DEF HeaderType, Magics
<1>3. /\ m1 \in MemType /\ m1[rest] = tail
      /\ \A c \in Slots \ {rest} : m1[c] = m[c]
  BY <1>2 DEF MemType
<1>4. /\ tail.size = m[a].size - need - HEADER_SIZE /\ tail.magic = MAGIC_FREE
      /\ tail.next = m[a].next /\ tail.prev = a
  OBVIOUS
<1> HIDE DEF m1, tail
<1>5. /\ m2 \in MemType
      /\ m2[rest] = m1[rest] /\ m2[a] = m1[a]
      /\ \A c \in Slots \ {rest, a} :
            m2[c] = IF c = m[a].next /\ c # NULL
                    THEN [m[c] EXCEPT !.prev = rest] ELSE m[c]
  BY <1>1, <1>3 DEF MemType, HeaderType
<1> HIDE DEF m2
<1>6. /\ w \in MemType /\ w[a] = [m2[a] EXCEPT !.next = rest, !.size = need]
      /\ \A c \in Slots \ {a} : w[c] = m2[c]
  <2>1. m2[a] \in HeaderType
    BY <1>5 DEF MemType
  <2>2. [m2[a] EXCEPT !.next = rest, !.size = need] \in HeaderType
    BY <2>1 DEF HeaderType
  <2>3. w = [m2 EXCEPT ![a] = [m2[a] EXCEPT !.next = rest, !.size = need]]
    BY <1>0, <1>5, <2>1 DEF MemType, HeaderType
  <2> QED
    BY <1>5, <2>2, <2>3 DEF MemType
<1>7. /\ w[a].size = need /\ w[a].magic = m[a].magic
      /\ w[a].next = rest /\ w[a].prev = m[a].prev
  BY <1>1, <1>3, <1>5, <1>6 DEF HeaderType
<1>8. ASSUME NEW c \in Slots \ {a, rest}
      PROVE  /\ w[c].size = m[c].size /\ w[c].magic = m[c].magic
             /\ w[c].next = m[c].next
             /\ w[c].prev = IF c = m[a].next /\ c # NULL THEN rest ELSE m[c].prev
  <2>1. m[c] \in HeaderType
    BY DEF MemType
  <2>2. w[c] = IF c = m[a].next /\ c # NULL THEN [m[c] EXCEPT !.prev = rest] ELSE m[c]
    BY <1>5, <1>6
  <2>3. CASE c = m[a].next /\ c # NULL
    BY <2>1, <2>2, <2>3 DEF HeaderType
  <2>4. CASE ~(c = m[a].next /\ c # NULL)
    BY <2>2, <2>4
  <2> QED
    BY <2>3, <2>4
<1>9. w[rest] = tail
  BY <1>3, <1>5, <1>6
<1> QED
  BY <1>4, <1>6, <1>7, <1>8, <1>9

\* Splitting a block puts a free one behind it and changes no other block but
\* its back link.
LEMMA BlockSplit ==
    ASSUME NEW m, NEW lo, NEW hi, Tiled(m, lo, hi), NEW a \in HeadersOf(m),
           NEW need \in Slots, m[a].size >= need + MIN_SPLIT,
           NEW rest, rest = a + HEADER_SIZE + need,
           NEW w, w = Split(m, a, need)
    PROVE  /\ Tiled(w, lo, hi)
           /\ rest \notin HeadersOf(m) /\ HeadersOf(w) = HeadersOf(m) \cup {rest}
           /\ w[a].size = need /\ w[a].magic = m[a].magic /\ w[a].next = rest
           /\ w[rest].magic = MAGIC_FREE /\ w[rest].next = m[a].next
           /\ rest \in Slots /\ rest # a
           /\ \A c \in Slots \ {a, rest} :
                 /\ w[c].size = m[c].size /\ w[c].magic = m[c].magic
                 /\ w[c].next = m[c].next
<1> DEFINE k == m[a].next
<1>1. /\ a \in Slots /\ a \in Nat /\ hi \in Nat /\ m[a].size \in Nat /\ need \in Nat
      /\ EndIn(m, a) = a + HEADER_SIZE + m[a].size /\ EndIn(m, a) <= hi
      /\ m \in MemType /\ Linked(m, lo, hi, a) /\ EndIn(m, a) \in Nat /\ lo \in Nat
      /\ 0 < lo /\ lo <= a
  <2>1. m \in MemType /\ Linked(m, lo, hi, a)
    BY DEF Tiled
  <2> QED
    BY <2>1, BlockFacts, SlotsAre
<1>2. rest \in Nat /\ a < rest /\ rest < EndIn(m, a)
  BY <1>1, HeaderSize, Constants
<1>3. rest \in Slots
  <2>1. hi < SIZE_SPACE
    BY Constants DEF Tiled, Slots
  <2>2. Aligned(a) /\ Aligned(HEADER_SIZE) /\ Aligned(need)
    BY <1>1, HeaderSize, SlotsAre DEF Aligned
  <2>3. Aligned(a + HEADER_SIZE + need)
    BY <2>2, AlignedSum
  <2>4. rest \in 0 .. SIZE_SPACE - 1
    BY <1>1, <1>2, <2>1, Constants
  <2> QED
    BY <2>3, <2>4 DEF Aligned, Slots
<1>4. rest \notin HeadersOf(m)
  <2>1. rest \in HeadersOf(m) => EndIn(m, a) <= rest
    BY <1>2 DEF Tiled
  <2> QED
    BY <1>1, <1>2, <2>1
<1>5. k # NULL => k \in HeadersOf(m) /\ k = EndIn(m, a) /\ a < k
  BY NextBlock
<1>6. k # a /\ k # rest /\ rest # a
  BY <1>1, <1>2, <1>4, <1>5 DEF NULL
<1>7. /\ m[a].size - need - HEADER_SIZE \in 0 .. SIZE_SPACE - 1
      /\ need \in 0 .. SIZE_SPACE - 1
  <2>1. hi < SIZE_SPACE
    BY Constants DEF Tiled, Slots
  <2>2. need < SIZE_SPACE
    BY Constants DEF Slots
  <2> QED
    BY <1>1, <2>1, <2>2, HeaderSize, Constants
<1>8. /\ w \in MemType
      /\ w[a].size = need /\ w[a].magic = m[a].magic
      /\ w[a].next = rest /\ w[a].prev = m[a].prev
      /\ w[rest].size = m[a].size - need - HEADER_SIZE
      /\ w[rest].magic = MAGIC_FREE
      /\ w[rest].next = k /\ w[rest].prev = a
  BY <1>1, <1>3, <1>6, <1>7, SplitWrites
<1>9. \A c \in Slots \ {a, rest} :
         /\ w[c].size = m[c].size /\ w[c].magic = m[c].magic
         /\ w[c].next = m[c].next
         /\ w[c].prev = IF c = k /\ c # NULL THEN rest ELSE m[c].prev
  <2>1. /\ m \in MemType /\ a \in Slots /\ need \in 0 .. SIZE_SPACE - 1
        /\ rest \in Slots /\ rest # a /\ m[a].next # a /\ m[a].next # rest
        /\ m[a].size - need - HEADER_SIZE \in 0 .. SIZE_SPACE - 1
    BY <1>1, <1>3, <1>6, <1>7
  <2>2. \A c \in Slots \ {a, rest} :
           /\ w[c].size = m[c].size /\ w[c].magic = m[c].magic
           /\ w[c].next = m[c].next
           /\ w[c].prev = IF c = m[a].next /\ c # NULL THEN rest ELSE m[c].prev
    BY <2>1, SplitWrites
  <2> QED
    BY <2>2
<1>10. HeadersOf(w) = HeadersOf(m) \cup {rest}
  BY <1>1, <1>3, <1>6, <1>8, <1>9 DEF HeadersOf
<1>11. /\ EndIn(w, a) = rest /\ EndIn(w, rest) = EndIn(m, a)
       /\ \A c \in Slots \ {a, rest} : EndIn(w, c) = EndIn(m, c)
  <2>1. EndIn(w, a) = rest /\ EndIn(w, rest) = EndIn(m, a)
    BY <1>1, <1>8, HeaderSize DEF EndIn
  <2> QED
    BY <1>9, <2>1 DEF EndIn
<1>12. w[a].size % ALIGNMENT = 0 /\ w[rest].size % ALIGNMENT = 0
  <2>1. Aligned(m[a].size) /\ Aligned(HEADER_SIZE) /\ Aligned(need)
    BY <1>1, HeaderSize, SlotsAre DEF Aligned, Linked
  <2>2. Aligned(m[a].size - need) 
    BY <2>1, AlignedSum
  <2>3. Aligned(m[a].size - need - HEADER_SIZE)
    BY <2>1, <2>2, AlignedSum
  <2> QED
    BY <1>8, <2>1, <2>3 DEF Aligned
<1>13. Linked(w, lo, hi, a)
  <2>1. lo <= a /\ EndIn(w, a) <= hi /\ EndIn(w, a) # hi
    BY <1>1, <1>2, <1>11
  <2>2. IF a = lo THEN w[a].prev = NULL
        ELSE w[a].prev \in HeadersOf(w) /\ EndIn(w, w[a].prev) = a
    <3>1. CASE a = lo
      BY <1>1, <1>8, <3>1 DEF Linked
    <3>2. CASE a # lo
      <4>1. m[a].prev \in HeadersOf(m) /\ EndIn(m, m[a].prev) = a
        BY <1>1, <3>2 DEF Linked
      <4>2. m[a].prev # a /\ m[a].prev # rest /\ m[a].prev \in Slots
        BY <1>1, <1>2, <1>4, <4>1 DEF HeadersOf
      <4> QED
        BY <1>8, <1>10, <1>11, <3>2, <4>1, <4>2
    <3> QED
      BY <3>1, <3>2
  <2> QED
    BY <1>8, <1>10, <1>11, <1>12, <2>1, <2>2 DEF Linked
<1>14. Linked(w, lo, hi, rest)
  <2>1. lo <= rest /\ EndIn(w, rest) <= hi /\ rest # lo
    BY <1>1, <1>2, <1>11
  <2>2. IF EndIn(w, rest) = hi THEN w[rest].next = NULL
        ELSE w[rest].next = EndIn(w, rest) /\ EndIn(w, rest) \in HeadersOf(w)
    BY <1>1, <1>8, <1>10, <1>11 DEF Linked
  <2>3. w[rest].prev \in HeadersOf(w) /\ EndIn(w, w[rest].prev) = rest
    BY <1>8, <1>10, <1>11
  <2> QED
    BY <1>12, <2>1, <2>2, <2>3 DEF Linked
<1>15. ASSUME NEW c \in HeadersOf(w), c # a, c # rest
       PROVE  Linked(w, lo, hi, c)
  <2>1. c \in HeadersOf(m) /\ c \in Slots \ {a, rest} /\ Linked(m, lo, hi, c)
    BY <1>10, <1>15 DEF Tiled, HeadersOf
  <2>2. lo <= c /\ EndIn(w, c) <= hi /\ w[c].size % ALIGNMENT = 0
    BY <1>9, <1>11, <2>1 DEF Linked
  <2>3. IF EndIn(w, c) = hi THEN w[c].next = NULL
        ELSE w[c].next = EndIn(w, c) /\ EndIn(w, c) \in HeadersOf(w)
    BY <1>9, <1>10, <1>11, <2>1 DEF Linked
  <2>4. CASE c = k
    <3>1. c # NULL /\ c # lo /\ EndIn(m, a) = c
      <4>1. c # NULL
        BY <2>1, BlockFacts DEF NULL
      <4>2. c \in Nat
        BY <2>1, SlotsAre
      <4> QED
        BY <1>1, <1>5, <2>4, <4>1, <4>2
    <3>2. w[c].prev = rest /\ rest \in HeadersOf(w) /\ EndIn(w, rest) = c
      BY <1>9, <1>10, <1>11, <2>1, <2>4, <3>1
    <3> QED
      BY <2>2, <2>3, <3>1, <3>2 DEF Linked
  <2>5. CASE c # k
    <3>1. w[c].prev = m[c].prev
      BY <1>9, <2>1, <2>5
    <3>2. CASE c = lo
      BY <2>1, <2>2, <2>3, <3>1, <3>2 DEF Linked
    <3>3. CASE c # lo
      <4> DEFINE q == m[c].prev
      <4>1. q \in HeadersOf(m) /\ EndIn(m, q) = c /\ q \in Slots
        BY <2>1, <3>3 DEF Linked, HeadersOf
      <4>2. q # a
        <5>1. c < EndIn(m, c) /\ EndIn(m, c) <= hi /\ c \in Nat
              /\ EndIn(m, c) \in Nat
          BY <2>1, BlockFacts, SlotsAre
        <5>2. EndIn(m, a) = c => m[a].next = c
          BY <1>1, <5>1 DEF Linked
        <5> QED
          BY <2>5, <4>1, <5>2
      <4>3. q \in HeadersOf(w) /\ EndIn(w, q) = c
        BY <1>4, <1>10, <1>11, <4>1, <4>2
      <4> QED
        BY <2>2, <2>3, <3>1, <3>3, <4>3 DEF Linked
    <3> QED
      BY <3>2, <3>3
  <2> QED
    BY <2>4, <2>5
<1>16. ASSUME NEW c \in HeadersOf(w), NEW d \in HeadersOf(w), c < d
       PROVE  EndIn(w, c) <= d
  <2>1. c \in Slots /\ d \in Slots /\ c \in Nat /\ d \in Nat
    BY SlotsAre DEF HeadersOf
  <2>2. \A e \in HeadersOf(m) : a < e => EndIn(m, a) <= e
    BY DEF Tiled
  <2>3. \A e \in HeadersOf(m) : e < a => EndIn(m, e) <= a
    BY DEF Tiled
  <2>4. CASE c = a
    BY <1>1, <1>2, <1>10, <1>11, <1>16, <2>1, <2>2, <2>4
  <2>5. CASE c = rest
    BY <1>1, <1>2, <1>10, <1>11, <1>16, <2>1, <2>2, <2>5
  <2>6. CASE c \notin {a, rest} /\ d = rest
    <3>1. c \in HeadersOf(m) /\ EndIn(w, c) = EndIn(m, c) /\ EndIn(m, c) \in Nat
      BY <1>10, <1>11, <2>1, <2>6, BlockFacts, SlotsAre
    <3>2. a < c => EndIn(m, a) <= c
      BY <2>2, <3>1
    <3>3. c < a
      BY <1>1, <1>2, <1>16, <2>1, <2>6, <3>2
    <3>4. EndIn(m, c) <= a
      BY <2>3, <3>1, <3>3
    <3> QED
      BY <1>1, <1>2, <2>6, <3>1, <3>4
  <2>7. CASE c \notin {a, rest} /\ d # rest
    BY <1>10, <1>11, <1>16, <2>1, <2>7 DEF Tiled
  <2> QED
    BY <2>4, <2>5, <2>6, <2>7
<1>17. Tiled(w, lo, hi)
  <2>1. lo \in HeadersOf(w)
    BY <1>10 DEF Tiled
  <2> QED
    BY <1>8, <1>13, <1>14, <1>15, <1>16, <2>1 DEF Tiled
<1> QED
  BY <1>3, <1>4, <1>6, <1>8, <1>9, <1>10, <1>17
\* The first merge of kfree: of the pairs the freed block made, only the one
\* with the block before it can be left.
LEMMA NextMerged ==
    ASSUME NEW m, NEW lo, NEW hi, Tiled(m, lo, hi), NEW a \in HeadersOf(m),
           m[a].magic = MAGIC_FREE,
           PairsHave(m, a),
           NEW w, w = MergeNext(m, a)
    PROVE  /\ Tiled(w, lo, hi) /\ a \in HeadersOf(w) /\ w[a].magic = MAGIC_FREE
           /\ PairsEnd(w, a)
           /\ UsedIn(w) = UsedIn(m)
           /\ \A c \in UsedIn(w) : w[c].size = m[c].size
<1> DEFINE n == m[a].next
<1>1. CASE n # NULL /\ m[n].magic = MAGIC_FREE
  <2>1. w = Absorb(m, a, n)
    BY <1>1 DEF MergeNext
  <2>2. n \in HeadersOf(m) /\ a < n /\ m[n].prev = a
    BY <1>1, NextBlock
  <2>3. /\ Tiled(w, lo, hi)
        /\ HeadersOf(w) = HeadersOf(m) \ {n} /\ w[n].magic = ZERO
        /\ w[a].magic = MAGIC_FREE /\ w[a].next = m[n].next
        /\ \A c \in Slots \ {a, n} :
              /\ w[c].size = m[c].size /\ w[c].magic = m[c].magic
              /\ w[c].next = m[c].next
    BY <2>1, <2>2, BlockAbsorbed
  <2>4. a \in Slots /\ n \in Slots /\ a # n /\ a \in Nat /\ n \in Nat
    <3>1. a \in Slots /\ n \in Slots
      BY <2>2 DEF HeadersOf
    <3>2. a \in Nat /\ n \in Nat
      BY <3>1, SlotsAre
    <3> QED
      BY <2>2, <3>1, <3>2
  <2>5. a \in HeadersOf(w)
    BY <2>3, <2>4
  <2>6. ~FreePair(w, a)
    <3> SUFFICES ASSUME FreePair(w, a)
                 PROVE  FALSE
      OBVIOUS
    <3> DEFINE k == m[n].next
    <3>1. k # NULL /\ w[k].magic = MAGIC_FREE
      BY <2>3 DEF FreePair
    <3>2. k \in HeadersOf(m) /\ n < k /\ k \in Slots /\ k \in Nat
      BY <2>2, <3>1, NextBlock, SlotsAre DEF HeadersOf
    <3>3. k # a /\ k # n
      BY <2>2, <2>4, <3>2
    <3>4. m[k].magic = MAGIC_FREE
      BY <2>3, <3>1, <3>2, <3>3
    <3>5. FreePair(m, n)
      BY <1>1, <2>2, <3>1, <3>4 DEF FreePair
    <3> QED
      BY <2>4, <3>3, <3>5 DEF PairsHave
  <2>7. ASSUME NEW c, FreePair(w, c)
        PROVE  w[c].next = a
    <3>1. c \in HeadersOf(m) /\ c \in Slots \ {a, n}
      BY <2>3, <2>6, <2>7 DEF FreePair, HeadersOf
    <3> DEFINE d == m[c].next
    <3>2. /\ w[c].next = d /\ d # NULL /\ w[d].magic = MAGIC_FREE
          /\ m[c].magic = MAGIC_FREE
      BY <2>3, <2>7, <3>1 DEF FreePair
    <3>3. d \in HeadersOf(m) /\ d \in Slots /\ d # n
      BY <2>3, <3>1, <3>2, NextBlock DEF HeadersOf, MAGIC_FREE, ZERO
    <3>4. m[d].magic = MAGIC_FREE
      BY <2>3, <3>2, <3>3
    <3>5. FreePair(m, c)
      BY <3>1, <3>2, <3>4 DEF FreePair
    <3> QED
      BY <3>1, <3>2, <3>5 DEF PairsHave
  <2>8. UsedIn(w) = UsedIn(m)
    BY <1>1, <2>3, <2>4 DEF UsedIn, MAGIC_FREE, MAGIC_USED, ZERO
  <2>9. \A c \in UsedIn(w) : w[c].size = m[c].size
    BY <2>3, <2>4 DEF UsedIn, MAGIC_FREE, MAGIC_USED, ZERO
  <2> QED
    BY <2>3, <2>5, <2>7, <2>8, <2>9 DEF PairsEnd
<1>2. CASE ~(n # NULL /\ m[n].magic = MAGIC_FREE)
  <2>1. w = m
    BY <1>2 DEF MergeNext
  <2>2. ~FreePair(m, a)
    BY <1>2 DEF FreePair
  <2> QED
    BY <2>1, <2>2 DEF PairsHave, PairsEnd, UsedIn
<1> QED
  BY <1>1, <1>2

\* The second merge removes that one.
LEMMA PrevMerged ==
    ASSUME NEW m, NEW lo, NEW hi, Tiled(m, lo, hi), NEW a \in HeadersOf(m),
           m[a].magic = MAGIC_FREE,
           PairsEnd(m, a),
           NEW w, w = MergePrev(m, a)
    PROVE  /\ Tiled(w, lo, hi)
           /\ NoFreePair(w)
           /\ UsedIn(w) = UsedIn(m)
           /\ \A c \in UsedIn(w) : w[c].size = m[c].size
<1> DEFINE p == m[a].prev
           k == m[a].next
<1>1. CASE p # NULL /\ m[p].magic = MAGIC_FREE
  <2>1. w = Absorb(m, p, a)
    BY <1>1 DEF MergePrev
  <2>2. p \in HeadersOf(m) /\ p < a /\ m[p].next = a
    BY <1>1, PrevBlock
  <2>3. /\ Tiled(w, lo, hi)
        /\ HeadersOf(w) = HeadersOf(m) \ {a} /\ w[a].magic = ZERO
        /\ w[p].magic = m[p].magic /\ w[p].next = k
        /\ \A c \in Slots \ {p, a} :
              /\ w[c].size = m[c].size /\ w[c].magic = m[c].magic
              /\ w[c].next = m[c].next
    BY <2>1, <2>2, BlockAbsorbed
  <2>4. a \in Slots /\ p \in Slots /\ a # p /\ a \in Nat /\ p \in Nat
    <3>1. a \in Slots /\ p \in Slots
      BY <2>2 DEF HeadersOf
    <3>2. a \in Nat /\ p \in Nat
      BY <3>1, SlotsAre
    <3> QED
      BY <2>2, <3>1, <3>2
  <2>5. ~FreePair(w, p)
    <3> SUFFICES ASSUME FreePair(w, p)
                 PROVE  FALSE
      OBVIOUS
    <3>1. k # NULL /\ w[k].magic = MAGIC_FREE
      BY <2>3 DEF FreePair
    <3>2. k \in HeadersOf(m) /\ a < k /\ k \in Slots /\ k \in Nat
      BY <3>1, NextBlock, SlotsAre DEF HeadersOf
    <3>3. k # a /\ k # p
      BY <2>2, <2>4, <3>2
    <3>4. m[k].magic = MAGIC_FREE
      BY <2>3, <3>1, <3>2, <3>3
    <3>5. FreePair(m, a)
      BY <3>1, <3>4 DEF FreePair
    <3> QED
      BY <3>3, <3>5 DEF PairsEnd
  <2>6. ASSUME NEW c, FreePair(w, c)
        PROVE  FALSE
    <3>1. c \in HeadersOf(m) /\ c \in Slots \ {p, a}
      BY <2>3, <2>5, <2>6 DEF FreePair, HeadersOf
    <3> DEFINE d == m[c].next
    <3>2. /\ w[c].next = d /\ d # NULL /\ w[d].magic = MAGIC_FREE
          /\ m[c].magic = MAGIC_FREE
      BY <2>3, <2>6, <3>1 DEF FreePair
    <3>3. d \in HeadersOf(m) /\ d \in Slots /\ d # a
      BY <2>3, <3>1, <3>2, NextBlock DEF HeadersOf, MAGIC_FREE, ZERO
    <3>4. m[d].magic = MAGIC_FREE
      BY <1>1, <2>3, <3>2, <3>3
    <3>5. FreePair(m, c)
      BY <3>1, <3>2, <3>4 DEF FreePair
    <3> QED
      BY <3>3, <3>5 DEF PairsEnd
  <2>7. UsedIn(w) = UsedIn(m)
    BY <1>1, <2>3, <2>4 DEF UsedIn, MAGIC_FREE, MAGIC_USED, ZERO
  <2>8. \A c \in UsedIn(w) : w[c].size = m[c].size
    BY <1>1, <2>3, <2>4 DEF UsedIn, MAGIC_FREE, MAGIC_USED, ZERO
  <2> QED
    BY <2>3, <2>6, <2>7, <2>8 DEF NoFreePair
<1>2. CASE ~(p # NULL /\ m[p].magic = MAGIC_FREE)
  <2>1. w = m
    BY <1>2 DEF MergePrev
  <2>2. ASSUME NEW c, FreePair(m, c)
        PROVE  FALSE
    <3>1. c \in HeadersOf(m) /\ m[c].next = a /\ m[c].next # NULL
      BY <2>2 DEF FreePair, PairsEnd
    <3>2. p = c
      BY <3>1, NextBlock
    <3>3. c # NULL
      BY <3>1, BlockFacts DEF NULL
    <3> QED
      BY <1>2, <2>2, <3>2, <3>3 DEF FreePair
  <2> QED
    BY <2>1, <2>2 DEF NoFreePair
<1> QED
  BY <1>1, <1>2

\* kfree of a used block: it is marked and merged with its neighbours, and the
\* other used blocks keep their sizes.
LEMMA BlockFreed ==
    ASSUME NEW m, NEW lo, NEW hi, Tiled(m, lo, hi), NoFreePair(m),
           NEW a \in HeadersOf(m), m[a].magic = MAGIC_USED,
           NEW w, w = MergePrev(MergeNext(Marked(m, a, MAGIC_FREE), a), a)
    PROVE  /\ Tiled(w, lo, hi)
           /\ NoFreePair(w)
           /\ UsedIn(w) = UsedIn(m) \ {a}
           /\ \A c \in UsedIn(w) : w[c].size = m[c].size
<1> DEFINE marked == Marked(m, a, MAGIC_FREE)
           x == MergeNext(marked, a)
<1>a. marked = Marked(m, a, MAGIC_FREE)
  OBVIOUS
<1>b. x = MergeNext(marked, a)
  OBVIOUS
<1>c. w = MergePrev(x, a)
  OBVIOUS
<1> HIDE DEF marked, x
<1>1. /\ Tiled(marked, lo, hi) /\ HeadersOf(marked) = HeadersOf(m)
      /\ \A c \in Slots : c # a => marked[c] = m[c]
  BY <1>a, MagicWritten
<1>2. m[a] \in HeaderType /\ a \in Slots
  BY BlockFacts
<1>3. /\ marked[a].magic = MAGIC_FREE /\ marked[a].next = m[a].next
      /\ marked[a].size = m[a].size
  BY <1>a, MagicWritten
<1>4. ASSUME NEW c, FreePair(marked, c), c # a, marked[c].next # a
      PROVE  FALSE
  <2>1. c \in HeadersOf(m) /\ c \in Slots /\ marked[c] = m[c]
    BY <1>1, <1>4 DEF FreePair, HeadersOf
  <2>2. m[c].next \in Slots /\ m[c].next # a
    BY <1>4, <2>1 DEF Tiled, MemType, HeaderType
  <2> QED
    BY <1>1, <1>4, <2>1, <2>2 DEF FreePair, NoFreePair
<1>5. UsedIn(marked) = UsedIn(m) \ {a}
  BY <1>1, <1>2, <1>3 DEF UsedIn, MAGIC_FREE, MAGIC_USED
<1>6. /\ Tiled(x, lo, hi) /\ a \in HeadersOf(x) /\ x[a].magic = MAGIC_FREE
      /\ PairsEnd(x, a)
      /\ UsedIn(x) = UsedIn(marked)
      /\ \A c \in UsedIn(x) : x[c].size = marked[c].size
  <2>1. a \in HeadersOf(marked)
    BY <1>1
  <2>2. PairsHave(marked, a)
    BY <1>4 DEF PairsHave
  <2>3. Tiled(marked, lo, hi) /\ marked[a].magic = MAGIC_FREE
    BY <1>1, <1>3
  <2> QED
    BY <1>b, <2>1, <2>2, <2>3, NextMerged
<1>8. /\ Tiled(w, lo, hi) /\ NoFreePair(w)
      /\ UsedIn(w) = UsedIn(x) /\ \A c \in UsedIn(w) : w[c].size = x[c].size
  BY <1>6, <1>c, PrevMerged
<1>9. \A c \in UsedIn(w) : w[c].size = m[c].size
  BY <1>1, <1>5, <1>6, <1>8 DEF UsedIn
<1> QED
  BY <1>5, <1>6, <1>8, <1>9
\* kmalloc's use of a free block: it is split if the rest is worth it, and the
\* blocks used before keep their sizes.
LEMMA BlockTaken ==
    ASSUME NEW m, NEW lo, NEW hi, Tiled(m, lo, hi), NoFreePair(m),
           NEW a \in HeadersOf(m), m[a].magic = MAGIC_FREE,
           NEW need \in Slots, m[a].size >= need,
           NEW cut, cut = IF m[a].size >= need + MIN_SPLIT THEN Split(m, a, need) ELSE m,
           NEW w, w = Marked(cut, a, MAGIC_USED)
    PROVE  /\ Tiled(w, lo, hi) /\ NoFreePair(w)
           /\ UsedIn(w) = UsedIn(m) \cup {a}
           /\ \A c \in UsedIn(m) : w[c].size = m[c].size
           /\ need <= w[a].size /\ w[a].size < need + MIN_SPLIT
<1> DEFINE rest == a + HEADER_SIZE + need
<1>1. /\ a \in Slots /\ need \in Nat /\ m[a].size \in Nat
      /\ MIN_SPLIT \in Nat /\ MIN_SPLIT > 0
  BY BlockFacts, SlotsAre, HeaderSize, Constants
<1>2. CASE m[a].size >= need + MIN_SPLIT
  <2>1. cut = Split(m, a, need) /\ rest = a + HEADER_SIZE + need
    BY <1>2
  <2> HIDE DEF rest
  <2>2. /\ Tiled(cut, lo, hi)
        /\ rest \notin HeadersOf(m) /\ HeadersOf(cut) = HeadersOf(m) \cup {rest}
        /\ cut[a].size = need /\ cut[a].magic = m[a].magic /\ cut[a].next = rest
        /\ cut[rest].magic = MAGIC_FREE /\ cut[rest].next = m[a].next
        /\ rest \in Slots /\ rest # a
        /\ \A c \in Slots \ {a, rest} :
              /\ cut[c].size = m[c].size /\ cut[c].magic = m[c].magic
              /\ cut[c].next = m[c].next
    BY <1>2, <2>1, BlockSplit
  <2>3. a \in HeadersOf(cut)
    BY <2>2
  <2>4. /\ Tiled(w, lo, hi) /\ HeadersOf(w) = HeadersOf(cut)
        /\ w[a].magic = MAGIC_USED /\ w[a].next = rest /\ w[a].size = need
        /\ \A c \in Slots : c # a => w[c] = cut[c]
    <3>1. /\ Tiled(w, lo, hi) /\ HeadersOf(w) = HeadersOf(cut)
          /\ w[a].magic = MAGIC_USED /\ w[a].next = cut[a].next
          /\ w[a].size = cut[a].size
          /\ \A c \in Slots : c # a => w[c] = cut[c]
      <4>1. Tiled(cut, lo, hi)
        BY <2>2
      <4> QED
        BY <2>3, <4>1, MagicWritten
    <3> QED
      BY <2>2, <3>1
  <2>5. ASSUME NEW c, FreePair(w, c)
        PROVE  FALSE
    <3>1. c \in HeadersOf(m) \cup {rest} /\ c \in Slots /\ c # a /\ w[c] = cut[c]
      BY <2>2, <2>4, <2>5 DEF FreePair, HeadersOf, MAGIC_USED, MAGIC_FREE
    <3>2. CASE c = rest
      <4> DEFINE k == m[a].next
      <4>1. k # NULL /\ w[k].magic = MAGIC_FREE
        BY <2>2, <2>5, <3>1, <3>2 DEF FreePair
      <4>2. k \in HeadersOf(m) /\ k \in Slots /\ k # a /\ k # rest
        <5>1. k \in HeadersOf(m) /\ a < k
          BY <4>1, NextBlock
        <5> QED
          BY <1>1, <2>2, <5>1, SlotsAre DEF HeadersOf
      <4>3. m[k].magic = MAGIC_FREE
        BY <2>2, <2>4, <4>1, <4>2
      <4>4. FreePair(m, a)
        BY <4>1, <4>3 DEF FreePair
      <4> QED
        BY <4>4 DEF NoFreePair
    <3>3. CASE c # rest
      <4> DEFINE k == m[c].next
      <4>1. /\ c \in HeadersOf(m) /\ m[c].magic = MAGIC_FREE /\ cut[c].next = k
            /\ k # NULL /\ w[k].magic = MAGIC_FREE
        BY <2>2, <2>5, <3>1, <3>3 DEF FreePair
      <4>2. k \in HeadersOf(m) /\ k \in Slots /\ k # rest
        BY <2>2, <4>1, NextBlock DEF HeadersOf
      <4>3. k # a
        BY <2>4, <4>1 DEF MAGIC_USED, MAGIC_FREE
      <4>4. m[k].magic = MAGIC_FREE
        BY <2>2, <2>4, <4>1, <4>2, <4>3
      <4>5. FreePair(m, c)
        BY <4>1, <4>4 DEF FreePair
      <4> QED
        BY <4>5 DEF NoFreePair
    <3> QED
      BY <3>2, <3>3
  <2>6. m[rest].magic # MAGIC_USED
    BY <2>2 DEF HeadersOf
  <2>7. UsedIn(w) = UsedIn(m) \cup {a}
    <3>1. w[rest].magic # MAGIC_USED
      BY <2>2, <2>4 DEF MAGIC_USED, MAGIC_FREE
    <3>2. \A c \in Slots \ {a, rest} : w[c].magic = m[c].magic
      BY <2>2, <2>4
    <3>3. \A c \in Slots : w[c].magic = MAGIC_USED <=> m[c].magic = MAGIC_USED \/ c = a
      BY <2>4, <2>6, <3>1, <3>2
    <3> QED
      BY <1>1, <3>3 DEF UsedIn
  <2>8. ASSUME NEW c \in UsedIn(m)
        PROVE  w[c].size = m[c].size
    <3>1. c \in Slots /\ c # a /\ c # rest
      BY <2>6 DEF UsedIn, MAGIC_USED, MAGIC_FREE
    <3> QED
      BY <2>2, <2>4, <3>1
  <2> QED
    BY <1>1, <2>4, <2>5, <2>7, <2>8 DEF NoFreePair
<1>3. CASE ~(m[a].size >= need + MIN_SPLIT)
  <2>1. cut = m
    BY <1>3
  <2>2. /\ Tiled(w, lo, hi) /\ HeadersOf(w) = HeadersOf(m)
        /\ w[a].magic = MAGIC_USED /\ w[a].next = m[a].next /\ w[a].size = m[a].size
        /\ \A c \in Slots : c # a => w[c] = m[c]
    BY <2>1, MagicWritten
  <2>3. ASSUME NEW c, FreePair(w, c)
        PROVE  FALSE
    <3>1. c \in HeadersOf(m) /\ c \in Slots /\ c # a /\ w[c] = m[c]
      BY <2>2, <2>3 DEF FreePair, HeadersOf, MAGIC_USED, MAGIC_FREE
    <3> DEFINE k == m[c].next
    <3>2. k # NULL /\ w[k].magic = MAGIC_FREE /\ m[c].magic = MAGIC_FREE
      BY <2>3, <3>1 DEF FreePair
    <3>3. k \in Slots /\ k # a
      BY <2>2, <3>1, <3>2, NextBlock DEF HeadersOf, MAGIC_USED, MAGIC_FREE
    <3>4. FreePair(m, c)
      BY <2>2, <3>1, <3>2, <3>3 DEF FreePair
    <3> QED
      BY <3>4 DEF NoFreePair
  <2>4. UsedIn(w) = UsedIn(m) \cup {a}
    BY <1>1, <2>2 DEF UsedIn
  <2>5. \A c \in UsedIn(m) : w[c].size = m[c].size
    BY <2>2 DEF UsedIn
  <2> QED
    BY <1>1, <1>3, <2>2, <2>3, <2>4, <2>5 DEF NoFreePair
<1> QED
  BY <1>2, <1>3

-----------------------------------------------------------------------------
(* The inductive invariant                                                  *)

\* No heap yet, or one whose blocks tile it.
HeapInv ==
    /\ mem \in MemType
    /\ heap_head \in Slots /\ heap_lo \in Slots /\ heap_hi \in Slots
    /\ IF heap_head = NULL
       THEN heap_lo = 0 /\ heap_hi = 0 /\ HeadersOf(mem) = {}
       ELSE heap_head = heap_lo /\ Tiled(mem, heap_lo, heap_hi) /\ NoFreePair(mem)

\* What clients own is what the headers call used.
LiveInv ==
    /\ live = {a + HEADER_SIZE : a \in UsedIn(mem)}
    /\ live \subseteq returned /\ returned \subseteq Slots

\* kmalloc's loop stands on a block, and passed none that fits.
CallInv ==
    /\ call \in [size : 0 .. SIZE_SPACE - 1, need : Slots] /\ b \in Slots
    /\ Walking =>
          /\ heap_head # NULL /\ call.size \in Sizes /\ call.size > 0
          /\ call.need = ALIGN_UP(call.size) /\ call.need >= call.size
          /\ b = NULL \/ b \in HeadersOf(mem)
          /\ \A a \in HeadersOf(mem) : b = NULL \/ a < b => ~Fits(a)

HInv == HeapInv /\ LiveInv /\ CallInv
LEMMA HInvInit == Init => HInv
<1> SUFFICES ASSUME Init
             PROVE  HInv
  OBVIOUS
<1> DEFINE junk == [size |-> 0, magic |-> JUNK, next |-> NULL, prev |-> NULL]
<1>1. junk \in HeaderType /\ NULL \in Slots
  BY SlotsAre, Constants DEF HeaderType, Magics
<1>2. junk.magic = JUNK
  OBVIOUS
<1> HIDE DEF junk
<1>3. mem = [a \in Slots |-> junk]
  BY DEF Init, junk
<1>4. mem \in MemType /\ HeadersOf(mem) = {} /\ UsedIn(mem) = {}
  BY <1>1, <1>2, <1>3 DEF MemType, HeadersOf, UsedIn, MAGIC_USED, MAGIC_FREE, JUNK
<1>5. HeapInv
  BY <1>1, <1>4 DEF Init, HeapInv, NULL
<1>6. LiveInv
  BY <1>4 DEF Init, LiveInv
<1>7. CallInv
  BY <1>1, Constants DEF Init, CallInv, Walking, Idle, NULL
<1> QED
  BY <1>5, <1>6, <1>7 DEF HInv

LEMMA HInvHeapInit ==
    ASSUME HInv, NEW arg \in InitArgs, HeapInit(arg[1], arg[2])
    PROVE  HInv'
<1> DEFINE start == arg[1]
           size == arg[2]
           lo == ALIGN_UP(start)
           hi == ALIGN_DOWN((start + size) % SIZE_SPACE)
           rec == [size |-> hi - lo - HEADER_SIZE, magic |-> MAGIC_FREE,
                   next |-> NULL, prev |-> NULL]
<1>1. /\ heap_head = NULL /\ HeadersOf(mem) = {} /\ mem \in MemType
      /\ UNCHANGED <<call, b, live, returned, ret>>
  BY DEF HInv, HeapInv, HeapInit
<1>2. ~Walking /\ ~Walking'
  BY <1>1 DEF HInv, CallInv, Walking
<1>3. CASE hi <= lo \/ hi - lo < MIN_SPLIT
  <2>1. UNCHANGED <<heap_head, heap_lo, heap_hi, mem>>
    BY <1>3 DEF HeapInit, heap
  <2> QED
    BY <1>1, <1>2, <2>1 DEF HInv, HeapInv, LiveInv, CallInv, Walking
<1>4. CASE ~(hi <= lo \/ hi - lo < MIN_SPLIT)
  <2>1. /\ heap_lo' = lo /\ heap_hi' = hi /\ heap_head' = lo
        /\ mem' = [mem EXCEPT ![lo] = rec]
    BY <1>4 DEF HeapInit
  <2>2. /\ start \in Nat /\ size \in Nat /\ 0 < start
        /\ start + ALIGNMENT - 1 < SIZE_SPACE
    BY HeapAssumption
  <2>3. lo \in Slots /\ 0 < lo /\ lo \in Nat
    <3> HIDE DEF start
    <3>1. lo \in Slots /\ start <= lo
      BY <2>2, AlignUp
    <3> HIDE DEF lo
    <3>2. lo \in Nat
      BY <3>1, SlotsAre
    <3> QED
      BY <2>2, <3>1, <3>2
  <2>4. hi \in Slots /\ hi \in Nat
    <3>1. (start + size) % SIZE_SPACE \in 0 .. SIZE_SPACE - 1
      BY <2>2, Constants
    <3>2. hi \in Nat /\ hi % ALIGNMENT = 0 /\ hi <= (start + size) % SIZE_SPACE
      BY <3>1, AlignDown
    <3> QED
      BY <3>1, <3>2, Constants DEF Slots
  <2> HIDE DEF lo, hi
  <2>5. /\ hi - lo - HEADER_SIZE \in 0 .. SIZE_SPACE - 1
        /\ lo + HEADER_SIZE + (hi - lo - HEADER_SIZE) = hi
    BY <1>4, <2>3, <2>4, HeaderSize, Constants DEF Slots
  <2>6. (hi - lo - HEADER_SIZE) % ALIGNMENT = 0
    <3>1. Aligned(hi) /\ Aligned(lo) /\ Aligned(HEADER_SIZE)
      BY <2>3, <2>4, HeaderSize, SlotsAre DEF Aligned
    <3>2. Aligned(hi - lo)
      BY <3>1, AlignedSum
    <3>3. Aligned(hi - lo - HEADER_SIZE)
      BY <3>1, <3>2, AlignedSum
    <3> QED
      BY <3>3 DEF Aligned
  <2>7. /\ rec \in HeaderType /\ rec.size = hi - lo - HEADER_SIZE
        /\ rec.magic = MAGIC_FREE /\ rec.next = NULL /\ rec.prev = NULL
    BY <2>5, SlotsAre DEF HeaderType, Magics
  <2> HIDE DEF rec
  <2>8. /\ mem' \in MemType /\ mem'[lo] = rec
        /\ \A c \in Slots : c # lo => mem'[c] = mem[c]
    BY <1>1, <2>1, <2>3, <2>7 DEF MemType
  <2>9. HeadersOf(mem') = {lo}
    BY <1>1, <2>3, <2>7, <2>8 DEF HeadersOf
  <2>10. UsedIn(mem') = {} /\ UsedIn(mem) = {}
    BY <1>1, <2>7, <2>8 DEF HeadersOf, UsedIn, MAGIC_USED, MAGIC_FREE
  <2>11. EndIn(mem', lo) = hi
    BY <2>5, <2>7, <2>8 DEF EndIn
  <2>12. Linked(mem', lo, hi, lo)
    BY <2>3, <2>4, <2>6, <2>7, <2>8, <2>11 DEF Linked
  <2>13. Tiled(mem', lo, hi)
    BY <2>3, <2>4, <2>8, <2>9, <2>12 DEF Tiled
  <2>14. NoFreePair(mem')
    BY <2>7, <2>8, <2>9 DEF NoFreePair, FreePair
  <2>15. HeapInv'
    BY <2>1, <2>3, <2>4, <2>8, <2>13, <2>14 DEF HeapInv, NULL
  <2>16. LiveInv'
    BY <1>1, <2>10 DEF HInv, LiveInv
  <2>17. CallInv'
    BY <1>1, <1>2 DEF HInv, CallInv, Walking
  <2> QED
    BY <2>15, <2>16, <2>17 DEF HInv
<1> QED
  BY <1>3, <1>4

\* A step of kmalloc that only moves its loop leaves the memory alone.
LEMMA MemoryKept ==
    ASSUME HInv, UNCHANGED <<heap, mem, live, returned>>, CallInv'
    PROVE  HInv'
  BY DEF HInv, HeapInv, LiveInv, heap

LEMMA HInvKmallocCall ==
    ASSUME HInv, NEW size \in Sizes, KmallocCall(size)
    PROVE  HInv'
<1> DEFINE need == ALIGN_UP(size)
<1>1. UNCHANGED <<heap, mem, live, returned>>
  BY DEF KmallocCall
<1>2. size \in 0 .. SIZE_SPACE - 1 /\ NULL \in Slots
  BY HeapAssumption, SlotsAre
<1>3. CASE size = 0 \/ heap_head = NULL \/ need < size
  <2>1. call' = Idle /\ b' = NULL
    BY <1>3 DEF KmallocCall, Return
  <2>2. CallInv'
    BY <1>2, <2>1, Constants DEF CallInv, Walking, Idle, NULL
  <2> QED
    BY <1>1, <2>2, MemoryKept
<1>4. CASE ~(size = 0 \/ heap_head = NULL \/ need < size)
  <2>1. call' = [size |-> size, need |-> need] /\ b' = heap_head
    BY <1>4 DEF KmallocCall
  <2>2. need \in Slots
    <3>1. (size + ALIGNMENT - 1) % SIZE_SPACE \in 0 .. SIZE_SPACE - 1
      BY <1>2, Constants
    <3>2. /\ need \in Nat /\ need % ALIGNMENT = 0
          /\ need <= (size + ALIGNMENT - 1) % SIZE_SPACE
      BY <3>1, AlignDown DEF ALIGN_UP
    <3> QED
      BY <3>1, <3>2, Constants DEF Slots
  <2>3. need >= size /\ size > 0 /\ heap_head # NULL
    <3> HIDE DEF need
    <3>1. need \in Nat
      BY <2>2, SlotsAre
    <3>2. size \in Nat
      BY <1>2, Constants
    <3> QED
      BY <1>4, <3>1, <3>2
  <2>4. /\ heap_head = heap_lo /\ Tiled(mem, heap_lo, heap_hi)
        /\ heap_lo \in HeadersOf(mem) /\ heap_lo \in Slots
    BY <2>3 DEF HInv, HeapInv, Tiled
  <2>5. \A a \in HeadersOf(mem) : ~(a < heap_lo) /\ heap_lo # NULL
    <3> TAKE a \in HeadersOf(mem)
    <3>1. heap_lo <= a /\ a \in Nat /\ heap_lo \in Nat /\ 0 < heap_lo
      BY <2>4, BlockFacts
    <3> QED
      BY <3>1 DEF NULL
  <2> HIDE DEF need
  <2>6. call'.size = size /\ call'.need = need
    BY <2>1
  <2>7. CallInv'
    <3>1. (call \in [size : 0 .. SIZE_SPACE - 1, need : Slots])' /\ (b \in Slots)'
      BY <1>2, <2>1, <2>2, <2>4
    <3>2. (heap_head # NULL)' /\ HeadersOf(mem') = HeadersOf(mem)
      BY <1>1, <2>3 DEF heap
    <3>3. \A a \in HeadersOf(mem') : ~(b' = NULL \/ a < b')
      BY <2>1, <2>4, <2>5, <3>2
    <3>4. call'.need = ALIGN_UP(call'.size)
      BY <2>6 DEF need
    <3>5. b' \in HeadersOf(mem')
      BY <2>1, <2>4, <3>2
    <3> QED
      BY <2>3, <2>6, <3>1, <3>2, <3>3, <3>4, <3>5 DEF CallInv
  <2> QED
    BY <1>1, <2>7, MemoryKept
<1> QED
  BY <1>3, <1>4
\* The loop moves on: the block it leaves does not fit, and no block lies
\* between it and the next.
LEMMA HInvKmallocSkip ==
    ASSUME HInv, KmallocSkip
    PROVE  HInv'
<1>1. /\ UNCHANGED <<heap, mem, live, returned>> /\ UNCHANGED call
      /\ b' = mem[b].next /\ b # NULL /\ ~Fits(b) /\ Walking
  BY DEF KmallocSkip
<1>2. /\ heap_head # NULL /\ b \in HeadersOf(mem)
      /\ \A a \in HeadersOf(mem) : a < b => ~Fits(a)
      /\ call \in [size : 0 .. SIZE_SPACE - 1, need : Slots]
      /\ call.size \in Sizes /\ call.size > 0
      /\ call.need = ALIGN_UP(call.size) /\ call.need >= call.size
  BY <1>1 DEF HInv, CallInv
<1>3. Tiled(mem, heap_lo, heap_hi)
  BY <1>2 DEF HInv, HeapInv
<1>4. /\ b \in Nat /\ EndIn(mem, b) \in Slots /\ EndIn(mem, b) \in Nat
      /\ EndIn(mem, b) <= heap_hi /\ b < EndIn(mem, b)
  BY <1>2, <1>3, BlockFacts, SlotsAre
<1>5. b' = NULL \/ (b' \in HeadersOf(mem) /\ b' = EndIn(mem, b))
  BY <1>1, <1>2, <1>3, NextBlock
<1>6. b' = NULL => EndIn(mem, b) = heap_hi
  <2>1. EndIn(mem, b) # NULL
    BY <1>4 DEF NULL
  <2>2. Linked(mem, heap_lo, heap_hi, b)
    BY <1>2, <1>3 DEF Tiled
  <2> QED
    BY <1>1, <2>1, <2>2 DEF Linked
<1>7. ASSUME NEW a \in HeadersOf(mem), b' = NULL \/ a < b'
      PROVE  ~Fits(a)
  <2>1. /\ a \in Nat /\ heap_hi \in Nat /\ a < EndIn(mem, a)
        /\ EndIn(mem, a) <= heap_hi /\ EndIn(mem, a) \in Nat
    BY <1>3, BlockFacts, SlotsAre
  <2>2. b < a => EndIn(mem, b) <= a
    BY <1>2, <1>3 DEF Tiled
  <2>3. a < EndIn(mem, b)
    BY <1>5, <1>6, <1>7, <2>1
  <2>4. a < b \/ a = b
    BY <1>4, <2>1, <2>2, <2>3
  <2> QED
    BY <1>1, <1>2, <2>4
<1>8. b' \in Slots
  BY <1>4, <1>5, SlotsAre
<1>9. HeadersOf(mem') = HeadersOf(mem) /\ \A a : Fits(a)' <=> Fits(a)
  BY <1>1 DEF Fits
<1>10. CallInv'
  BY <1>1, <1>2, <1>5, <1>7, <1>8, <1>9 DEF CallInv, heap
<1> QED
  BY <1>1, <1>10, MemoryKept

LEMMA HInvKmallocFail ==
    ASSUME HInv, KmallocFail
    PROVE  HInv'
<1>1. UNCHANGED <<heap, mem, live, returned>> /\ call' = Idle /\ b' = NULL
  BY DEF KmallocFail, Return
<1>2. CallInv'
  BY <1>1, SlotsAre, Constants DEF CallInv, Walking, Idle, NULL
<1> QED
  BY <1>1, <1>2, MemoryKept

\* What KmallocTake does to the memory, and what it knows of the request.
LEMMA TakenBlock ==
    ASSUME HInv, KmallocTake
    PROVE  /\ heap_head # NULL /\ heap_head = heap_lo
           /\ Tiled(mem, heap_lo, heap_hi) /\ NoFreePair(mem)
           /\ b \in HeadersOf(mem) /\ mem[b].magic = MAGIC_FREE
           /\ call.need \in Slots /\ mem[b].size >= call.need
           /\ call.need = ALIGN_UP(call.size) /\ call.need >= call.size
           /\ call.size \in Sizes /\ call.size > 0
           /\ Tiled(mem', heap_lo, heap_hi) /\ NoFreePair(mem')
           /\ UsedIn(mem') = UsedIn(mem) \cup {b}
           /\ \A c \in UsedIn(mem) : mem'[c].size = mem[c].size
           /\ call.need <= mem'[b].size /\ mem'[b].size < call.need + MIN_SPLIT
<1> DEFINE cut == IF mem[b].size >= call.need + MIN_SPLIT
                  THEN Split(mem, b, call.need) ELSE mem
<1>1. Walking /\ b # NULL /\ Fits(b) /\ mem' = Marked(cut, b, MAGIC_USED)
  BY DEF KmallocTake, Marked
<1>2. /\ heap_head # NULL /\ b \in HeadersOf(mem) /\ call.need \in Slots
      /\ call.need = ALIGN_UP(call.size) /\ call.need >= call.size
      /\ call.size \in Sizes /\ call.size > 0
  BY <1>1 DEF HInv, CallInv
<1>3. heap_head = heap_lo /\ Tiled(mem, heap_lo, heap_hi) /\ NoFreePair(mem)
  BY <1>2 DEF HInv, HeapInv
<1>4. mem[b].magic = MAGIC_FREE /\ mem[b].size >= call.need
  BY <1>1 DEF Fits
<1>5. cut = IF mem[b].size >= call.need + MIN_SPLIT
            THEN Split(mem, b, call.need) ELSE mem
  OBVIOUS
<1> HIDE DEF cut
<1>6. /\ Tiled(mem', heap_lo, heap_hi) /\ NoFreePair(mem')
      /\ UsedIn(mem') = UsedIn(mem) \cup {b}
      /\ \A c \in UsedIn(mem) : mem'[c].size = mem[c].size
      /\ call.need <= mem'[b].size /\ mem'[b].size < call.need + MIN_SPLIT
  BY <1>1, <1>2, <1>3, <1>4, <1>5, BlockTaken
<1> QED
  BY <1>2, <1>3, <1>4, <1>6

LEMMA HInvKmallocTake ==
    ASSUME HInv, KmallocTake
    PROVE  HInv'
<1>1. /\ heap_head # NULL /\ heap_head = heap_lo
      /\ b \in HeadersOf(mem) /\ Tiled(mem, heap_lo, heap_hi)
      /\ Tiled(mem', heap_lo, heap_hi) /\ NoFreePair(mem')
      /\ UsedIn(mem') = UsedIn(mem) \cup {b}
  BY TakenBlock
<1>2. /\ UNCHANGED <<heap_head, heap_lo, heap_hi>> /\ call' = Idle /\ b' = NULL
      /\ live' = live \cup {b + HEADER_SIZE}
      /\ returned' = returned \cup {b + HEADER_SIZE}
  BY DEF KmallocTake, Return, heap
<1>3. b + HEADER_SIZE \in Slots
  BY <1>1, BlockFacts
<1>4. HeapInv'
  <2>1. mem' \in MemType /\ heap_lo \in Slots /\ heap_hi \in Slots
    BY <1>1 DEF Tiled
  <2> QED
    BY <1>1, <1>2, <2>1 DEF HeapInv
<1>5. LiveInv'
  BY <1>1, <1>2, <1>3 DEF HInv, LiveInv
<1>6. CallInv'
  BY <1>2, SlotsAre, Constants DEF CallInv, Walking, Idle, NULL
<1> QED
  BY <1>4, <1>5, <1>6 DEF HInv

\* A pointer kfree does not ignore is the pointer of a used block, and live.
LEMMA FreedBlock ==
    ASSUME HInv, NEW ptr \in returned \cup {NULL, SIZE_SPACE - ALIGNMENT}, Kfree(ptr)
    PROVE  \/ UNCHANGED <<mem, live>>
           \/ \E a \in HeadersOf(mem) :
                 /\ mem[a].magic = MAGIC_USED /\ ptr = a + HEADER_SIZE
                 /\ a + HEADER_SIZE \in live /\ live' = live \ {a + HEADER_SIZE}
                 /\ heap_head # NULL /\ heap_head = heap_lo
                 /\ Tiled(mem, heap_lo, heap_hi)
                 /\ Tiled(mem', heap_lo, heap_hi) /\ NoFreePair(mem')
                 /\ UsedIn(mem') = UsedIn(mem) \ {a}
                 /\ \A c \in UsedIn(mem') : mem'[c].size = mem[c].size
<1> DEFINE a == ptr - HEADER_SIZE
<1>1. CASE \/ ptr = NULL
           \/ ptr < heap_lo + HEADER_SIZE \/ ptr >= heap_hi
           \/ mem[a].magic # MAGIC_USED
  BY <1>1 DEF Kfree
<1>2. CASE ~(\/ ptr = NULL
             \/ ptr < heap_lo + HEADER_SIZE \/ ptr >= heap_hi
             \/ mem[a].magic # MAGIC_USED)
  <2>1. /\ mem' = MergePrev(MergeNext(Marked(mem, a, MAGIC_FREE), a), a)
        /\ live' = live \ {ptr}
    BY <1>2 DEF Kfree, Marked
  <2>2. ptr \in Slots
    <3>1. Aligned(SIZE_SPACE) /\ Aligned(ALIGNMENT)
      BY Constants DEF Aligned
    <3>2. Aligned(SIZE_SPACE - ALIGNMENT)
      BY <3>1, AlignedSum
    <3>3. SIZE_SPACE - ALIGNMENT \in Slots
      BY <3>2, Constants DEF Aligned, Slots
    <3> QED
      BY <3>3, SlotsAre DEF HInv, LiveInv
  <2>3. /\ ptr \in Nat /\ heap_lo \in Nat /\ heap_hi \in Nat /\ HEADER_SIZE \in Nat
    BY <2>2, SlotsAre, HeaderSize DEF HInv, HeapInv
  <2>4. /\ heap_lo + HEADER_SIZE <= ptr /\ ptr < heap_hi
        /\ a \in Nat /\ ptr = a + HEADER_SIZE /\ a <= ptr
    BY <1>2, <2>3
  <2>5. a \in Slots
    <3>1. Aligned(ptr) /\ Aligned(HEADER_SIZE)
      BY <2>2, <2>3, SlotsAre, HeaderSize DEF Aligned
    <3>2. Aligned(a)
      BY <3>1, AlignedSum
    <3>3. ptr \in 0 .. SIZE_SPACE - 1
      BY <2>2 DEF Slots
    <3>4. a \in 0 .. SIZE_SPACE - 1
      BY <2>4, <3>3, Constants
    <3> QED
      BY <3>2, <3>4 DEF Aligned, Slots
  <2>6. mem[a].magic = MAGIC_USED
    BY <1>2
  <2> HIDE DEF a
  <2>7. a \in HeadersOf(mem) /\ a \in UsedIn(mem)
    BY <2>5, <2>6 DEF HeadersOf, UsedIn
  <2>8. ptr \in live
    BY <2>4, <2>7 DEF HInv, LiveInv
  <2>9. /\ heap_head # NULL /\ heap_head = heap_lo
        /\ Tiled(mem, heap_lo, heap_hi) /\ NoFreePair(mem)
    <3>1. heap_hi # 0
      BY <2>3, <2>4
    <3> QED
      BY <3>1 DEF HInv, HeapInv
  <2>10. /\ Tiled(mem', heap_lo, heap_hi) /\ NoFreePair(mem')
         /\ UsedIn(mem') = UsedIn(mem) \ {a}
         /\ \A c \in UsedIn(mem') : mem'[c].size = mem[c].size
    BY <2>1, <2>6, <2>7, <2>9, BlockFreed
  <2> QED
    BY <2>1, <2>4, <2>6, <2>7, <2>8, <2>9, <2>10
<1> QED
  BY <1>1, <1>2

LEMMA HInvKfree ==
    ASSUME HInv, NEW ptr \in returned \cup {NULL, SIZE_SPACE - ALIGNMENT}, Kfree(ptr)
    PROVE  HInv'
<1>1. UNCHANGED <<heap_head, heap_lo, heap_hi, call, b, returned>>
      /\ call = Idle
  BY DEF Kfree, heap
<1>2. CallInv'
  BY <1>1 DEF HInv, CallInv, Walking
<1>3. CASE UNCHANGED <<mem, live>>
  BY <1>1, <1>2, <1>3 DEF HInv, HeapInv, LiveInv
<1>4. CASE ~UNCHANGED <<mem, live>>
  <2>1. PICK a \in HeadersOf(mem) :
           /\ mem[a].magic = MAGIC_USED /\ ptr = a + HEADER_SIZE
           /\ a + HEADER_SIZE \in live /\ live' = live \ {a + HEADER_SIZE}
           /\ heap_head # NULL /\ heap_head = heap_lo
           /\ Tiled(mem, heap_lo, heap_hi)
           /\ Tiled(mem', heap_lo, heap_hi) /\ NoFreePair(mem')
           /\ UsedIn(mem') = UsedIn(mem) \ {a}
    BY <1>4, FreedBlock, Zenon
  <2>2. HeapInv'
    <3>1. mem' \in MemType /\ heap_lo \in Slots /\ heap_hi \in Slots
      BY <2>1 DEF Tiled
    <3> QED
      BY <1>1, <2>1, <3>1 DEF HeapInv
  <2>3. live' = {c + HEADER_SIZE : c \in UsedIn(mem')}
    <3>1. UsedIn(mem) \subseteq Nat /\ a \in Nat /\ HEADER_SIZE \in Nat
      BY SlotsAre, HeaderSize DEF UsedIn, HeadersOf
    <3>2. \A c \in UsedIn(mem) : c + HEADER_SIZE = a + HEADER_SIZE => c = a
      BY <3>1
    <3>3. live = {c + HEADER_SIZE : c \in UsedIn(mem)}
      BY DEF HInv, LiveInv
    <3> QED
      BY <2>1, <3>2, <3>3
  <2>4. LiveInv'
    BY <1>1, <2>1, <2>3 DEF HInv, LiveInv
  <2> QED
    BY <1>2, <2>2, <2>4 DEF HInv
<1> QED
  BY <1>3, <1>4

LEMMA HInvNext ==
    ASSUME HInv, [Next]_vars
    PROVE  HInv'
<1>1. CASE UNCHANGED vars
  BY <1>1 DEF HInv, HeapInv, LiveInv, CallInv, Walking, Fits, vars
<1>2. CASE \E arg \in InitArgs : HeapInit(arg[1], arg[2])
  BY <1>2, HInvHeapInit
<1>3. CASE \E size \in Sizes : KmallocCall(size)
  BY <1>3, HInvKmallocCall
<1>4. CASE KmallocSkip
  BY <1>4, HInvKmallocSkip
<1>5. CASE KmallocFail
  BY <1>5, HInvKmallocFail
<1>6. CASE KmallocTake
  BY <1>6, HInvKmallocTake
<1>7. CASE \E ptr \in returned \cup {NULL, SIZE_SPACE - ALIGNMENT} : Kfree(ptr)
  BY <1>7, HInvKfree
<1> QED
  BY <1>1, <1>2, <1>3, <1>4, <1>5, <1>6, <1>7 DEF Next

THEOREM HInvAlways == Spec => []HInv
<1>1. HInv /\ [Next]_vars => HInv'
  BY HInvNext
<1> QED
  BY HInvInit, <1>1, PTL DEF Spec
-----------------------------------------------------------------------------
(* What the runs check of the list, for a heap of any size                  *)

LEMMA HInvType == HInv => TypeOK
  BY DEF HInv, HeapInv, LiveInv, CallInv, TypeOK, MemType, HeaderType, Magics

\* Every variable keeps its type: no address or size the code computes leaves
\* the 32-bit range, whatever the order of calls.
THEOREM TypeCorrect == Spec => []TypeOK
<1> QED
  BY HInvAlways, HInvType, PTL

\* The comment above block_t holds in every reachable state: after any sequence
\* of splits and merges the blocks tile the heap in address order, and `prev' is
\* the inverse of `next'.
THEOREM ListAlwaysTiles == Spec => []ListTilesHeap
<1>1. ASSUME HInv, heap_head # NULL
      PROVE  /\ heap_head = heap_lo /\ heap_lo \in Headers
             /\ mem[heap_lo].prev = NULL
             /\ \A a \in Headers :
                   /\ heap_lo <= a /\ End(a) <= heap_hi
                   /\ IF End(a) = heap_hi
                      THEN mem[a].next = NULL
                      ELSE /\ mem[a].next = End(a) /\ End(a) \in Headers
                           /\ mem[End(a)].prev = a
                   /\ a # heap_lo => \E p \in Headers : End(p) = a
  <2>1. heap_head = heap_lo /\ Tiled(mem, heap_lo, heap_hi)
    BY <1>1 DEF HInv, HeapInv
  <2>2. /\ Headers = HeadersOf(mem) /\ heap_lo \in HeadersOf(mem)
        /\ \A a : End(a) = EndIn(mem, a)
        /\ \A a \in HeadersOf(mem) : Linked(mem, heap_lo, heap_hi, a)
    BY <2>1 DEF Headers, HeadersOf, End, EndIn, Tiled
  <2>3. mem[heap_lo].prev = NULL
    BY <2>2 DEF Linked
  <2>4. ASSUME NEW a \in HeadersOf(mem)
        PROVE  /\ heap_lo <= a /\ EndIn(mem, a) <= heap_hi
               /\ IF EndIn(mem, a) = heap_hi
                  THEN mem[a].next = NULL
                  ELSE /\ mem[a].next = EndIn(mem, a)
                       /\ EndIn(mem, a) \in HeadersOf(mem)
                       /\ mem[EndIn(mem, a)].prev = a
               /\ a # heap_lo => \E p \in HeadersOf(mem) : EndIn(mem, p) = a
    <3>1. Linked(mem, heap_lo, heap_hi, a)
      BY <2>2
    <3>2. EndIn(mem, a) # NULL
      BY <2>1, BlockFacts, SlotsAre DEF NULL
    <3>3. mem[a].next # NULL => mem[mem[a].next].prev = a
      BY <2>1, NextBlock
    <3> QED
      BY <3>1, <3>2, <3>3 DEF Linked
  <2> QED
    BY <2>1, <2>2, <2>3, <2>4
<1>2. HInv => ListTilesHeap
  BY <1>1 DEF ListTilesHeap
<1> QED
  BY HInvAlways, <1>2, PTL

\* kfree coalesces completely, whatever the order of the frees.
THEOREM NoAdjacentFreeAlways == Spec => []NoAdjacentFree
<1>1. ASSUME HInv, NEW a \in Headers, mem[a].magic = MAGIC_FREE, mem[a].next # NULL
      PROVE  mem[mem[a].next].magic = MAGIC_USED
  <2>1. a \in HeadersOf(mem)
    BY <1>1 DEF Headers, HeadersOf
  <2>2. Tiled(mem, heap_lo, heap_hi) /\ NoFreePair(mem)
    BY <1>1, <2>1 DEF HInv, HeapInv
  <2>3. mem[a].next \in HeadersOf(mem)
    BY <1>1, <2>1, <2>2, NextBlock
  <2>4. mem[mem[a].next].magic # MAGIC_FREE
    BY <1>1, <2>1, <2>2 DEF NoFreePair, FreePair
  <2> QED
    BY <2>3, <2>4 DEF HeadersOf
<1>2. HInv => NoAdjacentFree
  BY <1>1 DEF NoAdjacentFree
<1> QED
  BY HInvAlways, <1>2, PTL

\* The block kmalloc takes was not live, and its pointer determines it.
LEMMA TakenIsNew ==
    ASSUME HInv, KmallocTake
    PROVE  b + HEADER_SIZE \notin live /\ live' = live \cup {b + HEADER_SIZE}
<1>1. b \in HeadersOf(mem) /\ mem[b].magic = MAGIC_FREE
  BY TakenBlock
<1>2. UsedIn(mem) \subseteq Nat /\ b \in Nat /\ HEADER_SIZE \in Nat
  BY <1>1, SlotsAre, HeaderSize DEF UsedIn, HeadersOf
<1>3. ASSUME NEW c \in UsedIn(mem)
      PROVE  c + HEADER_SIZE # b + HEADER_SIZE
  <2>1. c # b
    BY <1>1 DEF UsedIn, MAGIC_USED, MAGIC_FREE
  <2>2. c \in Nat
    BY <1>2
  <2> QED
    BY <1>2, <2>1, <2>2
<1>4. live = {c + HEADER_SIZE : c \in UsedIn(mem)}
  BY DEF HInv, LiveInv
<1>5. live' = live \cup {b + HEADER_SIZE}
  BY DEF KmallocTake
<1> QED
  BY <1>3, <1>4, <1>5

\* A double free, also of a block merged away or split again since, changes no
\* header: after initialisation memory changes only as the set of live pointers
\* does.
THEOREM OnlyLiveFrees == Spec => OnlyLiveFreesAct
<1>1. ASSUME HInv, [Next]_vars, heap_head # NULL, live' = live
      PROVE  mem' = mem
  <2>1. CASE UNCHANGED vars
    BY <2>1 DEF vars
  <2>2. CASE \E arg \in InitArgs : HeapInit(arg[1], arg[2])
    BY <1>1, <2>2 DEF HeapInit
  <2>3. CASE \E size \in Sizes : KmallocCall(size)
    BY <2>3 DEF KmallocCall
  <2>4. CASE KmallocSkip \/ KmallocFail
    BY <2>4 DEF KmallocSkip, KmallocFail
  <2>5. CASE KmallocTake
    BY <1>1, <2>5, TakenIsNew
  <2>6. CASE \E ptr \in returned \cup {NULL, SIZE_SPACE - ALIGNMENT} : Kfree(ptr)
    BY <1>1, <2>6, FreedBlock
  <2> QED
    BY <1>1, <2>1, <2>2, <2>3, <2>4, <2>5, <2>6 DEF Next
<1>2. Spec => [][heap_head # NULL /\ live' = live => mem' = mem]_vars
  BY HInvAlways, <1>1, PTL DEF Spec
<1> QED
  BY <1>2 DEF OnlyLiveFreesAct

\* The block kmalloc takes is the lowest free block that is large enough.
THEOREM FirstFitAlways == Spec => FirstFit
<1> DEFINE Lowest == \A ptr \in live' \ live :
                        \A a \in Headers : a < ptr - HEADER_SIZE => ~Fits(a)
<1>1. ASSUME HInv, [Next]_vars
      PROVE  Lowest
  <2>1. CASE UNCHANGED vars
    BY <2>1 DEF vars
  <2>2. CASE \E arg \in InitArgs : HeapInit(arg[1], arg[2])
    BY <2>2 DEF HeapInit
  <2>3. CASE \E size \in Sizes : KmallocCall(size)
    BY <2>3 DEF KmallocCall
  <2>4. CASE KmallocSkip \/ KmallocFail
    BY <2>4 DEF KmallocSkip, KmallocFail
  <2>5. CASE KmallocTake
    <3>0. b \in HeadersOf(mem)
      BY <1>1, <2>5, TakenBlock
    <3>1. live' = live \cup {b + HEADER_SIZE}
      BY <1>1, <2>5, TakenIsNew
    <3>2. b \in Nat /\ HEADER_SIZE \in Nat
      BY <3>0, SlotsAre, HeaderSize DEF HeadersOf
    <3>4. \A a \in Headers : a < b => ~Fits(a)
      <4>1. Walking /\ b # NULL
        BY <2>5 DEF KmallocTake
      <4>2. \A a \in HeadersOf(mem) : b = NULL \/ a < b => ~Fits(a)
        BY <1>1, <4>1 DEF HInv, CallInv
      <4>3. Headers = HeadersOf(mem)
        BY DEF Headers, HeadersOf
      <4> QED
        BY <4>1, <4>2, <4>3
    <3>5. \A ptr \in live' \ live : ptr - HEADER_SIZE = b
      <4> TAKE ptr \in live' \ live
      <4>1. ptr = b + HEADER_SIZE
        BY <3>1
      <4> QED
        BY <3>2, <4>1
    <3> QED
      BY <3>4, <3>5
  <2>6. CASE \E ptr \in returned \cup {NULL, SIZE_SPACE - ALIGNMENT} : Kfree(ptr)
    <3>1. live' \subseteq live
      BY <1>1, <2>6, FreedBlock
    <3> QED
      BY <3>1
  <2> QED
    BY <1>1, <2>1, <2>2, <2>3, <2>4, <2>5, <2>6 DEF Next
<1>2. Spec => [][Lowest]_vars
  BY HInvAlways, <1>1, PTL DEF Spec
<1> QED
  BY <1>2 DEF FirstFit
-----------------------------------------------------------------------------
(* The heap implements the allocator of heap.h                              *)

\* What the pool sees of a used block.
Alloc(m, a) == [ptr |-> a + HEADER_SIZE, len |-> m[a].size]
Allocs(m) == {Alloc(m, a) : a \in UsedIn(m)}
AllocsAt(m, ptrs) == {[ptr |-> p, len |-> m[p - HEADER_SIZE].size] : p \in ptrs}
LiveAllocs == AllocsAt(mem, live)
Region == heap_lo .. heap_hi - 1

\* The bytes of [lo, hi) outside every used block.
UnusedIn(m, lo, hi) == {x \in lo .. hi - 1 :
                          \A c \in UsedIn(m) : ~(c <= x /\ x < EndIn(m, c))}

LEMMA UsedBlocks == UsedIn(mem) \subseteq HeadersOf(mem) /\ HeadersOf(mem) \subseteq Nat
  BY SlotsAre DEF UsedIn, HeadersOf

LEMMA AllocsOfUsed ==
    ASSUME NEW m, NEW ptrs, ptrs = {c + HEADER_SIZE : c \in UsedIn(m)}
    PROVE  AllocsAt(m, ptrs) = Allocs(m)
<1>1. UsedIn(m) \subseteq Nat /\ HEADER_SIZE \in Nat
  BY SlotsAre, HeaderSize DEF UsedIn
<1>2. ASSUME NEW x \in AllocsAt(m, ptrs)
      PROVE  x \in Allocs(m)
  <2>1. PICK p \in ptrs : x = [ptr |-> p, len |-> m[p - HEADER_SIZE].size]
    BY <1>2 DEF AllocsAt
  <2>2. PICK c \in UsedIn(m) : p = c + HEADER_SIZE
    OBVIOUS
  <2>3. p - HEADER_SIZE = c
    BY <1>1, <2>2
  <2> QED
    BY <2>1, <2>2, <2>3 DEF Allocs, Alloc
<1>3. ASSUME NEW x \in Allocs(m)
      PROVE  x \in AllocsAt(m, ptrs)
  <2>1. PICK c \in UsedIn(m) : x = Alloc(m, c)
    BY <1>3 DEF Allocs
  <2> DEFINE p == c + HEADER_SIZE
  <2>2. p \in ptrs
    OBVIOUS
  <2>3. p - HEADER_SIZE = c
    BY <1>1, <2>1
  <2>4. x = [ptr |-> p, len |-> m[p - HEADER_SIZE].size]
    BY <2>1, <2>3 DEF Alloc
  <2> QED
    BY <2>2, <2>4 DEF AllocsAt
<1> QED
  BY <1>2, <1>3

LEMMA LiveIsAllocs == HInv => LiveAllocs = Allocs(mem)
<1>1. HInv => live = {c + HEADER_SIZE : c \in UsedIn(mem)}
  BY DEF HInv, LiveInv
<1> QED
  BY <1>1, AllocsOfUsed DEF LiveAllocs

LEMMA LiveIsAllocsNext == HInv' => LiveAllocs' = Allocs(mem')
<1>1. HInv' => live' = {c + HEADER_SIZE : c \in UsedIn(mem')}
  BY DEF HInv, LiveInv
<1> QED
  BY <1>1, AllocsOfUsed DEF LiveAllocs

LEMMA PoolUnused ==
    ASSUME HInv
    PROVE  Pool!Unused = UnusedIn(mem, heap_lo, heap_hi)
<1>1. Pool!Unused = Region \ UNION {Pool!Extent(x) : x \in LiveAllocs}
  BY DEF Pool!Unused, Region, LiveAllocs, AllocsAt
<1>2. LiveAllocs = Allocs(mem)
  BY LiveIsAllocs
<1>3. ASSUME NEW c \in UsedIn(mem)
      PROVE  Pool!Extent(Alloc(mem, c)) = c .. EndIn(mem, c) - 1 /\ EndIn(mem, c) \in Nat
  <2>1. c \in HeadersOf(mem) /\ c \in Nat
    BY UsedBlocks
  <2>2. mem[c].size \in Nat
    BY <2>1, Constants DEF HInv, HeapInv, MemType, HeaderType, HeadersOf
  <2>3. c + HEADER_SIZE - HEADER_SIZE = c
    BY <2>1, HeaderSize
  <2> QED
    BY <2>1, <2>2, <2>3, HeaderSize DEF Pool!Extent, Alloc, EndIn
<1>4. ASSUME NEW x \in Region
      PROVE  x \in UNION {Pool!Extent(y) : y \in Allocs(mem)}
                <=> \E c \in UsedIn(mem) : c <= x /\ x < EndIn(mem, c)
  <2>1. x \in Int
    BY SlotsAre DEF Region, HInv, HeapInv
  <2>2. x \in UNION {Pool!Extent(y) : y \in Allocs(mem)}
           <=> \E c \in UsedIn(mem) : x \in Pool!Extent(Alloc(mem, c))
    BY DEF Allocs
  <2>3. ASSUME NEW c \in UsedIn(mem)
        PROVE  x \in Pool!Extent(Alloc(mem, c)) <=> c <= x /\ x < EndIn(mem, c)
    <3>1. c \in Nat
      BY UsedBlocks
    <3> QED
      BY <1>3, <2>1, <3>1
  <2> QED
    BY <2>2, <2>3
<1> QED
  BY <1>1, <1>2, <1>4 DEF UnusedIn, Region

\* Every byte of the heap lies in some block.
LEMMA BlocksCover ==
    ASSUME NEW m, NEW lo, NEW hi, Tiled(m, lo, hi), NEW x \in lo .. hi - 1
    PROVE  \E c \in HeadersOf(m) : c <= x /\ x < EndIn(m, c)
<1>1. /\ lo \in Nat /\ hi \in Nat /\ x \in Nat /\ x < hi
      /\ lo \in HeadersOf(m) /\ lo <= x
  BY SlotsAre DEF Tiled
<1>2. \A c \in HeadersOf(m) : c \in Nat
  BY SlotsAre DEF HeadersOf
<1> DEFINE T == {d \in Nat : \E c \in HeadersOf(m) : c <= x /\ d = x - c}
<1>3. T \in SUBSET Nat /\ x - lo \in T
  BY <1>1
<1>4. PICK d \in T : \A t \in T : d <= t
  BY <1>3, NatMinimum
<1>5. PICK c \in HeadersOf(m) : c <= x /\ d = x - c
  BY <1>4
<1>6. ASSUME EndIn(m, c) <= x
      PROVE  FALSE
  <2>1. Linked(m, lo, hi, c)
    BY DEF Tiled
  <2>2. EndIn(m, c) \in Nat /\ c < EndIn(m, c) /\ c \in Nat
    BY <1>2, BlockFacts, SlotsAre
  <2>3. EndIn(m, c) \in HeadersOf(m)
    BY <1>1, <1>6, <2>1, <2>2 DEF Linked
  <2>4. x - EndIn(m, c) \in T
    BY <1>1, <1>6, <2>2, <2>3
  <2>5. d <= x - EndIn(m, c)
    BY <1>4, <2>4
  <2> QED
    BY <1>1, <1>5, <2>2, <2>5
<1>7. EndIn(m, c) \in Nat
  BY BlockFacts, SlotsAre
<1> QED
  BY <1>1, <1>5, <1>6, <1>7

\* If no block can hold `need' bytes, then no stretch of unused bytes can hold a
\* header and as many: it would lie in one block, as no two free blocks touch.
LEMMA NoRoom ==
    ASSUME NEW m, NEW lo, NEW hi, Tiled(m, lo, hi), NoFreePair(m), NEW need \in Nat,
           \A c \in HeadersOf(m) : m[c].magic = MAGIC_FREE => m[c].size < need,
           NEW x \in UnusedIn(m, lo, hi),
           x .. x + HEADER_SIZE + need - 1 \subseteq UnusedIn(m, lo, hi)
    PROVE  FALSE
<1>1. x \in lo .. hi - 1
  BY DEF UnusedIn
<1>2. PICK c \in HeadersOf(m) : c <= x /\ x < EndIn(m, c)
  BY <1>1, BlocksCover
<1>3. c \notin UsedIn(m)
  BY <1>2 DEF UnusedIn
<1>4. c \in Slots /\ m[c].magic = MAGIC_FREE /\ m[c].size < need
  BY <1>3 DEF HeadersOf, UsedIn
<1>5. /\ c \in Nat /\ EndIn(m, c) = c + HEADER_SIZE + m[c].size
      /\ m[c].size \in Nat /\ EndIn(m, c) \in Nat
      /\ hi \in Nat /\ lo \in Nat /\ HEADER_SIZE \in Nat
  BY BlockFacts, HeaderSize, SlotsAre
<1> DEFINE n == EndIn(m, c)
<1>6. n \in x .. x + HEADER_SIZE + need - 1
  BY <1>1, <1>2, <1>4, <1>5
<1>7. n \in UnusedIn(m, lo, hi)
  BY <1>6
<1>8. n # hi
  BY <1>5, <1>7 DEF UnusedIn
<1>9. m[c].next = n /\ n \in HeadersOf(m)
  BY <1>8 DEF Tiled, Linked
<1>10. n < EndIn(m, n) /\ n # NULL
  BY <1>2, <1>5, <1>9, BlockFacts DEF NULL
<1>11. n \notin UsedIn(m)
  BY <1>5, <1>7, <1>10 DEF UnusedIn
<1>12. m[n].magic = MAGIC_FREE
  BY <1>9, <1>11 DEF HeadersOf, UsedIn
<1> QED
  BY <1>4, <1>9, <1>10, <1>12 DEF NoFreePair, FreePair
\* Where it does not overflow, the code rounds a request as the pool does.
LEMMA RoundedNeed ==
    ASSUME NEW size \in 0 .. SIZE_SPACE - 1
    PROVE  /\ ALIGN_UP(size) \in Nat /\ Pool!Rounded(size) \in Nat
           /\ ALIGN_UP(size) >= size => Pool!Rounded(size) = ALIGN_UP(size)
           /\ ALIGN_UP(size) < size => Pool!Rounded(size) >= SIZE_SPACE
<1> DEFINE sum == size + ALIGNMENT - 1
           q == sum \div ALIGNMENT
<1>1. /\ ALIGNMENT \in Nat \ {0} /\ SIZE_SPACE \in Nat \ {0} /\ size \in Nat
      /\ size < SIZE_SPACE /\ ALIGNMENT <= SIZE_SPACE /\ sum \in Nat
  BY Constants
<1>2. q \in Int /\ Pool!Rounded(size) = q * ALIGNMENT
  BY <1>1, DivMod DEF Pool!Rounded
<1>3. \A n \in Int : n <= q <=> n * ALIGNMENT <= sum
  BY <1>1, DivFloor
<1> HIDE DEF q
<1>4. q * ALIGNMENT \in Int
  BY <1>1, <1>2
<1>5. 0 <= q
  BY <1>1, <1>3
<1>6. q * ALIGNMENT \in Nat
  BY <1>1, <1>2, <1>5
<1>7. CASE sum < SIZE_SPACE
  <2>1. ALIGN_UP(size) \in Nat /\ size <= ALIGN_UP(size)
    BY <1>1, <1>7, AlignUp, SlotsAre
  <2>2. sum % SIZE_SPACE = sum
    BY <1>1, <1>7
  <2>3. sum = ALIGNMENT * (sum \div ALIGNMENT) + (sum % ALIGNMENT)
        /\ sum % ALIGNMENT \in Int
    BY <1>1, DivMod
  <2>4. sum - (sum % ALIGNMENT) = q * ALIGNMENT
    BY <1>1, <2>3 DEF q
  <2>5. ALIGN_UP(size) = q * ALIGNMENT
    BY <2>2, <2>4 DEF ALIGN_UP, ALIGN_DOWN
  <2> QED
    BY <1>1, <1>2, <1>6, <2>1, <2>5
<1>8. CASE ~(sum < SIZE_SPACE)
  <2>1. sum % SIZE_SPACE = sum - SIZE_SPACE /\ sum - SIZE_SPACE \in Nat
    BY <1>1, <1>8
  <2>2. ALIGN_UP(size) \in Nat /\ ALIGN_UP(size) <= sum - SIZE_SPACE
    BY <2>1, AlignDown DEF ALIGN_UP
  <2>3. ALIGN_UP(size) < size
    BY <1>1, <2>2
  <2>4. PICK k \in Int : SIZE_SPACE = k * ALIGNMENT
    <3>1. SIZE_SPACE = ALIGNMENT * (SIZE_SPACE \div ALIGNMENT) + (SIZE_SPACE % ALIGNMENT)
          /\ SIZE_SPACE \div ALIGNMENT \in Int
      BY <1>1, DivMod
    <3> DEFINE d == SIZE_SPACE \div ALIGNMENT
    <3>2. SIZE_SPACE = ALIGNMENT * d + 0 /\ d \in Int
      BY <3>1, Constants
    <3> HIDE DEF d
    <3>3. ALIGNMENT * d + 0 = d * ALIGNMENT
      BY <1>1, <3>2
    <3> QED
      BY <3>2, <3>3
  <2>5. k <= q
    BY <1>1, <1>3, <1>8, <2>4
  <2>6. k * ALIGNMENT <= q * ALIGNMENT
    BY <1>1, <1>2, <2>4, <2>5
  <2> QED
    BY <1>2, <1>6, <2>2, <2>3, <2>4, <2>6
<1> QED
  BY <1>7, <1>8

\* A step that leaves the bounds, the memory, the live pointers and the answer
\* alone is a stutter of the pool.
LEMMA PoolStutters ==
    ASSUME UNCHANGED <<heap_lo, heap_hi, mem, live, ret>>
    PROVE  UNCHANGED Pool!vars
  BY DEF Pool!vars, Region, LiveAllocs, AllocsAt

\* kmalloc may return NULL for a size that is zero or fits in no stretch of
\* unused bytes.
LEMMA PoolRefuses ==
    ASSUME HInv, NEW size \in Sizes, UNCHANGED <<heap_lo, heap_hi, mem, live>>,
           ret' = [size |-> size, ptr |-> NULL],
           \/ size = 0 \/ heap_head = NULL \/ ALIGN_UP(size) < size
           \/ /\ heap_head # NULL /\ ALIGN_UP(size) >= size
              /\ \A c \in HeadersOf(mem) :
                    mem[c].magic = MAGIC_FREE => mem[c].size < ALIGN_UP(size)
    PROVE  Pool!Refuse(size)
<1> DEFINE len == Pool!Rounded(size)
           U == UnusedIn(mem, heap_lo, heap_hi)
<1>1. size \in 0 .. SIZE_SPACE - 1
  BY HeapAssumption
<1>2. heap_lo \in Nat /\ heap_hi \in Nat /\ heap_hi < SIZE_SPACE /\ HEADER_SIZE \in Nat
  BY SlotsAre, Constants, HeaderSize DEF HInv, HeapInv
<1>3. len \in Nat
  BY <1>1, RoundedNeed
<1> HIDE DEF len
<1>4. ASSUME size # 0, NEW a \in U, a .. a + HEADER_SIZE + len - 1 \subseteq U
      PROVE  FALSE
  <2>1. a \in heap_lo .. heap_hi - 1
    BY DEF UnusedIn
  <2>2. heap_head # NULL
    BY <1>2, <2>1 DEF HInv, HeapInv
  <2>3. CASE ALIGN_UP(size) < size
    <3>1. len >= SIZE_SPACE
      BY <1>1, <2>3, RoundedNeed DEF len
    <3>2. heap_hi \in a .. a + HEADER_SIZE + len - 1
      <4>1. HEADER_SIZE > 0
        BY HeaderSize, Constants
      <4> QED
        BY <1>2, <1>3, <2>1, <3>1, <4>1, Constants
    <3> QED
      BY <1>2, <1>4, <3>2 DEF UnusedIn
  <2>4. CASE ~(ALIGN_UP(size) < size)
    <3>1. ALIGN_UP(size) \in Nat
      BY <1>1, RoundedNeed
    <3>2. len = ALIGN_UP(size)
      BY <1>1, <2>4, <3>1, RoundedNeed, Constants DEF len
    <3>3. \A c \in HeadersOf(mem) : mem[c].magic = MAGIC_FREE => mem[c].size < len
      BY <1>4, <2>2, <2>4, <3>2
    <3>4. Tiled(mem, heap_lo, heap_hi) /\ NoFreePair(mem)
      BY <2>2 DEF HInv, HeapInv
    <3> QED
      BY <1>3, <1>4, <3>3, <3>4, NoRoom
  <2> QED
    BY <2>3, <2>4
<1>5. Pool!Unused = U
  BY PoolUnused
<1>6. size = 0 \/ ~\E a \in Pool!Unused : Pool!Fits(a, len)
  BY <1>4, <1>5 DEF Pool!Fits
<1> QED
  BY <1>6 DEF Pool!Refuse, len, NULL
LEMMA PoolHeapInit ==
    ASSUME HInv, NEW arg \in InitArgs, HeapInit(arg[1], arg[2])
    PROVE  [Pool!Next]_Pool!vars
<1>1. /\ heap_head = NULL /\ HInv' /\ UNCHANGED <<live, ret>>
      /\ HeadersOf(mem) = {} /\ heap_lo = 0 /\ heap_hi = 0
  BY HInvHeapInit DEF HeapInit, HInv, HeapInv
<1>2. live = {} /\ Region = {}
  BY <1>1 DEF HInv, LiveInv, UsedIn, HeadersOf, Region
<1>3. LiveAllocs = {} /\ LiveAllocs' = {}
  BY <1>1, <1>2 DEF LiveAllocs, AllocsAt
<1>4. Region' \in SUBSET (0 .. SIZE_SPACE - 1)
  <2>1. heap_lo' \in 0 .. SIZE_SPACE - 1 /\ heap_hi' \in 0 .. SIZE_SPACE - 1
    BY <1>1 DEF HInv, HeapInv, Slots
  <2>2. \A l, h, x : /\ l \in 0 .. SIZE_SPACE - 1 /\ h \in 0 .. SIZE_SPACE - 1
                     /\ x \in l .. h - 1
                     => x \in 0 .. SIZE_SPACE - 1
    BY Constants
  <2> QED
    BY <2>1, <2>2 DEF Region
<1>5. Pool!Open
  BY <1>1, <1>2, <1>3, <1>4 DEF Pool!Open, Region, LiveAllocs, AllocsAt
<1> QED
  BY <1>5 DEF Pool!Next

LEMMA PoolKmallocCall ==
    ASSUME HInv, NEW size \in Sizes, KmallocCall(size)
    PROVE  [Pool!Next]_Pool!vars
<1>1. UNCHANGED <<heap_lo, heap_hi, mem, live>>
  BY DEF KmallocCall, heap
<1>2. CASE size = 0 \/ heap_head = NULL \/ ALIGN_UP(size) < size
  <2>1. ret' = [size |-> size, ptr |-> NULL]
    BY <1>2 DEF KmallocCall, Return
  <2>2. Pool!Refuse(size)
    BY <1>1, <1>2, <2>1, PoolRefuses
  <2> QED
    BY <2>2 DEF Pool!Next
<1>3. CASE ~(size = 0 \/ heap_head = NULL \/ ALIGN_UP(size) < size)
  <2>1. UNCHANGED ret
    BY <1>3 DEF KmallocCall
  <2> QED
    BY <1>1, <2>1, PoolStutters
<1> QED
  BY <1>2, <1>3

LEMMA PoolKmallocFail ==
    ASSUME HInv, KmallocFail
    PROVE  [Pool!Next]_Pool!vars
<1>1. /\ UNCHANGED <<heap_lo, heap_hi, mem, live>> /\ Walking /\ b = NULL
      /\ ret' = [size |-> call.size, ptr |-> NULL]
  BY DEF KmallocFail, Return, heap
<1>2. /\ heap_head # NULL /\ call.size \in Sizes
      /\ call.need = ALIGN_UP(call.size) /\ call.need >= call.size
      /\ \A a \in HeadersOf(mem) : ~Fits(a)
  BY <1>1 DEF HInv, CallInv
<1>3. ASSUME NEW c \in HeadersOf(mem), mem[c].magic = MAGIC_FREE
      PROVE  mem[c].size < ALIGN_UP(call.size)
  <2>1. Tiled(mem, heap_lo, heap_hi)
    BY <1>2 DEF HInv, HeapInv
  <2>2. mem[c].size \in Nat
    BY <2>1, BlockFacts
  <2>3. call.need \in Nat
    BY SlotsAre DEF HInv, CallInv
  <2> QED
    BY <1>2, <1>3, <2>2, <2>3 DEF Fits
<1>4. Pool!Refuse(call.size)
  BY <1>1, <1>2, <1>3, PoolRefuses
<1> QED
  BY <1>2, <1>4 DEF Pool!Next

LEMMA PoolKmallocTake ==
    ASSUME HInv, KmallocTake
    PROVE  [Pool!Next]_Pool!vars
<1>0. PICK req \in Sizes : req = call.size
  BY TakenBlock
<1> DEFINE len == mem'[b].size
<1>1. /\ b \in HeadersOf(mem) /\ mem[b].magic = MAGIC_FREE
      /\ Tiled(mem, heap_lo, heap_hi) /\ Tiled(mem', heap_lo, heap_hi)
      /\ UsedIn(mem') = UsedIn(mem) \cup {b}
      /\ \A c \in UsedIn(mem) : mem'[c].size = mem[c].size
      /\ call.need = ALIGN_UP(req) /\ call.need >= req
      /\ req > 0 /\ call.need <= len /\ len < call.need + MIN_SPLIT
  BY <1>0, TakenBlock
<1>2. /\ UNCHANGED <<heap_lo, heap_hi>> /\ HInv'
      /\ ret' = [size |-> req, ptr |-> b + HEADER_SIZE]
  BY <1>0, HInvKmallocTake DEF KmallocTake, Return, heap
<1>3. LiveAllocs = Allocs(mem) /\ LiveAllocs' = Allocs(mem')
  BY <1>2, LiveIsAllocs, LiveIsAllocsNext
<1>4. LiveAllocs' = LiveAllocs \cup {[ptr |-> b + HEADER_SIZE, len |-> len]}
  <2>1. \A c \in UsedIn(mem) : Alloc(mem', c) = Alloc(mem, c)
    BY <1>1 DEF Alloc
  <2>2. Alloc(mem', b) = [ptr |-> b + HEADER_SIZE, len |-> len]
    BY DEF Alloc
  <2> QED
    BY <1>1, <1>3, <2>1, <2>2 DEF Allocs
<1>a. len \in Nat
  <2>1. b \in HeadersOf(mem')
    BY <1>1 DEF HeadersOf, UsedIn
  <2> QED
    BY <1>1, <2>1, BlockFacts
<1>5. len \in Pool!Rounded(req) .. Pool!Rounded(req) + MIN_SPLIT - 1
  <2>1. req \in 0 .. SIZE_SPACE - 1
    BY <1>1, HeapAssumption
  <2>2. Pool!Rounded(req) = call.need /\ call.need \in Nat
    BY <1>1, <2>1, RoundedNeed
  <2> QED
    BY <1>1, <1>a, <2>2, HeaderSize
<1>6. /\ b \in Nat /\ EndIn(mem', b) = b + HEADER_SIZE + len /\ EndIn(mem', b) \in Nat
      /\ heap_lo <= b /\ EndIn(mem', b) <= heap_hi /\ b < EndIn(mem', b)
      /\ heap_lo \in Nat /\ heap_hi \in Nat
  <2>1. b \in HeadersOf(mem')
    BY <1>1 DEF HeadersOf, UsedIn
  <2> QED
    BY <1>1, <2>1, BlockFacts, SlotsAre
<1>7. ASSUME NEW x \in b .. EndIn(mem', b) - 1
      PROVE  x \in UnusedIn(mem, heap_lo, heap_hi)
  <2>1. x \in heap_lo .. heap_hi - 1
    BY <1>6
  <2>2. ASSUME NEW c \in UsedIn(mem), c <= x, x < EndIn(mem, c)
        PROVE  FALSE
    <3>1. c # b
      BY <1>1, <2>2 DEF UsedIn, MAGIC_USED, MAGIC_FREE
    <3>2. c \in HeadersOf(mem') /\ b \in HeadersOf(mem')
      BY <1>1 DEF HeadersOf, UsedIn
    <3>3. c \in Nat /\ EndIn(mem', c) \in Nat
      BY <1>1, <3>2, BlockFacts, SlotsAre
    <3>4. EndIn(mem', c) = EndIn(mem, c)
      BY <1>1 DEF EndIn
    <3>5. c < b => EndIn(mem', c) <= b
      BY <1>1, <3>2 DEF Tiled
    <3>6. b < c => EndIn(mem', b) <= c
      BY <1>1, <3>2 DEF Tiled
    <3> QED
      BY <1>6, <2>2, <3>1, <3>3, <3>4, <3>5, <3>6
  <2> QED
    BY <2>1, <2>2 DEF UnusedIn
<1> HIDE DEF len
<1>8. b \in Pool!Unused /\ Pool!Fits(b, len)
  <2>1. Pool!Unused = UnusedIn(mem, heap_lo, heap_hi)
    BY PoolUnused
  <2>2. b \in Pool!Unused
    BY <1>6, <1>7, <2>1
  <2>3. b .. b + HEADER_SIZE + len - 1 \subseteq Pool!Unused
    <3>1. b + HEADER_SIZE + len - 1 = EndIn(mem', b) - 1
      BY <1>a, <1>6, HeaderSize
    <3> QED
      BY <1>7, <2>1, <3>1
  <2>4. b % ALIGNMENT = 0
    BY <1>1, SlotsAre DEF HeadersOf
  <2> QED
    BY <2>2, <2>3, <2>4 DEF Pool!Fits
<1>9. Pool!Grant(req)
  BY <1>1, <1>2, <1>4, <1>5, <1>8 DEF Pool!Grant, LiveAllocs, AllocsAt
<1> QED
  BY <1>9 DEF Pool!Next

LEMMA PoolKfree ==
    ASSUME HInv, NEW ptr \in returned \cup {NULL, SIZE_SPACE - ALIGNMENT}, Kfree(ptr)
    PROVE  [Pool!Next]_Pool!vars
<1>1. UNCHANGED <<heap_lo, heap_hi, ret>> /\ HInv'
  BY HInvKfree DEF Kfree, heap
<1>2. CASE UNCHANGED <<mem, live>>
  BY <1>1, <1>2, PoolStutters
<1>3. CASE ~UNCHANGED <<mem, live>>
  <2>1. PICK a \in HeadersOf(mem) :
           /\ mem[a].magic = MAGIC_USED
           /\ UsedIn(mem') = UsedIn(mem) \ {a}
           /\ \A c \in UsedIn(mem') : mem'[c].size = mem[c].size
    BY <1>3, FreedBlock, Zenon
  <2>2. a \in UsedIn(mem)
    BY <2>1 DEF UsedIn, HeadersOf
  <2>3. LiveAllocs = Allocs(mem) /\ LiveAllocs' = Allocs(mem')
    BY <1>1, LiveIsAllocs, LiveIsAllocsNext
  <2>4. \A c \in UsedIn(mem') : Alloc(mem', c) = Alloc(mem, c)
    BY <2>1 DEF Alloc
  <2>5. ASSUME NEW c \in UsedIn(mem), Alloc(mem, c) = Alloc(mem, a)
        PROVE  c = a
    <3>1. c + HEADER_SIZE = a + HEADER_SIZE
      BY <2>5 DEF Alloc
    <3> QED
      BY <2>2, <3>1, UsedBlocks, HeaderSize
  <2>6. Allocs(mem') = Allocs(mem) \ {Alloc(mem, a)}
    BY <2>1, <2>2, <2>4, <2>5 DEF Allocs
  <2>7. Alloc(mem, a) \in LiveAllocs /\ LiveAllocs' = LiveAllocs \ {Alloc(mem, a)}
    BY <2>2, <2>3, <2>6 DEF Allocs
  <2>8. Pool!Free
    BY <1>1, <2>7 DEF Pool!Free, LiveAllocs, AllocsAt
  <2> QED
    BY <2>8 DEF Pool!Next
<1> QED
  BY <1>2, <1>3

\* kmalloc and kfree keep the promises of heap.h: live allocations are aligned,
\* in the heap, long enough and disjoint, headers included; NULL is returned only
\* when no stretch of unused bytes can hold a header and the rounded request.
THEOREM PoolImplemented == Spec => HeapPoolRefined
<1>1. Init => Pool!Init
  BY DEF Init, Pool!Init, NULL
<1>2. HInv /\ [Next]_vars => [Pool!Next]_Pool!vars
  <2> SUFFICES ASSUME HInv, [Next]_vars
               PROVE  [Pool!Next]_Pool!vars
    OBVIOUS
  <2>1. CASE UNCHANGED vars
    BY <2>1, PoolStutters DEF vars
  <2>2. CASE \E arg \in InitArgs : HeapInit(arg[1], arg[2])
    BY <2>2, PoolHeapInit
  <2>3. CASE \E size \in Sizes : KmallocCall(size)
    BY <2>3, PoolKmallocCall
  <2>4. CASE KmallocSkip
    BY <2>4, PoolStutters DEF KmallocSkip, heap
  <2>5. CASE KmallocFail
    BY <2>5, PoolKmallocFail
  <2>6. CASE KmallocTake
    BY <2>6, PoolKmallocTake
  <2>7. CASE \E ptr \in returned \cup {NULL, SIZE_SPACE - ALIGNMENT} : Kfree(ptr)
    BY <2>7, PoolKfree
  <2> QED
    BY <2>1, <2>2, <2>3, <2>4, <2>5, <2>6, <2>7 DEF Next
<1> QED
  BY HInvAlways, <1>1, <1>2, PTL DEF Spec, HeapPoolRefined, Pool!Spec

\* Each iteration of kmalloc's loop moves the cursor to a block further up the
\* heap, or off the end of the list: the walk has no cycle, so it is never
\* longer than the heap has blocks, whatever was allocated and freed before.
THEOREM KmallocAdvances ==
    Spec => [][Walking /\ Walking' =>
                  b' = NULL \/ b' \in b + HEADER_SIZE .. heap_hi - HEADER_SIZE]_vars
<1> DEFINE Later == Walking /\ Walking' =>
                       b' = NULL \/ b' \in b + HEADER_SIZE .. heap_hi - HEADER_SIZE
<1>1. ASSUME HInv, Next
      PROVE  Later
  <2>1. ASSUME NEW arg \in InitArgs, HeapInit(arg[1], arg[2]) PROVE Later
    BY <1>1, <2>1 DEF HInv, CallInv, HeapInit
  <2>2. ASSUME NEW size \in Sizes, KmallocCall(size) PROVE Later
    BY <2>2 DEF KmallocCall, Walking
  <2>3. CASE KmallocSkip
    <3>1. b \in HeadersOf(mem) /\ heap_head # NULL /\ b' = mem[b].next
      BY <1>1, <2>3 DEF KmallocSkip, HInv, CallInv
    <3>2. Tiled(mem, heap_lo, heap_hi)
      BY <1>1, <3>1 DEF HInv, HeapInv
    <3>3. b' # NULL => b' \in HeadersOf(mem) /\ b' = EndIn(mem, b)
      BY <3>1, <3>2, NextBlock
    <3>4. \A a \in HeadersOf(mem) :
             /\ a \in Nat /\ EndIn(mem, a) \in Nat /\ EndIn(mem, a) <= heap_hi
             /\ mem[a].size \in Nat
      BY <3>2, BlockFacts, SlotsAre
    <3>5. HEADER_SIZE \in Nat /\ heap_hi \in Nat
      BY <3>2, HeaderSize, SlotsAre DEF Tiled
    <3>6. \A a \in HeadersOf(mem) :
             a + HEADER_SIZE <= EndIn(mem, a) /\ a <= heap_hi - HEADER_SIZE
      BY <3>4, <3>5 DEF EndIn
    <3>7. b' # NULL => /\ b + HEADER_SIZE <= b' /\ b' <= heap_hi - HEADER_SIZE
                       /\ b \in Nat /\ b' \in Nat
      BY <3>1, <3>3, <3>4, <3>6
    <3> QED
      BY <3>5, <3>7
  <2>4. CASE KmallocFail \/ KmallocTake
    BY <2>4 DEF KmallocFail, KmallocTake, Return, Walking
  <2>5. ASSUME NEW ptr \in returned \cup {NULL, SIZE_SPACE - ALIGNMENT}, Kfree(ptr)
        PROVE  Later
    BY <2>5 DEF Kfree, Walking
  <2> QED
    BY <1>1, <2>1, <2>2, <2>3, <2>4, <2>5 DEF Next
<1> HIDE DEF Later
<1>2. Spec => [][Later]_vars
  BY HInvAlways, <1>1, PTL DEF Spec
<1> QED
  BY <1>2 DEF Later
=============================================================================
