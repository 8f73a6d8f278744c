------------------------------ MODULE Boot_proofs ------------------------------
(***************************************************************************)
(* Proofs about the boot: first the multiboot parser, for maps of any       *)
(* length and any contents, then the panic screen, for every geometry, text *)
(* and set of pixel constants the assumption admits, then Boot, which uses  *)
(* both the way their own specifications allow: every step of it is a step  *)
(* of each, or leaves its variables alone, so that what is proved of them   *)
(* alone holds of the kernel.                                               *)
(***************************************************************************)
EXTENDS Boot, ArithLemmas, SequenceTheorems

(***************************************************************************)
(* MULTIBOOT MAP.  Both walks visit a chain of offsets: the first is 0,     *)
(* each of the others follows the entry before it, and every entry on it is *)
(* well formed.  A chain is determined by the map, so that the second walk  *)
(* can only follow the chain the first one validated, and stop where it     *)
(* stopped.                                                                 *)
(***************************************************************************)

WellFormed(o) == o < map.length /\ ~Malformed(o)

Chain(s) ==
    /\ \A k \in 1 .. Len(s) : s[k] \in Nat /\ WellFormed(s[k])
    /\ Len(s) > 0 => s[1] = 0
    /\ \A k \in 1 .. Len(s) - 1 : s[k + 1] = After(s[k])

\* Where the walk that has visited s stands.
Cursor(s) == IF Len(s) = 0 THEN 0 ELSE After(s[Len(s)])

\* The entries counted are a chain that ends where the map ends.
Validated ==
    /\ EarlyStatus(map) = "OK"
    /\ Chain(parsed) /\ Cursor(parsed) >= map.length

\* The second walk has visited the beginning of that chain.
Following ==
    /\ saved_mbd
    /\ Chain(called) /\ offset = Cursor(called)
    /\ Len(called) <= Len(parsed)
    /\ \A k \in 1 .. Len(called) : called[k] = parsed[k]

MInv ==
    /\ MapTypeOK
    /\ reach <= map.length
    /\ walk = "parse" =>
          EarlyStatus(map) = "OK" /\ Chain(parsed) /\ offset = Cursor(parsed)
    /\ saved_mbd /\ walk # "parse" => Validated
    /\ walk = "iter" => Following

-----------------------------------------------------------------------------
(* Sums.  SumFunction takes the elements of a set in the order of CHOOSE.   *)
(* A sum of naturals is the number of points below a graph, and so depends  *)
(* on no order; that there is a function with the equations of the fold,    *)
(* and only one, needs no more than a least counterexample.                 *)

Pick(s) == CHOOSE z \in s : TRUE

IsFold(g, f, D) ==
    g = [s \in SUBSET D |-> IF s = {} THEN 0 ELSE f[Pick(s)] + g[s \ {Pick(s)}]]

LEMMA SumIsFold ==
    ASSUME NEW f, NEW D, \E g : IsFold(g, f, D)
    PROVE  \E g : IsFold(g, f, D) /\ SumFunctionOnSet(f, D) = g[D]
<1>1. SumFunctionOnSet(f, D) = (CHOOSE g : IsFold(g, f, D))[D]
  BY DEF SumFunctionOnSet, FoldFunctionOnSet, MapThenFoldSet, IsFold, Pick
<1> QED
  BY <1>1

\* The pairs <<j, k>> with k < f[j]: as many as the sum of f over s.
Grid(f, s) == {p \in s \X Nat : p[2] < f[p[1]]}

LEMMA GridFinite ==
    ASSUME NEW D, IsFiniteSet(D), NEW B \in Nat, NEW f \in [D -> 0 .. B],
           NEW u \in SUBSET D
    PROVE  IsFiniteSet(Grid(f, u)) /\ Cardinality(Grid(f, u)) \in Nat
<1>1. IsFiniteSet(D \X (0 .. B))
  <2>1. 0 \in Int /\ B \in Int
    OBVIOUS
  <2>2. IsFiniteSet(0 .. B)
    BY <2>1, FS_Interval
  <2> QED
    BY <2>2, FS_Product
<1>2. Grid(f, u) \subseteq D \X (0 .. B)
  BY DEF Grid
<1> QED
  BY <1>1, <1>2, FS_Subset, FS_CardinalityType

LEMMA GridSplits ==
    ASSUME NEW D, IsFiniteSet(D), NEW B \in Nat, NEW f \in [D -> 0 .. B],
           NEW s \in SUBSET D, NEW z \in s
    PROVE  Cardinality(Grid(f, s)) = f[z] + Cardinality(Grid(f, s \ {z}))
<1> DEFINE column == {z} \X (0 .. f[z] - 1)
           rest == Grid(f, s \ {z})
<1>1. f[z] \in Nat
  OBVIOUS
<1>2. IsFiniteSet(column) /\ Cardinality(column) = f[z]
  <2>1. IsFiniteSet({z}) /\ Cardinality({z}) = 1
    BY FS_Singleton
  <2>2. IsFiniteSet(0 .. f[z] - 1) /\ Cardinality(0 .. f[z] - 1) = f[z]
    <3>1. 0 \in Int /\ f[z] - 1 \in Int
      BY <1>1
    <3>2. /\ IsFiniteSet(0 .. f[z] - 1)
          /\ Cardinality(0 .. f[z] - 1) = IF 0 > f[z] - 1 THEN 0 ELSE f[z] - 1 - 0 + 1
      BY <3>1, FS_Interval
    <3> QED
      BY <1>1, <3>2
  <2>3. IsFiniteSet(column) /\ Cardinality(column) = 1 * f[z]
    BY <2>1, <2>2, FS_Product
  <2> QED
    BY <1>1, <2>3
<1>3. Grid(f, s) = column \cup rest
  BY <1>1 DEF Grid
<1>4. column \cap rest = {}
  BY DEF Grid
<1>5. IsFiniteSet(rest) /\ Cardinality(rest) \in Nat
  BY GridFinite
<1> HIDE DEF column, rest
<1>6. Cardinality(column \cup rest)
         = Cardinality(column) + Cardinality(rest) - Cardinality(column \cap rest)
  BY <1>2, <1>5, FS_Union
<1>7. Cardinality(column \cap rest) = 0
  BY <1>4, FS_EmptySet
<1> QED
  BY <1>1, <1>2, <1>3, <1>5, <1>6, <1>7 DEF rest

LEMMA GridOfNone ==
    ASSUME NEW f
    PROVE  Cardinality(Grid(f, {})) = 0
<1>1. Grid(f, {}) = {}
  BY DEF Grid
<1> QED
  BY <1>1, FS_EmptySet

\* There is a function that folds f, and there is only one: the order in which
\* CHOOSE takes the elements does not matter.
LEMMA FoldExists ==
    ASSUME NEW D, IsFiniteSet(D), NEW B \in Nat, NEW f \in [D -> 0 .. B]
    PROVE  \E g : IsFold(g, f, D)
<1> DEFINE g == [s \in SUBSET D |-> Cardinality(Grid(f, s))]
<1>1. ASSUME NEW s \in SUBSET D
      PROVE  g[s] = IF s = {} THEN 0 ELSE f[Pick(s)] + g[s \ {Pick(s)}]
  <2>1. CASE s = {}
    BY <2>1, GridOfNone
  <2>2. CASE s # {}
    <3>1. Pick(s) \in s
      BY <2>2 DEF Pick
    <3>2. Cardinality(Grid(f, s)) = f[Pick(s)] + Cardinality(Grid(f, s \ {Pick(s)}))
      BY <3>1, GridSplits
    <3>3. s \ {Pick(s)} \in SUBSET D
      OBVIOUS
    <3> QED
      BY <2>2, <3>2, <3>3
  <2> QED
    BY <2>1, <2>2
<1>2. g = [s \in SUBSET D |-> IF s = {} THEN 0 ELSE f[Pick(s)] + g[s \ {Pick(s)}]]
  BY <1>1
<1> QED
  BY <1>2 DEF IsFold

LEMMA FoldUnique ==
    ASSUME NEW D, IsFiniteSet(D), NEW B \in Nat, NEW f \in [D -> 0 .. B],
           NEW g, IsFold(g, f, D)
    PROVE  g[D] = Cardinality(Grid(f, D))
<1> DEFINE Wrong == {n \in Nat : \E s \in SUBSET D :
                        Cardinality(s) = n /\ g[s] # Cardinality(Grid(f, s))}
<1>1. \A s \in SUBSET D : IsFiniteSet(s) /\ Cardinality(s) \in Nat
  BY FS_Subset, FS_CardinalityType
<1>2. \A s \in SUBSET D : g[s] = IF s = {} THEN 0 ELSE f[Pick(s)] + g[s \ {Pick(s)}]
  BY DEF IsFold
<1>3. ASSUME Wrong # {} PROVE FALSE
  <2>1. PICK n \in Wrong : \A m \in Wrong : n <= m
    <3>1. Wrong \in SUBSET Nat
      OBVIOUS
    <3> HIDE DEF Wrong
    <3> QED
      BY <1>3, <3>1, NatMinimum
  <2>2. PICK s \in SUBSET D : Cardinality(s) = n /\ g[s] # Cardinality(Grid(f, s))
    BY <2>1
  <2>3. CASE s = {}
    <3>1. Cardinality(Grid(f, s)) = 0
      BY <2>3, GridOfNone
    <3>2. g[s] = 0
      BY <1>2, <2>3
    <3> QED
      BY <2>2, <3>1, <3>2
  <2>4. CASE s # {}
    <3>1. PICK z : z = Pick(s) /\ z \in s
      BY <2>4 DEF Pick
    <3>2. g[s] = f[z] + g[s \ {z}]
      BY <1>2, <2>4, <3>1
    <3>3. Cardinality(Grid(f, s)) = f[z] + Cardinality(Grid(f, s \ {z}))
      BY <3>1, GridSplits
    <3>4. g[s \ {z}] # Cardinality(Grid(f, s \ {z})) /\ s \ {z} \in SUBSET D
      BY <2>2, <3>2, <3>3
    <3>5. Cardinality(s \ {z}) = n - 1 /\ Cardinality(s \ {z}) \in Nat
      BY <1>1, <2>2, <3>1, <3>4, FS_RemoveElement
    <3>6. n - 1 \in Wrong
      BY <3>4, <3>5
    <3> HIDE DEF Wrong
    <3> QED
      BY <1>1, <2>1, <2>2, <3>6
  <2> QED
    BY <2>3, <2>4
<1> QED
  BY <1>1, <1>3

LEMMA SumIsGrid ==
    ASSUME NEW D, IsFiniteSet(D), NEW B \in Nat, NEW f \in [D -> 0 .. B]
    PROVE  SumFunctionOnSet(f, D) = Cardinality(Grid(f, D))
  BY FoldExists, FoldUnique, SumIsFold

\* h is f, on the finite set D, with one more value, at z.
ExtendsBy(h, f, z, D, T, B) ==
    /\ IsFiniteSet(D) /\ z \notin D /\ T = D \cup {z}
    /\ B \in Nat /\ f \in [D -> 0 .. B] /\ h \in [T -> 0 .. B]
    /\ \A j \in D : h[j] = f[j]

\* One more number is added to the sum of the others.
LEMMA SumExtends ==
    ASSUME NEW h, NEW f, NEW z, NEW D, NEW T, NEW B, ExtendsBy(h, f, z, D, T, B)
    PROVE  SumFunction(h) = SumFunction(f) + h[z]
<1>0. /\ IsFiniteSet(D) /\ z \notin D /\ T = D \cup {z}
      /\ B \in Nat /\ f \in [D -> 0 .. B] /\ h \in [T -> 0 .. B]
      /\ \A j \in D : h[j] = f[j]
  BY DEF ExtendsBy
<1>1. IsFiniteSet(T)
  BY <1>0, FS_AddElement
<1>2. SumFunction(f) = Cardinality(Grid(f, D)) /\ SumFunction(h) = Cardinality(Grid(h, T))
  <2>1. SumFunctionOnSet(f, D) = Cardinality(Grid(f, D))
    BY <1>0, SumIsGrid
  <2>2. SumFunctionOnSet(h, T) = Cardinality(Grid(h, T))
    BY <1>0, <1>1, SumIsGrid
  <2>3. DOMAIN f = D /\ DOMAIN h = T
    BY <1>0
  <2> QED
    BY <2>1, <2>2, <2>3 DEF SumFunction
<1>3. T \in SUBSET T /\ D \in SUBSET D /\ z \in T /\ T \ {z} = D
  BY <1>0
<1>4. Cardinality(Grid(h, T)) = h[z] + Cardinality(Grid(h, T \ {z}))
  BY <1>0, <1>1, <1>3, GridSplits
<1>5. Grid(h, D) = Grid(f, D)
  BY <1>0 DEF Grid
<1>6. Cardinality(Grid(f, D)) \in Nat
  BY <1>0, <1>3, GridFinite
<1>7. h[z] \in Nat
  BY <1>0, <1>3
<1> QED
  BY <1>2, <1>3, <1>4, <1>5, <1>6, <1>7

\* One more value at the end of a sequence of values.
LEMMA SumAppend ==
    ASSUME NEW n \in Nat, NEW B \in Nat, NEW f \in [1 .. n -> 0 .. B],
           NEW h \in [1 .. n + 1 -> 0 .. B], \A j \in 1 .. n : h[j] = f[j]
    PROVE  SumFunction(h) = SumFunction(f) + h[n + 1]
<1>1. PICK D, T, z : D = 1 .. n /\ T = 1 .. n + 1 /\ z = n + 1
  OBVIOUS
<1>2. IsFiniteSet(D)
  BY <1>1, FS_Interval
<1>3. z \notin D /\ T = D \cup {z}
  BY <1>1
<1>4. f \in [D -> 0 .. B]
  BY <1>1
<1>5. h \in [T -> 0 .. B]
  BY <1>1
<1>6. \A j \in D : h[j] = f[j]
  BY <1>1
<1>7. ExtendsBy(h, f, z, D, T, B)
  BY <1>2, <1>3, <1>4, <1>5, <1>6 DEF ExtendsBy
<1>8. SumFunction(h) = SumFunction(f) + h[z]
  BY <1>7, SumExtends
<1> QED
  BY <1>1, <1>8

LEMMA SumOfNone ==
    ASSUME NEW f, DOMAIN f = {}
    PROVE  SumFunction(f) = 0
<1>1. SUFFICES ASSUME NEW D, D = {} PROVE SumFunctionOnSet(f, D) = 0
  BY DEF SumFunction
<1> DEFINE g == [s \in SUBSET D |-> 0]
<1>2. g = [s \in SUBSET D |-> IF s = {} THEN 0 ELSE f[Pick(s)] + g[s \ {Pick(s)}]]
  BY <1>1
<1>3. PICK k : IsFold(k, f, D) /\ SumFunctionOnSet(f, D) = k[D]
  BY <1>2, SumIsFold DEF IsFold
<1> QED
  BY <1>1, <1>3 DEF IsFold

-----------------------------------------------------------------------------
(* One iteration                                                            *)

\* The iterator tests an entry as the parser did.
LEMMA CopiesAgree ==
    ASSUME NEW o
    PROVE  IterMalformed(o) = Malformed(o)
  BY DEF IterMalformed, Malformed

\* What an iteration reads lies in the map, and the next offset is one again.
LEMMA Iteration ==
    ASSUME MapTypeOK, reach <= map.length, offset < map.length
    PROVE  /\ map.At[offset] \in Entry
           /\ ReadTo(offset, Malformed(offset)) \in Nat
           /\ ReadTo(offset, Malformed(offset)) <= map.length
           /\ After(offset) \in 0 .. UINT32 - 1
<1>1. offset \in 0 .. map.length - 1 /\ map.length \in Nat /\ reach \in Nat
  BY DEF MapTypeOK, IsMap
<1>2. map.At[offset] \in Entry
  BY <1>1 DEF MapTypeOK, IsMap
<1>3. map.At[offset].size \in Nat
  BY <1>2 DEF Entry
<1>4. /\ ReadTo(offset, Malformed(offset)) \in Nat
      /\ ReadTo(offset, Malformed(offset)) <= map.length
  BY <1>1, <1>3, MultibootAssumption DEF ReadTo, Malformed
<1>5. After(offset) \in 0 .. UINT32 - 1
  <2>1. offset + map.At[offset].size + WORD \in Int /\ UINT32 \in Nat \ {0}
    BY <1>1, <1>3, MultibootAssumption
  <2> QED
    BY <2>1, DivMod DEF After
<1> QED
  BY <1>2, <1>4, <1>5

\* A chain grows by the well-formed entry at its cursor.
LEMMA ChainGrows ==
    ASSUME NEW s \in Seq(Nat), Chain(s), Cursor(s) \in Nat, WellFormed(Cursor(s))
    PROVE  /\ Append(s, Cursor(s)) \in Seq(Nat)
           /\ Chain(Append(s, Cursor(s)))
           /\ Cursor(Append(s, Cursor(s))) = After(Cursor(s))
<1> DEFINE t == Append(s, Cursor(s))
<1>1. /\ Len(s) \in Nat /\ Len(t) = Len(s) + 1 /\ t \in Seq(Nat)
      /\ t[Len(s) + 1] = Cursor(s)
      /\ \A k \in 1 .. Len(s) : t[k] = s[k]
  OBVIOUS
<1> HIDE DEF t
<1>2. \A k \in 1 .. Len(t) : t[k] \in Nat /\ WellFormed(t[k])
  <2> TAKE k \in 1 .. Len(t)
  <2>1. CASE k = Len(s) + 1
    BY <1>1, <2>1
  <2>2. CASE k \in 1 .. Len(s)
    BY <1>1, <2>2 DEF Chain
  <2> QED
    BY <1>1, <2>1, <2>2
<1>3. Len(t) > 0 => t[1] = 0
  BY <1>1 DEF Chain, Cursor
<1>4. \A k \in 1 .. Len(t) - 1 : t[k + 1] = After(t[k])
  <2> TAKE k \in 1 .. Len(t) - 1
  <2>1. CASE k = Len(s)
    BY <1>1, <2>1 DEF Cursor
  <2>2. CASE k \in 1 .. Len(s) - 1
    BY <1>1, <2>2 DEF Chain
  <2> QED
    BY <1>1, <2>1, <2>2
<1>5. Cursor(t) = After(Cursor(s))
  BY <1>1 DEF Cursor
<1> QED
  BY <1>1, <1>2, <1>3, <1>4, <1>5 DEF Chain, t

\* While the second walk has not visited all of the first, its cursor is on the
\* next entry of the first; when it has, its cursor is past the end.
LEMMA CursorFollows ==
    ASSUME MapTypeOK, Validated, Following
    PROVE  /\ Len(called) < Len(parsed) =>
                 offset = parsed[Len(called) + 1] /\ WellFormed(offset)
           /\ Len(called) = Len(parsed) => offset >= map.length /\ called = parsed
<1>1. Len(called) \in Nat /\ Len(parsed) \in Nat /\ parsed \in Seq(Nat)
      /\ called \in Seq(Nat)
  BY DEF MapTypeOK
<1>2. CASE Len(called) < Len(parsed)
  <2>1. offset = parsed[Len(called) + 1]
    <3>1. CASE Len(called) = 0
      BY <1>1, <1>2, <3>1 DEF Following, Validated, Chain, Cursor
    <3>2. CASE Len(called) # 0
      <4>1. Len(called) \in 1 .. Len(parsed) - 1
        BY <1>1, <1>2, <3>2
      <4>2. called[Len(called)] = parsed[Len(called)]
        BY <1>1, <3>2 DEF Following
      <4> QED
        BY <4>1, <4>2, <3>2 DEF Following, Validated, Chain, Cursor
    <3> QED
      BY <3>1, <3>2
  <2>2. WellFormed(parsed[Len(called) + 1])
    <3>1. Len(called) + 1 \in 1 .. Len(parsed)
      BY <1>1, <1>2
    <3> QED
      BY <3>1 DEF Validated, Chain
  <2> QED
    BY <1>1, <1>2, <2>1, <2>2
<1>3. CASE Len(called) = Len(parsed)
  <2>1. called = parsed
    BY <1>1, <1>3, SeqEqual DEF Following
  <2> QED
    BY <1>3, <2>1 DEF Following, Validated
<1> QED
  BY <1>1, <1>2, <1>3 DEF Following

-----------------------------------------------------------------------------
(* The invariant                                                            *)

LEMMA NoMapIsMap == IsMap(NoMap)
<1>1. NoMap.At \in [0 .. NoMap.length - 1 -> Entry]
  <2>1. 0 .. NoMap.length - 1 = {}
    BY DEF NoMap
  <2>2. NoMap.At = [k \in {} |-> k]
    BY DEF NoMap
  <2> QED
    BY <2>1, <2>2
<1> QED
  BY <1>1, MultibootAssumption DEF IsMap, NoMap

LEMMA MInvInit == MInit => MInv
<1> SUFFICES ASSUME MInit PROVE MInv
  OBVIOUS
<1>1. MapTypeOK
  <2>1. IsMap(map)
    BY NoMapIsMap DEF MInit
  <2>2. mem_info \in [available : 0 .. UINT64 - 1, reserved : 0 .. UINT64 - 1,
                      count : 0 .. UINT32 - 1]
    BY MultibootAssumption DEF MInit
  <2>3. offset \in 0 .. UINT32 - 1 /\ reach \in Nat
        /\ parsed \in Seq(Nat) /\ called \in Seq(Nat)
    BY MultibootAssumption DEF MInit
  <2> QED
    BY <2>1, <2>2, <2>3 DEF MInit, MapTypeOK
<1>2. reach <= map.length
  BY DEF MInit, NoMap
<1> QED
  BY <1>1, <1>2 DEF MInit, MInv

\* The second walk has not begun, or is over, and the map was validated before.
LEMMA KeepValidated ==
    ASSUME Validated, UNCHANGED <<map, parsed>>
    PROVE  Validated'
  BY DEF Validated, EarlyStatus, Chain, Cursor, WellFormed, Malformed, After

LEMMA MInvMemInit ==
    ASSUME MInv, NEW m \in Maps, MemInit(m)
    PROVE  MInv'
<1>1. MapTypeOK'
  <2>1. IsMap(map)'
    BY MapsAssumption DEF MemInit, IsMap
  <2>2. mem_info' \in [available : 0 .. UINT64 - 1, reserved : 0 .. UINT64 - 1,
                       count : 0 .. UINT32 - 1]
    BY MultibootAssumption DEF MemInit
  <2>3. /\ saved_mbd' \in BOOLEAN /\ walk' \in {"none", "parse", "iter"}
        /\ mem_status' \in {"NONE", "OK", "NO_MMAP", "INVALID_MAP", "MALFORMED",
                            "OVERFLOW"}
    BY DEF MemInit, MInv, MapTypeOK, EarlyStatus, ReturnParse
  <2>4. /\ offset' \in 0 .. UINT32 - 1 /\ reach' \in Nat
        /\ parsed' \in Seq(Nat) /\ called' \in Seq(Nat)
    BY MultibootAssumption DEF MemInit
  <2> QED
    BY <2>1, <2>2, <2>3, <2>4 DEF MapTypeOK
<1>2. (reach <= map.length)'
  BY MapsAssumption DEF MemInit, IsMap
<1>3. walk' # "iter" /\ (saved_mbd' => walk' = "parse")
  BY DEF MemInit, ReturnParse, EarlyStatus
<1>4. walk' = "parse" => (EarlyStatus(map) = "OK" /\ Chain(parsed)
                             /\ offset = Cursor(parsed))'
  BY DEF MemInit, ReturnParse, EarlyStatus, Chain, Cursor
<1> QED
  BY <1>1, <1>2, <1>3, <1>4 DEF MInv

LEMMA MInvParseEntry ==
    ASSUME MInv, ParseEntry
    PROVE  MInv'
<1>1. MapTypeOK /\ walk = "parse" /\ offset < map.length
  BY DEF MInv, ParseEntry
<1>2. /\ map.At[offset] \in Entry
      /\ ReadTo(offset, Malformed(offset)) \in Nat
      /\ ReadTo(offset, Malformed(offset)) <= map.length
      /\ After(offset) \in 0 .. UINT32 - 1
  BY <1>1, Iteration DEF MInv
<1>3. (reach <= map.length)' /\ reach' \in Nat /\ UNCHANGED <<map, called>>
  BY <1>2 DEF ParseEntry
<1>4. CASE UNCHANGED <<mem_info, offset, parsed>> /\ walk' = "none" /\ saved_mbd' = FALSE
           /\ mem_status' \in {"MALFORMED", "OVERFLOW"}
  <2>1. IsMap(map)'
    BY <1>1, <1>3 DEF MapTypeOK, IsMap
  <2>2. saved_mbd' \in BOOLEAN
    BY <1>4
  <2>3. MapTypeOK'
    BY <1>1, <1>3, <1>4, <2>1, <2>2 DEF MapTypeOK
  <2> QED
    BY <1>3, <1>4, <2>3 DEF MInv
<1>5. CASE /\ ~Malformed(offset) /\ ~Overflows(map.At[offset])
           /\ mem_info' = [mem_info EXCEPT
                 ![Field(map.At[offset].available)] =
                     (@ + map.At[offset].len) % UINT64,
                 !.count = @ + 1]
           /\ offset' = After(offset)
           /\ parsed' = Append(parsed, offset)
           /\ UNCHANGED <<walk, mem_status, saved_mbd>>
  <2>1. parsed' \in Seq(Nat) /\ Chain(parsed)' /\ offset' = Cursor(parsed')
    <3>1. /\ parsed \in Seq(Nat) /\ Chain(parsed) /\ Cursor(parsed) = offset
          /\ WellFormed(offset) /\ offset \in Nat
      <4>1. parsed \in Seq(Nat) /\ offset \in Nat
        BY <1>1 DEF MapTypeOK
      <4>2. Chain(parsed) /\ Cursor(parsed) = offset
        BY <1>1 DEF MInv
      <4>3. ~Malformed(offset)
        BY <1>5
      <4> QED
        BY <1>1, <4>1, <4>2, <4>3 DEF WellFormed
    <3>2. /\ Append(parsed, offset) \in Seq(Nat)
          /\ Chain(Append(parsed, offset))
          /\ Cursor(Append(parsed, offset)) = After(offset)
      BY <3>1, ChainGrows
    <3> QED
      BY <1>3, <1>5, <3>2 DEF Chain, WellFormed, Malformed, After, Cursor
  <2>2. mem_info' \in [available : 0 .. UINT64 - 1, reserved : 0 .. UINT64 - 1,
                       count : 0 .. UINT32 - 1]
    <3>1. mem_info.count + 1 \in 0 .. UINT32 - 1
      <4>1. mem_info.count \in 0 .. UINT32 - 1 /\ UINT32 \in Nat
        BY <1>1, MultibootAssumption DEF MapTypeOK
      <4>2. mem_info.count # UINT32 - 1
        BY <1>5 DEF Overflows
      <4> QED
        BY <4>1, <4>2
    <3>2. Field(map.At[offset].available) \in {"available", "reserved"}
      BY DEF Field
    <3>3. (mem_info[Field(map.At[offset].available)] + map.At[offset].len) % UINT64
             \in 0 .. UINT64 - 1
      <4>1. mem_info[Field(map.At[offset].available)] \in Int
        BY <1>1, <3>2 DEF MapTypeOK
      <4>2. map.At[offset].len \in Int
        BY <1>2 DEF Entry
      <4>3. \A n \in Int : n % UINT64 \in 0 .. UINT64 - 1
        <5>1. UINT64 \in Nat \ {0}
          BY MultibootAssumption
        <5> QED
          BY <5>1, DivMod
      <4>4. mem_info[Field(map.At[offset].available)] + map.At[offset].len \in Int
        BY <4>1, <4>2
      <4> QED
        BY <4>3, <4>4
    <3> QED
      BY <1>1, <1>5, <3>1, <3>2, <3>3 DEF MapTypeOK
  <2>3. MapTypeOK'
    BY <1>1, <1>2, <1>3, <1>5, <2>1, <2>2 DEF MapTypeOK, IsMap
  <2>4. (EarlyStatus(map) = "OK")'
    BY <1>1, <1>3 DEF MInv, EarlyStatus
  <2> QED
    BY <1>1, <1>3, <1>5, <2>1, <2>3, <2>4 DEF MInv, Cursor, After
<1> QED
  BY <1>4, <1>5 DEF ParseEntry, ReturnParse

LEMMA MInvParseDone ==
    ASSUME MInv, ParseDone
    PROVE  MInv'
<1>1. /\ walk = "parse" /\ walk' = "none" /\ mem_status' = "OK" /\ saved_mbd'
      /\ UNCHANGED <<map, mem_info, offset, parsed, called, reach>>
      /\ offset >= map.length
  BY DEF ParseDone, ReturnParse, ghosts
<1>2. Validated
  BY <1>1 DEF MInv, Validated
<1>3. Validated'
  BY <1>1, <1>2, KeepValidated
<1>4. MapTypeOK'
  <2>1. saved_mbd' \in BOOLEAN
    BY DEF ParseDone, ReturnParse
  <2> QED
    BY <1>1, <2>1 DEF MInv, MapTypeOK, IsMap
<1> QED
  BY <1>1, <1>3, <1>4 DEF MInv

LEMMA MInvIterRegioes ==
    ASSUME MInv, IterRegioes
    PROVE  MInv'
<1>1. walk = "none" /\ UNCHANGED <<map, mem_info, saved_mbd, parsed, reach>>
  BY DEF IterRegioes
<1>2. saved_mbd' => Validated'
  BY <1>1, KeepValidated DEF MInv
<1>3. MapTypeOK'
  <2>1. IsMap(map)'
    BY <1>1 DEF MInv, MapTypeOK, IsMap
  <2>2. /\ walk' \in {"none", "parse", "iter"}
        /\ mem_status' \in {"NONE", "OK", "NO_MMAP", "INVALID_MAP", "MALFORMED",
                            "OVERFLOW"}
    BY DEF IterRegioes, EarlyStatus, MInv, MapTypeOK
  <2>3. offset' \in 0 .. UINT32 - 1 /\ called' \in Seq(Nat)
    <3>1. 0 \in 0 .. UINT32 - 1 /\ <<>> \in Seq(Nat)
      BY MultibootAssumption
    <3>2. offset \in 0 .. UINT32 - 1 /\ called \in Seq(Nat)
      BY DEF MInv, MapTypeOK
    <3> QED
      BY <3>1, <3>2 DEF IterRegioes
  <2> QED
    BY <1>1, <2>1, <2>2, <2>3 DEF MInv, MapTypeOK
<1>4. walk' # "parse"
  BY DEF IterRegioes
<1>5. ASSUME walk' = "iter" PROVE Following'
  <2>1. saved_mbd' /\ offset' = 0 /\ called' = <<>>
    BY <1>1, <1>5 DEF IterRegioes
  <2>2. parsed' \in Seq(Nat)
    BY <1>3 DEF MapTypeOK
  <2> QED
    BY <2>1, <2>2 DEF Following, Chain, Cursor
<1> QED
  BY <1>1, <1>2, <1>3, <1>4, <1>5 DEF MInv

\* The entry the second walk stands on was validated by the first.
LEMMA IterOnEntry ==
    ASSUME MInv, walk = "iter"
    PROVE  IF offset < map.length
           THEN WellFormed(offset) /\ Len(called) < Len(parsed)
                /\ offset = parsed[Len(called) + 1]
           ELSE called = parsed
<1>1. MapTypeOK /\ Validated /\ Following
  BY DEF MInv, Following
<1>2. /\ Len(called) \in Nat /\ Len(parsed) \in Nat /\ Len(called) <= Len(parsed)
      /\ offset \in Nat /\ map.length \in Nat
  BY <1>1 DEF MapTypeOK, IsMap, Following
<1> QED
  BY <1>1, <1>2, CursorFollows DEF WellFormed

LEMMA MInvIterEntry ==
    ASSUME MInv, IterEntry
    PROVE  MInv'
<1>1. MapTypeOK /\ walk = "iter" /\ offset < map.length /\ Following
  BY DEF MInv, IterEntry
<1>2. /\ ReadTo(offset, Malformed(offset)) \in Nat
      /\ ReadTo(offset, Malformed(offset)) <= map.length
      /\ After(offset) \in 0 .. UINT32 - 1
  BY <1>1, Iteration DEF MInv
<1>3. WellFormed(offset) /\ Len(called) < Len(parsed)
      /\ offset = parsed[Len(called) + 1]
  BY <1>1, IterOnEntry
<1>4. /\ called' = Append(called, offset) /\ offset' = After(offset)
      /\ UNCHANGED <<walk, mem_status, map, mem_info, saved_mbd, parsed>>
      /\ reach' = ReadTo(offset, Malformed(offset))
  BY <1>3, CopiesAgree DEF IterEntry, WellFormed
<1>5. /\ called \in Seq(Nat) /\ Chain(called) /\ Cursor(called) = offset
      /\ offset \in Nat
  BY <1>1 DEF MapTypeOK, Following
<1>6. /\ Append(called, offset) \in Seq(Nat)
      /\ Chain(Append(called, offset))
      /\ Cursor(Append(called, offset)) = After(offset)
  BY <1>3, <1>5, ChainGrows
<1>7. MapTypeOK'
  BY <1>1, <1>2, <1>4, <1>6 DEF MapTypeOK, IsMap
<1>8. Validated'
  BY <1>1, <1>4, KeepValidated DEF MInv, Following
<1>9. Following'
  <2>1. Chain(called)' /\ offset' = Cursor(called')
    BY <1>4, <1>6 DEF Chain, WellFormed, Malformed, After, Cursor
  <2>2. /\ Len(called') <= Len(parsed')
        /\ \A k \in 1 .. Len(called') : called'[k] = parsed'[k]
    <3>1. /\ Len(called) \in Nat /\ Len(parsed) \in Nat
          /\ Len(called') = Len(called) + 1
          /\ called'[Len(called) + 1] = offset
          /\ \A k \in 1 .. Len(called) : called'[k] = called[k]
      BY <1>1, <1>4, <1>5 DEF MapTypeOK
    <3>2. \A k \in 1 .. Len(called) : called[k] = parsed[k]
      BY <1>1 DEF Following
    <3> QED
      BY <1>3, <1>4, <3>1, <3>2
  <2> QED
    BY <1>1, <1>4, <2>1, <2>2 DEF Following, Cursor, After
<1> QED
  BY <1>1, <1>2, <1>4, <1>7, <1>8, <1>9 DEF MInv

LEMMA MInvIterDone ==
    ASSUME MInv, IterDone
    PROVE  MInv'
<1>1. /\ walk = "iter" /\ walk' = "none" /\ mem_status' = "OK"
      /\ UNCHANGED <<map, mem_info, saved_mbd, offset, parsed, called, reach>>
  BY DEF IterDone, ghosts
<1>2. Validated'
  BY <1>1, KeepValidated DEF MInv, Following
<1>3. MapTypeOK'
  BY <1>1 DEF MInv, MapTypeOK, IsMap
<1> QED
  BY <1>1, <1>2, <1>3 DEF MInv

LEMMA MInvNext ==
    ASSUME MInv, [MNext]_mvars
    PROVE  MInv'
<1>1. CASE UNCHANGED mvars
  <2>1. Validated => Validated'
    BY <1>1, KeepValidated DEF mvars
  <2> QED
    BY <1>1, <2>1 DEF mvars, MInv, MapTypeOK, IsMap, EarlyStatus, Chain, Cursor,
                     WellFormed, Malformed, After, Following
<1>2. CASE MNext
  BY <1>2, MInvMemInit, MInvParseEntry, MInvParseDone, MInvIterRegioes,
     MInvIterEntry, MInvIterDone DEF MNext
<1> QED
  BY <1>1, <1>2

-----------------------------------------------------------------------------
(* Theorems                                                                 *)

THEOREM MInvAlways == MSpec => []MInv
<1> QED
  BY MInvInit, MInvNext, PTL DEF MSpec

\* The parser's variables have their types: no total, counter or offset leaves
\* its width.
THEOREM MapTypeCorrect == MSpec => []MapTypeOK
<1>1. MInv => MapTypeOK
  BY DEF MInv
<1> QED
  BY <1>1, MInvAlways, PTL

\* No walk reads a byte outside the map, whatever its length and contents.
THEOREM ReadsStayInMap == MSpec => []ReadsInMap
<1>1. MInv => ReadsInMap
  BY DEF MInv, ReadsInMap
<1> QED
  BY <1>1, MInvAlways, PTL

\* A walk made after a successful parse succeeds and visits exactly the entries
\* that were counted.
THEOREM WalksAgreeAlways == MSpec => WalksAgree
<1>1. ASSUME MInv, [MNext]_mvars
      PROVE  [walk = "iter" /\ walk' = "none" =>
                 mem_status' = "OK" /\ called' = parsed]_mvars
  <2> SUFFICES ASSUME MNext, walk = "iter", walk' = "none"
               PROVE  mem_status' = "OK" /\ called' = parsed
    BY <1>1
  <2>1. CASE IterEntry
    <3>1. WellFormed(offset)
      BY <1>1, <2>1, IterOnEntry, CopiesAgree DEF IterEntry
    <3> QED
      BY <2>1, <3>1, CopiesAgree DEF IterEntry, WellFormed
  <2>2. CASE IterDone
    <3>1. ~(offset < map.length)
      BY <1>1, <2>2 DEF IterDone, MInv, MapTypeOK, IsMap
    <3> QED
      BY <1>1, <2>2, <3>1, IterOnEntry DEF IterDone, ghosts
  <2>3. ~ParseEntry /\ ~ParseDone /\ ~IterRegioes /\ ~(\E m \in Maps : MemInit(m))
    BY DEF ParseEntry, ParseDone, IterRegioes, MemInit
  <2> QED
    BY <2>1, <2>2, <2>3 DEF MNext
<1> QED
  BY <1>1, MInvAlways, PTL DEF MSpec, WalksAgree

-----------------------------------------------------------------------------
(* The totals.  They are those of the entries counted from the first entry  *)
(* on, so that nothing is left to compare when the walk succeeds.           *)

TotalsHold == walk = "parse" \/ saved_mbd => Totals

LEMMA LengthsType ==
    ASSUME MapTypeOK, Chain(parsed), NEW kind
    PROVE  Lengths(kind) \in [1 .. Len(parsed) -> 0 .. UINT64 - 1]
<1>1. parsed \in Seq(Nat) /\ DOMAIN parsed = 1 .. Len(parsed) /\ UINT64 \in Nat \ {0}
  BY MultibootAssumption DEF MapTypeOK
<1>2. ASSUME NEW j \in 1 .. Len(parsed) PROVE map.At[parsed[j]].len \in 0 .. UINT64 - 1
  <2>1. parsed[j] \in 0 .. map.length - 1
    BY <1>1 DEF Chain, WellFormed, MapTypeOK, IsMap
  <2>2. map.At[parsed[j]] \in Entry
    BY <2>1 DEF MapTypeOK, IsMap
  <2> QED
    BY <2>2 DEF Entry
<1> QED
  BY <1>1, <1>2 DEF Lengths

LEMMA TotalsMemInit ==
    ASSUME NEW m \in Maps, MemInit(m)
    PROVE  Totals'
<1>1. parsed' = <<>> /\ mem_info' = [available |-> 0, reserved |-> 0, count |-> 0]
  BY DEF MemInit
<1>2. ASSUME NEW kind PROVE SumFunction(Lengths(kind)') = 0
  <2>1. DOMAIN (Lengths(kind)') = {}
    BY <1>1 DEF Lengths
  <2> QED
    BY <2>1, SumOfNone
<1> QED
  BY <1>1, <1>2 DEF Totals

\* add_u64 has tested that the sum stays below 2^64.
LEMMA TotalsParseEntry ==
    ASSUME MInv, TotalsHold, ParseEntry, walk' = "parse" \/ saved_mbd'
    PROVE  Totals'
<1> PICK e, n, field : /\ e = map.At[offset] /\ n = Len(parsed)
                       /\ field = Field(e.available)
  OBVIOUS
<1>1. MapTypeOK /\ Chain(parsed) /\ Totals /\ offset < map.length
  BY DEF MInv, TotalsHold, ParseEntry
<1>2. ~Malformed(offset) /\ ~Overflows(e)
  BY DEF ParseEntry, ReturnParse
<1>3. /\ mem_info' = [mem_info EXCEPT ![field] = (@ + e.len) % UINT64,
                                      !.count = @ + 1]
      /\ parsed' = Append(parsed, offset) /\ map' = map
  BY DEF ParseEntry, ReturnParse
<1>4. /\ n \in Nat /\ Len(parsed') = n + 1 /\ parsed'[n + 1] = offset
      /\ \A j \in 1 .. n : parsed'[j] = parsed[j]
      /\ DOMAIN parsed = 1 .. n /\ DOMAIN parsed' = 1 .. n + 1
  <2>1. parsed \in Seq(Nat) /\ parsed' = Append(parsed, offset)
    BY <1>1, <1>3 DEF MapTypeOK
  <2> QED
    BY <2>1
<1>5. e \in Entry /\ e.len \in 0 .. UINT64 - 1
  BY <1>1, Iteration DEF MInv, Entry
<1>6. ASSUME NEW kind
      PROVE  SumFunction(Lengths(kind)')
                = SumFunction(Lengths(kind)) + IF field = kind THEN e.len ELSE 0
  <2> PICK f, h, B : f = Lengths(kind) /\ h = Lengths(kind)' /\ B = UINT64 - 1
    OBVIOUS
  <2> DEFINE L(o) == IF Field(map.At[o].available) = kind THEN map.At[o].len ELSE 0
  <2>1. f \in [1 .. n -> 0 .. B]
    BY <1>1, LengthsType
  <2>2. f = [j \in 1 .. n |-> L(parsed[j])] /\ h = [j \in 1 .. n + 1 |-> L(parsed'[j])]
    BY <1>3, <1>4 DEF Lengths
  <2>3. B \in Nat /\ L(offset) \in 0 .. B
    BY <1>5, MultibootAssumption
  <2>4. \A j \in 1 .. n : h[j] = f[j]
    BY <1>4, <2>2
  <2>5. h[n + 1] = IF field = kind THEN e.len ELSE 0
    BY <1>4, <2>2
  <2> HIDE DEF L
  <2>6. h \in [1 .. n + 1 -> 0 .. B]
    BY <1>4, <2>1, <2>2, <2>3
  <2>7. SumFunction(h) = SumFunction(f) + h[n + 1]
    BY <1>4, <2>1, <2>3, <2>4, <2>6, SumAppend
  <2> QED
    BY <2>5, <2>7
<1>7. field \in {"available", "reserved"}
  BY DEF Field
<1>8. mem_info \in [available : 0 .. UINT64 - 1, reserved : 0 .. UINT64 - 1,
                     count : 0 .. UINT32 - 1]
  BY <1>1 DEF MapTypeOK
<1>9. mem_info'[field] = mem_info[field] + e.len
  <2> PICK total : total = mem_info[field]
    OBVIOUS
  <2>1. total \in 0 .. UINT64 - 1 /\ UINT64 \in Nat \ {0}
    BY <1>7, <1>8, MultibootAssumption
  <2>2. ~(UINT64 - 1 - total < e.len)
    BY <1>2 DEF Overflows
  <2>3. total + e.len \in 0 .. UINT64 - 1
    BY <1>5, <2>1, <2>2
  <2>4. (total + e.len) % UINT64 = total + e.len
    BY <2>1, <2>3, SmallMod
  <2>5. mem_info'[field] = (total + e.len) % UINT64
    BY <1>3, <1>7, <1>8
  <2> QED
    BY <2>4, <2>5
<1>10. mem_info'.count = mem_info.count + 1
  BY <1>3, <1>7, <1>8
<1>11. \A k \in {"available", "reserved"} : k # field => mem_info'[k] = mem_info[k]
  BY <1>3, <1>7, <1>8
<1>12. \A k \in {"available", "reserved"} :
          mem_info[k] = SumFunction(Lengths(k)) /\ mem_info[k] \in Nat
  BY <1>1, <1>8, MultibootAssumption DEF Totals
<1>13. \A k \in {"available", "reserved"} : mem_info'[k] = SumFunction(Lengths(k)')
  BY <1>5, <1>6, <1>9, <1>11, <1>12
<1> QED
  BY <1>1, <1>4, <1>10, <1>13 DEF Totals

LEMMA TotalsNext ==
    ASSUME MInv, TotalsHold, [MNext]_mvars
    PROVE  TotalsHold'
<1>1. CASE UNCHANGED <<map, mem_info, parsed, walk, saved_mbd>>
  BY <1>1 DEF TotalsHold, Totals, Lengths
<1>2. CASE \E m \in Maps : MemInit(m)
  BY <1>2, TotalsMemInit DEF TotalsHold
<1>3. CASE ParseEntry
  BY <1>3, TotalsParseEntry DEF TotalsHold
<1>4. CASE ParseDone \/ IterRegioes \/ IterEntry \/ IterDone
  <2>1. UNCHANGED <<map, mem_info, parsed>>
    BY <1>4 DEF ParseDone, IterRegioes, IterEntry, IterDone, ghosts
  <2>2. Totals => Totals'
    BY <2>1 DEF Totals, Lengths
  <2>3. walk' = "parse" \/ saved_mbd' => walk = "parse" \/ saved_mbd
    BY <1>4 DEF ParseDone, IterRegioes, IterEntry, IterDone, ReturnParse
  <2> QED
    BY <2>2, <2>3 DEF TotalsHold
<1> QED
  BY <1>1, <1>2, <1>3, <1>4 DEF MNext, mvars

\* For every map, of any length and contents: when multiboot_mem_init has
\* succeeded, the three numbers multiboot_mem_get_info returns are those of the
\* entries of the map; the two sums have not wrapped.
THEOREM TotalsAlwaysExact == MSpec => []TotalsExact
<1>1. MInit => TotalsHold
  BY DEF MInit, TotalsHold
<1>2. MInv /\ TotalsHold /\ [MNext]_mvars => TotalsHold'
  BY TotalsNext
<1>3. TotalsHold => TotalsExact
  BY DEF TotalsHold, TotalsExact
<1> QED
  BY <1>1, <1>2, <1>3, MInvAlways, PTL DEF MSpec

\* Both walks end: an iteration that goes on moves the cursor forward by at
\* least an entry of the smallest size and never past the end of the map.  The
\* sum of the offset and a size, taken in 32 bits, does not wrap.
THEOREM WalksAdvance ==
    MSpec => [][walk # "none" /\ walk' = walk =>
                   offset' \in offset + WORD + ENTRY_MIN_SIZE .. map.length]_mvars
<1>1. ASSUME MInv, MNext, walk # "none", walk' = walk
      PROVE  offset' \in offset + WORD + ENTRY_MIN_SIZE .. map.length
  <2>1. /\ offset < map.length /\ ~Malformed(offset) /\ offset' = After(offset)
    BY <1>1, CopiesAgree DEF MNext, MemInit, ParseEntry, ParseDone, IterRegioes,
       IterEntry, IterDone, ReturnParse
  <2>2. MapTypeOK
    BY <1>1 DEF MInv
  <2> PICK size, length : size = map.At[offset].size /\ length = map.length
    OBVIOUS
  <2>3. WORD \in Nat /\ ENTRY_MIN_SIZE \in Nat /\ UINT32 \in Nat \ {0}
    BY MultibootAssumption
  <2>4. offset \in Nat /\ length \in 0 .. UINT32 - 1
    BY <2>2, <2>3 DEF MapTypeOK, IsMap
  <2>5. map.At[offset] \in Entry
    BY <1>1, <2>1, <2>2, Iteration DEF MInv
  <2>6. size \in Nat
    BY <2>3, <2>5 DEF Entry
  <2>7. offset + size + WORD \in offset + WORD + ENTRY_MIN_SIZE .. length
    BY <2>1, <2>3, <2>4, <2>6 DEF Malformed
  <2>8. offset + size + WORD \in 0 .. UINT32 - 1
    BY <2>3, <2>4, <2>6, <2>7
  <2>9. (offset + size + WORD) % UINT32 = offset + size + WORD
    BY <2>3, <2>8, SmallMod
  <2> QED
    BY <2>1, <2>7, <2>9 DEF After
<1>2. MInv /\ [MNext]_mvars =>
         [walk # "none" /\ walk' = walk =>
             offset' \in offset + WORD + ENTRY_MIN_SIZE .. map.length]_mvars
  BY <1>1
<1> QED
  BY <1>2, MInvAlways, PTL DEF MSpec

-----------------------------------------------------------------------------
(***************************************************************************)
(* PANIC SCREEN.  The invariant carries the validity of the frame from      *)
(* panic_configurar_video to every store, and the row of the cursor to the  *)
(* separator drawn above it.                                                *)
(***************************************************************************)

Op == {Text(1), Text(2), Text(3), SepAbove, SepBelow, Blank}
Char == {"glyph", "newline"}

Typed ==
    /\ video \in [fb : Nat, pitch : Nat, largura : Nat, altura : Nat]
    /\ panico_em_andamento \in BOOLEAN /\ parado \in BOOLEAN
    /\ script \in Seq(Op)
    /\ texto = NoText \/ texto \in Seq(Char)
    /\ x \in Nat /\ linhas \in Nat /\ i \in 0 .. TEXT_MAX /\ linha_y \in Nat
    /\ drawn \in [left : Nat, top : Nat, right : Nat, bottom : Nat]

VideoValid ==
    /\ video.fb # 0 =>
         ValidGeometry(video.fb, video.pitch, video.largura, video.altura)
    /\ panico_em_andamento /\ ~parado => video.fb # 0

\* A text is in progress only while its entry is the head of the script, and a
\* separator comes after a text.
InScript ==
    /\ texto # NoText => script # <<>>
    /\ script # <<>> => Head(script).op = "text" \/ linha_y >= LINHA_ALTURA

OnScreen(r) == r.right <= video.largura /\ r.bottom <= video.altura
DrawnInside == drawn # Nothing => video.fb # 0 /\ OnScreen(drawn) /\ panico_em_andamento

SInv == Typed /\ VideoValid /\ InScript /\ DrawnInside

-----------------------------------------------------------------------------
(* Constants, scripts and rectangles                                        *)

LEMMA Sizes ==
    /\ VIDEO_SPACE \in Nat \ {0} /\ PIXEL \in Nat \ {0} /\ MARGEM \in Nat \ {0}
    /\ CHAR_LARGURA \in Nat \ {0} /\ CHAR_ALTURA \in Nat \ {0}
    /\ LINHA_ALTURA \in Nat \ {0} /\ GAP \in Nat \ {0}
    /\ TEXT_MAX \in Nat \ {0}
    /\ SEP_DY \in Nat /\ SEP_DY <= LINHA_ALTURA
    /\ SEP_COLUNAS * CHAR_LARGURA \in Nat
    /\ MIN_LARGURA \in Nat /\ MIN_LARGURA >= 2 * MARGEM + CHAR_LARGURA
    /\ MIN_ALTURA \in Nat
<1>1. SEP_COLUNAS \in Nat /\ CHAR_LARGURA \in Nat
  BY PanicAssumption
<1> QED
  BY <1>1, PanicAssumption

LEMMA ScriptTyped ==
    ASSUME NEW regs
    PROVE  /\ ScriptOf(regs) \in Seq(Op)
           /\ ScriptOf(regs) # <<>> /\ Head(ScriptOf(regs)).op = "text"
<1> DEFINE first == <<Text(1), SepAbove, Text(3), Blank>>
           mid == CASE regs = "none" -> <<Text(1)>>
                    [] regs = "regs" ->
                         <<Text(1)>> \o [pair \in 1 .. 7 |-> Text(2)] \o <<Text(1)>>
                    [] OTHER ->
                         <<Text(1)>> \o [pair \in 1 .. 7 |-> Text(2)]
                             \o <<Text(1), Text(1)>>
           last == <<SepBelow, Blank, Text(2)>>
           pairs == [pair \in 1 .. 7 |-> Text(2)]
<1>1. first \in Seq(Op) /\ last \in Seq(Op) /\ <<Text(1)>> \in Seq(Op)
      /\ <<Text(1), Text(1)>> \in Seq(Op)
  BY DEF Op
<1>2. pairs \in Seq(Op)
  <2>1. pairs \in [1 .. 7 -> Op] /\ 7 \in Nat
    BY DEF Op
  <2> QED
    BY <2>1, SeqDef
<1>3. mid \in Seq(Op)
  <2>1. <<Text(1)>> \o pairs \in Seq(Op)
    BY <1>1, <1>2, ConcatProperties
  <2>2. (<<Text(1)>> \o pairs) \o <<Text(1)>> \in Seq(Op)
    BY <1>1, <2>1, ConcatProperties
  <2>3. (<<Text(1)>> \o pairs) \o <<Text(1), Text(1)>> \in Seq(Op)
    BY <1>1, <2>1, ConcatProperties
  <2> QED
    BY <1>1, <2>2, <2>3
<1>4. Len(first) = 4 /\ first[1] = Text(1)
  OBVIOUS
<1>5. ScriptOf(regs) = (first \o mid) \o last
  BY DEF ScriptOf
<1> HIDE DEF first, mid, last
<1>6. /\ first \o mid \in Seq(Op) /\ Len(first \o mid) = Len(first) + Len(mid)
      /\ (first \o mid)[1] = first[1]
  <2>1. Len(mid) \in Nat
    BY <1>3, LenProperties
  <2>2. 1 \in 1 .. Len(first) + Len(mid) /\ 1 <= Len(first)
    BY <1>4, <2>1
  <2> QED
    BY <1>1, <1>3, <2>2, ConcatProperties
<1>7. /\ (first \o mid) \o last \in Seq(Op)
      /\ Len((first \o mid) \o last) = Len(first \o mid) + Len(last)
      /\ ((first \o mid) \o last)[1] = (first \o mid)[1]
  <2>1. Len(mid) \in Nat /\ Len(last) \in Nat
    BY <1>1, <1>3, LenProperties
  <2>2. 1 \in 1 .. Len(first \o mid) + Len(last) /\ 1 <= Len(first \o mid)
    BY <1>4, <1>6, <2>1
  <2> QED
    BY <1>1, <1>6, <2>2, ConcatProperties
<1>8. Len((first \o mid) \o last) >= 4
  BY <1>1, <1>3, <1>4, <1>6, <1>7, LenProperties
<1> QED
  BY <1>4, <1>5, <1>6, <1>7, <1>8 DEF Text

\* A store to a rectangle on the screen ends inside the frame: a row of pixels
\* is at most a line of it.
LEMMA StoresInFrame ==
    ASSUME NEW p \in Nat, NEW line \in Nat, NEW rows \in Nat,
           NEW bottom \in Nat, NEW right \in Nat, bottom <= rows, right <= line
    PROVE  p * ((bottom - 1) * line + right) <= (p * line) * rows
<1>1. (bottom - 1) * line <= (rows - 1) * line
  OBVIOUS
<1>2. (rows - 1) * line + line = rows * line
  OBVIOUS
<1>3. /\ (bottom - 1) * line + right \in Int /\ rows * line \in Int
      /\ (bottom - 1) * line \in Int /\ (rows - 1) * line \in Int
  OBVIOUS
<1>4. (bottom - 1) * line + right <= rows * line
  BY <1>1, <1>2, <1>3
<1>5. p * ((bottom - 1) * line + right) <= p * (rows * line)
  <2>1. \A a, b \in Int : a <= b => p * a <= p * b
    OBVIOUS
  <2> QED
    BY <1>3, <1>4, <2>1
<1>6. p * (rows * line) = (p * line) * rows
  OBVIOUS
<1> QED
  BY <1>5, <1>6

-----------------------------------------------------------------------------
(* The steps                                                                *)

LEMMA SInvInit == SInit => SInv
<1> SUFFICES ASSUME SInit PROVE SInv
  OBVIOUS
<1>1. Typed
  <2>1. /\ video \in [fb : Nat, pitch : Nat, largura : Nat, altura : Nat]
        /\ drawn \in [left : Nat, top : Nat, right : Nat, bottom : Nat]
    BY DEF SInit, NoVideo, Nothing, Rect
  <2>2. script \in Seq(Op) /\ i \in 0 .. TEXT_MAX
    BY Sizes DEF SInit
  <2> QED
    BY <2>1, <2>2 DEF SInit, Typed
<1> QED
  BY <1>1 DEF SInit, SInv, VideoValid, InScript, DrawnInside, NoVideo

LEMMA SInvConfigurar ==
    ASSUME SInv, NEW g \in Geometries, Configurar(g[1], g[2], g[3], g[4])
    PROVE  SInv'
<1>1. g[1] \in Nat /\ g[2] \in Nat /\ g[3] \in Nat /\ g[4] \in Nat
  BY PanicAssumption
<1>2. /\ ~panico_em_andamento /\ drawn = Nothing
      /\ UNCHANGED <<panico_em_andamento, script, texto, x, linhas, i, linha_y,
                     drawn, parado>>
  BY DEF Configurar, cursor, SInv, DrawnInside
<1>3. CASE ValidGeometry(g[1], g[2], g[3], g[4])
  <2>1. video' = [fb |-> g[1], pitch |-> g[2], largura |-> g[3], altura |-> g[4]]
    BY <1>3 DEF Configurar
  <2>2. Typed' /\ VideoValid'
    BY <1>1, <1>2, <1>3, <2>1 DEF SInv, Typed, VideoValid, ValidGeometry, NoText
  <2> QED
    BY <1>2, <2>2 DEF SInv, InScript, DrawnInside, NoText, Nothing, Rect
<1>4. CASE ~ValidGeometry(g[1], g[2], g[3], g[4])
  <2>1. video' = [video EXCEPT !.fb = 0]
    BY <1>4 DEF Configurar
  <2>2. Typed' /\ VideoValid'
    BY <1>2, <2>1 DEF SInv, Typed, VideoValid, NoText
  <2> QED
    BY <1>2, <2>2 DEF SInv, InScript, DrawnInside, NoText, Nothing, Rect
<1> QED
  BY <1>3, <1>4

LEMMA SInvKernelPanic ==
    ASSUME SInv, NEW regs, KernelPanic(regs)
    PROVE  SInv'
<1>1. CASE panico_em_andamento \/ video.fb = 0
  <2>1. /\ parado' = TRUE /\ panico_em_andamento' = TRUE
        /\ UNCHANGED <<script, linha_y, drawn, video, texto, x, linhas, i>>
    BY <1>1 DEF KernelPanic, cursor
  <2> QED
    BY <2>1 DEF SInv, Typed, VideoValid, ValidGeometry, InScript, DrawnInside,
                OnScreen, NoText, Nothing, Rect
<1>2. CASE ~(panico_em_andamento \/ video.fb = 0)
  <2>1. /\ panico_em_andamento' = TRUE
        /\ script' = ScriptOf(regs) /\ linha_y' = MARGEM
        /\ drawn' = Rect(0, 0, video.largura, video.altura)
        /\ UNCHANGED <<parado, video, texto, x, linhas, i>>
    BY <1>2 DEF KernelPanic, cursor
  <2>2. Typed'
    BY <2>1, ScriptTyped, Sizes DEF SInv, Typed, Rect, NoText
  <2>3. DrawnInside'
    BY <1>2, <2>1 DEF SInv, Typed, DrawnInside, OnScreen, Rect
  <2>4. InScript' /\ VideoValid'
    BY <1>2, <2>1, ScriptTyped DEF SInv, InScript, VideoValid, ValidGeometry
  <2> QED
    BY <2>2, <2>3, <2>4 DEF SInv
<1> QED
  BY <1>1, <1>2

\* The script after one of its entries is done, with the cursor on row y.
LEMMA ScriptAdvances ==
    ASSUME SInv, script # <<>>, script' = Tail(script),
           linha_y' \in Nat, linha_y' >= LINHA_ALTURA, texto' = NoText
    PROVE  script' \in Seq(Op) /\ InScript'
<1>1. script' \in Seq(Op)
  BY DEF SInv, Typed
<1> QED
  BY <1>1 DEF InScript, NoText

\* A step of the drawing changes neither the frame nor the two flags.
LEMMA DrawingValid ==
    ASSUME SInv, UNCHANGED <<video, panico_em_andamento>>,
           parado' = parado \/ parado' = TRUE
    PROVE  VideoValid'
  BY DEF SInv, VideoValid, ValidGeometry

LEMMA DrawnKept ==
    ASSUME SInv, UNCHANGED <<video, drawn, panico_em_andamento>>
    PROVE  DrawnInside'
  BY DEF SInv, DrawnInside, OnScreen, Nothing, Rect

LEMMA SInvBeginText ==
    ASSUME SInv, NEW t \in Texts, BeginText(t)
    PROVE  SInv'
<1>1. /\ script # <<>> /\ texto' = t /\ x' = MARGEM /\ linhas' = 1 /\ i' = 0
      /\ UNCHANGED <<video, panico_em_andamento, script, linha_y, drawn, parado>>
  BY DEF BeginText, AtOp
<1>2. t \in Seq(Char)
  BY PanicAssumption DEF Char
<1>3. Typed'
  BY <1>1, <1>2, Sizes DEF SInv, Typed, NoText
<1>4. VideoValid' /\ DrawnInside'
  BY <1>1, DrawingValid, DrawnKept
<1> QED
  BY <1>1, <1>3, <1>4 DEF SInv, InScript, NoText

\* A text that ends at row y leaves the cursor on the row after it.
LEMMA SInvEndText ==
    ASSUME SInv, InText, NEW y \in Nat, EndText(y),
           UNCHANGED <<video, panico_em_andamento, parado, drawn>>,
           x' \in Nat, linhas' \in Nat, i' = i
    PROVE  SInv'
<1>1. script # <<>> /\ script' = Tail(script) /\ texto' = NoText
      /\ linha_y' = y + LINHA_ALTURA
  BY DEF InText, EndText, SInv, InScript
<1>2. linha_y' \in Nat /\ linha_y' >= LINHA_ALTURA
  BY <1>1, Sizes
<1>3. script' \in Seq(Op) /\ InScript'
  BY <1>1, <1>2, ScriptAdvances
<1>4. Typed'
  BY <1>1, <1>2, <1>3 DEF SInv, Typed, NoText
<1> QED
  BY <1>3, <1>4, DrawingValid, DrawnKept DEF SInv

LEMMA SInvTextOver ==
    ASSUME SInv, TextOver
    PROVE  SInv'
  BY SInvEndText DEF TextOver, cursor, SInv, Typed

LEMMA SInvTooManyLines ==
    ASSUME SInv, TooManyLines
    PROVE  SInv'
  BY SInvEndText DEF TooManyLines, MoreText, SInv, Typed

\* In a text with characters left, the rest of it is one again.
LEMMA TextRest ==
    ASSUME SInv, MoreText
    PROVE  /\ texto \in Seq(Char) /\ Tail(texto) \in Seq(Char)
           /\ Tail(texto) # NoText
           /\ i + 1 \in 0 .. TEXT_MAX /\ script # <<>>
<1>1. texto \in Seq(Char) /\ texto # <<>> /\ i \in 0 .. TEXT_MAX /\ i < TEXT_MAX
  BY DEF SInv, Typed, MoreText, InText
<1>2. Tail(texto) \in Seq(Char)
  BY <1>1
<1>3. NoText \notin Seq(Char)
  <2>1. NoText[1] \notin Char /\ Len(NoText) = 1
    BY DEF NoText, Char
  <2> QED
    BY <2>1
<1> QED
  BY <1>1, <1>2, <1>3, Sizes DEF SInv, InScript, MoreText, InText

LEMMA SInvNewLine ==
    ASSUME SInv, NewLine
    PROVE  SInv'
<1>1. /\ linhas' = linhas + 1 /\ linha_y' = linha_y + LINHA_ALTURA
      /\ x' = MARGEM /\ i' = i + 1 /\ texto' = Tail(texto)
      /\ UNCHANGED <<video, panico_em_andamento, script, drawn, parado>>
  BY DEF NewLine
<1>2. MoreText
  BY DEF NewLine
<1>3. /\ Tail(texto) \in Seq(Char) /\ Tail(texto) # NoText
      /\ i + 1 \in 0 .. TEXT_MAX /\ script # <<>>
  BY <1>2, TextRest
<1>4. Typed'
  BY <1>1, <1>3, Sizes DEF SInv, Typed, NoText
<1>5. InScript'
  BY <1>1, <1>3, Sizes DEF SInv, Typed, InScript
<1>6. VideoValid' /\ DrawnInside'
  BY <1>1, DrawingValid, DrawnKept
<1> QED
  BY <1>4, <1>5, <1>6 DEF SInv

\* A drawing has a frame that holds at least one character between the margins.
LEMMA FrameHoldsChar ==
    ASSUME SInv, Drawing
    PROVE  /\ video.fb # 0
           /\ video.largura \in Nat /\ video.altura \in Nat
           /\ MARGEM + CHAR_LARGURA <= video.largura - MARGEM
<1>1. video.fb # 0 /\ video.largura >= MIN_LARGURA
  BY DEF SInv, VideoValid, ValidGeometry, Drawing
<1>2. video.largura \in Nat /\ video.altura \in Nat
  BY DEF SInv, Typed
<1> QED
  BY <1>1, <1>2, Sizes

LEMMA SInvGlyph ==
    ASSUME SInv, Glyph
    PROVE  SInv'
<1> DEFINE left == IF Wraps THEN MARGEM ELSE x
           top == IF Wraps THEN linha_y + LINHA_ALTURA ELSE linha_y
<1>1. /\ MoreText /\ Head(texto) = "glyph" /\ Drawing /\ InText
      /\ UNCHANGED <<video, panico_em_andamento, parado>>
  BY DEF Glyph, MoreText, InText
<1>2. /\ left \in Nat /\ top \in Nat /\ left + CHAR_LARGURA <= video.largura
      /\ top >= linha_y
  BY <1>1, FrameHoldsChar, Sizes DEF Wraps, SInv, Typed
<1>3. linhas' \in Nat
  BY DEF Glyph, SInv, Typed
<1>4. CASE FitsBelow(top)
  <2>1. /\ drawn' = Rect(left, top, CHAR_LARGURA, CHAR_ALTURA)
        /\ x' = left + CHAR_LARGURA /\ linha_y' = top
        /\ i' = i + 1 /\ texto' = Tail(texto) /\ UNCHANGED script
    BY <1>4 DEF Glyph
  <2> HIDE DEF left, top
  <2>2. /\ Tail(texto) \in Seq(Char) /\ Tail(texto) # NoText
        /\ i + 1 \in 0 .. TEXT_MAX /\ script # <<>>
    BY <1>1, TextRest
  <2>3. Typed'
    BY <1>1, <1>2, <1>3, <2>1, <2>2, Sizes DEF SInv, Typed, Rect, NoText
  <2>4. DrawnInside'
    BY <1>1, <1>2, <1>4, <2>1, FrameHoldsChar, Sizes
       DEF DrawnInside, OnScreen, Rect, FitsBelow, Drawing
  <2>5. InScript'
    BY <1>2, <2>1, <2>2, Sizes DEF SInv, Typed, InScript
  <2> QED
    BY <1>1, <2>3, <2>4, <2>5, DrawingValid DEF SInv
<1>5. CASE ~FitsBelow(top)
  <2>1. x' = left /\ EndText(top) /\ UNCHANGED <<i, drawn>>
    BY <1>5 DEF Glyph
  <2> HIDE DEF left, top
  <2> QED
    BY <1>1, <1>2, <1>3, <2>1, SInvEndText
<1> QED
  BY <1>4, <1>5

LEMMA SInvSeparator ==
    ASSUME SInv, Separator
    PROVE  SInv'
<1> DEFINE y == linha_y + Head(script).max
<1>1. /\ Drawing /\ texto = NoText /\ script # <<>> /\ Head(script).op = "separator"
      /\ script' = Tail(script)
      /\ UNCHANGED <<video, panico_em_andamento, texto, x, linhas, i, linha_y, parado>>
      /\ drawn' = IF y >= video.altura - MARGEM THEN drawn
                  ELSE Rect(MARGEM, y, SeparatorEnd - MARGEM, 1)
  BY DEF Separator, AtOp, cursor
<1>2. linha_y \in Nat /\ linha_y >= LINHA_ALTURA
  BY <1>1 DEF SInv, InScript, Typed
<1>3. y \in Nat
  <2>1. Head(script) \in Op
    BY <1>1 DEF SInv, Typed
  <2>2. Head(script).max \in {SEP_DY, -SEP_DY}
    BY <1>1, <2>1 DEF Op, Text, SepAbove, SepBelow, Blank
  <2> QED
    BY <1>2, <2>2, Sizes
<1> HIDE DEF y
<1>4. /\ SeparatorEnd \in Nat /\ MARGEM <= SeparatorEnd
      /\ SeparatorEnd <= video.largura
  BY <1>1, FrameHoldsChar, Sizes DEF SeparatorEnd
<1>5. script' \in Seq(Op) /\ InScript'
  BY <1>1, <1>2, ScriptAdvances
<1>6. /\ DrawnInside'
      /\ drawn' \in [left : Nat, top : Nat, right : Nat, bottom : Nat]
  <2>1. CASE y >= video.altura - MARGEM
    BY <1>1, <2>1, DrawnKept DEF SInv, Typed
  <2>2. CASE ~(y >= video.altura - MARGEM)
    <3>1. drawn' = Rect(MARGEM, y, SeparatorEnd - MARGEM, 1)
      BY <1>1, <2>2
    <3> QED
      BY <1>1, <1>3, <1>4, <2>2, <3>1, FrameHoldsChar, Sizes
         DEF DrawnInside, OnScreen, Rect, Drawing
  <2> QED
    BY <2>1, <2>2
<1>7. Typed'
  BY <1>1, <1>5, <1>6 DEF SInv, Typed, NoText
<1> QED
  BY <1>1, <1>5, <1>6, <1>7, DrawingValid DEF SInv

LEMMA SInvGap ==
    ASSUME SInv, Gap
    PROVE  SInv'
<1>1. /\ texto = NoText /\ script # <<>> /\ Head(script).op = "gap"
      /\ script' = Tail(script) /\ linha_y' = linha_y + GAP
      /\ UNCHANGED <<video, panico_em_andamento, texto, x, linhas, i, drawn, parado>>
  BY DEF Gap, AtOp, cursor
<1>2. linha_y' \in Nat /\ linha_y' >= LINHA_ALTURA
  BY <1>1, Sizes DEF SInv, InScript, Typed
<1>3. script' \in Seq(Op) /\ InScript'
  BY <1>1, <1>2, ScriptAdvances
<1>4. Typed'
  BY <1>1, <1>2, <1>3 DEF SInv, Typed, NoText
<1> QED
  BY <1>1, <1>3, <1>4, DrawingValid, DrawnKept DEF SInv

LEMMA SInvPanicParar ==
    ASSUME SInv, PanicParar
    PROVE  SInv'
<1>1. /\ parado' = TRUE
      /\ UNCHANGED <<video, panico_em_andamento, script, texto, x, linhas, i,
                     linha_y, drawn>>
  BY DEF PanicParar, cursor
<1> QED
  BY <1>1, DrawingValid, DrawnKept DEF SInv, Typed, InScript, NoText

LEMMA SInvNext ==
    ASSUME SInv, [SNext]_svars
    PROVE  SInv'
<1>1. CASE UNCHANGED svars
  BY <1>1, DrawingValid, DrawnKept DEF svars, SInv, Typed, InScript, NoText
<1>2. ASSUME NEW g \in Geometries, Configurar(g[1], g[2], g[3], g[4])
      PROVE  SInv'
  BY <1>2, SInvConfigurar
<1>3. ASSUME NEW regs, KernelPanic(regs)
      PROVE  SInv'
  BY <1>3, SInvKernelPanic
<1>4. CASE DrawStep
  BY <1>4, SInvBeginText, SInvTextOver, SInvTooManyLines, SInvNewLine, SInvGlyph,
     SInvSeparator, SInvGap, SInvPanicParar DEF DrawStep
<1> QED
  BY <1>1, <1>2, <1>3, <1>4 DEF SNext

-----------------------------------------------------------------------------
(* Theorems                                                                 *)

THEOREM SInvAlways == SSpec => []SInv
<1> QED
  BY SInvInit, SInvNext, PTL DEF SSpec

LEMMA SInvImpliesInFrame == SInv => PanicInFrame
<1> SUFFICES ASSUME SInv, panico_em_andamento, drawn # Nothing
             PROVE  /\ drawn.right <= video.largura /\ drawn.bottom <= video.altura
                    /\ EndOf(drawn) <= video.fb + video.pitch * video.altura
                    /\ video.fb + video.pitch * video.altura < VIDEO_SPACE
  BY DEF PanicInFrame
<1> DEFINE line == video.pitch \div PIXEL
<1>1. /\ video.fb \in Nat /\ video.pitch \in Nat /\ video.largura \in Nat
      /\ video.altura \in Nat /\ drawn.right \in Nat /\ drawn.bottom \in Nat
  BY DEF SInv, Typed
<1>2. drawn.right <= video.largura /\ drawn.bottom <= video.altura
  BY DEF SInv, DrawnInside, OnScreen
<1>3. /\ video.pitch % PIXEL = 0 /\ line >= video.largura
      /\ video.fb <= VIDEO_SPACE - 1 - video.pitch * video.altura
  BY DEF SInv, DrawnInside, VideoValid, ValidGeometry
<1>4. line \in Int /\ video.pitch = (PIXEL * line) + (video.pitch % PIXEL)
  <2>1. PIXEL \in Nat \ {0} /\ video.pitch \in Int
    BY <1>1, Sizes
  <2> QED
    BY <2>1, DivMod
<1> HIDE DEF line
<1>5. line \in Nat /\ video.pitch = PIXEL * line
  <2>1. PIXEL * line \in Int
    BY <1>4, Sizes
  <2>2. line \in Nat
    BY <1>1, <1>3, <1>4
  <2> QED
    BY <1>3, <1>4, <2>1, <2>2
<1>6. PIXEL * ((drawn.bottom - 1) * line + drawn.right)
        <= (PIXEL * line) * video.altura
  <2>1. PIXEL \in Nat /\ line >= video.largura
    BY <1>3, Sizes DEF line
  <2>2. drawn.right <= line
    BY <1>1, <1>2, <1>5, <2>1
  <2> QED
    BY <1>1, <1>2, <1>5, <2>1, <2>2, StoresInFrame
<1>7. EndOf(drawn) <= video.fb + video.pitch * video.altura
  <2>1. /\ PIXEL * ((drawn.bottom - 1) * line + drawn.right) \in Int
        /\ video.pitch * video.altura \in Int
    BY <1>1, <1>5, Sizes
  <2> QED
    BY <1>1, <1>5, <1>6, <2>1 DEF EndOf, line
<1>8. video.fb + video.pitch * video.altura < VIDEO_SPACE
  <2>1. video.pitch * video.altura \in Nat
    BY <1>1
  <2> QED
    BY <1>1, <1>3, <2>1, Sizes
<1> QED
  BY <1>2, <1>7, <1>8

\* The panic screen stays inside the frame that panic_configurar_video accepted,
\* and the frame inside the address space.
THEOREM PanicStaysInFrame == SSpec => []PanicInFrame
<1> QED
  BY SInvAlways, SInvImpliesInFrame, PTL

-----------------------------------------------------------------------------
(***************************************************************************)
(* BOOT.  The order of kernel_main puts every gate and descriptor in place  *)
(* before paging can fault.                                                 *)
(***************************************************************************)

Described ==
    /\ mbd \in Descriptions
    /\ stage \in {"geometry", "map"} => mbd.present

\* The stages after each of the installations on which a fault depends.
AfterMap == {"parse", "ceiling", "release", "gdt"}
AfterGdt == {"idt", "isr"}
AfterIsr == {"irq", "pic", "paging"}
AfterPaging == {"paging init", "heap", "heap pages", "heap map", "heap init",
                "heap failed", "terminal", "pmm command"}

TablesLoaded == FlatSelector(SELETOR_CODIGO_KERNEL) /\ FlatSelector(seg.cs)
                /\ FlatSelector(seg.ds) /\ EstadoValido

Ready == TablesLoaded /\ Gate("exception") \in gates /\ video.fb # 0

\* How far the boot has come, read off the stage; paging is off until its own.
Order ==
    /\ stage \in AfterMap \cup {"map"} => video.fb # 0
    /\ stage \in AfterGdt => TablesLoaded /\ video.fb # 0
    /\ stage \in AfterIsr \cup AfterPaging => Ready
    /\ stage \in {"video", "geometry", "map"} \cup AfterMap \cup AfterGdt \cup AfterIsr
          => ~cr0_pg
    /\ cr0_pg => Ready /\ stage # "reset"

BInv == Described /\ Order

-----------------------------------------------------------------------------
(* The parser and the panic screen inside the boot                          *)

LEMMA PresentDescription ==
    ASSUME Described, mbd.present
    PROVE  /\ mbd.mmap \in Maps
           /\ <<mbd.fbAddr, mbd.pitch, mbd.width, mbd.height>> \in Geometries
  BY DescriptionsAssumption DEF Described

\* Every step of the boot is a step of the parser's specification.
LEMMA StepOfParser ==
    ASSUME Described, [Next]_bvars
    PROVE  [MNext]_mvars
<1>1. CASE ParseMap
  BY <1>1, PresentDescription DEF ParseMap, MNext, Described
<1>2. CASE WalkStep
  BY <1>2 DEF WalkStep, MNext
<1>3. CASE MapParsed
  BY <1>3 DEF MapParsed, MNext
<1>4. CASE CeilingFound
  BY <1>4 DEF CeilingFound, MNext
<1>5. CASE UNCHANGED mvars
  BY <1>5
<1>6. CASE UNCHANGED bvars
  BY <1>6 DEF bvars
<1>7. CASE \/ ValidateVideo \/ ValidateGeometry \/ RegionsReleased \/ InstallGdt
           \/ IdtInstall \/ IsrInstall \/ IrqInstall \/ PicInit
  BY <1>5, <1>7 DEF ValidateVideo, ValidateGeometry, RegionsReleased, InstallGdt,
     IdtInstall, IsrInstall, IrqInstall, PicInit
<1>8. CASE \/ StartPaging \/ PagingStep \/ PagingReturned
           \/ HeapAlloc \/ HeapMap \/ HeapMapped \/ HeapReturned
  BY <1>5, <1>8 DEF StartPaging, PagingStep, PagingReturned, HeapAlloc, HeapMap,
     HeapMapped, HeapReturned
<1>9. CASE \/ CommandPmmFree \/ DrawPanic \/ CommandPmm \/ CommandExit
           \/ \E regs \in {"regs", "page fault"} : Fault(regs)
  BY <1>5, <1>9 DEF CommandPmmFree, DrawPanic, CommandPmm, CommandExit, Fault
<1> QED
  BY <1>1, <1>2, <1>3, <1>4, <1>6, <1>7, <1>8, <1>9 DEF Next, Kernel

\* Every step of the boot is a step of the panic screen's specification.
LEMMA StepOfScreen ==
    ASSUME Described, [Next]_bvars
    PROVE  [SNext]_svars
<1>1. ASSUME NEW regs \in {"none", "regs", "page fault"}, Panic(regs)
      PROVE  SNext
  BY <1>1 DEF Panic, SNext
<1>2. CASE UNCHANGED svars
  BY <1>2
<1>3. CASE ValidateVideo
  <2>1. CASE Supported
    <3>1. Configurar(mbd.fbAddr, mbd.pitch, mbd.width, mbd.height)
      BY <1>3, <2>1 DEF ValidateVideo
    <3>2. <<mbd.fbAddr, mbd.pitch, mbd.width, mbd.height>> \in Geometries
      BY <2>1, PresentDescription DEF Supported
    <3> QED
      BY <3>1, <3>2 DEF SNext
  <2>2. CASE ~Supported
    BY <1>1, <1>3, <2>2 DEF ValidateVideo
  <2> QED
    BY <2>1, <2>2
<1>4. CASE ValidateGeometry \/ MapParsed \/ PagingReturned \/ HeapReturned
  BY <1>1, <1>2, <1>4 DEF ValidateGeometry, MapParsed, PagingReturned, HeapReturned
<1>5. CASE \E regs \in {"regs", "page fault"} : Fault(regs)
  BY <1>1, <1>2, <1>5 DEF Fault
<1>6. CASE DrawPanic
  BY <1>6 DEF DrawPanic, SNext
<1>7. CASE UNCHANGED bvars
  BY <1>7 DEF bvars
<1>8. CASE \/ ParseMap \/ WalkStep \/ CeilingFound \/ RegionsReleased \/ InstallGdt
           \/ IdtInstall \/ IsrInstall \/ IrqInstall \/ PicInit
  BY <1>2, <1>8 DEF ParseMap, WalkStep, CeilingFound, RegionsReleased, InstallGdt,
     IdtInstall, IsrInstall, IrqInstall, PicInit
<1>9. CASE \/ StartPaging \/ PagingStep \/ HeapAlloc \/ HeapMap \/ HeapMapped
           \/ CommandPmmFree \/ CommandPmm \/ CommandExit
  BY <1>2, <1>9 DEF StartPaging, PagingStep, HeapAlloc, HeapMap, HeapMapped,
     CommandPmmFree, CommandPmm, CommandExit
<1> QED
  BY <1>3, <1>4, <1>5, <1>6, <1>7, <1>8, <1>9 DEF Next, Kernel
-----------------------------------------------------------------------------
(* The order of the boot                                                    *)

\* A base below 4 GB survives being split over the fields of a descriptor.
LEMMA BaseRoundTrip ==
    ASSUME NEW limite, NEW access, NEW granularity
    PROVE  Base(Descriptor(TSS_BASE, limite, access, granularity)) = TSS_BASE
<1>1. TSS_BASE \in Nat /\ TSS_BASE \div 16777216 < 256
  BY GdtAssumption
<1>2. Base(Descriptor(TSS_BASE, limite, access, granularity))
        = (TSS_BASE % 65536) + ((TSS_BASE \div 65536) % 256) * 65536
          + ((TSS_BASE \div 16777216) % 256) * 16777216
  BY DEF Base, Descriptor
<1> QED
  BY <1>1, <1>2

\* gdt_instalar leaves flat segments of the kernel and a state the command gdt
\* reports as valid.
LEMMA GdtInstalled ==
    ASSUME GdtInstalar
    PROVE  TablesLoaded'
<1>1. /\ gdt' = [Descriptors EXCEPT ![5].access = TSS_BUSY]
      /\ gdtr' = [base |-> GDT_BASE, limit |-> 47]
      /\ seg' = [cs |-> 8, ds |-> 16, ss |-> 16, tr |-> 40]
      /\ tss' = [ss0 |-> 16, esp0 |-> KERNEL_STACK, iomap_base |-> 104]
  BY DEF GdtInstalar, TssPreparar, Flush, GDT_NUM_ENTRADAS, SIZEOF_ENTRY, SIZEOF_TSS, SELETOR_TSS,
     SELETOR_CODIGO_KERNEL, SELETOR_DADOS_KERNEL
<1>2. /\ gdt'[1] = Flat(154) /\ gdt'[2] = Flat(146)
      /\ gdt'[5] = [Descriptor(TSS_BASE, 103, TSS_AVAILABLE, 0)
                       EXCEPT !.access = TSS_BUSY]
  BY <1>1 DEF Descriptors, GDT_NUM_ENTRADAS, SIZEOF_TSS
<1>3. FlatSelector(8)' /\ FlatSelector(16)'
  BY <1>1, <1>2 DEF FlatSelector, Flat, Descriptor, Base, Limit, Present, SIZEOF_ENTRY
<1>4. /\ Base(gdt'[5]) = TSS_BASE /\ gdt'[5].limit_low = 103
      /\ gdt'[5].granularity = 0 /\ gdt'[5].access = TSS_BUSY
  <2>1. Base(gdt'[5]) = Base(Descriptor(TSS_BASE, 103, TSS_AVAILABLE, 0))
    BY <1>2 DEF Base, Descriptor
  <2>2. /\ 103 % 65536 = 103 /\ (103 \div 65536) % 16 = 0
        /\ (0 \div 16) * 16 = 0
    OBVIOUS
  <2>3. /\ gdt'[5].limit_low = 103 % 65536 /\ gdt'[5].access = TSS_BUSY
        /\ gdt'[5].granularity = ((103 \div 65536) % 16) + (0 \div 16) * 16
    BY <1>2 DEF Descriptor
  <2> QED
    BY <2>1, <2>2, <2>3, BaseRoundTrip
<1>5. EstadoValido'
  BY <1>1, <1>4, GdtAssumption DEF EstadoValido, GDT_NUM_ENTRADAS, SIZEOF_ENTRY,
     SIZEOF_TSS, SELETOR_TSS, SELETOR_CODIGO_KERNEL, SELETOR_DADOS_KERNEL
<1> QED
  BY <1>1, <1>3, <1>5 DEF TablesLoaded, SELETOR_CODIGO_KERNEL

\* What stays when a step leaves the tables, the gates or the frame alone.
LEMMA TablesKept ==
    ASSUME TablesLoaded, UNCHANGED gvars
    PROVE  TablesLoaded'
  BY DEF TablesLoaded, gvars, FlatSelector, EstadoValido

LEMMA ReadyKept ==
    ASSUME Ready, UNCHANGED <<gates, gvars, video>>
    PROVE  Ready'
  BY TablesKept DEF Ready, Gate

LEMMA PanicKeepsVideo ==
    ASSUME NEW regs, Panic(regs)
    PROVE  UNCHANGED video /\ stage' = "panic"
  BY DEF Panic, KernelPanic

LEMMA DrawKeepsVideo ==
    ASSUME DrawStep
    PROVE  UNCHANGED video
  BY DEF DrawStep, BeginText, TextOver, TooManyLines, NewLine, Glyph, Separator,
     Gap, PanicParar

LEMMA BInvInit == Init => BInv
  BY DEF Init, BInv, Described, Order, AfterMap, AfterGdt, AfterIsr, AfterPaging

LEMMA DescribedNext ==
    ASSUME Described, [Next]_bvars
    PROVE  Described'
<1>1. UNCHANGED mbd /\ (stage' \in {"geometry", "map"} => mbd.present)
  <2>1. CASE ValidateVideo
    BY <2>1 DEF ValidateVideo, Supported, Panic
  <2>2. CASE UNCHANGED bvars
    BY <2>2 DEF bvars, Described
  <2>3. CASE \/ ValidateGeometry \/ ParseMap \/ WalkStep \/ MapParsed \/ CeilingFound
             \/ RegionsReleased \/ InstallGdt \/ IdtInstall \/ IsrInstall \/ IrqInstall
             \/ PicInit
    BY <2>3 DEF Described, ValidateGeometry, ParseMap, WalkStep, MapParsed,
       CeilingFound, RegionsReleased, PmmInit, InstallGdt, IdtInstall, IsrInstall,
       IrqInstall, PicInit, Panic
  <2>4. CASE \/ StartPaging \/ PagingStep \/ PagingReturned
             \/ HeapAlloc \/ HeapMap \/ HeapMapped \/ HeapReturned
    BY <2>4 DEF StartPaging, PagingStep, PagingReturned, HeapAlloc, HeapMap,
       HeapMapped, HeapReturned, Panic
  <2>5. CASE \/ CommandPmmFree \/ DrawPanic \/ CommandPmm \/ CommandExit
             \/ \E regs \in {"regs", "page fault"} : Fault(regs)
    BY <2>5 DEF CommandPmmFree, DrawPanic, CommandPmm, CommandExit, Fault, Panic
  <2> QED
    BY <2>1, <2>2, <2>3, <2>4, <2>5 DEF Next, Kernel
<1> QED
  BY <1>1 DEF Described

\* A step that goes from one stage that is Ready to another keeps Order.
LEMMA OrderKept ==
    ASSUME Order, Ready, UNCHANGED <<gates, gvars, video>>,
           stage' \in AfterPaging \cup {"panic", "off"}
    PROVE  Order'
<1>1. Ready'
  BY ReadyKept
<1> QED
  BY <1>1 DEF Order, AfterMap, AfterGdt, AfterIsr, AfterPaging

LEMMA OrderNext ==
    ASSUME BInv, [Next]_bvars
    PROVE  Order'
<1> USE DEF AfterMap, AfterGdt, AfterIsr, AfterPaging
<1>1. Order
  BY DEF BInv
<1>2. CASE \/ ValidateVideo \/ ValidateGeometry \/ ParseMap \/ MapParsed
           \/ CeilingFound \/ RegionsReleased
  <2>1. ~cr0_pg /\ UNCHANGED <<cr0_pg, gates, gdt, gdtr, seg, tss>>
    BY <1>1, <1>2 DEF Order, ValidateVideo, ValidateGeometry, ParseMap, MapParsed,
       CeilingFound, RegionsReleased, cpu, gvars, pg_vars
  <2>2. \/ stage' \in {"geometry", "panic"}
        \/ stage' \in AfterMap \cup {"map"} /\ video'.fb # 0
    BY <1>1, <1>2, PanicKeepsVideo DEF Order, ValidateVideo, ValidateGeometry,
       ParseMap, MapParsed, CeilingFound, RegionsReleased, PmmInit, svars
  <2> QED
    BY <2>1, <2>2 DEF Order
<1>3. CASE InstallGdt
  <2>1. TablesLoaded' /\ video'.fb # 0 /\ ~cr0_pg' /\ stage' = "idt"
    BY <1>1, <1>3, GdtInstalled DEF InstallGdt, Order, svars, pg_vars
  <2> QED
    BY <2>1 DEF Order
<1>4. CASE IdtInstall \/ IsrInstall
  <2>1. TablesLoaded' /\ video'.fb # 0 /\ ~cr0_pg'
    <3>1. TablesLoaded /\ video.fb # 0 /\ ~cr0_pg
      BY <1>1, <1>4 DEF IdtInstall, IsrInstall, Order
    <3>2. UNCHANGED gvars /\ UNCHANGED svars /\ UNCHANGED pg_vars
      BY <1>4 DEF IdtInstall, IsrInstall
    <3>3. UNCHANGED video /\ UNCHANGED cr0_pg
      BY <3>2 DEF svars, pg_vars
    <3> QED
      BY <3>1, <3>2, <3>3, TablesKept
  <2>2. stage' = "isr" \/ (stage' = "irq" /\ Gate("exception") \in gates')
    BY <1>4 DEF IdtInstall, IsrInstall, Gate
  <2> QED
    BY <2>1, <2>2 DEF Order, Ready, Gate
<1>5. CASE IrqInstall \/ PicInit
  <2>1. TablesLoaded' /\ video'.fb # 0 /\ ~cr0_pg'
    <3>1. TablesLoaded /\ video.fb # 0 /\ ~cr0_pg
      BY <1>1, <1>5 DEF IrqInstall, PicInit, Order, Ready
    <3>2. UNCHANGED gvars /\ UNCHANGED svars /\ UNCHANGED pg_vars
      BY <1>5 DEF IrqInstall, PicInit
    <3>3. UNCHANGED video /\ UNCHANGED cr0_pg
      BY <3>2 DEF svars, pg_vars
    <3> QED
      BY <3>1, <3>2, <3>3, TablesKept
  <2>2. Gate("exception") \in gates' /\ stage' \in {"pic", "paging"}
    BY <1>1, <1>5 DEF IrqInstall, PicInit, Order, Ready, Gate
  <2> QED
    BY <2>1, <2>2 DEF Order, Ready, Gate
<1>6. CASE StartPaging
  <2>1. Ready /\ stage' = "paging init" /\ UNCHANGED <<gates, gvars, video>>
    BY <1>1, <1>6 DEF StartPaging, Order, cpu, svars
  <2> QED
    BY <1>1, <2>1, OrderKept
<1>7. CASE PagingStep
  <2>1. /\ Ready /\ stage' \in {"paging init", "heap map"}
        /\ UNCHANGED <<gates, gvars, video>>
    BY <1>1, <1>7 DEF PagingStep, Order, cpu, svars
  <2> QED
    BY <1>1, <2>1, OrderKept
<1>8. CASE PagingReturned \/ HeapAlloc \/ HeapMap \/ HeapMapped \/ HeapReturned
           \/ CommandPmm \/ CommandPmmFree \/ CommandExit
  <2>1. Ready
    BY <1>1, <1>8 DEF Order, PagingReturned, HeapAlloc, HeapMap, HeapMapped,
       HeapReturned, CommandPmm, CommandPmmFree, CommandExit
  <2>2. UNCHANGED <<gates, gvars, video>>
    BY <1>8, PanicKeepsVideo DEF PagingReturned, HeapAlloc, HeapMap, HeapMapped,
       HeapReturned, CommandPmm, CommandPmmFree, CommandExit, cpu, svars
  <2>3. stage' \in AfterPaging \cup {"panic", "off"}
    BY <1>8, PanicKeepsVideo DEF PagingReturned, HeapAlloc, HeapMap, HeapMapped,
       HeapReturned, CommandPmm, CommandPmmFree, CommandExit
  <2> QED
    BY <1>1, <2>1, <2>2, <2>3, OrderKept
<1>9. CASE DrawPanic \/ WalkStep \/ UNCHANGED bvars
  <2>1. UNCHANGED <<stage, gates, gvars, video, cr0_pg>>
    BY <1>9, DrawKeepsVideo DEF DrawPanic, WalkStep, bvars, cpu, svars, pg_vars
  <2>2. (Ready => Ready') /\ (TablesLoaded => TablesLoaded')
    BY <2>1, ReadyKept, TablesKept
  <2> QED
    BY <1>1, <2>1, <2>2 DEF Order
<1>10. ASSUME NEW regs \in {"regs", "page fault"}, Fault(regs)
       PROVE  Order'
  <2>1. UNCHANGED <<gates, gvars, cr0_pg>>
    BY <1>10 DEF Fault, cpu, pg_vars
  <2>2. CASE Gate("exception") \in gates
    <3>1. UNCHANGED video /\ stage' = "panic"
      BY <1>10, <2>2, PanicKeepsVideo DEF Fault
    <3>2. Ready => Ready'
      BY <2>1, <3>1, ReadyKept
    <3> QED
      BY <1>1, <2>1, <3>1, <3>2 DEF Order
  <2>3. CASE Gate("exception") \notin gates
    <3>1. ~cr0_pg' /\ stage' = "reset"
      BY <1>1, <1>10, <2>1, <2>3 DEF Fault, Order, Ready
    <3> QED
      BY <3>1 DEF Order
  <2> QED
    BY <2>2, <2>3
<1> QED
  BY <1>2, <1>3, <1>4, <1>5, <1>6, <1>7, <1>8, <1>9, <1>10 DEF Next, Kernel

-----------------------------------------------------------------------------
(* Theorems                                                                 *)

THEOREM BInvAlways == Spec => []BInv
<1>1. BInv /\ [Next]_bvars => BInv'
  BY DescribedNext, OrderNext DEF BInv
<1> QED
  BY <1>1, BInvInit, PTL DEF Spec

\* The boot implements the parser's specification.
THEOREM BootRefinesParser == Spec => MSpec
<1>1. Init => MInit
  BY DEF Init
<1>2. BInv /\ [Next]_bvars => [MNext]_mvars
  BY StepOfParser DEF BInv
<1> QED
  BY <1>1, <1>2, BInvAlways, PTL DEF Spec, MSpec

\* The boot implements the panic screen's specification.
THEOREM BootRefinesScreen == Spec => SSpec
<1>1. Init => SInit
  BY DEF Init
<1>2. BInv /\ [Next]_bvars => [SNext]_svars
  BY StepOfScreen DEF BInv
<1> QED
  BY <1>1, <1>2, BInvAlways, PTL DEF Spec, SSpec

\* Through the whole boot, pmm_init's walks included, no walk reads outside the
\* map, and every walk of pmm_init is given what was validated.
THEOREM BootReadsInMap == Spec => []ReadsInMap /\ WalksAgree
<1> QED
  BY BootRefinesParser, ReadsStayInMap, WalksAgreeAlways, PTL

\* What multiboot_mem_get_info returns in the kernel is true of the map it was given.
THEOREM BootTotalsExact == Spec => []TotalsExact
<1> QED
  BY BootRefinesParser, TotalsAlwaysExact, PTL

\* A panic raised at any point of the boot, by kernel_main or by a fault, stays
\* inside the frame.
THEOREM BootPanicInFrame == Spec => []PanicInFrame
<1> QED
  BY BootRefinesScreen, PanicStaysInFrame, PTL

\* From the store to CR0 that enables paging on, a fault finds its gate and the
\* segments that gate needs: the machine is never reset.
THEOREM PagingAfterGates == Spec => [](cr0_pg => FaultsHandled /\ video.fb # 0)
<1>1. BInv => (cr0_pg => FaultsHandled /\ video.fb # 0)
  BY DEF BInv, Order, Ready, TablesLoaded, FaultsHandled, Gate
<1> QED
  BY <1>1, BInvAlways, PTL

-----------------------------------------------------------------------------
(***************************************************************************)
(* WHAT THE PARTS HAND TO EACH OTHER: sizes, the description and the frame  *)
(***************************************************************************)
Words == 0 .. ADDR_SPACE - 1

\* What pmm_init may see.
Sizes32 == [base : Nat, size : Words]
Regions64 == [addr : 0 .. UINT64 - 1, len : 0 .. UINT64 - 1, available : BOOLEAN]

Seens == [present : {TRUE}, mmapOk : BOOLEAN, entries : SUBSET Regions64,
          hasMemory : BOOLEAN, mem_upper : Nat, info : Sizes32, mmap : Sizes32,
          hasMods : BOOLEAN, mods : Sizes32, hasFb : BOOLEAN, fb : Sizes32]

LEMMA SpaceType ==
    /\ BLOCK_SIZE \in Nat \ {0} /\ MAX_BLOCKS \in Nat \ {0}
    /\ ADDR_SPACE \in Nat \ {0} /\ ADDR_SPACE = MAX_BLOCKS * BLOCK_SIZE
    /\ BLOCK_SIZE <= ADDR_SPACE
<1>1. BLOCK_SIZE \in Nat \ {0} /\ MAX_BLOCKS \in Nat \ {0}
  BY BootAssumption
<1> QED
  BY <1>1 DEF ADDR_SPACE

LEMMA AlignmentFits == ALIGNMENT <= BLOCK_SIZE
<1>1. /\ ALIGNMENT \in Nat \ {0} /\ BLOCK_SIZE \in Nat \ {0} /\ BLOCK_SIZE % ALIGNMENT = 0
  BY BootAssumption
<1>2. ASSUME BLOCK_SIZE < ALIGNMENT PROVE FALSE
  <2>1. BLOCK_SIZE \in 0 .. ALIGNMENT - 1
    BY <1>1, <1>2
  <2>2. BLOCK_SIZE % ALIGNMENT = BLOCK_SIZE
    BY <1>1, <2>1, SmallMod
  <2> QED
    BY <1>1, <2>2
<1> QED
  BY <1>1, <1>2

LEMMA TimesBlock ==
    ASSUME NEW a \in Int, NEW b \in Int
    PROVE  /\ a < b <=> a * BLOCK_SIZE < b * BLOCK_SIZE
           /\ a * BLOCK_SIZE \in Int /\ b * BLOCK_SIZE \in Int
<1>1. BLOCK_SIZE \in Nat \ {0}
  BY SpaceType
<1>2. \A c, d \in Int : c < d => c * BLOCK_SIZE < d * BLOCK_SIZE
  BY <1>1
<1> QED
  BY <1>1, <1>2

LEMMA HeapSizeType == HeapPages \in 0 .. MAX_BLOCKS /\ HeapBytes \in Words
<1> PICK a : a = (HEAP_INITIAL_SIZE + BLOCK_SIZE - 1) % ADDR_SPACE
  OBVIOUS
<1>1. HEAP_INITIAL_SIZE \in Nat
  BY BootAssumption, SpaceType
<1>2. a \in 0 .. ADDR_SPACE - 1
  <2>1. HEAP_INITIAL_SIZE + BLOCK_SIZE - 1 \in Int
    BY <1>1, SpaceType
  <2> QED
    BY <2>1, SpaceType, DivMod
<1>3. HeapPages \in 0 .. MAX_BLOCKS
  <2>1. a \in Nat /\ a <= MAX_BLOCKS * BLOCK_SIZE
    BY <1>2, SpaceType
  <2>2. a \div BLOCK_SIZE \in 0 .. MAX_BLOCKS
    BY <2>1, SpaceType, DivBound
  <2> QED
    BY <2>2 DEF HeapPages
<1>4. HeapBytes \in Words
  <2>1. HeapPages * BLOCK_SIZE \in Int
    BY <1>3, SpaceType
  <2> QED
    BY <2>1, SpaceType, DivMod DEF HeapBytes, Words
<1> QED
  BY <1>3, <1>4

\* The size that is asked for is what the run holds.
LEMMA HeapSizes32 ==
    ASSUME NEW s \in Nat, HeapPages > 0, s > 0, s + HeapPages <= MAX_BLOCKS
    PROVE  /\ HeapBytes = HeapPages * BLOCK_SIZE /\ HEAP_INITIAL_SIZE <= HeapBytes
           /\ HeapBytes > 0
           /\ s * BLOCK_SIZE \in Nat /\ s * BLOCK_SIZE > 0
           /\ (s + HeapPages) * BLOCK_SIZE = s * BLOCK_SIZE + HeapBytes
           /\ s * BLOCK_SIZE + HeapBytes <= ADDR_SPACE
           /\ s + HeapPages < MAX_BLOCKS => s * BLOCK_SIZE + HeapBytes <= ADDR_SPACE - BLOCK_SIZE
           /\ s + HeapPages = MAX_BLOCKS => s * BLOCK_SIZE + HeapBytes = ADDR_SPACE
<1> PICK a, n, top : /\ a = HEAP_INITIAL_SIZE + BLOCK_SIZE - 1 /\ n = HeapPages
                     /\ top = a % ADDR_SPACE
  OBVIOUS
<1>1. /\ BLOCK_SIZE \in Nat \ {0} /\ MAX_BLOCKS \in Nat \ {0} /\ ADDR_SPACE \in Nat \ {0}
      /\ ADDR_SPACE = MAX_BLOCKS * BLOCK_SIZE /\ n \in Nat \ {0} /\ n < MAX_BLOCKS
  BY HeapSizeType, SpaceType
<1>2. HEAP_INITIAL_SIZE \in Nat /\ HEAP_INITIAL_SIZE < ADDR_SPACE /\ a \in Nat
  BY <1>1, BootAssumption
<1>3. /\ (n + 1) * BLOCK_SIZE <= MAX_BLOCKS * BLOCK_SIZE
      /\ (n + 1) * BLOCK_SIZE = n * BLOCK_SIZE + BLOCK_SIZE
      /\ n * BLOCK_SIZE \in Nat /\ n * BLOCK_SIZE > 0
  BY <1>1
<1>4. n = top \div BLOCK_SIZE
  BY DEF HeapPages
<1>5. a < ADDR_SPACE
  <2>1. ASSUME a >= ADDR_SPACE PROVE FALSE
    <3> PICK c : c = a - ADDR_SPACE
      OBVIOUS
    <3>1. c \in 0 .. BLOCK_SIZE - 2 /\ c \in 0 .. ADDR_SPACE - 1
      BY <1>1, <1>2, <2>1, SpaceType
    <3>2. top = c
      <4>1. /\ a = (ADDR_SPACE * (a \div ADDR_SPACE)) + top /\ a \div ADDR_SPACE \in Int
            /\ top \in 0 .. ADDR_SPACE - 1
        <5>1. a \in Int
          BY <1>2
        <5> QED
          BY <1>1, <5>1, DivMod
      <4> PICK q : q = a \div ADDR_SPACE
        OBVIOUS
      <4>2. q = 1
        <5>1. q >= 1
          <6>1. 1 * ADDR_SPACE <= a /\ a \in Int
            BY <1>1, <1>2, <2>1
          <6> QED
            BY <1>1, <6>1, DivFloor
        <5>2. ~(2 <= q)
          <6>1. ~(2 * ADDR_SPACE <= a) /\ a \in Int
            BY <1>1, <1>2, <3>1
          <6> QED
            BY <1>1, <6>1, DivFloor
        <5> QED
          BY <4>1, <5>1, <5>2
      <4>3. ADDR_SPACE * 1 = ADDR_SPACE
        BY <1>1
      <4> QED
        BY <4>1, <4>2, <4>3, <1>1, <1>2
    <3>3. ~(1 <= top \div BLOCK_SIZE)
      <4>1. top \in Int /\ ~(1 * BLOCK_SIZE <= top)
        BY <1>1, <3>1, <3>2
      <4> QED
        BY <1>1, <4>1, DivFloor
    <3> QED
      BY <1>1, <1>4, <3>3
  <2> QED
    BY <1>1, <1>2, <2>1
<1>6. top = a
  <2>1. a \in 0 .. ADDR_SPACE - 1
    BY <1>1, <1>2, <1>5
  <2> QED
    BY <1>1, <2>1, SmallMod
<1>7. HEAP_INITIAL_SIZE <= n * BLOCK_SIZE
  <2>1. a \div BLOCK_SIZE <= n /\ HEAP_INITIAL_SIZE \in Int /\ n \in Int
    BY <1>1, <1>2, <1>4, <1>6
  <2> QED
    BY <1>1, <2>1, DivCeil
<1>8. HeapBytes = n * BLOCK_SIZE
  <2>1. n * BLOCK_SIZE \in 0 .. ADDR_SPACE - 1
    BY <1>1, <1>3
  <2>2. (n * BLOCK_SIZE) % ADDR_SPACE = n * BLOCK_SIZE
    BY <1>1, <2>1, SmallMod
  <2> QED
    BY <2>2 DEF HeapBytes
<1> PICK e : e = s + n
  OBVIOUS
<1>9. /\ e * BLOCK_SIZE = s * BLOCK_SIZE + n * BLOCK_SIZE
      /\ s * BLOCK_SIZE \in Nat /\ s * BLOCK_SIZE > 0
      /\ e \in Nat /\ e <= MAX_BLOCKS
  BY <1>1
<1>10. /\ e * BLOCK_SIZE <= MAX_BLOCKS * BLOCK_SIZE
       /\ e < MAX_BLOCKS => e * BLOCK_SIZE <= MAX_BLOCKS * BLOCK_SIZE - BLOCK_SIZE
  <2>1. e < MAX_BLOCKS => (e + 1) * BLOCK_SIZE <= MAX_BLOCKS * BLOCK_SIZE
    BY <1>1, <1>9
  <2>2. (e + 1) * BLOCK_SIZE = e * BLOCK_SIZE + BLOCK_SIZE /\ e * BLOCK_SIZE \in Nat
    BY <1>1, <1>9
  <2>3. MAX_BLOCKS * BLOCK_SIZE \in Nat /\ e * BLOCK_SIZE <= MAX_BLOCKS * BLOCK_SIZE
    BY <1>1, <1>9
  <2> QED
    BY <1>1, <2>1, <2>2, <2>3
<1> QED
  BY <1>1, <1>3, <1>7, <1>8, <1>9, <1>10

-----------------------------------------------------------------------------

BeforePmm == {"video", "geometry", "map", "parse", "ceiling", "release"}
Ended == {"panic", "reset", "off"}

\* The frame accepted is the description's.
FrameOfMbd ==
    video.fb # 0 =>
        /\ mbd.present
        /\ video = [fb |-> mbd.fbAddr, pitch |-> mbd.pitch, largura |-> mbd.width,
                    altura |-> mbd.height]

\* The callback is given offsets of the map.
CalledInMap == \A k \in 1 .. Len(called) : called[k] \in 0 .. map.length - 1

\* The PMM was given the regions the last walk has found, and the heap gets a page.
Wired ==
    /\ stage \notin Ended \cup {"video"} => mbd.present
    /\ FrameOfMbd
    /\ CalledInMap
    /\ stage \in BeforePmm => ~pmm_booted
    /\ pmm_booted => pmm_mbd = Seen
    /\ stage = "heap map" => pmm_ret.ptr # 0

LEMMA WiredInit == Init => Wired
<1> SUFFICES ASSUME Init PROVE Wired
  OBVIOUS
<1>1. stage = "video" /\ ~pmm_booted
  BY DEF Init
<1>2. video.fb = 0
  BY DEF Init, SInit, NoVideo
<1>3. called = <<>>
  BY DEF Init, MInit
<1> QED
  BY <1>1, <1>2, <1>3 DEF Wired, FrameOfMbd, CalledInMap, Ended

\* The steps of the kernel, by what they leave alone.
OutsideParser == \/ ValidateVideo \/ ValidateGeometry \/ InstallGdt
                 \/ IdtInstall \/ IsrInstall \/ IrqInstall \/ PicInit
                 \/ StartPaging \/ PagingStep \/ PagingReturned
                 \/ HeapAlloc \/ HeapMap \/ HeapMapped \/ HeapReturned
                 \/ CommandPmm \/ CommandPmmFree \/ CommandExit \/ DrawPanic
                 \/ (\E regs \in {"regs", "page fault"} : Fault(regs))
InsideParser == \/ ParseMap \/ WalkStep \/ MapParsed \/ CeilingFound \/ RegionsReleased

LEMMA NextSplits == Next <=> OutsideParser \/ InsideParser
  BY DEF Next, Kernel, OutsideParser, InsideParser

LEMMA OutsideParserKeeps ==
    ASSUME OutsideParser
    PROVE  UNCHANGED mvars /\ UNCHANGED <<map, called, mem_status>>
<1>1. UNCHANGED mvars
  BY DEF OutsideParser, ValidateVideo, ValidateGeometry, InstallGdt, IdtInstall, IsrInstall,
     IrqInstall, PicInit, StartPaging, PagingStep, PagingReturned, HeapAlloc, HeapMap,
     HeapMapped, HeapReturned, CommandPmm, CommandPmmFree, CommandExit, DrawPanic, Fault
<1> QED
  BY <1>1 DEF mvars

LEMMA PresentNext ==
    ASSUME Wired, [Next]_bvars
    PROVE  (stage \notin Ended \cup {"video"} => mbd.present)' /\ UNCHANGED mbd
<1> USE DEF Ended
<1>1. CASE UNCHANGED bvars
  BY <1>1 DEF bvars, Wired
<1>2. CASE ValidateVideo
  BY <1>2 DEF ValidateVideo, Supported, Panic
<1>3. CASE \/ ValidateGeometry \/ ParseMap \/ WalkStep \/ MapParsed \/ CeilingFound
           \/ RegionsReleased \/ InstallGdt \/ IdtInstall \/ IsrInstall \/ IrqInstall
           \/ PicInit
  BY <1>3 DEF Wired, ValidateGeometry, ParseMap, WalkStep, MapParsed,
     CeilingFound, RegionsReleased, PmmInit, InstallGdt, IdtInstall, IsrInstall,
     IrqInstall, PicInit, Panic
<1>4. CASE \/ StartPaging \/ PagingStep \/ PagingReturned
           \/ HeapAlloc \/ HeapMap \/ HeapMapped \/ HeapReturned
  BY <1>4 DEF Wired, StartPaging, PagingStep, PagingReturned, HeapAlloc, HeapMap,
     HeapMapped, HeapReturned, Panic
<1>5. CASE \/ CommandPmmFree \/ DrawPanic \/ CommandPmm \/ CommandExit
           \/ \E regs \in {"regs", "page fault"} : Fault(regs)
  BY <1>5 DEF Wired, CommandPmmFree, DrawPanic, CommandPmm, CommandExit, Fault, Panic
<1> QED
  BY <1>1, <1>2, <1>3, <1>4, <1>5 DEF Next, Kernel

LEMMA FrameNext ==
    ASSUME Wired, SInv, [Next]_bvars
    PROVE  FrameOfMbd'
<1>1. UNCHANGED mbd
  BY PresentNext
<1>2. CASE UNCHANGED video
  BY <1>1, <1>2 DEF Wired, FrameOfMbd
<1>3. CASE ValidateVideo
  <2>1. CASE Supported
    <3>1. Configurar(mbd.fbAddr, mbd.pitch, mbd.width, mbd.height) /\ mbd.present
      BY <1>3, <2>1 DEF ValidateVideo, Supported
    <3>2. \/ video' = [fb |-> mbd.fbAddr, pitch |-> mbd.pitch, largura |-> mbd.width,
                       altura |-> mbd.height]
          \/ video' = [video EXCEPT !.fb = 0]
      BY <3>1 DEF Configurar
    <3>3. video \in [fb : Nat, pitch : Nat, largura : Nat, altura : Nat]
      BY DEF SInv, Typed
    <3> QED
      BY <1>1, <3>1, <3>2, <3>3 DEF FrameOfMbd
  <2>2. CASE ~Supported
    BY <1>2, <1>3, <2>2, PanicKeepsVideo DEF ValidateVideo
  <2> QED
    BY <2>1, <2>2
<1>4. CASE ValidateGeometry \/ MapParsed \/ PagingReturned \/ HeapReturned
  BY <1>2, <1>4, PanicKeepsVideo
     DEF ValidateGeometry, MapParsed, PagingReturned, HeapReturned, svars
<1>5. CASE \/ DrawPanic \/ (\E regs \in {"regs", "page fault"} : Fault(regs))
  BY <1>2, <1>5, PanicKeepsVideo, DrawKeepsVideo DEF Fault, DrawPanic, svars
<1>6. CASE UNCHANGED svars
  BY <1>2, <1>6 DEF svars
<1>7. CASE UNCHANGED bvars
  BY <1>2, <1>7 DEF bvars, svars
<1>8. CASE \/ ParseMap \/ WalkStep \/ CeilingFound \/ RegionsReleased \/ InstallGdt
           \/ IdtInstall \/ IsrInstall \/ IrqInstall \/ PicInit
  BY <1>6, <1>8 DEF ParseMap, WalkStep, CeilingFound, RegionsReleased, InstallGdt,
     IdtInstall, IsrInstall, IrqInstall, PicInit
<1>9. CASE \/ StartPaging \/ PagingStep \/ HeapAlloc \/ HeapMap \/ HeapMapped
           \/ CommandPmmFree \/ CommandPmm \/ CommandExit
  BY <1>6, <1>9 DEF StartPaging, PagingStep, HeapAlloc, HeapMap, HeapMapped,
     CommandPmmFree, CommandPmm, CommandExit
<1> QED
  BY <1>3, <1>4, <1>5, <1>7, <1>8, <1>9 DEF Next, Kernel

LEMMA CalledNext ==
    ASSUME Wired, MInv, [Next]_bvars, [MNext]_mvars
    PROVE  CalledInMap'
<1>1. called \in Seq(Nat) /\ CalledInMap
  BY DEF MInv, MapTypeOK, Wired
<1>2. CASE UNCHANGED mvars
  BY <1>1, <1>2 DEF mvars, CalledInMap
<1>3. ASSUME NEW m \in Maps, MemInit(m)
      PROVE  CalledInMap'
  BY <1>3 DEF MemInit, CalledInMap
<1>4. CASE ParseEntry \/ ParseDone \/ IterRegioes \/ IterDone
  <2>1. UNCHANGED map /\ (called' = called \/ called' = <<>>)
    BY <1>4 DEF ParseEntry, ParseDone, IterRegioes, IterDone, ghosts
  <2> QED
    BY <1>1, <2>1 DEF CalledInMap
<1>5. CASE IterEntry
  <2>1. UNCHANGED map /\ (called' = called \/ called' = Append(called, offset))
    BY <1>5 DEF IterEntry
  <2>2. offset \in 0 .. map.length - 1
    BY <1>5 DEF IterEntry, MInv, MapTypeOK, IsMap
  <2>3. CASE called' = Append(called, offset)
    <3>1. /\ Len(called) \in Nat /\ Len(called') = Len(called) + 1
          /\ called'[Len(called) + 1] = offset
          /\ \A k \in 1 .. Len(called) : called'[k] = called[k]
      BY <1>1, <2>2, <2>3
    <3>2. ASSUME NEW k \in 1 .. Len(called')
          PROVE  called'[k] \in 0 .. map.length - 1
      BY <1>1, <2>2, <3>1, <3>2 DEF CalledInMap
    <3> QED
      BY <2>1, <3>2 DEF CalledInMap
  <2> QED
    BY <1>1, <2>1, <2>3 DEF CalledInMap
<1> QED
  BY <1>2, <1>3, <1>4, <1>5 DEF MNext

\* What pmm_init sees is a description of the widths of the fields.
LEMMA SeenTyped ==
    ASSUME Described, MInv, Wired, mbd.present
    PROVE  Seen \in Seens
<1>1. /\ mbd \in Descriptions /\ UINT32 = ADDR_SPACE
      /\ mbd.mem_upper \in Nat /\ mbd.hasFb \in BOOLEAN /\ mbd.hasMemory \in BOOLEAN
      /\ mbd.hasMods \in BOOLEAN /\ mbd.info \in Sizes32 /\ mbd.mods \in Sizes32
      /\ <<mbd.fbAddr, mbd.pitch, mbd.width, mbd.height>> \in Geometries
  BY DescriptionsAssumption, BootAssumption DEF Described, Sizes32, Words
<1>2. mbd.fbAddr \in Nat /\ mbd.pitch \in Nat /\ mbd.height \in Nat
  BY <1>1, PanicAssumption
<1>3. FrameSize \in Words
  <2>1. mbd.pitch * mbd.height \in Int
    BY <1>2
  <2> QED
    BY <2>1, SpaceType, DivMod DEF FrameSize, Words
<1>4. [base |-> map.addr, size |-> map.length] \in Sizes32
  BY <1>1 DEF MInv, MapTypeOK, IsMap, Sizes32, Words
<1>5. {[addr |-> map.At[o].addr, len |-> map.At[o].len,
        available |-> map.At[o].available] :
          o \in {called[k] : k \in DOMAIN called}} \subseteq Regions64
  <2>1. ASSUME NEW k \in DOMAIN called
        PROVE  map.At[called[k]] \in Entry
    <3>1. k \in 1 .. Len(called)
      BY DEF MInv, MapTypeOK
    <3> QED
      BY <3>1 DEF Wired, CalledInMap, MInv, MapTypeOK, IsMap
  <2> QED
    BY <2>1 DEF Entry, Regions64
<1> QED
  BY <1>1, <1>2, <1>3, <1>4, <1>5 DEF Seen, Seens, Sizes32

LEMMA SeenKept ==
    ASSUME UNCHANGED mvars, UNCHANGED mbd
    PROVE  Seen' = Seen
<1>1. UNCHANGED map /\ UNCHANGED called /\ UNCHANGED mem_status
  BY DEF mvars
<1> QED
  BY <1>1 DEF Seen, FrameSize

LEMMA WiredNext ==
    ASSUME BInv, MInv, SInv, Wired, [Next]_bvars
    PROVE  Wired'
<1>1. [MNext]_mvars
  BY StepOfParser DEF BInv
<1>2. (stage \notin Ended \cup {"video"} => mbd.present)' /\ FrameOfMbd' /\ CalledInMap'
      /\ UNCHANGED mbd
  BY <1>1, PresentNext, FrameNext, CalledNext
<1>3. (stage \in BeforePmm => ~pmm_booted)'
  <2> USE DEF BeforePmm
  <2>1. CASE UNCHANGED bvars
    BY <2>1 DEF bvars, pmm_vars, Wired
  <2>2. CASE \/ ValidateVideo \/ ValidateGeometry \/ ParseMap \/ WalkStep \/ MapParsed
             \/ CeilingFound \/ RegionsReleased
    BY <2>2 DEF Wired, ValidateVideo, ValidateGeometry, ParseMap, WalkStep, MapParsed,
       CeilingFound, RegionsReleased, PmmInit, Panic, pmm_vars
  <2>3. CASE \/ InstallGdt \/ IdtInstall \/ IsrInstall \/ IrqInstall \/ PicInit
             \/ StartPaging \/ PagingStep \/ PagingReturned
             \/ HeapAlloc \/ HeapMap \/ HeapMapped \/ HeapReturned
    BY <2>3 DEF InstallGdt, IdtInstall, IsrInstall, IrqInstall, PicInit, StartPaging,
       PagingStep, PagingReturned, HeapAlloc, HeapMap, HeapMapped, HeapReturned, Panic
  <2>4. CASE \/ CommandPmmFree \/ DrawPanic \/ CommandPmm \/ CommandExit
             \/ \E regs \in {"regs", "page fault"} : Fault(regs)
    BY <2>4 DEF CommandPmmFree, DrawPanic, CommandPmm, CommandExit, Fault, Panic
  <2> QED
    BY <2>1, <2>2, <2>3, <2>4 DEF Next, Kernel
<1>4. (pmm_booted => pmm_mbd = Seen)'
  <2>1. CASE UNCHANGED mvars /\ UNCHANGED <<pmm_mbd, pmm_booted>>
    BY <1>2, <2>1, SeenKept DEF Wired
  <2>2. CASE UNCHANGED bvars
    BY <2>1, <2>2 DEF bvars, pmm_vars
  <2>3. CASE OutsideParser
    <3>1. UNCHANGED <<pmm_mbd, pmm_booted>>
      BY <2>3 DEF OutsideParser, ValidateVideo, ValidateGeometry, InstallGdt, IdtInstall,
         IsrInstall, IrqInstall, PicInit, StartPaging, PagingStep, PagingReturned, HeapAlloc,
         HeapMap, HeapMapped, HeapReturned, CommandPmm, CommandPmmFree, CommandExit, DrawPanic,
         Fault, pmm_vars, P!AllocBlocks, P!FreeBlocks
    <3> QED
      BY <2>1, <2>3, <3>1, OutsideParserKeeps
  <2>4. CASE ParseMap \/ WalkStep \/ MapParsed
    BY <2>4 DEF Wired, BeforePmm, ParseMap, WalkStep, MapParsed, pmm_vars
  <2>5. CASE CeilingFound \/ RegionsReleased
    <3>1. \/ ~pmm_booted'
          \/ UNCHANGED mvars /\ pmm_mbd' = Seen
      BY <2>5 DEF Wired, BeforePmm, CeilingFound, RegionsReleased, PmmInit, pmm_vars
    <3> QED
      BY <1>2, <3>1, SeenKept
  <2> QED
    BY <2>2, <2>3, <2>4, <2>5, NextSplits DEF InsideParser
<1>5. (stage = "heap map" => pmm_ret.ptr # 0)'
  <2>1. CASE UNCHANGED bvars \/ PagingStep
    BY <2>1 DEF bvars, pmm_vars, Wired, PagingStep
  <2>2. CASE HeapMap
    BY <2>2 DEF HeapMap, pmm_vars
  <2>3. CASE \/ ValidateVideo \/ ValidateGeometry \/ ParseMap \/ WalkStep \/ MapParsed
             \/ CeilingFound \/ RegionsReleased
    BY <2>3 DEF ValidateVideo, ValidateGeometry, ParseMap, WalkStep, MapParsed,
       CeilingFound, RegionsReleased, PmmInit, Panic
  <2>4. CASE \/ InstallGdt \/ IdtInstall \/ IsrInstall \/ IrqInstall \/ PicInit
             \/ StartPaging \/ PagingReturned
             \/ HeapAlloc \/ HeapMapped \/ HeapReturned
    BY <2>4 DEF InstallGdt, IdtInstall, IsrInstall, IrqInstall, PicInit, StartPaging,
       PagingReturned, HeapAlloc, HeapMapped, HeapReturned, Panic
  <2>5. CASE \/ CommandPmmFree \/ DrawPanic \/ CommandPmm \/ CommandExit
             \/ \E regs \in {"regs", "page fault"} : Fault(regs)
    BY <2>5 DEF CommandPmmFree, DrawPanic, CommandPmm, CommandExit, Fault, Panic
  <2> QED
    BY <2>1, <2>2, <2>3, <2>4, <2>5 DEF Next, Kernel
<1> QED
  BY <1>2, <1>3, <1>4, <1>5 DEF Wired

\* The frame that was accepted: its size does not wrap.
LEMMA FrameFits ==
    ASSUME Described, SInv, FrameOfMbd, video.fb # 0
    PROVE  /\ mbd.fbAddr = video.fb /\ video.fb \in Words
           /\ FrameSize = video.pitch * video.altura /\ FrameSize \in Words
<1>1. /\ video.fb \in Nat /\ video.pitch \in Nat /\ video.altura \in Nat
      /\ ValidGeometry(video.fb, video.pitch, video.largura, video.altura)
  BY DEF SInv, Typed, VideoValid
<1>2. /\ mbd.fbAddr = video.fb /\ mbd.pitch = video.pitch /\ mbd.height = video.altura
  BY DEF FrameOfMbd
<1>3. VIDEO_SPACE = ADDR_SPACE /\ ADDR_SPACE \in Nat \ {0}
  BY BootAssumption, SpaceType
<1> PICK p, a, m : p = video.pitch /\ a = video.altura /\ m = p * a
  OBVIOUS
<1>4. /\ p \in Nat \ {0} /\ a \in Nat /\ a <= (ADDR_SPACE - 1) \div p
      /\ video.fb <= ADDR_SPACE - 1 - m
  BY <1>1, <1>3 DEF ValidGeometry
<1>5. m \in Nat /\ m <= ADDR_SPACE - 1
  <2>1. ADDR_SPACE - 1 \in Int /\ a \in Int
    BY <1>3, <1>4
  <2>2. a * p <= ADDR_SPACE - 1
    BY <1>4, <2>1, DivFloor
  <2>3. a * p = m /\ m \in Nat
    BY <1>4
  <2> QED
    BY <2>2, <2>3
<1>6. FrameSize = m % ADDR_SPACE
  BY <1>2 DEF FrameSize
<1>7. m % ADDR_SPACE = m
  BY <1>3, <1>5, SmallMod
<1> QED
  BY <1>1, <1>2, <1>3, <1>4, <1>5, <1>6, <1>7 DEF Words

-----------------------------------------------------------------------------

LEMMA GatesNext ==
    ASSUME gates \subseteq {Gate("exception"), Gate("irq")}, [Next]_bvars
    PROVE  gates' \subseteq {Gate("exception"), Gate("irq")}
<1>1. CASE IdtInstall \/ IsrInstall \/ IrqInstall
  BY <1>1 DEF IdtInstall, IsrInstall, IrqInstall
<1>2. CASE UNCHANGED gates
  BY <1>2
<1>3. CASE \/ ValidateVideo \/ ValidateGeometry \/ InsideParser \/ InstallGdt \/ PicInit
           \/ StartPaging \/ PagingStep \/ PagingReturned \/ HeapAlloc \/ HeapMap
           \/ HeapMapped \/ HeapReturned
           \/ CommandPmm \/ CommandPmmFree \/ CommandExit \/ DrawPanic
           \/ \E regs \in {"regs", "page fault"} : Fault(regs)
  <2>1. UNCHANGED gates
    BY <1>3 DEF ValidateVideo, ValidateGeometry, InsideParser, ParseMap, WalkStep, MapParsed,
       CeilingFound, RegionsReleased, InstallGdt, PicInit,
       StartPaging, PagingStep, PagingReturned, HeapAlloc, HeapMap, HeapMapped, HeapReturned,
       CommandPmm, CommandPmmFree, CommandExit, DrawPanic, Fault, cpu
  <2> QED
    BY <1>2, <2>1
<1>4. CASE UNCHANGED bvars
  BY <1>2, <1>4 DEF bvars, cpu
<1> QED
  BY <1>1, <1>3, <1>4, NextSplits DEF OutsideParser

StageType ==
    stage \in {"video", "geometry", "map", "parse", "ceiling", "release",
               "gdt", "idt", "isr", "irq", "pic", "paging", "paging init",
               "heap", "heap pages", "heap map", "heap init", "heap failed",
               "terminal", "pmm command", "panic", "reset", "off"}

LEMMA StageNext ==
    ASSUME StageType, [Next]_bvars
    PROVE  StageType'
<1> USE DEF StageType
<1>1. CASE UNCHANGED bvars
  BY <1>1 DEF bvars
<1>2. CASE InsideParser \/ ValidateVideo \/ ValidateGeometry
  BY <1>2 DEF InsideParser, ParseMap, WalkStep, MapParsed, CeilingFound, RegionsReleased,
     PmmInit, ValidateVideo, ValidateGeometry, Panic
<1>3. CASE \/ InstallGdt \/ IdtInstall \/ IsrInstall \/ IrqInstall \/ PicInit
           \/ StartPaging \/ PagingStep \/ PagingReturned
  BY <1>3 DEF InstallGdt, IdtInstall, IsrInstall, IrqInstall, PicInit, StartPaging,
     PagingStep, PagingReturned, Panic
<1>4. CASE \/ HeapAlloc \/ HeapMap \/ HeapMapped \/ HeapReturned
           \/ CommandPmm \/ CommandPmmFree \/ CommandExit \/ DrawPanic
           \/ \E regs \in {"regs", "page fault"} : Fault(regs)
  BY <1>4 DEF HeapAlloc, HeapMap, HeapMapped, HeapReturned, CommandPmm, CommandPmmFree,
     CommandExit, DrawPanic, Fault, Panic
<1> QED
  BY <1>1, <1>2, <1>3, <1>4, NextSplits DEF OutsideParser

LEMMA ScreenTyped == Typed => ScreenTypeOK
<1> DEFINE T == [op : {"text", "separator", "gap"}, max : Int]
<1>1. Op \subseteq T
  BY Sizes DEF Op, Text, SepAbove, SepBelow, Blank
<1>2. ASSUME NEW s \in Seq(Op) PROVE s \in Seq(T)
  <2> HIDE DEF T
  <2> QED
    BY <1>1, SeqMonotonic
<1> QED
  BY <1>2 DEF Typed, ScreenTypeOK, Char

-----------------------------------------------------------------------------
(***************************************************************************)
(* THE MEMORY OF THE BOOT.  The boot's steps on the PMM, the page tables    *)
(* and the heap are steps of Pmm, Paging and Heap, instantiated here with   *)
(* the arguments kernel_main can pass them, so that what is proved of those *)
(* modules holds inside the boot.                                           *)
(***************************************************************************)
PP == INSTANCE Pmm_proofs WITH Boots <- Seens, Counts <- Nat, mbd <- pmm_mbd,
          booted <- pmm_booted, ret <- pmm_ret

GP == INSTANCE Paging_proofs WITH PAGE_SIZE <- BLOCK_SIZE,
          Framebuffers <- Words \X Words,
          Ranges <- Words \X Words \X {{WRITABLE}}, Pages <- {}, tlb <- {},
          pc <- pg_pc, stage <- pg_stage, fb <- pg_fb,
          range <- pg_range, addr <- pg_addr, end <- pg_end, status <- pg_status

HP == INSTANCE Heap_proofs WITH SIZE_SPACE <- ADDR_SPACE,
          InitArgs <- (1 .. ADDR_SPACE - ALIGNMENT) \X Words, Sizes <- {},
          call <- [size |-> 0, need |-> 0], b <- 0, live <- {},
          returned <- {}, ret <- [size |-> 0, ptr |-> 0]

LEMMA PmmSpace == PP!ADDR_SPACE = ADDR_SPACE
  BY DEF ADDR_SPACE, PP!ADDR_SPACE

LEMMA PagingSpace == GP!ADDR_SPACE = ADDR_SPACE
<1>1. DIR_ENTRIES * ENTRIES = MAX_BLOCKS
  BY BootAssumption
<1> QED
  BY <1>1 DEF ADDR_SPACE, GP!ADDR_SPACE

LEMMA PmmSizes == PP!SizesAssumption
<1>1. /\ {LOW_MEMORY, IDENTITY_END} \subseteq 1 .. ADDR_SPACE - BLOCK_SIZE
      /\ {KERNEL_START, KERNEL_END} \subseteq 0 .. ADDR_SPACE - BLOCK_SIZE
      /\ FALLBACK_END \in LOW_MEMORY .. ADDR_SPACE
      /\ UINT64 >= 2 * ADDR_SPACE
  BY BootAssumption
<1>2. UINT64 \in Nat
  BY MultibootAssumption
<1> QED
  BY <1>1, <1>2, SpaceType, PmmSpace

LEMMA PagingSizes == GP!PagingAssumption
<1>1. /\ {LOW_MEMORY, IDENTITY_END} \subseteq 1 .. ADDR_SPACE - BLOCK_SIZE
      /\ {KERNEL_START, KERNEL_END} \subseteq 0 .. ADDR_SPACE - BLOCK_SIZE
      /\ {BLOCK_SIZE, MAX_BLOCKS, ENTRIES, DIR_ENTRIES} \subseteq Nat \ {0}
      /\ MAX_TABLES \in Nat
  BY BootAssumption
<1> QED
  BY <1>1, SpaceType, PagingSpace

LEMMA PagingArguments == GP!ArgumentsAssumption
<1>1. {WRITABLE} \in GP!Flags
  BY DEF GP!Flags, GP!WRITABLE, WRITABLE
<1> QED
  BY <1>1, PagingSpace DEF Words

LEMMA PagingClients == GP!ClientsAssumption
  BY DEF GP!WRITABLE, WRITABLE

LEMMA HeapSizes == HP!HeapAssumption
<1>1. /\ BLOCK_SIZE \in Nat \ {0} /\ ALIGNMENT \in Nat \ {0} /\ SIZEOF_BLOCK \in Nat \ {0}
      /\ BLOCK_SIZE % ALIGNMENT = 0 /\ SIZEOF_BLOCK + ALIGNMENT <= ADDR_SPACE
      /\ MAX_BLOCKS \in Nat
  BY BootAssumption
<1>2. ADDR_SPACE % ALIGNMENT = 0
  <2>1. MAX_BLOCKS \in Int /\ BLOCK_SIZE \in Int
    BY <1>1
  <2>2. (MAX_BLOCKS * BLOCK_SIZE) % ALIGNMENT = 0
    BY <1>1, <2>1, MultipleMod, Zenon
  <2> QED
    BY <2>2 DEF ADDR_SPACE
<1> QED
  BY <1>1, <1>2, SpaceType DEF Words

LEMMA PmmDescriptions == PP!BootsAssumption
<1>1. PP!Regions = Sizes32
  BY SpaceType, PmmSpace DEF PP!Regions, Sizes32, Words
<1>4. ASSUME NEW m \in Seens
      PROVE  /\ m.present \in BOOLEAN
             /\ m.mmapOk \in BOOLEAN /\ m.hasMemory \in BOOLEAN /\ m.mem_upper \in Nat
             /\ m.entries \in SUBSET Regions64
             /\ {m.info, m.mmap, m.mods, m.fb} \subseteq Sizes32
  BY DEF Seens
<1>5. \A m \in Seens : \A e \in m.entries :
         {e.addr, e.len} \subseteq 0 .. UINT64 - 1
  BY <1>4 DEF Regions64
<1> QED
  BY <1>1, <1>4, <1>5

-----------------------------------------------------------------------------
(* The two instances of a module have the same operators.                   *)

LEMMA SameCardinality ==
    ASSUME NEW S
    PROVE  P!Cardinality(S) = PP!Cardinality(S)
  BY DEF P!Cardinality, PP!Cardinality

LEMMA SameBitmaps ==
    ASSUME NEW p, NEW S
    PROVE  /\ P!Managed(p) = PP!Managed(p) /\ P!FreeOf(p) = PP!FreeOf(p)
           /\ P!SetBlocks(p, S) = PP!SetBlocks(p, S)
           /\ P!UnsetBlocks(p, S) = PP!UnsetBlocks(p, S)
<1>1. P!Managed(p) = PP!Managed(p)
  BY DEF P!Managed, PP!Managed
<1>2. P!FreeOf(p) = PP!FreeOf(p)
  BY <1>1 DEF P!FreeOf, PP!FreeOf
<1>3. P!SetBlocks(p, S) = PP!SetBlocks(p, S)
  BY SameCardinality DEF P!SetBlocks, PP!SetBlocks, P!Managed, PP!Managed
<1>4. P!UnsetBlocks(p, S) = PP!UnsetBlocks(p, S)
  BY SameCardinality DEF P!UnsetBlocks, PP!UnsetBlocks, P!Managed, PP!Managed
<1> QED
  BY <1>1, <1>2, <1>3, <1>4

LEMMA SameRegions ==
    ASSUME NEW r
    PROVE  /\ P!ReleasedBy(r) = PP!ReleasedBy(r)
           /\ P!ReservedBy(r) = PP!ReservedBy(r)
<1>1. P!ReleasedBy(r) = PP!ReleasedBy(r)
  BY DEF P!ReleasedBy, PP!ReleasedBy, P!ADDR_SPACE, PP!ADDR_SPACE
<1>2. P!ReservedBy(r) = PP!ReservedBy(r)
  BY DEF P!ReservedBy, PP!ReservedBy, P!ADDR_SPACE, PP!ADDR_SPACE
<1> QED
  BY <1>1, <1>2

LEMMA SameMap ==
    ASSUME NEW m
    PROVE  /\ P!HasMap(m) = PP!HasMap(m)
           /\ P!InitialMax(m) = PP!InitialMax(m)
           /\ P!InitialFree(m) = PP!InitialFree(m)
           /\ P!InitialReserved(m) = PP!InitialReserved(m)
<1>1. P!Available(m) = PP!Available(m)
  BY DEF P!Available, PP!Available
<1>2. P!HasMap(m) = PP!HasMap(m)
  BY <1>1 DEF P!HasMap, PP!HasMap, P!Fim, PP!Fim
<1>3. P!Ceiling(m) = PP!Ceiling(m)
  BY <1>1 DEF P!Ceiling, PP!Ceiling, P!Fim, PP!Fim
<1>4. \A n : P!Capped(P!ADDR_TO_BLOCK(n)) = PP!Capped(PP!ADDR_TO_BLOCK(n))
  BY DEF P!Capped, P!ADDR_TO_BLOCK, PP!Capped, PP!ADDR_TO_BLOCK
<1>5. P!InitialMax(m) = PP!InitialMax(m)
  BY <1>2, <1>3, <1>4 DEF P!InitialMax, PP!InitialMax, P!ADDR_SPACE, PP!ADDR_SPACE,
     P!ADDR_TO_BLOCK, PP!ADDR_TO_BLOCK
<1>6. P!InitialFree(m) = PP!InitialFree(m)
  BY <1>1, <1>2 DEF P!InitialFree, PP!InitialFree, P!ADDR_SPACE, PP!ADDR_SPACE,
     P!Fim, PP!Fim
<1>7. P!InitialReserved(m) = PP!InitialReserved(m)
  BY DEF P!InitialReserved, PP!InitialReserved, P!ADDR_SPACE, PP!ADDR_SPACE
<1> QED
  BY <1>2, <1>5, <1>6, <1>7

LEMMA SamePmmInit ==
    ASSUME NEW m
    PROVE  P!PmmAfterInit(m) = PP!PmmAfterInit(m)
<1>1. UNION {P!ReleasedBy(r) : r \in P!InitialFree(m)}
        = UNION {PP!ReleasedBy(r) : r \in PP!InitialFree(m)}
  BY SameMap, SameRegions
<1>2. UNION {P!ReservedBy(r) : r \in P!InitialReserved(m)}
        = UNION {PP!ReservedBy(r) : r \in PP!InitialReserved(m)}
  BY SameMap, SameRegions
<1> QED
  BY <1>1, <1>2, SameMap, SameBitmaps DEF P!PmmAfterInit, PP!PmmAfterInit, P!Blocks, PP!Blocks

LEMMA SameAlloc ==
    ASSUME NEW n, P!AllocBlocks(n)
    PROVE  PP!AllocBlocks(n)
<1>1. \A s : P!Run(s, n) = PP!Run(s, n)
  BY DEF P!Run, PP!Run
<1>2. P!FirstRun(P!FreeOf(pmm), n) = PP!FirstRun(PP!FreeOf(pmm), n)
  BY DEF P!FirstRun, PP!FirstRun, P!RunStarts, PP!RunStarts, P!Run, PP!Run,
     P!FreeOf, PP!FreeOf, P!Managed, PP!Managed
<1> QED
  BY <1>1, <1>2, SameBitmaps DEF P!AllocBlocks, PP!AllocBlocks, P!BLOCK_TO_ADDR,
     PP!BLOCK_TO_ADDR, P!NULL, PP!NULL

LEMMA SameFree ==
    ASSUME NEW ptr, NEW n, P!FreeBlocks(ptr, n)
    PROVE  PP!FreeBlocks(ptr, n)
<1>1. P!Run(P!ADDR_TO_BLOCK(ptr), n) = PP!Run(PP!ADDR_TO_BLOCK(ptr), n)
  BY DEF P!Run, PP!Run, P!ADDR_TO_BLOCK, PP!ADDR_TO_BLOCK
<1> QED
  BY <1>1, SameBitmaps DEF P!FreeBlocks, PP!FreeBlocks, P!NULL, PP!NULL

LEMMA SamePmmType == PP!TypeOK => P!TypeOK
  BY DEF P!TypeOK, P!Blocks, P!ADDR_SPACE, PP!TypeOK, PP!Blocks, PP!ADDR_SPACE

LEMMA SameHeap ==
    /\ \A start, size : H!HeapInit(start, size) => HP!HeapInit(start, size)
    /\ HP!TypeOK => H!TypeOK
    /\ H!Slots = HP!Slots
<1>1. /\ \A z : H!ALIGN_DOWN(z) = HP!ALIGN_DOWN(z) /\ H!ALIGN_UP(z) = HP!ALIGN_UP(z)
      /\ H!HEADER_SIZE = HP!HEADER_SIZE /\ H!MIN_SPLIT = HP!MIN_SPLIT
      /\ H!Slots = HP!Slots
  BY DEF H!ALIGN_DOWN, H!ALIGN_UP, H!HEADER_SIZE, H!MIN_SPLIT, H!Slots,
         HP!ALIGN_DOWN, HP!ALIGN_UP, HP!HEADER_SIZE, HP!MIN_SPLIT, HP!Slots
<1>2. ASSUME NEW start, NEW size, H!HeapInit(start, size)
      PROVE  HP!HeapInit(start, size)
  BY <1>1, <1>2 DEF H!HeapInit, H!NULL, H!MAGIC_FREE, H!heap,
     HP!HeapInit, HP!NULL, HP!MAGIC_FREE, HP!heap
<1>3. HP!TypeOK => H!TypeOK
  BY <1>1 DEF H!TypeOK, H!MAGIC_USED, H!MAGIC_FREE, H!ZERO, H!JUNK,
     HP!TypeOK, HP!MAGIC_USED, HP!MAGIC_FREE, HP!ZERO, HP!JUNK
<1> QED
  BY <1>1, <1>2, <1>3

LEMMA SameRange ==
    ASSUME NEW start, NEW size, NEW flags, NEW from,
           G!EnterRange(start, size, flags, from)
    PROVE  GP!EnterRange(start, size, flags, from)
  BY DEF G!EnterRange, G!align_down, G!ADDR_SPACE,
         GP!EnterRange, GP!align_down, GP!ADDR_SPACE

LEMMA SameMapStep ==
    ASSUME G!MapRangeStep
    PROVE  GP!MapRangeStep
<1>1. /\ G!DirIndex(pg_addr) = GP!DirIndex(pg_addr)
      /\ G!TableIndex(pg_addr) = GP!TableIndex(pg_addr)
      /\ G!Aligned(pg_addr) = GP!Aligned(pg_addr)
      /\ G!NoTable = GP!NoTable /\ G!EMPTY = GP!EMPTY
  BY DEF G!DirIndex, G!TableIndex, G!Aligned, G!NoTable, G!EMPTY,
         GP!DirIndex, GP!TableIndex, GP!Aligned, GP!NoTable, GP!EMPTY
<1>2. \A p, d : G!GetTable(p, d) = GP!GetTable(p, d)
  BY DEF G!GetTable, G!NoTable, G!EMPTY, GP!GetTable, GP!NoTable, GP!EMPTY
<1>3. \A f : G!Entry(pg_addr, f) = GP!Entry(pg_addr, f)
  BY DEF G!Entry, GP!Entry
<1>4. G!MapPageStatus(pg_addr, pg_addr) = GP!MapPageStatus(pg_addr, pg_addr)
  BY <1>1, <1>2 DEF G!MapPageStatus, GP!MapPageStatus
<1>5. ASSUME NEW f, G!MapPage(pg_addr, pg_addr, f)
      PROVE  GP!MapPage(pg_addr, pg_addr, f)
  BY <1>1, <1>2, <1>3, <1>4, <1>5 DEF G!MapPage, GP!MapPage
<1> QED
  BY <1>4, <1>5 DEF G!MapRangeStep, GP!MapRangeStep

LEMMA SamePaging ==
    /\ \A frame : G!PagingInit(frame) => GP!PagingInit(frame)
    /\ G!MapRangeStep => GP!MapRangeStep
    /\ G!MapRangeDone => GP!MapRangeDone
    /\ G!EnablePaging => GP!EnablePaging
    /\ G!SetActive => GP!SetActive
    /\ \A start, size : G!IdentityMapRange(start, size, {WRITABLE})
                           => GP!IdentityMapRange(start, size, {WRITABLE})
<1>1. G!WRITABLE = GP!WRITABLE /\ G!LowEnd = GP!LowEnd /\ G!NoTable = GP!NoTable
  BY DEF G!WRITABLE, GP!WRITABLE, G!LowEnd, GP!LowEnd, G!NoTable, GP!NoTable
<1>2. \A frame : G!PagingInit(frame) => GP!PagingInit(frame)
  BY <1>1, SameRange DEF G!PagingInit, GP!PagingInit, G!loop, GP!loop
<1>3. G!MapRangeDone => GP!MapRangeDone
  BY <1>1, SameRange DEF G!MapRangeDone, GP!MapRangeDone, G!loop, GP!loop
<1>4. (G!EnablePaging => GP!EnablePaging) /\ (G!SetActive => GP!SetActive)
  BY DEF G!EnablePaging, GP!EnablePaging, G!SetActive, GP!SetActive, G!loop, GP!loop
<1>5. \A start, size : G!IdentityMapRange(start, size, {WRITABLE})
                          => GP!IdentityMapRange(start, size, {WRITABLE})
  BY SameRange DEF G!IdentityMapRange, GP!IdentityMapRange
<1> QED
  BY <1>2, <1>3, <1>4, <1>5, SameMapStep

LEMMA SamePagingType == GP!TypeOK => G!TypeOK
  BY DEF G!TypeOK, G!TableIds, G!NoTable, G!EntryType, G!EMPTY, G!ADDR_SPACE, G!Flags,
         G!WRITABLE, G!USER, G!VPages,
         GP!TypeOK, GP!TableIds, GP!NoTable, GP!EntryType, GP!EMPTY, GP!ADDR_SPACE, GP!Flags,
         GP!WRITABLE, GP!USER, GP!VPages

LEMMA SameMapping ==
    ASSUME NEW start, NEW size, NEW page
    PROVE  /\ G!Covered(start, size) = GP!Covered(start, size)
           /\ G!BelowTop(start, size) = GP!BelowTop(start, size)
           /\ G!Identity(page, {WRITABLE}) = GP!Identity(page, {WRITABLE})
<1>1. G!Covered(start, size) = GP!Covered(start, size)
  BY DEF G!Covered, G!VPages, GP!Covered, GP!VPages
<1>2. G!BelowTop(start, size) = GP!BelowTop(start, size)
  BY DEF G!BelowTop, G!ADDR_SPACE, GP!BelowTop, GP!ADDR_SPACE
<1>3. G!Identity(page, {WRITABLE}) = GP!Identity(page, {WRITABLE})
  BY DEF G!Identity, G!Translation, G!NoTable, G!EMPTY, G!Entry,
         GP!Identity, GP!Translation, GP!NoTable, GP!EMPTY, GP!Entry
<1> QED
  BY <1>1, <1>2, <1>3

-----------------------------------------------------------------------------
(* The boot's steps are steps of Pmm, Paging and Heap.                      *)

\* The address of an allocation is that of a block.
LEMMA PointerOfBlock ==
    ASSUME PP!IInv
    PROVE  \E block \in 0 .. MAX_BLOCKS - 1 :
              pmm_ret.ptr = block * BLOCK_SIZE /\ pmm_ret.ptr \in 0 .. ADDR_SPACE - BLOCK_SIZE
<1>1. PICK n \in Nat, block \in PP!Blocks :
         pmm_ret = [count |-> n, ptr |-> PP!BLOCK_TO_ADDR(block)]
  BY DEF PP!IInv
<1>2. block \in 0 .. MAX_BLOCKS - 1 /\ pmm_ret.ptr = block * BLOCK_SIZE
  BY <1>1 DEF PP!Blocks, PP!BLOCK_TO_ADDR
<1>3. block * BLOCK_SIZE \in 0 .. ADDR_SPACE - BLOCK_SIZE
  <2>1. block \in Nat /\ MAX_BLOCKS \in Nat /\ block + 1 <= MAX_BLOCKS /\ BLOCK_SIZE \in Nat
    BY <1>2, SpaceType
  <2>2. (block + 1) * BLOCK_SIZE <= MAX_BLOCKS * BLOCK_SIZE
      <3> QED
      BY <2>1
  <2>3. (block + 1) * BLOCK_SIZE = block * BLOCK_SIZE + BLOCK_SIZE /\ block * BLOCK_SIZE \in Nat
    BY <2>1
  <2> QED
    BY <2>1, <2>2, <2>3, SpaceType
<1> QED
  BY <1>2, <1>3

LEMMA StepOfPmm ==
    ASSUME Described, MInv, Wired, PP!IInv, [Next]_bvars
    PROVE  [PP!Next]_(PP!vars)
<1>1. CASE UNCHANGED pmm_vars
  BY <1>1 DEF pmm_vars, PP!vars
<1>2. CASE CeilingFound \/ RegionsReleased
  <2>1. CASE PmmInit
    <3>1. ~pmm_booted /\ mbd.present
      BY <1>2 DEF Wired, BeforePmm, Ended, CeilingFound, RegionsReleased
    <3>2. Seen \in Seens
      BY <3>1, SeenTyped
    <3>3. /\ pmm_booted' = TRUE /\ pmm_mbd' = Seen
          /\ pmm' = PP!PmmAfterInit(Seen) /\ UNCHANGED <<owned, pmm_ret>>
      BY <2>1, SamePmmInit DEF PmmInit
    <3>4. PP!PmmInit
      BY <3>1, <3>2, <3>3 DEF PP!PmmInit
    <3> QED
      BY <3>4 DEF PP!Next
  <2> QED
    BY <1>1, <1>2, <2>1 DEF CeilingFound, RegionsReleased
<1>3. ASSUME NEW n \in Nat, P!AllocBlocks(n)
      PROVE  PP!Next
  BY <1>3, SameAlloc DEF PP!Next
<1>4. ASSUME NEW n \in Nat, P!FreeBlocks(pmm_ret.ptr, n)
      PROVE  PP!Next
  <2>1. PP!FreeBlocks(pmm_ret.ptr, n)
    BY <1>4, SameFree
  <2>2. PICK block \in 0 .. MAX_BLOCKS - 1 : pmm_ret.ptr = block * BLOCK_SIZE
    BY PointerOfBlock
  <2> QED
    BY <2>1, <2>2 DEF PP!Next, PP!Blocks, PP!BLOCK_TO_ADDR
<1>5. HeapPages \in Nat /\ 1 \in Nat
  BY HeapSizeType, SpaceType
<1>6. CASE HeapAlloc \/ HeapMapped \/ CommandPmm \/ CommandPmmFree
  BY <1>1, <1>3, <1>4, <1>5, <1>6 DEF HeapAlloc, HeapMapped, CommandPmm, CommandPmmFree
<1>7. CASE UNCHANGED bvars
  BY <1>1, <1>7 DEF bvars
<1>8. CASE \/ ValidateVideo \/ ValidateGeometry \/ ParseMap \/ WalkStep \/ MapParsed
           \/ InstallGdt \/ IdtInstall \/ IsrInstall \/ IrqInstall \/ PicInit
           \/ StartPaging \/ PagingStep \/ PagingReturned \/ HeapMap \/ HeapReturned
           \/ CommandExit \/ DrawPanic
           \/ \E regs \in {"regs", "page fault"} : Fault(regs)
  <2>1. UNCHANGED pmm_vars
    BY <1>8 DEF ValidateVideo, ValidateGeometry, ParseMap, WalkStep, MapParsed, InstallGdt,
       IdtInstall, IsrInstall, IrqInstall, PicInit, StartPaging, PagingStep, PagingReturned,
       HeapMap, HeapReturned, CommandExit, DrawPanic, Fault
  <2> QED
    BY <1>1, <2>1
<1> QED
  BY <1>2, <1>6, <1>7, <1>8 DEF Next, Kernel

LEMMA StepOfPaging ==
    ASSUME BInv, SInv, Wired, PP!IInv, [Next]_bvars
    PROVE  [GP!Next]_(GP!vars)
<1>1. CASE UNCHANGED pg_vars
  BY <1>1 DEF pg_vars, GP!vars
<1>2. CASE StartPaging
  <2>1. video.fb # 0
    BY <1>2 DEF StartPaging, BInv, Order, AfterIsr, Ready
  <2>2. <<mbd.fbAddr, FrameSize>> \in Words \X Words
    BY <2>1, FrameFits DEF BInv, Wired
  <2>3. GP!PagingInit(<<mbd.fbAddr, FrameSize>>)
    BY <1>2, SamePaging DEF StartPaging
  <2> QED
    BY <2>2, <2>3 DEF GP!Next
<1>3. CASE PagingStep
  BY <1>3, SamePaging DEF PagingStep, GP!Next
<1>4. CASE HeapMap
  <2>1. CASE pmm_ret.ptr # 0
    <3>1. GP!IdentityMapRange(pmm_ret.ptr, HeapBytes, {WRITABLE})
      BY <1>4, <2>1, SamePaging DEF HeapMap
    <3>2. pmm_ret.ptr \in Words /\ HeapBytes \in Words
      BY PointerOfBlock, HeapSizeType, SpaceType DEF Words
    <3>3. PICK r : r = <<pmm_ret.ptr, HeapBytes, {WRITABLE}>>
      OBVIOUS
    <3>4. /\ r \in Words \X Words \X {{WRITABLE}}
          /\ r[1] = pmm_ret.ptr /\ r[2] = HeapBytes /\ r[3] = {WRITABLE}
      BY <3>2, <3>3
    <3>5. GP!IdentityMapRange(r[1], r[2], r[3])
      BY <3>1, <3>4
    <3> QED
      BY <3>4, <3>5 DEF GP!Next
  <2> QED
    BY <1>1, <1>4, <2>1 DEF HeapMap
<1>5. CASE UNCHANGED bvars
  BY <1>1, <1>5 DEF bvars
<1>6. CASE \/ ValidateVideo \/ ValidateGeometry \/ InsideParser
           \/ InstallGdt \/ IdtInstall \/ IsrInstall \/ IrqInstall \/ PicInit
           \/ PagingReturned \/ HeapAlloc \/ HeapMapped \/ HeapReturned
           \/ CommandPmm \/ CommandPmmFree \/ CommandExit \/ DrawPanic
           \/ \E regs \in {"regs", "page fault"} : Fault(regs)
  <2>1. UNCHANGED pg_vars
    BY <1>6 DEF ValidateVideo, ValidateGeometry, InsideParser, ParseMap, WalkStep, MapParsed,
       CeilingFound, RegionsReleased, InstallGdt, IdtInstall, IsrInstall, IrqInstall, PicInit,
       PagingReturned, HeapAlloc, HeapMapped, HeapReturned, CommandPmm, CommandPmmFree,
       CommandExit, DrawPanic, Fault
  <2> QED
    BY <1>1, <2>1
<1> QED
  BY <1>2, <1>3, <1>4, <1>5, <1>6, NextSplits DEF OutsideParser

LEMMA StepOfHeap ==
    ASSUME Wired, PP!IInv, [Next]_bvars
    PROVE  [HP!Next]_(HP!vars)
<1>1. CASE UNCHANGED heap_vars
  BY <1>1 DEF heap_vars, HP!vars
<1>2. CASE HeapMapped
  <2>1. CASE pg_status = "OK"
    <3>1. HP!HeapInit(pmm_ret.ptr, HeapBytes)
      BY <1>2, <2>1, SameHeap DEF HeapMapped
    <3>2. pmm_ret.ptr \in 1 .. ADDR_SPACE - ALIGNMENT
      <4>1. /\ pmm_ret.ptr # 0 /\ pmm_ret.ptr \in 0 .. ADDR_SPACE - BLOCK_SIZE
        BY <1>2, PointerOfBlock DEF HeapMapped, Wired
      <4>2. ALIGNMENT \in Nat \ {0} /\ BLOCK_SIZE % ALIGNMENT = 0 /\ BLOCK_SIZE \in Nat \ {0}
        BY BootAssumption
      <4>3. ALIGNMENT <= BLOCK_SIZE
        BY AlignmentFits
      <4> QED
        BY <4>1, <4>2, <4>3, SpaceType
    <3>3. PICK arg : arg = <<pmm_ret.ptr, HeapBytes>>
      OBVIOUS
    <3>4. /\ arg \in (1 .. ADDR_SPACE - ALIGNMENT) \X Words
          /\ arg[1] = pmm_ret.ptr /\ arg[2] = HeapBytes
      BY <3>2, <3>3, HeapSizeType
    <3>5. HP!HeapInit(arg[1], arg[2])
      BY <3>1, <3>4
    <3> QED
      BY <3>4, <3>5 DEF HP!Next
  <2> QED
    BY <1>1, <1>2, <2>1 DEF HeapMapped
<1>3. CASE UNCHANGED bvars
  BY <1>1, <1>3 DEF bvars
<1>4. CASE \/ ValidateVideo \/ ValidateGeometry \/ InsideParser
           \/ InstallGdt \/ IdtInstall \/ IsrInstall \/ IrqInstall \/ PicInit
           \/ StartPaging \/ PagingStep \/ PagingReturned \/ HeapAlloc \/ HeapMap \/ HeapReturned
           \/ CommandPmm \/ CommandPmmFree \/ CommandExit \/ DrawPanic
           \/ \E regs \in {"regs", "page fault"} : Fault(regs)
  <2>1. UNCHANGED heap_vars
    BY <1>4 DEF ValidateVideo, ValidateGeometry, InsideParser, ParseMap, WalkStep, MapParsed,
       CeilingFound, RegionsReleased, InstallGdt, IdtInstall, IsrInstall, IrqInstall, PicInit,
       StartPaging, PagingStep, PagingReturned, HeapAlloc, HeapMap, HeapReturned, CommandPmm,
       CommandPmmFree, CommandExit, DrawPanic, Fault
  <2> QED
    BY <1>1, <2>1
<1> QED
  BY <1>2, <1>3, <1>4, NextSplits DEF OutsideParser

-----------------------------------------------------------------------------
(* The invariants of the parts, together                                    *)

CInv == /\ BInv /\ MInv /\ SInv /\ Wired
        /\ PP!IInv /\ GP!PInv /\ GP!VInv /\ HP!HInv
        /\ gates \subseteq {Gate("exception"), Gate("irq")}

LEMMA CInvInit == Init => CInv
<1> SUFFICES ASSUME Init PROVE CInv
  OBVIOUS
<1>1. BInv /\ MInv /\ SInv /\ Wired
  BY BInvInit, MInvInit, SInvInit, WiredInit DEF Init
<1>2. PP!Init
  BY DEF Init, PP!Init, PP!NoMbd, PP!NULL
<1>3. GP!Init
  BY DEF Init, GP!Init, GP!NoTable, GP!EMPTY, G!NoTable, G!EMPTY
<1>4. HP!Init
  BY SameHeap DEF Init, HP!Init, HP!NULL, HP!JUNK, HP!Idle, H!JUNK
<1>5. PP!IInv
  BY <1>2, PP!InitIInv, PmmSizes, PmmDescriptions
<1>6. GP!PInv /\ GP!VInv
  BY <1>3, GP!PInvInit, GP!VInvInit, PagingSizes, PagingArguments, PagingClients
<1>7. HP!HInv
  BY <1>4, HP!HInvInit, HeapSizes
<1> QED
  BY <1>1, <1>5, <1>6, <1>7 DEF CInv, Init

LEMMA CInvNext ==
    ASSUME CInv, [Next]_bvars
    PROVE  CInv'
<1>1. BInv' /\ MInv' /\ SInv'
  BY DescribedNext, OrderNext, StepOfParser, StepOfScreen, MInvNext, SInvNext DEF CInv, BInv
<1>2. Wired'
  BY WiredNext DEF CInv
<1>3. PP!IInv'
  <2>1. [PP!Next]_(PP!vars) /\ PP!IInv
    BY StepOfPmm DEF CInv, BInv
  <2> QED
    BY <2>1, PP!NextIInv, PmmSizes, PmmDescriptions
<1>4. GP!PInv' /\ GP!VInv'
  <2>1. [GP!Next]_(GP!vars) /\ GP!PInv /\ GP!VInv
    BY StepOfPaging DEF CInv
  <2> QED
    BY <2>1, GP!PInvNext, GP!VInvNext, PagingSizes, PagingArguments, PagingClients
<1>5. HP!HInv'
  <2>1. [HP!Next]_(HP!vars) /\ HP!HInv
    BY StepOfHeap DEF CInv
  <2> QED
    BY <2>1, HP!HInvNext, HeapSizes
<1> QED
  BY <1>1, <1>2, <1>3, <1>4, <1>5, GatesNext DEF CInv

LEMMA CInvAlways == Spec => []CInv
<1>1. CInv /\ [Next]_bvars => CInv'
  BY CInvNext
<1> QED
  BY <1>1, CInvInit, PTL DEF Spec

-----------------------------------------------------------------------------
(* The boot implements the three modules, and has their types.              *)

\* What kernel_main does to the PMM is a behaviour of Pmm for some description
\* that pmm_init may see: it runs pmm_init once, on the regions the validated
\* walk has shown it, before any allocation.
THEOREM BootRefinesPmm == Spec => PP!Spec
<1>1. Init => PP!Init
  BY DEF Init, PP!Init, PP!NoMbd, PP!NULL
<1>2. CInv /\ [Next]_bvars => [PP!Next]_(PP!vars)
  BY StepOfPmm DEF CInv, BInv
<1> QED
  BY <1>1, <1>2, CInvAlways, PTL DEF Spec, PP!Spec

\* What kernel_main and heap_init_from_pmm do to the page tables is a behaviour of
\* Paging: paging_init is called with a frame inside the address space, and
\* paging_identity_map_range only once paging is on.
THEOREM BootRefinesPaging == Spec => GP!Spec
<1>1. Init => GP!Init
  BY DEF Init, GP!Init, GP!NoTable, GP!EMPTY, G!NoTable, G!EMPTY
<1>2. CInv /\ [Next]_bvars => [GP!Next]_(GP!vars)
  BY StepOfPaging DEF CInv
<1> QED
  BY <1>1, <1>2, CInvAlways, PTL DEF Spec, GP!Spec

\* heap_init_from_pmm gives heap_init a region Heap allows: not at address 0, and
\* far enough from the end for its first header to be aligned.
THEOREM BootRefinesHeap == Spec => HP!Spec
<1>1. Init => HP!Init
  BY SameHeap DEF Init, HP!Init, HP!NULL, HP!JUNK, HP!Idle, H!JUNK
<1>2. CInv /\ [Next]_bvars => [HP!Next]_(HP!vars)
  BY StepOfHeap DEF CInv
<1> QED
  BY <1>1, <1>2, CInvAlways, PTL DEF Spec, HP!Spec

\* The boot's own variables and those of every part it brings up have their
\* types: no address, counter or block number leaves its width.
THEOREM BootTypeCorrect == Spec => []TypeOK
<1>1. Init => StageType
  BY DEF Init, StageType
<1>2. StageType /\ [Next]_bvars => StageType'
  BY StageNext
<1>3. CInv => MapTypeOK /\ ScreenTypeOK
  <2>1. CInv => MapTypeOK /\ Typed
    BY DEF CInv, MInv, SInv
  <2> QED
    BY <2>1, ScreenTyped
<1>4. CInv => P!TypeOK
  BY SamePmmType, PP!IInvType, PmmSizes, PmmDescriptions DEF CInv
<1>5. CInv => G!TypeOK
  BY SamePagingType DEF CInv, GP!PInv
<1>6. CInv => H!TypeOK
  <2>1. HP!HInv => HP!TypeOK
    BY HP!HInvType, HeapSizes
  <2> QED
    BY <2>1, SameHeap DEF CInv
<1>7. CInv /\ StageType => TypeOK
  BY <1>3, <1>4, <1>5, <1>6 DEF CInv, StageType, TypeOK
<1> QED
  BY <1>1, <1>2, <1>7, CInvAlways, PTL DEF Spec

-----------------------------------------------------------------------------
(* A fault can be shown.                                                    *)

\* Once paging_init is past its first line, its frame is the accepted one.
FrameMapped == cr0_pg \/ pg_pc # "idle" => pg_fb = <<mbd.fbAddr, FrameSize>>

LEMMA FrameMappedNext ==
    ASSUME CInv, FrameMapped, [Next]_bvars
    PROVE  FrameMapped'
<1>1. UNCHANGED <<mbd, FrameSize>>
  BY PresentNext DEF CInv, FrameSize
<1>2. paging_active => cr0_pg
  BY DEF CInv, GP!VInv
<1>3. CASE UNCHANGED pg_vars
  BY <1>1, <1>3 DEF pg_vars, FrameMapped
<1>4. CASE StartPaging
  <2>1. ~cr0_pg /\ ~paging_active
    BY <1>2, <1>4 DEF StartPaging, CInv, BInv, Order, AfterIsr
  <2>2. pg_fb' = <<mbd.fbAddr, FrameSize>>
    BY <1>4, <2>1 DEF StartPaging, G!PagingInit
  <2> QED
    BY <1>1, <2>2 DEF FrameMapped
<1>5. CASE PagingStep
  <2>1. pg_pc # "idle" /\ UNCHANGED pg_fb
    BY <1>5 DEF PagingStep, G!MapRangeStep, G!MapRangeDone, G!EnablePaging, G!SetActive
  <2> QED
    BY <1>1, <2>1 DEF FrameMapped
<1>6. CASE HeapMap
  <2>1. CASE pmm_ret.ptr = 0
    BY <1>3, <1>6, <2>1 DEF HeapMap
  <2>2. CASE pmm_ret.ptr # 0
    <3>1. paging_active /\ UNCHANGED <<pg_fb, cr0_pg>>
      BY <1>6, <2>2 DEF HeapMap, G!IdentityMapRange
    <3> QED
      BY <1>1, <1>2, <3>1 DEF FrameMapped
  <2> QED
    BY <2>1, <2>2
<1>7. CASE UNCHANGED bvars
  BY <1>3, <1>7 DEF bvars
<1>8. CASE \/ ValidateVideo \/ ValidateGeometry \/ InsideParser
           \/ InstallGdt \/ IdtInstall \/ IsrInstall \/ IrqInstall \/ PicInit
           \/ PagingReturned \/ HeapAlloc \/ HeapMapped \/ HeapReturned
           \/ CommandPmm \/ CommandPmmFree \/ CommandExit \/ DrawPanic
           \/ \E regs \in {"regs", "page fault"} : Fault(regs)
  <2>1. UNCHANGED pg_vars
    BY <1>8 DEF ValidateVideo, ValidateGeometry, InsideParser, ParseMap, WalkStep, MapParsed,
       CeilingFound, RegionsReleased, InstallGdt, IdtInstall, IsrInstall, IrqInstall, PicInit,
       PagingReturned, HeapAlloc, HeapMapped, HeapReturned, CommandPmm, CommandPmmFree,
       CommandExit, DrawPanic, Fault
  <2> QED
    BY <1>3, <2>1
<1> QED
  BY <1>4, <1>5, <1>6, <1>7, <1>8, NextSplits DEF OutsideParser

LEMMA FrameIdentity ==
    ASSUME CInv, FrameMapped, cr0_pg, G!BelowTop(video.fb, video.pitch * video.altura)
    PROVE  \A page \in G!Covered(video.fb, video.pitch * video.altura) :
              G!Identity(page, {WRITABLE})
<1>1. video.fb # 0
  BY DEF CInv, BInv, Order, Ready
<1>2. pg_fb[1] = video.fb /\ pg_fb[2] = video.pitch * video.altura
  <2>1. mbd.fbAddr = video.fb /\ FrameSize = video.pitch * video.altura
    BY <1>1, FrameFits DEF CInv, BInv, Wired
  <2>2. pg_fb = <<mbd.fbAddr, FrameSize>>
    BY DEF FrameMapped
  <2> QED
    BY <2>1, <2>2
<1>3. GP!BelowTop(pg_fb[1], pg_fb[2])
  BY <1>2, SameMapping
<1>4. GP!AllIdentity(GP!Covered(pg_fb[1], pg_fb[2]))
  BY <1>3 DEF CInv, GP!VInv
<1> QED
  BY <1>2, <1>4, SameMapping DEF GP!AllIdentity, GP!WRITABLE, WRITABLE

\* From the store to CR0 on, a fault finds its gate and its segments, and the
\* panic it ends in can write the frame buffer: the frame that panic.c accepted is
\* the one paging_init has mapped.  The hypothesis leaves out a frame that reaches
\* the last page, which paging_init does not map.
THEOREM FaultsAlwaysShown ==
    Spec => [](G!BelowTop(video.fb, video.pitch * video.altura) => FaultsShown)
<1>1. Init => FrameMapped
  BY DEF Init, FrameMapped
<1>2. CInv /\ FrameMapped /\ [Next]_bvars => FrameMapped'
  BY FrameMappedNext
<1>3. CInv /\ cr0_pg => FaultsHandled /\ video.fb # 0
  BY DEF CInv, BInv, Order, Ready, TablesLoaded, FaultsHandled, Gate
<1>4. CInv /\ FrameMapped /\ G!BelowTop(video.fb, video.pitch * video.altura)
        => FaultsShown
  BY <1>3, FrameIdentity DEF FaultsShown
<1> QED
  BY <1>1, <1>2, <1>4, CInvAlways, PTL DEF Spec

-----------------------------------------------------------------------------
(***************************************************************************)
(* THE HEAP'S PAGES.  Where the boot has come with the pages it asks of the *)
(* PMM for the heap.  At first nothing is granted; then the run, which      *)
(* heap_init_from_pmm maps; then a heap that fills the run, or the run is   *)
(* given back and the bitmap is as pmm_init left it.                        *)
(***************************************************************************)
BeforeHeap == {"gdt", "idt", "isr", "irq", "pic", "paging", "paging init", "heap"}
AfterHeap == {"heap init", "terminal", "pmm command"} \cup Ended
BootBitmap == PP!PmmAfterInit(pmm_mbd)
HeapRun(s) == PP!Run(s, HeapPages)
NothingGranted == pmm_booted /\ owned = {} /\ pmm = BootBitmap

\* The pages from block s on were free when pmm_init returned.
Usable(s) == pmm_booted /\ HeapPages > 0 /\ HeapRun(s) \subseteq PP!FreeOf(BootBitmap)

Granted(s) == /\ Usable(s) /\ pmm_ret.ptr = s * BLOCK_SIZE
              /\ owned = HeapRun(s) /\ pmm = PP!SetBlocks(BootBitmap, HeapRun(s))
Mapped(s) == \A page \in HeapRun(s) : GP!Identity(page, {WRITABLE})

\* A run that ends in the last page is not mapped, and heap_init refuses it.
Mapping(s) ==
    \/ /\ pg_pc = "map" /\ pg_stage = "none"
       /\ pg_range = [start |-> s * BLOCK_SIZE, size |-> HeapBytes, flags |-> {WRITABLE}]
    \/ /\ pg_pc = "idle"
       /\ pg_status = "OK" /\ s + HeapPages < MAX_BLOCKS => Mapped(s)

HeapAt(s) == /\ Usable(s) /\ HeapRun(s) \subseteq owned /\ Mapped(s)
             /\ heap_lo = s * BLOCK_SIZE /\ heap_hi = (s + HeapPages) * BLOCK_SIZE

\* At the terminal the heap's pages are all that is granted; the command pmm has
\* one more while it runs.
OnlyHeapGranted(s) ==
    /\ stage \in {"heap init", "terminal"} => owned = HeapRun(s)
    /\ stage = "pmm command" =>
          \/ pmm_ret.ptr = 0 /\ owned = HeapRun(s)
          \/ \E block \in Nat \ HeapRun(s) :
                /\ pmm_ret.ptr = block * BLOCK_SIZE /\ pmm_ret.ptr # 0
                /\ owned = HeapRun(s) \cup {block}

AllocInv ==
    /\ pmm_booted => pmm_mbd \in Seens
    /\ stage \in BeforePmm => owned = {}
    /\ stage \in BeforeHeap \cup {"heap failed"} => NothingGranted
    /\ stage = "heap pages" =>
          \/ pmm_ret.ptr = 0 /\ NothingGranted
          \/ pmm_ret.ptr # 0 /\ \E s \in Nat : Granted(s)
    /\ stage = "heap map" => \E s \in Nat : Granted(s) /\ Mapping(s)
    /\ heap_head # 0 =>
          stage \in AfterHeap /\ \E s \in Nat : HeapAt(s) /\ OnlyHeapGranted(s)
    /\ stage \in {"terminal", "pmm command"} => heap_head # 0

LEMMA AllocInit == Init => AllocInv
<1> SUFFICES ASSUME Init PROVE AllocInv
  OBVIOUS
<1>1. stage = "video" /\ ~pmm_booted /\ owned = {} /\ heap_head = 0
  BY DEF Init
<1> QED
  BY <1>1 DEF AllocInv, BeforeHeap

\* The run lies above block 0 and inside the bitmap, and touches nothing reserved.
LEMMA UsableRun ==
    ASSUME NEW s \in Nat, Usable(s), pmm_mbd \in Seens
    PROVE  /\ s > 0 /\ s + HeapPages <= MAX_BLOCKS /\ HeapPages \in Nat \ {0}
           /\ BootBitmap \in PP!PmmType
           /\ HeapRun(s) \subseteq 1 .. MAX_BLOCKS - 1
           /\ \A r \in PP!InitialReserved(pmm_mbd) : HeapRun(s) \cap PP!ReservedBy(r) = {}
<1> PICK n : n = HeapPages
  OBVIOUS
<1>1. n \in Nat \ {0} /\ MAX_BLOCKS \in Nat
  BY HeapSizeType, SpaceType DEF Usable
<1>2. HeapRun(s) = s .. s + n - 1
  BY DEF HeapRun, PP!Run
<1>3. /\ BootBitmap \in PP!PmmType /\ 0 \notin PP!FreeOf(BootBitmap)
      /\ PP!FreeOf(BootBitmap) \cap UNION {PP!ReservedBy(r) : r \in PP!InitialReserved(pmm_mbd)} = {}
  BY PP!InitLemma, PmmSizes, PmmDescriptions DEF BootBitmap
<1>4. PP!FreeOf(BootBitmap) \subseteq 1 .. MAX_BLOCKS - 1
  <2>1. BootBitmap.max_blocks \in 0 .. MAX_BLOCKS
    BY <1>3 DEF PP!PmmType
  <2> QED
    BY <1>1, <1>3, <2>1 DEF PP!FreeOf, PP!Managed
<1>5. s \in HeapRun(s) /\ s + n - 1 \in HeapRun(s)
  BY <1>1, <1>2
<1>6. s > 0 /\ s + n <= MAX_BLOCKS
  BY <1>1, <1>4, <1>5 DEF Usable
<1> QED
  BY <1>1, <1>3, <1>4, <1>6 DEF Usable

\* Setting a free run and clearing it again restores the bitmap and its counter.
LEMMA SetThenUnset ==
    ASSUME NEW p \in PP!PmmType, NEW S, S \subseteq PP!FreeOf(p)
    PROVE  PP!UnsetBlocks(PP!SetBlocks(p, S), S) = p
<1> PICK q : q = PP!SetBlocks(p, S)
  OBVIOUS
<1>1. S \subseteq PP!Managed(p) /\ S \cap p.bitmap = {}
  BY DEF PP!FreeOf
<1>2. (S \cap PP!Managed(p)) \ p.bitmap = S
  BY <1>1
<1>3. PP!Cardinality(S) \in Nat
  BY <1>1, PP!ManagedFinite, PmmSizes, PmmDescriptions
<1>4. q = [bitmap |-> p.bitmap \cup S, max_blocks |-> p.max_blocks,
           used_blocks |-> p.used_blocks + PP!Cardinality(S)]
  BY <1>2 DEF PP!SetBlocks
<1>5. PP!Managed(q) = PP!Managed(p) /\ S \cap PP!Managed(q) \cap q.bitmap = S
  <2>1. q.max_blocks = p.max_blocks /\ q.bitmap = p.bitmap \cup S
    BY <1>4
  <2>2. PP!Managed(q) = PP!Managed(p)
    BY <2>1 DEF PP!Managed
  <2> QED
    BY <1>1, <2>1, <2>2
<1>6. p.used_blocks \in Nat
  BY DEF PP!PmmType
<1>7. /\ q.bitmap \ S = p.bitmap /\ q.max_blocks = p.max_blocks
      /\ q.used_blocks >= PP!Cardinality(S) /\ q.used_blocks - PP!Cardinality(S) = p.used_blocks
  BY <1>1, <1>3, <1>4, <1>6
<1>8. PP!UnsetBlocks(q, S) = [bitmap |-> p.bitmap, max_blocks |-> p.max_blocks,
                              used_blocks |-> p.used_blocks]
  BY <1>5, <1>7 DEF PP!UnsetBlocks
<1>9. p = [bitmap |-> p.bitmap, max_blocks |-> p.max_blocks, used_blocks |-> p.used_blocks]
  BY DEF PP!PmmType
<1> QED
  BY <1>8, <1>9

\* The steps that touch neither the allocators nor the page tables.
LEMMA AllocKept ==
    ASSUME AllocInv, UNCHANGED <<pmm_vars, pg_vars, heap_vars>>,
           \/ stage' = stage
           \/ stage' \in Ended
           \/ stage \in BeforePmm /\ stage' \in BeforePmm
           \/ stage \in BeforeHeap /\ stage' \in BeforeHeap
           \/ stage = "heap init" /\ heap_head # 0 /\ stage' = "terminal"
    PROVE  AllocInv'
<1>1. /\ UNCHANGED <<pmm, pmm_mbd, pmm_booted, owned, pmm_ret>>
      /\ UNCHANGED <<pt, pg_pc, pg_stage, pg_range, pg_status>>
      /\ UNCHANGED <<heap_head, heap_lo, heap_hi>>
  BY DEF pmm_vars, pg_vars, heap_vars
<1>2. NothingGranted' <=> NothingGranted
  BY <1>1 DEF NothingGranted, BootBitmap
<1>3. \A s : Usable(s)' <=> Usable(s)
  BY <1>1 DEF Usable, BootBitmap, HeapRun
<1>4. \A s : Granted(s)' <=> Granted(s)
  BY <1>1, <1>3 DEF Granted, BootBitmap, HeapRun
<1>5. \A s : Mapped(s)' <=> Mapped(s)
  BY <1>1 DEF Mapped, HeapRun, GP!Identity, GP!Translation
<1>6. \A s : Mapping(s)' <=> Mapping(s)
  BY <1>1, <1>5 DEF Mapping
<1>7. \A s : HeapAt(s)' <=> HeapAt(s)
  BY <1>1, <1>3, <1>5 DEF HeapAt, HeapRun
<1>8. CASE stage' = stage
  <2>1. \A s : OnlyHeapGranted(s)' <=> OnlyHeapGranted(s)
    BY <1>1, <1>8 DEF OnlyHeapGranted, HeapRun
  <2> QED
    BY <1>1, <1>2, <1>4, <1>6, <1>7, <1>8, <2>1 DEF AllocInv
<1>9. CASE stage' \in Ended
  <2>1. \A s : OnlyHeapGranted(s)'
    BY <1>9 DEF OnlyHeapGranted, Ended
  <2> QED
    BY <1>1, <1>7, <1>9, <2>1 DEF AllocInv, Ended, BeforePmm, BeforeHeap, AfterHeap
<1>10. CASE \/ stage \in BeforePmm /\ stage' \in BeforePmm
            \/ stage \in BeforeHeap /\ stage' \in BeforeHeap
  <2>1. heap_head' = 0
    BY <1>1, <1>10 DEF AllocInv, AfterHeap, Ended, BeforePmm, BeforeHeap
  <2> QED
    BY <1>1, <1>2, <1>10, <2>1 DEF AllocInv, BeforePmm, BeforeHeap
<1>11. CASE stage = "heap init" /\ heap_head # 0 /\ stage' = "terminal"
  <2>1. \A s : OnlyHeapGranted(s) => OnlyHeapGranted(s)'
    BY <1>1, <1>11 DEF OnlyHeapGranted, HeapRun
  <2> QED
    BY <1>1, <1>7, <1>11, <2>1 DEF AllocInv, AfterHeap, BeforePmm, BeforeHeap
<1> QED
  BY <1>8, <1>9, <1>10, <1>11

LEMMA AllocPmmInit ==
    ASSUME CInv, AllocInv, stage \in BeforePmm, PmmInit, mbd.present,
           UNCHANGED <<pg_vars, heap_vars>>
    PROVE  AllocInv'
<1>1. Seen \in Seens
  BY SeenTyped DEF CInv, BInv
<1>2. /\ pmm_booted' = TRUE /\ pmm_mbd' = Seen /\ pmm' = PP!PmmAfterInit(Seen)
      /\ stage' = "gdt" /\ UNCHANGED <<owned, pmm_ret>>
  BY SamePmmInit DEF PmmInit
<1>3. owned = {} /\ heap_head = 0
  BY DEF AllocInv, AfterHeap, Ended, BeforePmm
<1>4. heap_head' = 0
  BY <1>3 DEF heap_vars
<1>5. NothingGranted'
  BY <1>2, <1>3 DEF NothingGranted, BootBitmap
<1> QED
  BY <1>1, <1>2, <1>4, <1>5 DEF AllocInv, BeforePmm, BeforeHeap

\* Paging before the heap: nothing is granted, and there is no heap.
LEMMA AllocBootPaging ==
    ASSUME AllocInv, stage \in BeforeHeap, stage' \in BeforeHeap,
           UNCHANGED <<pmm_vars, heap_vars>>
    PROVE  AllocInv'
<1>1. UNCHANGED <<pmm, pmm_mbd, pmm_booted, owned, pmm_ret, heap_head>>
  BY DEF pmm_vars, heap_vars
<1>2. heap_head' = 0
  BY <1>1 DEF AllocInv, AfterHeap, Ended, BeforeHeap
<1>3. NothingGranted'
  BY <1>1 DEF NothingGranted, BootBitmap, AllocInv
<1> QED
  BY <1>1, <1>2, <1>3 DEF AllocInv, BeforePmm, BeforeHeap

LEMMA AllocHeapAlloc ==
    ASSUME CInv, AllocInv, HeapAlloc
    PROVE  AllocInv'
<1>1. /\ stage = "heap" /\ UNCHANGED <<pg_vars, heap_vars>> /\ NothingGranted
      /\ heap_head = 0 /\ pmm_mbd \in Seens
  BY DEF HeapAlloc, AllocInv, BeforeHeap, AfterHeap, Ended, NothingGranted
<1>2. heap_head' = 0
  BY <1>1 DEF heap_vars
<1>3. CASE HEAP_INITIAL_SIZE = 0
  <2>1. stage' = "heap failed" /\ UNCHANGED <<pmm, pmm_mbd, pmm_booted, owned>>
    BY <1>3 DEF HeapAlloc, pmm_vars
  <2>2. NothingGranted'
    BY <1>1, <2>1 DEF NothingGranted, BootBitmap
  <2> QED
    BY <1>1, <1>2, <2>1, <2>2 DEF AllocInv, BeforePmm, BeforeHeap
<1>4. CASE HEAP_INITIAL_SIZE # 0
  <2>0. stage' = "heap pages" /\ P!AllocBlocks(HeapPages)
    BY <1>4 DEF HeapAlloc
  <2>1. stage' = "heap pages" /\ PP!AllocBlocks(HeapPages) /\ HeapPages \in Nat
    <3>1. PP!AllocBlocks(HeapPages)
      BY <2>0, SameAlloc
    <3>2. HeapPages \in Nat
      BY HeapSizeType, SpaceType
    <3> QED
      BY <2>0, <3>1, <3>2
  <2>2. PICK s : s = PP!FirstRun(PP!FreeOf(pmm), HeapPages)
    OBVIOUS
  <2>3. \/ s = -1
        \/ /\ HeapPages > 0 /\ s \in PP!Blocks \ {0}
           /\ PP!Run(s, HeapPages) \subseteq PP!FreeOf(pmm)
    BY <2>1, <2>2, PP!FoundRun, PmmSizes, PmmDescriptions DEF CInv
  <2>4. CASE s = -1
    <3>1. pmm_ret'.ptr = 0 /\ UNCHANGED <<pmm, pmm_mbd, pmm_booted, owned>>
      <4>1. s < 0
        BY <2>4
      <4>2. /\ pmm_ret' = [count |-> HeapPages, ptr |-> 0]
            /\ UNCHANGED <<pmm, owned>> /\ UNCHANGED <<pmm_mbd, pmm_booted>>
        BY <2>1, <2>2, <4>1 DEF PP!AllocBlocks, PP!NULL
      <4> QED
        BY <4>2
    <3>2. NothingGranted'
      BY <1>1, <3>1 DEF NothingGranted, BootBitmap
    <3> QED
      BY <1>1, <1>2, <2>1, <3>1, <3>2 DEF AllocInv, BeforePmm, BeforeHeap
  <2>5. CASE s # -1
    <3>1. s \in Nat \ {0} /\ ~(s < 0)
      BY <2>3, <2>5, SpaceType DEF PP!Blocks
    <3>2. /\ pmm' = PP!SetBlocks(pmm, PP!Run(s, HeapPages))
          /\ pmm_ret'.ptr = s * BLOCK_SIZE
          /\ owned' = owned \cup PP!Run(s, HeapPages)
          /\ UNCHANGED <<pmm_mbd, pmm_booted>>
      <4>1. /\ pmm' = PP!SetBlocks(pmm, PP!Run(s, HeapPages))
            /\ pmm_ret' = [count |-> HeapPages, ptr |-> s * BLOCK_SIZE]
            /\ owned' = owned \cup PP!Run(s, HeapPages)
        BY <2>1, <2>2, <3>1 DEF PP!AllocBlocks, PP!BLOCK_TO_ADDR
      <4>2. UNCHANGED <<pmm_mbd, pmm_booted>>
        BY <2>1 DEF PP!AllocBlocks
      <4> QED
        BY <4>1, <4>2
    <3>3. s * BLOCK_SIZE # 0
      BY <3>1, SpaceType
    <3>4. Granted(s)'
      BY <1>1, <2>3, <2>5, <3>2 DEF NothingGranted, BootBitmap, Granted, Usable, HeapRun
    <3> QED
      BY <1>1, <1>2, <2>1, <3>1, <3>2, <3>3, <3>4 DEF AllocInv, BeforePmm, BeforeHeap
  <2> QED
    BY <2>4, <2>5
<1> QED
  BY <1>3, <1>4

\* The pages of the run are those that hold a byte of the range.
LEMMA RunCovered ==
    ASSUME NEW s \in Nat, s > 0, HeapPages > 0, s + HeapPages <= MAX_BLOCKS
    PROVE  /\ HeapRun(s) \subseteq GP!Covered(s * BLOCK_SIZE, HeapBytes)
           /\ s + HeapPages < MAX_BLOCKS => GP!BelowTop(s * BLOCK_SIZE, HeapBytes)
<1> PICK n : n = HeapPages
  OBVIOUS
<1>1. n \in Nat \ {0} /\ MAX_BLOCKS \in Nat
  BY HeapSizeType, SpaceType
<1>2. HeapRun(s) = s .. s + n - 1
  BY DEF HeapRun, PP!Run
<1>3. HeapBytes > 0 /\ (s + n) * BLOCK_SIZE = s * BLOCK_SIZE + HeapBytes
  BY HeapSizes32
<1>4. DIR_ENTRIES * ENTRIES = MAX_BLOCKS
  BY BootAssumption
<1>5. ASSUME NEW page \in s .. s + n - 1
      PROVE  page \in GP!Covered(s * BLOCK_SIZE, HeapBytes)
  <2>1. /\ page \in Int /\ s \in Int /\ s + n \in Int /\ page + 1 \in Int
        /\ page < s + n /\ s < page + 1 /\ page \in 0 .. MAX_BLOCKS - 1
    BY <1>1
  <2>2. page * BLOCK_SIZE < (s + n) * BLOCK_SIZE
    BY <2>1, TimesBlock
  <2>3. s * BLOCK_SIZE < (page + 1) * BLOCK_SIZE
    BY <2>1, TimesBlock
  <2> QED
    BY <1>3, <1>4, <2>1, <2>2, <2>3 DEF GP!Covered, GP!VPages
<1>6. s + n < MAX_BLOCKS => s * BLOCK_SIZE + HeapBytes <= ADDR_SPACE - BLOCK_SIZE
  BY HeapSizes32
<1> QED
  BY <1>2, <1>5, <1>6, PagingSpace DEF GP!BelowTop

LEMMA AllocHeapMap ==
    ASSUME CInv, AllocInv, HeapMap
    PROVE  AllocInv'
<1>1. /\ stage = "heap pages" /\ UNCHANGED <<pmm, pmm_mbd, pmm_booted, owned, pmm_ret, heap_head>>
      /\ heap_head = 0
  BY DEF HeapMap, pmm_vars, heap_vars, AllocInv, AfterHeap, Ended
<1>2. heap_head' = 0
  BY <1>1
<1>3. CASE pmm_ret.ptr = 0
  <2>1. NothingGranted /\ stage' = "heap failed"
    BY <1>1, <1>3 DEF HeapMap, AllocInv
  <2>2. NothingGranted'
    BY <1>1, <2>1 DEF NothingGranted, BootBitmap
  <2> QED
    BY <1>1, <1>2, <2>1, <2>2 DEF AllocInv, BeforePmm, BeforeHeap
<1>4. CASE pmm_ret.ptr # 0
  <2>1. PICK s \in Nat : Granted(s)
    BY <1>1, <1>4 DEF AllocInv
  <2>2. pmm_mbd \in Seens /\ Usable(s) /\ pmm_ret.ptr = s * BLOCK_SIZE
    BY <2>1 DEF AllocInv, Granted, Usable
  <2>3. s > 0 /\ s + HeapPages <= MAX_BLOCKS /\ HeapPages > 0
    BY <2>2, UsableRun, HeapSizeType DEF Usable
  <2>4. HeapBytes > 0
    BY <2>3, HeapSizes32
  <2>5. stage' = "heap map" /\ GP!IdentityMapRange(s * BLOCK_SIZE, HeapBytes, {WRITABLE})
    BY <1>4, <2>2, SamePaging DEF HeapMap
  <2>6. GP!EnterRange(s * BLOCK_SIZE, HeapBytes, {WRITABLE}, "none")
    BY <2>5 DEF GP!IdentityMapRange
  <2>7. s * BLOCK_SIZE \in GP!Word /\ HeapBytes \in GP!Word
    <3>1. pmm_ret.ptr \in 0 .. ADDR_SPACE - BLOCK_SIZE
      BY PointerOfBlock DEF CInv
    <3> QED
      BY <2>2, <3>1, SpaceType, HeapSizeType, PagingSpace DEF GP!Word, Words
  <2>8. /\ pg_pc' = "map" /\ pg_stage' = "none"
        /\ pg_range' = [start |-> s * BLOCK_SIZE, size |-> HeapBytes, flags |-> {WRITABLE}]
    BY <2>4, <2>6, <2>7, GP!RangeStarts, PagingSizes, PagingArguments, PagingClients
  <2>9. Granted(s)' /\ Mapping(s)'
    BY <1>1, <2>1, <2>8 DEF Granted, Usable, BootBitmap, HeapRun, Mapping
  <2> QED
    BY <1>1, <1>2, <2>2, <2>5, <2>9 DEF AllocInv, BeforePmm, BeforeHeap
<1> QED
  BY <1>3, <1>4

\* When the call succeeds, it has mapped the whole run.
LEMMA AllocMapping ==
    ASSUME CInv, AllocInv, stage = "heap map", PagingStep
    PROVE  AllocInv'
<1>1. /\ stage' = "heap map" /\ heap_head = 0
      /\ UNCHANGED <<pmm, pmm_mbd, pmm_booted, owned, pmm_ret, heap_head>>
  BY DEF PagingStep, pmm_vars, heap_vars, AllocInv, AfterHeap, Ended
<1>2. PICK s \in Nat : Granted(s) /\ Mapping(s)
  BY DEF AllocInv
<1>3. pmm_mbd \in Seens /\ Usable(s)
  BY <1>2 DEF AllocInv, Granted, Usable
<1>4. s > 0 /\ s + HeapPages <= MAX_BLOCKS /\ HeapPages > 0
  BY <1>3, UsableRun, HeapSizeType DEF Usable
<1>5. /\ pg_pc = "map" /\ pg_stage = "none"
      /\ pg_range = [start |-> s * BLOCK_SIZE, size |-> HeapBytes, flags |-> {WRITABLE}]
      /\ GP!MapRangeStep \/ GP!MapRangeDone
  <2>1. pg_pc # "idle"
    BY DEF PagingStep, G!MapRangeStep, G!MapRangeDone, G!EnablePaging, G!SetActive
  <2>2. pg_pc = "map"
    BY <1>2, <2>1 DEF Mapping
  <2>3. ~G!EnablePaging /\ ~G!SetActive
    BY <2>2 DEF G!EnablePaging, G!SetActive
  <2> QED
    BY <1>2, <2>1, <2>2, <2>3, SamePaging DEF Mapping, PagingStep
<1>6. Mapping(s)'
  <2>1. CASE GP!MapRangeStep
    <3>1. UNCHANGED pg_range
      BY <2>1 DEF GP!MapRangeStep
    <3>2. \/ pg_pc' = pg_pc /\ pg_stage' = pg_stage
          \/ pg_pc' = "idle" /\ pg_status' # "OK"
      BY <2>1 DEF GP!MapRangeStep
    <3> QED
      BY <1>5, <3>1, <3>2 DEF Mapping
  <2>2. CASE GP!MapRangeDone
    <3>1. pg_pc' = "idle" /\ UNCHANGED pt /\ pg_addr >= pg_end
      BY <1>5, <2>2 DEF GP!MapRangeDone
    <3>2. ASSUME s + HeapPages < MAX_BLOCKS
          PROVE  Mapped(s)
      <4>1. GP!BelowTop(pg_range.start, pg_range.size)
        BY <1>4, <1>5, <3>2, RunCovered
      <4>2. GP!RangeMapped
        BY <4>1, GP!RangeIsMapped, PagingSizes, PagingArguments, PagingClients DEF CInv
      <4>3. \A page \in GP!Covered(s * BLOCK_SIZE, HeapBytes) : GP!Identity(page, {WRITABLE})
        BY <1>5, <3>1, <4>2 DEF GP!RangeMapped
      <4> QED
        BY <1>4, <4>3, RunCovered DEF Mapped
    <3>3. Mapped(s) => Mapped(s)'
      BY <3>1 DEF Mapped, HeapRun, GP!Identity, GP!Translation
    <3> QED
      BY <3>1, <3>2, <3>3 DEF Mapping
  <2> QED
    BY <1>5, <2>1, <2>2
<1>7. Granted(s)'
  BY <1>1, <1>2 DEF Granted, Usable, BootBitmap, HeapRun
<1> QED
  BY <1>1, <1>3, <1>6, <1>7 DEF AllocInv, BeforePmm, BeforeHeap

\* heap_init keeps the whole run, or has no heap when the run ends with the
\* address space.
LEMMA HeapInitRegion ==
    ASSUME NEW s \in Nat, s > 0, HeapPages > 0, s + HeapPages <= MAX_BLOCKS,
           heap_head = 0, HP!HeapInit(s * BLOCK_SIZE, HeapBytes), heap_head' # 0
    PROVE  /\ heap_lo' = s * BLOCK_SIZE /\ heap_hi' = (s + HeapPages) * BLOCK_SIZE
           /\ s + HeapPages < MAX_BLOCKS
<1> PICK lo, hi, start, end, last :
       /\ start = s * BLOCK_SIZE /\ end = start + HeapBytes
       /\ lo = HP!ALIGN_UP(start) /\ hi = HP!ALIGN_DOWN(end % ADDR_SPACE)
       /\ last = start + ALIGNMENT - 1
  OBVIOUS
<1>1. /\ ALIGNMENT \in Nat \ {0} /\ BLOCK_SIZE % ALIGNMENT = 0 /\ BLOCK_SIZE \in Nat \ {0}
      /\ ADDR_SPACE \in Nat \ {0}
  BY BootAssumption, SpaceType
<1>2. ALIGNMENT <= BLOCK_SIZE
  BY AlignmentFits
<1>3. /\ start \in Nat /\ end = (s + HeapPages) * BLOCK_SIZE /\ end <= ADDR_SPACE
      /\ HeapBytes > 0 /\ HeapBytes \in Nat
      /\ s + HeapPages = MAX_BLOCKS => end = ADDR_SPACE
      /\ s + HeapPages < MAX_BLOCKS => end <= ADDR_SPACE - BLOCK_SIZE
  BY HeapSizes32, HeapSizeType, SpaceType DEF Words
<1>4. start % ALIGNMENT = 0 /\ end % ALIGNMENT = 0
  <2>1. s \in Int /\ s + HeapPages \in Int /\ BLOCK_SIZE \in Int
    BY <1>1, HeapSizeType, SpaceType
  <2>2. (s * BLOCK_SIZE) % ALIGNMENT = 0
    BY <1>1, <2>1, MultipleMod, Zenon
  <2>3. ((s + HeapPages) * BLOCK_SIZE) % ALIGNMENT = 0
    BY <1>1, <2>1, MultipleMod, Zenon
  <2> QED
    BY <1>3, <2>2, <2>3
<1>5. CASE s + HeapPages = MAX_BLOCKS
  <2>1. end % ADDR_SPACE = 0
    <3>1. 1 \in Int /\ (1 * ADDR_SPACE) % ADDR_SPACE = 0
      BY <1>1
    <3> QED
      BY <1>1, <1>3, <1>5, <3>1
  <2>2. hi = 0
    <3>1. 0 % ALIGNMENT = 0
      BY <1>1
    <3> QED
      BY <2>1, <3>1 DEF HP!ALIGN_DOWN
  <2>3. lo \in Nat
    <3>1. last \in Int
      BY <1>1, <1>3
    <3>2. last % ADDR_SPACE \in Nat
      BY <1>1, <3>1, DivMod
    <3> QED
      BY <3>2, HP!AlignDown, HeapSizes DEF HP!ALIGN_UP
  <2>4. hi <= lo
    BY <2>2, <2>3
  <2>5. UNCHANGED heap_head
    BY <2>4 DEF HP!HeapInit, HP!heap
  <2> QED
    BY <2>5
<1>6. CASE s + HeapPages < MAX_BLOCKS
  <2>1. end % ADDR_SPACE = end
    <3>1. end \in 0 .. ADDR_SPACE - 1
      BY <1>1, <1>3, <1>6
    <3> QED
      BY <1>1, <3>1, SmallMod
  <2>2. hi = end
    BY <1>3, <1>4, <2>1 DEF HP!ALIGN_DOWN
  <2>3. /\ lo \in HP!Slots /\ start <= lo /\ lo < start + ALIGNMENT
    <3>1. start + ALIGNMENT - 1 < ADDR_SPACE
      BY <1>1, <1>2, <1>3, <1>6
    <3> QED
      BY <1>3, <3>1, HP!AlignUp, HeapSizes
  <2>4. HP!Aligned(start) /\ HP!Aligned(lo) /\ lo \in Nat
    BY <1>1, <1>3, <1>4, <2>3 DEF HP!Aligned, HP!Slots
  <2>5. ~(start < lo)
    <3>1. start < lo => start + ALIGNMENT <= lo
      BY <2>4, HP!AlignedGap, HeapSizes
    <3> QED
      BY <1>1, <1>3, <2>3, <2>4, <3>1
  <2>6. lo = start
    BY <1>3, <2>3, <2>4, <2>5
  <2>7. heap_lo' = lo /\ heap_hi' = hi
    BY DEF HP!HeapInit, HP!heap
  <2> QED
    BY <1>3, <1>6, <2>2, <2>6, <2>7
<1> QED
  BY <1>5, <1>6, HeapSizeType, SpaceType

LEMMA AllocHeapMapped ==
    ASSUME CInv, AllocInv, HeapMapped
    PROVE  AllocInv'
<1>1. /\ stage = "heap map" /\ heap_head = 0 /\ pg_pc = "idle"
      /\ UNCHANGED <<pt, pg_pc, pg_stage, pg_range, pg_status>>
  BY DEF HeapMapped, pg_vars, AllocInv, AfterHeap, Ended
<1>2. PICK s \in Nat : Granted(s) /\ Mapping(s)
  BY <1>1 DEF AllocInv
<1>3. pmm_mbd \in Seens /\ Usable(s) /\ pmm_ret.ptr = s * BLOCK_SIZE
  BY <1>2 DEF AllocInv, Granted, Usable
<1>4. /\ s > 0 /\ s + HeapPages <= MAX_BLOCKS /\ HeapPages > 0
      /\ BootBitmap \in PP!PmmType
  BY <1>3, UsableRun, HeapSizeType DEF Usable
<1>5. CASE pg_status = "OK"
  <2>1. /\ HP!HeapInit(s * BLOCK_SIZE, HeapBytes) /\ stage' = "heap init"
        /\ UNCHANGED <<pmm, pmm_mbd, pmm_booted, owned, pmm_ret>>
    BY <1>3, <1>5, SameHeap DEF HeapMapped, pmm_vars
  <2>2. CASE heap_head' = 0
    BY <1>3, <2>1, <2>2 DEF AllocInv, BeforePmm, BeforeHeap
  <2>3. CASE heap_head' # 0
    <3>1. /\ heap_lo' = s * BLOCK_SIZE /\ heap_hi' = (s + HeapPages) * BLOCK_SIZE
          /\ s + HeapPages < MAX_BLOCKS
      BY <1>1, <1>4, <2>1, <2>3, HeapInitRegion
    <3>2. Mapped(s)
      BY <1>1, <1>2, <1>5, <3>1 DEF Mapping
    <3>3. Mapped(s)'
      BY <1>1, <3>2 DEF Mapped, HeapRun, GP!Identity, GP!Translation
    <3>4. Usable(s)' /\ owned' = HeapRun(s) /\ HeapRun(s)' = HeapRun(s)
      BY <1>2, <2>1 DEF Granted, Usable, BootBitmap, HeapRun
    <3>5. HeapAt(s)' /\ OnlyHeapGranted(s)'
      BY <2>1, <3>1, <3>3, <3>4 DEF HeapAt, OnlyHeapGranted
    <3> QED
      BY <1>3, <2>1, <3>5 DEF AllocInv, BeforePmm, BeforeHeap, AfterHeap
  <2> QED
    BY <2>2, <2>3
<1>6. CASE pg_status # "OK"
  <2>1. P!FreeBlocks(pmm_ret.ptr, HeapPages) /\ stage' = "heap failed" /\ heap_head' = 0
    BY <1>1, <1>6 DEF HeapMapped, heap_vars
  <2>2. PP!FreeBlocks(s * BLOCK_SIZE, HeapPages)
    BY <1>3, <2>1, SameFree
  <2>3. PP!ADDR_TO_BLOCK(s * BLOCK_SIZE) = s
    <3>1. s \in Int
      OBVIOUS
    <3>2. (s * BLOCK_SIZE) \div BLOCK_SIZE = s
      BY <3>1, SpaceType, MulDiv
    <3> QED
      BY <3>2 DEF PP!ADDR_TO_BLOCK
  <2>4. s * BLOCK_SIZE # 0 /\ HeapPages # 0
    BY <1>4, HeapSizes32
  <2>5. /\ pmm' = PP!UnsetBlocks(pmm, HeapRun(s)) /\ owned' = owned \ HeapRun(s)
        /\ UNCHANGED <<pmm_mbd, pmm_booted>>
    BY <2>2, <2>3, <2>4 DEF PP!FreeBlocks, PP!NULL, HeapRun
  <2>6. pmm' = BootBitmap /\ owned' = {}
    BY <1>2, <1>4, <2>5, SetThenUnset DEF Granted, Usable
  <2>7. NothingGranted'
    BY <1>3, <2>5, <2>6 DEF NothingGranted, BootBitmap, Usable
  <2> QED
    BY <1>3, <2>1, <2>5, <2>7 DEF AllocInv, BeforePmm, BeforeHeap
<1> QED
  BY <1>5, <1>6

\* The command pmm takes a block that is not the heap's, and gives the same back.
LEMMA AllocCommand ==
    ASSUME CInv, AllocInv, CommandPmm \/ CommandPmmFree
    PROVE  AllocInv'
<1>1. /\ stage \in {"terminal", "pmm command"} /\ heap_head # 0
      /\ UNCHANGED <<pt, heap_head, heap_lo, heap_hi>>
  BY DEF CommandPmm, CommandPmmFree, pg_vars, heap_vars, AllocInv
<1>2. PICK s \in Nat : HeapAt(s) /\ OnlyHeapGranted(s)
  BY <1>1 DEF AllocInv
<1>3. pmm_mbd \in Seens /\ Usable(s)
  BY <1>2 DEF AllocInv, HeapAt, Usable
<1>4. ASSUME UNCHANGED <<pmm_mbd, pmm_booted>>, HeapRun(s) \subseteq owned', OnlyHeapGranted(s)',
             stage' \in {"terminal", "pmm command"}
      PROVE  AllocInv'
  <2>1. Mapped(s)'
    BY <1>1, <1>2 DEF HeapAt, Mapped, HeapRun, GP!Identity, GP!Translation
  <2>2. Usable(s)' /\ HeapRun(s)' = HeapRun(s)
    BY <1>3, <1>4 DEF Usable, BootBitmap, HeapRun
  <2>3. HeapAt(s)'
    BY <1>1, <1>2, <1>4, <2>1, <2>2 DEF HeapAt
  <2> QED
    BY <1>1, <1>3, <1>4, <2>3 DEF AllocInv, BeforePmm, BeforeHeap, AfterHeap
<1>5. HeapRun(s)' = HeapRun(s)
  BY DEF HeapRun
<1>6. CASE CommandPmm
  <2>1. P!AllocBlocks(1) /\ stage = "terminal" /\ stage' = "pmm command"
    BY <1>6 DEF CommandPmm
  <2>2. PP!AllocBlocks(1) /\ owned = HeapRun(s)
    BY <1>2, <2>1, SameAlloc DEF OnlyHeapGranted
  <2>3. PICK t : t = PP!FirstRun(PP!FreeOf(pmm), 1)
    OBVIOUS
  <2>4. \/ t = -1
        \/ t \in PP!Blocks \ {0} /\ PP!Run(t, 1) \subseteq PP!FreeOf(pmm)
    BY <2>3, PP!FoundRun, PmmSizes, PmmDescriptions DEF CInv
  <2>5. UNCHANGED <<pmm_mbd, pmm_booted>>
    BY <2>2 DEF PP!AllocBlocks
  <2>6. CASE t = -1
    <3>1. t < 0
      BY <2>6
    <3>2. pmm_ret' = [count |-> 1, ptr |-> 0] /\ owned' = owned
      BY <2>2, <2>3, <3>1 DEF PP!AllocBlocks, PP!NULL
    <3> QED
      BY <1>4, <1>5, <2>1, <2>2, <2>5, <3>2 DEF OnlyHeapGranted
  <2>7. CASE t # -1
    <3>1. t \in Nat \ {0} /\ ~(t < 0)
      BY <2>4, <2>7, SpaceType DEF PP!Blocks
    <3>2. PP!Run(t, 1) = {t}
      BY <3>1 DEF PP!Run
    <3>3. /\ pmm_ret' = [count |-> 1, ptr |-> t * BLOCK_SIZE]
          /\ owned' = owned \cup {t}
      BY <2>2, <2>3, <3>1, <3>2 DEF PP!AllocBlocks, PP!BLOCK_TO_ADDR
    <3>4. t \notin owned
      BY <2>4, <2>7, <3>2 DEF CInv, PP!IInv, PP!FreeOf
    <3>5. t * BLOCK_SIZE # 0
      BY <3>1, SpaceType
    <3>6. OnlyHeapGranted(s)'
      <4>1. t \in Nat \ HeapRun(s) /\ pmm_ret'.ptr = t * BLOCK_SIZE /\ pmm_ret'.ptr # 0
            /\ owned' = HeapRun(s) \cup {t}
        BY <2>2, <3>1, <3>3, <3>4, <3>5
      <4> QED
        BY <1>5, <2>1, <4>1 DEF OnlyHeapGranted
    <3> QED
      BY <1>4, <2>1, <2>2, <2>5, <3>3, <3>6
  <2> QED
    BY <2>6, <2>7
<1>7. CASE CommandPmmFree
  <2>1. stage = "pmm command" /\ stage' = "terminal"
    BY <1>7 DEF CommandPmmFree
  <2>2. CASE pmm_ret.ptr = 0
    <3>1. UNCHANGED <<pmm, pmm_mbd, pmm_booted, owned, pmm_ret>> /\ owned = HeapRun(s)
      BY <1>2, <1>7, <2>1, <2>2 DEF CommandPmmFree, pmm_vars, OnlyHeapGranted
    <3> QED
      BY <1>4, <1>5, <2>1, <3>1 DEF OnlyHeapGranted
  <2>3. CASE pmm_ret.ptr # 0
    <3>1. PICK block \in Nat \ HeapRun(s) :
             pmm_ret.ptr = block * BLOCK_SIZE /\ owned = HeapRun(s) \cup {block}
      BY <1>2, <2>1, <2>3 DEF OnlyHeapGranted
    <3>2. PP!FreeBlocks(block * BLOCK_SIZE, 1)
      <4>1. P!FreeBlocks(pmm_ret.ptr, 1)
        BY <1>7, <2>3 DEF CommandPmmFree
      <4> QED
        BY <3>1, <4>1, SameFree
    <3>3. PP!Run(PP!ADDR_TO_BLOCK(block * BLOCK_SIZE), 1) = {block}
      <4>1. block \in Int
        OBVIOUS
      <4>2. (block * BLOCK_SIZE) \div BLOCK_SIZE = block
        BY <4>1, SpaceType, MulDiv
      <4> QED
        BY <4>1, <4>2 DEF PP!ADDR_TO_BLOCK, PP!Run
    <3>4. owned' = owned \ {block} /\ UNCHANGED <<pmm_mbd, pmm_booted>>
      BY <2>3, <3>1, <3>2, <3>3 DEF PP!FreeBlocks, PP!NULL
    <3>5. owned' = HeapRun(s)
      BY <3>1, <3>4
    <3> QED
      BY <1>4, <1>5, <2>1, <3>4, <3>5 DEF OnlyHeapGranted
  <2> QED
    BY <2>2, <2>3
<1> QED
  BY <1>6, <1>7

LEMMA AllocNext ==
    ASSUME CInv, AllocInv, [Next]_bvars
    PROVE  AllocInv'
<1>1. CASE UNCHANGED bvars
  BY <1>1, AllocKept DEF bvars
<1>2. CASE ValidateVideo \/ ValidateGeometry \/ ParseMap \/ WalkStep \/ MapParsed
  BY <1>2, AllocKept DEF ValidateVideo, ValidateGeometry, ParseMap, WalkStep, MapParsed, Panic,
     BeforePmm, Ended
<1>3. CASE CeilingFound \/ RegionsReleased
  <2>1. /\ stage \in BeforePmm /\ mbd.present /\ UNCHANGED <<pg_vars, heap_vars>>
        /\ \/ PmmInit
           \/ stage' = "release" /\ UNCHANGED pmm_vars
    BY <1>3 DEF CeilingFound, RegionsReleased, BeforePmm, CInv, Wired, Ended
  <2> QED
    BY <2>1, AllocPmmInit, AllocKept DEF BeforePmm
<1>4. CASE \/ InstallGdt \/ IdtInstall \/ IsrInstall \/ IrqInstall \/ PicInit
           \/ PagingReturned
  BY <1>4, AllocKept DEF InstallGdt, IdtInstall, IsrInstall, IrqInstall, PicInit,
     PagingReturned, Panic, BeforeHeap, Ended
<1>5. CASE StartPaging \/ (PagingStep /\ stage = "paging init")
  BY <1>5, AllocBootPaging DEF StartPaging, PagingStep, BeforeHeap
<1>6. CASE PagingStep /\ stage # "paging init"
  BY <1>6, AllocMapping DEF PagingStep
<1>7. CASE HeapReturned \/ CommandExit \/ DrawPanic
           \/ \E regs \in {"regs", "page fault"} : Fault(regs)
  BY <1>7, AllocKept DEF HeapReturned, CommandExit, DrawPanic, Fault, Panic, Ended
<1> QED
  BY <1>1, <1>2, <1>3, <1>4, <1>5, <1>6, <1>7, AllocHeapAlloc, AllocHeapMap,
     AllocHeapMapped, AllocCommand DEF Next, Kernel

-----------------------------------------------------------------------------
(* What the invariant says of the heap                                      *)

\* The blocks that hold a byte of the heap are the run.
LEMMA HeapBlocksAre ==
    ASSUME NEW s \in Nat, HeapAt(s), heap_head # 0, pmm_mbd \in Seens
    PROVE  HeapBlocks = HeapRun(s) /\ heap_hi - heap_lo = HeapBytes /\ heap_lo \in Nat
<1> PICK n : n = HeapPages
  OBVIOUS
<1>1. /\ s > 0 /\ s + n <= MAX_BLOCKS /\ n \in Nat \ {0} /\ MAX_BLOCKS \in Nat
      /\ BLOCK_SIZE \in Nat \ {0}
  BY UsableRun, SpaceType DEF HeapAt
<1>2. HeapRun(s) = s .. s + n - 1
  BY DEF HeapRun, PP!Run
<1>3. /\ heap_lo = s * BLOCK_SIZE /\ heap_hi = (s + n) * BLOCK_SIZE
      /\ (s + n) * BLOCK_SIZE = s * BLOCK_SIZE + HeapBytes
      /\ HeapBytes > 0 /\ s * BLOCK_SIZE \in Nat /\ HeapBytes \in Nat
  BY <1>1, HeapSizes32, HeapSizeType, SpaceType DEF HeapAt, Words
<1>4. heap_hi - heap_lo = HeapBytes
  BY <1>3
<1>5. ASSUME NEW block \in 0 .. MAX_BLOCKS - 1
      PROVE  P!BlockBytes(block) \cap BytesOf(heap_lo, HeapBytes) # {} <=> block \in s .. s + n - 1
  <2>1. block \in Int /\ s \in Int /\ s + n \in Int /\ block + 1 \in Int /\ block \in Nat
    BY <1>1
  <2>2. PP!BlockBytes(block) \cap PP!Bytes([base |-> heap_lo, size |-> HeapBytes]) # {}
        <=> /\ HeapBytes > 0
            /\ block * BLOCK_SIZE < heap_lo + HeapBytes
            /\ heap_lo < (block + 1) * BLOCK_SIZE
    BY <1>3, <2>1, PP!BlockTouches, PmmSizes, PmmDescriptions
  <2>3. PP!BlockBytes(block) = P!BlockBytes(block)
        /\ PP!Bytes([base |-> heap_lo, size |-> HeapBytes]) = BytesOf(heap_lo, HeapBytes)
    BY DEF PP!BlockBytes, P!BlockBytes, PP!Bytes, BytesOf
  <2>4. block * BLOCK_SIZE < (s + n) * BLOCK_SIZE <=> block < s + n
    BY <2>1, TimesBlock
  <2>5. s * BLOCK_SIZE < (block + 1) * BLOCK_SIZE <=> s < block + 1
    BY <2>1, TimesBlock
  <2>6. heap_lo + HeapBytes = (s + n) * BLOCK_SIZE
    BY <1>3
  <2>7. block \in s .. s + n - 1 <=> s < block + 1 /\ block < s + n
    BY <1>1, <2>1
  <2>8. /\ HeapBytes > 0
        /\ block * BLOCK_SIZE < heap_lo + HeapBytes <=> block < s + n
        /\ heap_lo < (block + 1) * BLOCK_SIZE <=> s < block + 1
    BY <1>3, <2>4, <2>5, <2>6
  <2> QED
    BY <2>2, <2>3, <2>7, <2>8
<1>6. HeapBlocks = {block \in 0 .. MAX_BLOCKS - 1 :
                       P!BlockBytes(block) \cap BytesOf(heap_lo, HeapBytes) # {}}
  BY <1>4 DEF HeapBlocks, BlocksOf
<1>7. s .. s + n - 1 \subseteq 0 .. MAX_BLOCKS - 1
  BY <1>1
<1> QED
  BY <1>2, <1>3, <1>4, <1>5, <1>6, <1>7

\* No byte of the heap belongs to a reserved region.
LEMMA HeapApart ==
    ASSUME NEW s \in Nat, HeapAt(s), heap_head # 0, pmm_mbd \in Seens,
           NEW r \in PP!InitialReserved(pmm_mbd)
    PROVE  BytesOf(heap_lo, heap_hi - heap_lo) \cap BytesOf(r.base, r.size) = {}
<1> SUFFICES ASSUME NEW byte \in BytesOf(heap_lo, heap_hi - heap_lo) \cap BytesOf(r.base, r.size)
             PROVE  FALSE
  OBVIOUS
<1>1. /\ HeapBlocks = HeapRun(s) /\ heap_hi - heap_lo = HeapBytes /\ heap_lo \in Nat
      /\ HeapBytes \in Nat /\ BLOCK_SIZE \in Nat \ {0}
  BY HeapBlocksAre, HeapSizeType, SpaceType DEF Words
<1>2. PICK base \in Nat, size \in 0 .. PP!ADDR_SPACE - 1 : r = [base |-> base, size |-> size]
  BY PP!ReservedType, PmmSizes, PmmDescriptions
<1>3. byte \in Nat /\ byte \in BytesOf(base, size)
  BY <1>1, <1>2 DEF BytesOf
<1> PICK block : block = byte \div BLOCK_SIZE
  OBVIOUS
<1>4. /\ block \in Int /\ block * BLOCK_SIZE <= byte /\ byte < (block + 1) * BLOCK_SIZE
      /\ block * BLOCK_SIZE \in Int /\ (block + 1) * BLOCK_SIZE \in Int
  <2>1. byte \in Int
    BY <1>3
  <2>2. block \in Int
    BY <1>1, <2>1, DivMod
  <2>3. block * BLOCK_SIZE <= byte
    BY <1>1, <2>1, <2>2, DivFloor
  <2>4. ~((block + 1) * BLOCK_SIZE <= byte)
    <3>1. block + 1 \in Int /\ ~(block + 1 <= block)
      BY <2>2
    <3> QED
      BY <1>1, <2>1, <3>1, DivFloor
  <2>5. (block + 1) * BLOCK_SIZE \in Int /\ block * BLOCK_SIZE \in Int
    BY <1>1, <2>2
  <2> QED
    BY <2>1, <2>2, <2>3, <2>4, <2>5
<1>5. byte \in P!BlockBytes(block) /\ byte \in PP!BlockBytes(block)
  BY <1>3, <1>4 DEF P!BlockBytes, PP!BlockBytes
<1>6. block \in HeapRun(s)
  <2>1. block \in 0 .. MAX_BLOCKS - 1
    <3>1. /\ heap_lo + HeapBytes = (s + HeapPages) * BLOCK_SIZE
          /\ s + HeapPages <= MAX_BLOCKS /\ s + HeapPages \in Int /\ heap_lo = s * BLOCK_SIZE
      BY <1>1, UsableRun, HeapSizes32 DEF HeapAt
    <3>2. byte < (s + HeapPages) * BLOCK_SIZE /\ s * BLOCK_SIZE <= byte
      BY <1>1, <1>3, <3>1 DEF BytesOf
    <3>3. block < s + HeapPages
      <4>1. block * BLOCK_SIZE < (s + HeapPages) * BLOCK_SIZE
        <5>1. block * BLOCK_SIZE \in Int /\ (s + HeapPages) * BLOCK_SIZE \in Int
          BY <1>4, <3>1, TimesBlock
        <5> QED
          BY <1>3, <1>4, <3>2, <5>1
      <4> QED
        BY <1>4, <3>1, <4>1, TimesBlock
    <3>4. s < block + 1
      <4>1. s * BLOCK_SIZE < (block + 1) * BLOCK_SIZE
        <5>1. s \in Int /\ block + 1 \in Int
          BY <1>4
        <5>2. s * BLOCK_SIZE \in Int /\ (block + 1) * BLOCK_SIZE \in Int
          BY <5>1, TimesBlock
        <5> QED
          BY <1>3, <1>4, <3>2, <5>2
      <4>2. s \in Int /\ block + 1 \in Int
        BY <1>4
      <4> QED
        BY <4>1, <4>2, TimesBlock
    <3> QED
      BY <1>4, <3>1, <3>3, <3>4, SpaceType
  <2>2. P!BlockBytes(block) \cap BytesOf(heap_lo, heap_hi - heap_lo) # {}
    BY <1>5
  <2> QED
    BY <1>1, <2>1, <2>2 DEF HeapBlocks, BlocksOf
<1>7. block \in PP!ReservedBy(r)
  <2>1. block \in Nat
    BY <1>6, UsableRun DEF HeapAt
  <2>2. PP!BlockBytes(block) \cap PP!Bytes([base |-> base, size |-> size]) # {}
    BY <1>3, <1>5 DEF PP!Bytes, BytesOf
  <2> QED
    BY <1>2, <2>1, <2>2, PP!ReservedMeaning, PmmSizes, PmmDescriptions
<1> QED
  BY <1>6, <1>7, UsableRun DEF HeapAt

\* heap_init_from_pmm keeps the PMM, the page tables and the heap in step, for
\* every map, frame and initial size: the heap is a run of pages that were free
\* after pmm_init, granted and never granted again, all mapped to themselves and
\* writable, apart from everything reserved; at the terminal nothing else is
\* granted; and a heap that could not be mapped leaves the bitmap as it was.
THEOREM HeapAlwaysHoldsItsPages == Spec => []HeapHoldsItsPages
<1>1. CInv /\ AllocInv /\ [Next]_bvars => AllocInv'
  BY AllocNext
<1>2. ASSUME CInv, AllocInv, heap_head # 0
      PROVE  /\ HeapBlocks \subseteq owned
             /\ \A page \in HeapBlocks : G!Identity(page, {WRITABLE})
             /\ heap_hi - heap_lo >= HEAP_INITIAL_SIZE
             /\ \A r \in P!InitialReserved(Seen) :
                   BytesOf(heap_lo, heap_hi - heap_lo) \cap BytesOf(r.base, r.size) = {}
             /\ stage = "terminal" => owned = HeapBlocks
  <2>1. PICK s \in Nat : HeapAt(s) /\ OnlyHeapGranted(s)
    BY <1>2 DEF AllocInv
  <2>2. pmm_mbd \in Seens /\ pmm_mbd = Seen
    BY <1>2, <2>1 DEF AllocInv, CInv, Wired, HeapAt, Usable
  <2>3. HeapBlocks = HeapRun(s) /\ heap_hi - heap_lo = HeapBytes
    BY <1>2, <2>1, <2>2, HeapBlocksAre
  <2>4. \A page \in HeapBlocks : G!Identity(page, {WRITABLE})
    BY <2>1, <2>3, SameMapping DEF HeapAt, Mapped
  <2>5. HEAP_INITIAL_SIZE <= HeapBytes
    BY <2>1, <2>2, UsableRun, HeapSizes32 DEF HeapAt, Usable
  <2>6. \A r \in P!InitialReserved(Seen) :
           BytesOf(heap_lo, heap_hi - heap_lo) \cap BytesOf(r.base, r.size) = {}
    BY <1>2, <2>1, <2>2, HeapApart, SameMap
  <2>7. HEAP_INITIAL_SIZE \in Int /\ HeapBytes \in Int
    BY HeapSizeType, SpaceType, BootAssumption DEF Words
  <2> QED
    BY <2>1, <2>3, <2>4, <2>5, <2>6, <2>7 DEF HeapAt, OnlyHeapGranted
<1>3. ASSUME CInv, AllocInv, stage = "heap failed"
      PROVE  owned = {} /\ pmm = P!PmmAfterInit(Seen)
  BY <1>3, SamePmmInit DEF AllocInv, NothingGranted, BootBitmap, CInv, Wired
<1>4. AllocInv /\ heap_head = 0 => HeapBlocks = {} /\ stage # "terminal"
  BY DEF AllocInv, HeapBlocks
<1>5. CInv /\ AllocInv => HeapHoldsItsPages
  BY <1>2, <1>3, <1>4 DEF HeapHoldsItsPages
<1> QED
  BY <1>1, <1>5, AllocInit, CInvAlways, PTL DEF Spec

=============================================================================
