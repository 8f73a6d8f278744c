--------------------------- MODULE PmmSearch_proofs ---------------------------
(***************************************************************************)
(* The search loops of the bitmap allocator return the lowest free run, for *)
(* every word size, bitmap and run length.                                  *)
(***************************************************************************)
EXTENDS PmmSearch, ArithLemmas, TLAPS

TypeInv ==
    /\ pmm_max_blocks \in Nat /\ count \in Nat
    /\ pc \in {"word", "bit", "streak", "done"}
    /\ i \in Nat /\ b \in Nat /\ streak \in Nat /\ start_bit \in Nat

\* The runs that end before bit n have been ruled out.
Passed(n) == \A s \in RunStarts(Free, count) : s + count > n

\* The invariant of the three loops: no free bit lies before the current word
\* or bit; the streak is the longest free run that ends just before the current
\* bit, and no run of `count' bits does.
LoopInv ==
    /\ TypeInv
    /\ pc = "word" => count = 1 /\ \A s \in Free : s >= i * WORD
    /\ pc = "bit" => count = 1 /\ b <= WORD /\ \A s \in Free : s >= i * WORD + b
    /\ pc = "streak" =>
          /\ count > 1 /\ streak < count /\ streak <= i /\ i <= pmm_max_blocks
          /\ (i - streak) .. (i - 1) \subseteq Free
          /\ i - streak - 1 \notin Free
          /\ streak > 0 => start_bit = i - streak
          /\ Passed(i)
    /\ SearchCorrect

-----------------------------------------------------------------------------
\* A run start that is no greater than any other is what FirstRun denotes.
LEMMA FirstRunIs ==
    ASSUME NEW free \in SUBSET Nat, NEW n \in Nat \ {0},
           NEW s \in RunStarts(free, n), \A t \in RunStarts(free, n) : s <= t
    PROVE  FirstRun(free, n) = s
<1>1. RunStarts(free, n) \in SUBSET Nat
  BY DEF RunStarts
<1>2. \A t \in RunStarts(free, n) :
        (\A u \in RunStarts(free, n) : t <= u) => t = s
  BY <1>1
<1> QED
  BY <1>2 DEF FirstRun

\* The runs of one block are the free blocks.
LEMMA UnitRuns == ASSUME NEW free \in SUBSET Nat PROVE RunStarts(free, 1) = free
  BY DEF RunStarts, Run

LEMMA FreeType == TypeInv => Free \in SUBSET Nat
  BY DEF TypeInv, Free

LEMMA InitLoop == Init => LoopInv
<1> SUFFICES ASSUME Init PROVE LoopInv
  OBVIOUS
<1>1. TypeInv
  BY SearchAssumption DEF Init, TypeInv
<1>2. \A s \in Free : s >= 0
  BY <1>1, FreeType
<1>3. 0 * WORD = 0
  BY SearchAssumption
<1>4. pc = "streak" => Passed(0)
  <2> SUFFICES ASSUME pc = "streak", NEW s \in RunStarts(Free, count)
               PROVE  s + count > 0
    BY DEF Passed
  <2>1. count > 1
    BY <1>1 DEF Init, TypeInv
  <2>2. s \in Nat
    BY <1>1, FreeType DEF RunStarts
  <2> QED
    BY <1>1, <2>1, <2>2 DEF TypeInv
<1>5. pc = "done" => count = 0
  BY <1>1 DEF Init, TypeInv
<1>6. -1 \notin Free /\ 0 .. (0 - 1) \subseteq Free
  BY <1>2
<1>7. SearchCorrect
  BY <1>5 DEF Init, SearchCorrect, FirstRun
<1>8. pc = "streak" => count > 1
  BY <1>1 DEF Init, TypeInv
<1>9. pc = "word" => count = 1
  BY <1>1 DEF Init, TypeInv
<1>10. pc # "bit"
  BY <1>1 DEF Init, TypeInv
<1> QED
  BY <1>1, <1>2, <1>3, <1>4, <1>6, <1>7, <1>8, <1>9, <1>10
     DEF LoopInv, Init, TypeInv

\* The inputs never change, so neither do the free bits.
LEMMA Stable ==
    ASSUME UNCHANGED inputs
    PROVE  Free' = Free /\ count' = count /\ pmm_max_blocks' = pmm_max_blocks
  BY DEF inputs, Free

LEMMA StepWord == LoopInv /\ ScanWord => LoopInv'
<1> SUFFICES ASSUME LoopInv, ScanWord PROVE LoopInv'
  OBVIOUS
<1>1. /\ TypeInv /\ count = 1 /\ Free \in SUBSET Nat
      /\ \A s \in Free : s >= i * WORD
  BY FreeType DEF LoopInv, ScanWord
<1>2. UNCHANGED inputs
  BY DEF ScanWord, Return
<1>3. Free' = Free /\ count' = count /\ pmm_max_blocks' = pmm_max_blocks
  BY <1>2, Stable
<1>4. CASE i >= max_words /\ Return(-1)
  <2>1. pmm_max_blocks <= i * WORD
    BY <1>1, <1>4, SearchAssumption, DivCeil, DivMod DEF max_words, TypeInv
  <2>2. Free = {}
    BY <1>1, <2>1, SearchAssumption DEF Free, TypeInv
  <2>3. FirstRun(Free, count) = -1
    BY <2>2 DEF FirstRun, RunStarts
  <2> QED
    BY <1>1, <1>3, <1>4, <2>3 DEF LoopInv, Return, SearchCorrect, TypeInv
<1>5. CASE FullWord(i) /\ i' = i + 1 /\ UNCHANGED <<pc, b>>
            /\ UNCHANGED <<inputs, streak, start_bit, result>>
  <2>1. (i + 1) * WORD = i * WORD + WORD /\ i * WORD \in Nat
    BY <1>1, SearchAssumption DEF TypeInv
  <2>2. \A s \in Free : s >= i * WORD + WORD
    BY <1>1, <1>5, <2>1, SearchAssumption DEF FullWord, Free
  <2> QED
    BY <1>1, <1>3, <1>5, <2>1, <2>2 DEF LoopInv, TypeInv, SearchCorrect, ScanWord
<1>6. CASE pc' = "bit" /\ b' = 0 /\ UNCHANGED i
            /\ UNCHANGED <<inputs, streak, start_bit, result>>
  <2>1. i * WORD + 0 = i * WORD
    BY <1>1, SearchAssumption DEF TypeInv
  <2> QED
    BY <1>1, <1>3, <1>6, <2>1, SearchAssumption DEF LoopInv, TypeInv, SearchCorrect
<1> QED
  BY <1>4, <1>5, <1>6 DEF ScanWord

LEMMA StepBit == LoopInv /\ ScanBit => LoopInv'
<1> SUFFICES ASSUME LoopInv, ScanBit PROVE LoopInv'
  OBVIOUS
<1> DEFINE bit == i * WORD + b
<1>1. /\ TypeInv /\ count = 1 /\ Free \in SUBSET Nat /\ b <= WORD
      /\ \A s \in Free : s >= bit
  BY FreeType DEF LoopInv, ScanBit
<1>2. UNCHANGED inputs
  BY DEF ScanBit, Return
<1>3. Free' = Free /\ count' = count /\ pmm_max_blocks' = pmm_max_blocks
  BY <1>2, Stable
<1>4. i * WORD \in Nat /\ bit \in Nat /\ (i + 1) * WORD = i * WORD + WORD
      /\ WORD \in Nat
  BY <1>1, SearchAssumption DEF TypeInv
<1>5. CASE bit \notin pmm_bitmap /\ bit < pmm_max_blocks /\ Return(bit)
  <2>1. bit \in Free
    BY <1>4, <1>5, <1>1 DEF Free, TypeInv
  <2>2. RunStarts(Free, 1) = Free
    BY <1>1, UnitRuns
  <2> HIDE DEF bit
  <2>3. \A t \in RunStarts(Free, 1) : bit <= t
    BY <1>1, <1>4, <2>2
  <2>4. FirstRun(Free, 1) = bit
    BY <1>1, <2>1, <2>2, <2>3, FirstRunIs
  <2> QED
    BY <1>1, <1>3, <1>5, <2>4 DEF LoopInv, Return, SearchCorrect, TypeInv
<1>6. CASE /\ b < WORD /\ ~(bit \notin pmm_bitmap /\ bit < pmm_max_blocks)
           /\ b' = b + 1
           /\ UNCHANGED <<inputs, pc, i, streak, start_bit, result>>
  <2>1. bit \notin Free
    <3> HIDE DEF bit
    <3> QED
      BY <1>1, <1>4, <1>6 DEF Free, TypeInv
  <2>2. \A s \in Free : s >= i * WORD + (b + 1)
    BY <1>1, <1>4, <2>1 DEF TypeInv
  <2>3. pc = "bit" /\ pc' = "bit" /\ b + 1 <= WORD
    BY <1>1, <1>4, <1>6 DEF ScanBit, TypeInv
  <2> QED
    BY <1>1, <1>3, <1>6, <2>2, <2>3 DEF LoopInv, TypeInv, SearchCorrect
<1>7. CASE /\ b >= WORD /\ pc' = "word" /\ i' = i + 1
           /\ UNCHANGED <<inputs, b, streak, start_bit, result>>
  <2>1. \A s \in Free : s >= (i + 1) * WORD
    BY <1>1, <1>4, <1>7 DEF TypeInv
  <2> QED
    BY <1>1, <1>3, <1>7, <2>1 DEF LoopInv, TypeInv, SearchCorrect
<1> QED
  BY <1>5, <1>6, <1>7 DEF ScanBit

LEMMA StepStreak == LoopInv /\ ScanStreak => LoopInv'
<1> SUFFICES ASSUME LoopInv, ScanStreak PROVE LoopInv'
  OBVIOUS
<1>1. /\ TypeInv /\ Free \in SUBSET Nat
      /\ count > 1 /\ streak < count /\ streak <= i /\ i <= pmm_max_blocks
      /\ (i - streak) .. (i - 1) \subseteq Free
      /\ i - streak - 1 \notin Free
      /\ streak > 0 => start_bit = i - streak
      /\ Passed(i)
  BY FreeType DEF LoopInv, ScanStreak
<1>2. UNCHANGED inputs
  BY DEF ScanStreak, Return
<1>3. Free' = Free /\ count' = count /\ pmm_max_blocks' = pmm_max_blocks
  BY <1>2, Stable
<1>4. \A s \in RunStarts(Free, count) :
        s \in Nat /\ s + count > i /\ s .. (s + count - 1) \subseteq Free
  BY <1>1 DEF Passed, RunStarts, Run
<1>5. CASE i >= pmm_max_blocks /\ Return(-1)
  <2>1. RunStarts(Free, count) = {}
    <3> SUFFICES ASSUME NEW s \in RunStarts(Free, count) PROVE FALSE
      OBVIOUS
    <3>1. s + count - 1 \in Free
      BY <1>1, <1>4 DEF TypeInv
    <3>2. s + count - 1 < pmm_max_blocks
      BY <1>1, <3>1 DEF Free, TypeInv
    <3> QED
      BY <1>1, <1>4, <1>5, <3>2 DEF TypeInv
  <2>2. FirstRun(Free, count) = -1
    BY <2>1 DEF FirstRun
  <2> QED
    BY <1>1, <1>3, <1>5, <2>2 DEF LoopInv, Return, SearchCorrect, TypeInv
<1>6. CASE /\ i < pmm_max_blocks /\ i \notin pmm_bitmap
           /\ start_bit' = IF streak = 0 THEN i ELSE start_bit
           /\ streak' = streak + 1
           /\ IF streak + 1 = count
              THEN pc' = "done" /\ result' = start_bit' /\ UNCHANGED i
              ELSE i' = i + 1 /\ UNCHANGED <<pc, result>>
           /\ UNCHANGED <<inputs, b>>
  <2>1. i \in Free
    BY <1>1, <1>6 DEF Free, TypeInv
  <2>2. (i - streak) .. i \subseteq Free
    BY <1>1, <2>1 DEF TypeInv
  <2>3. start_bit' = i - streak /\ start_bit' \in Nat
    BY <1>1, <1>6 DEF TypeInv
  <2>4. CASE streak + 1 = count
    <3> DEFINE start == i - streak
    <3>1. start \in Nat /\ start + count - 1 = i
      BY <1>1, <2>4 DEF TypeInv
    <3>2. start \in RunStarts(Free, count)
      BY <1>1, <2>2, <3>1 DEF RunStarts, Run, TypeInv
    <3>3. \A t \in RunStarts(Free, count) : start <= t
      BY <1>1, <1>4, <3>1 DEF TypeInv
    <3> HIDE DEF start
    <3>4. FirstRun(Free, count) = start
      BY <1>1, <3>2, <3>3, FirstRunIs DEF TypeInv
    <3> QED
      BY <1>1, <1>3, <1>6, <2>3, <2>4, <3>4
         DEF LoopInv, SearchCorrect, TypeInv, start
  <2>5. CASE streak + 1 # count
    <3>1. Passed(i + 1)
      <4> SUFFICES ASSUME NEW s \in RunStarts(Free, count)
                   PROVE  s + count > i + 1
        BY DEF Passed
      <4>1. ASSUME s + count = i + 1 PROVE FALSE
        <5>1. i - streak - 1 \in s .. (s + count - 1)
          BY <1>1, <1>4, <2>5, <4>1 DEF TypeInv
        <5> QED
          BY <1>1, <1>4, <5>1
      <4> QED
        BY <1>1, <1>4, <4>1 DEF TypeInv
    <3>2. /\ i' = i + 1 /\ streak' = streak + 1 /\ pc' = "streak"
          /\ i' - streak' = i - streak /\ i' - 1 = i
      BY <1>1, <1>6, <2>5 DEF TypeInv, ScanStreak
    <3>3. Passed(i)'
      BY <1>3, <3>1, <3>2 DEF Passed, RunStarts
    <3>4. TypeInv' /\ SearchCorrect'
      BY <1>1, <1>3, <1>6, <2>3, <3>2 DEF TypeInv, SearchCorrect
    <3>5. /\ count' > 1 /\ streak' < count' /\ streak' <= i'
          /\ i' <= pmm_max_blocks'
      BY <1>1, <1>3, <1>6, <2>5, <3>2 DEF TypeInv
    <3>6. /\ (i' - streak') .. (i' - 1) \subseteq Free'
          /\ i' - streak' - 1 \notin Free'
          /\ start_bit' = i' - streak'
      BY <1>1, <1>3, <2>2, <2>3, <3>2
    <3> QED
      BY <3>2, <3>3, <3>4, <3>5, <3>6 DEF LoopInv
  <2> QED
    BY <2>4, <2>5
<1>7. CASE /\ i < pmm_max_blocks /\ i \in pmm_bitmap
           /\ streak' = 0 /\ i' = i + 1
           /\ UNCHANGED <<inputs, pc, b, start_bit, result>>
  <2>1. i \notin Free
    BY <1>7 DEF Free
  <2>2. Passed(i + 1)
    <3> SUFFICES ASSUME NEW s \in RunStarts(Free, count)
                 PROVE  s + count > i + 1
      BY DEF Passed
    <3>1. ASSUME s + count = i + 1 PROVE FALSE
      BY <1>1, <1>4, <2>1, <3>1 DEF TypeInv
    <3> QED
      BY <1>1, <1>4, <3>1 DEF TypeInv
  <2>3. Passed(i)'
    BY <1>3, <1>7, <2>2 DEF Passed, RunStarts
  <2>4. TypeInv' /\ SearchCorrect' /\ pc' = "streak"
    BY <1>1, <1>3, <1>7 DEF TypeInv, SearchCorrect, ScanStreak
  <2>5. /\ count' > 1 /\ streak' < count' /\ streak' <= i'
        /\ i' <= pmm_max_blocks' /\ ~(streak' > 0)
    BY <1>1, <1>3, <1>7 DEF TypeInv
  <2>6. /\ (i' - streak') .. (i' - 1) \subseteq Free'
        /\ i' - streak' - 1 \notin Free'
    BY <1>1, <1>3, <1>7, <2>1 DEF TypeInv
  <2> QED
    BY <2>3, <2>4, <2>5, <2>6 DEF LoopInv
<1> QED
  BY <1>5, <1>6, <1>7 DEF ScanStreak

\* Both search loops return the lowest start of a free run of the length asked
\* for, and -1 only when the bitmap has none.
THEOREM SearchIsCorrect == Spec => []SearchCorrect
<1>1. LoopInv /\ UNCHANGED vars => LoopInv'
  BY DEF LoopInv, vars, TypeInv, Passed, SearchCorrect, Free
<1>2. LoopInv /\ [Next]_vars => LoopInv'
  BY <1>1, StepWord, StepBit, StepStreak DEF Next
<1>3. LoopInv => SearchCorrect
  BY DEF LoopInv
<1> QED
  BY InitLoop, <1>2, <1>3, PTL DEF Spec

\* A word is searched bit by bit only while it lies below the last word.
WordsLeft == pc = "bit" => i < max_words

\* Every iteration of a search ends it, moves on to a later word (or bit, for
\* the streak) that is not beyond the last one, or enters the bits of the word
\* and moves on in them: each of the three loops runs out, whatever the bitmap.
THEOREM SearchAdvances ==
    Spec => [][\/ pc' = "done"
               \/ i' \in i + 1 .. (IF pc = "streak" THEN pmm_max_blocks ELSE max_words)
               \/ i' = i /\ pc = "word" /\ pc' = "bit"
               \/ i' = i /\ pc = "bit" /\ pc' = "bit" /\ b' \in b + 1 .. WORD]_vars
<1> DEFINE Later == \/ pc' = "done"
                    \/ i' \in i + 1 .. (IF pc = "streak" THEN pmm_max_blocks
                                        ELSE max_words)
                    \/ i' = i /\ pc = "word" /\ pc' = "bit"
                    \/ i' = i /\ pc = "bit" /\ pc' = "bit" /\ b' \in b + 1 .. WORD
<1>1. LoopInv => /\ i \in Nat /\ b \in Nat /\ WORD \in Nat
                 /\ pmm_max_blocks \in Nat /\ max_words \in Int
  BY SearchAssumption DEF LoopInv, TypeInv, max_words
<1>2. ASSUME LoopInv, WordsLeft, ScanWord
      PROVE  Later /\ WordsLeft'
  <2>1. pc = "word" /\ UNCHANGED inputs
    BY <1>2 DEF ScanWord, Return
  <2>2. max_words' = max_words
    BY <2>1 DEF inputs, max_words
  <2>3. CASE Return(-1)
    BY <2>3 DEF Return, WordsLeft
  <2>4. CASE i < max_words /\ i' = i + 1 /\ UNCHANGED pc
    BY <1>1, <1>2, <2>1, <2>4 DEF WordsLeft
  <2>5. CASE i < max_words /\ pc' = "bit" /\ UNCHANGED i
    BY <2>1, <2>2, <2>5 DEF WordsLeft
  <2> QED
    BY <1>2, <2>3, <2>4, <2>5 DEF ScanWord
<1>3. ASSUME LoopInv, WordsLeft, ScanBit
      PROVE  Later /\ WordsLeft'
  <2>1. pc = "bit" /\ i < max_words /\ UNCHANGED inputs
    BY <1>3 DEF ScanBit, Return, WordsLeft
  <2>2. max_words' = max_words
    BY <2>1 DEF inputs, max_words
  <2>3. CASE \E bit : Return(bit)
    BY <2>3 DEF Return, WordsLeft
  <2>4. CASE b < WORD /\ b' = b + 1 /\ UNCHANGED <<pc, i>>
    BY <1>1, <1>3, <2>1, <2>2, <2>4 DEF WordsLeft
  <2>5. CASE pc' = "word" /\ i' = i + 1
    BY <1>1, <1>3, <2>1, <2>5 DEF WordsLeft
  <2> QED
    BY <1>3, <2>3, <2>4, <2>5 DEF ScanBit
<1>4. ASSUME LoopInv, ScanStreak
      PROVE  Later /\ WordsLeft'
  <2>1. pc = "streak"
    BY <1>4 DEF ScanStreak
  <2>2. CASE pc' = "done"
    BY <2>2 DEF WordsLeft
  <2>3. CASE i < pmm_max_blocks /\ i' = i + 1 /\ UNCHANGED pc
    BY <1>1, <1>4, <2>1, <2>3 DEF WordsLeft
  <2> QED
    BY <1>4, <2>2, <2>3 DEF ScanStreak, Return
<1>5. Init => WordsLeft
  BY SearchAssumption DEF Init, WordsLeft
<1>6. WordsLeft /\ UNCHANGED vars => WordsLeft'
  BY DEF WordsLeft, vars, max_words
<1>7. Spec => []LoopInv
  <2>1. LoopInv /\ UNCHANGED vars => LoopInv'
    BY DEF LoopInv, vars, TypeInv, Passed, SearchCorrect, Free
  <2>2. LoopInv /\ [Next]_vars => LoopInv'
    BY <2>1, StepWord, StepBit, StepStreak DEF Next
  <2> QED
    BY InitLoop, <2>2, PTL DEF Spec
<1>8. LoopInv /\ WordsLeft /\ [Next]_vars => WordsLeft' /\ (Later \/ UNCHANGED vars)
  BY <1>2, <1>3, <1>4, <1>6 DEF Next
<1> HIDE DEF Later
<1>9. Spec => [][Later]_vars
  BY <1>5, <1>7, <1>8, PTL DEF Spec
<1> QED
  BY <1>9 DEF Later
=============================================================================
