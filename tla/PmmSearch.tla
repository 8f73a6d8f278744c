------------------------------ MODULE PmmSearch ------------------------------
(***************************************************************************)
(* The two search loops of src/src/mm/pmm.c, one step per loop iteration:   *)
(* pmm_first_free_block, which skips full 32-bit words of the bitmap, and   *)
(* pmm_first_free_blocks, which counts a streak of free bits.  The bitmap   *)
(* does not change during a search (the kernel allocates from one flow of   *)
(* control), so it is chosen once; Pmm uses the loops' result, FirstRun.    *)
(***************************************************************************)
EXTENDS BlockRuns

CONSTANTS WORD,        \* PMM_BLOCKS_PER_WORD
          MAX_BLOCKS,  \* PMM_MAX_BLOCKS, a multiple of WORD
          MAX_COUNT    \* the longest run asked for

ASSUME SearchAssumption ==
    /\ WORD \in Nat \ {0}
    /\ MAX_BLOCKS \in Nat
    /\ MAX_COUNT \in Nat

VARIABLES pmm_bitmap,      \* the bits that are 1
          pmm_max_blocks,
          count,           \* the argument of the search
          pc,              \* "word", "bit", "streak" or "done"
          i,               \* the word, or the bit of the streak loop
          b,               \* the bit inside the word
          streak, start_bit,
          result

inputs == <<pmm_bitmap, pmm_max_blocks, count>>
vars == <<pmm_bitmap, pmm_max_blocks, count, pc, i, b, streak, start_bit, result>>

Bits == 0 .. MAX_BLOCKS - 1
Free == {bit \in 0 .. pmm_max_blocks - 1 : bit \notin pmm_bitmap}
max_words == (pmm_max_blocks + WORD - 1) \div WORD
FullWord(w) == w * WORD .. w * WORD + WORD - 1 \subseteq pmm_bitmap

\* After pmm_init every bit at or above pmm_max_blocks is 1; before it, both
\* statics are zero.  A count of 0 is refused without a search and a count of
\* 1 searches by words.
Init ==
    /\ pmm_max_blocks \in 0 .. MAX_BLOCKS
    /\ \/ \E low \in SUBSET (0 .. pmm_max_blocks - 1) :
            pmm_bitmap = low \cup (pmm_max_blocks .. MAX_BLOCKS - 1)
       \/ pmm_max_blocks = 0 /\ pmm_bitmap = {}
    /\ count \in 0 .. MAX_COUNT
    /\ pc = CASE count = 0 -> "done" [] count = 1 -> "word" [] OTHER -> "streak"
    /\ i = 0 /\ b = 0 /\ streak = 0 /\ start_bit = 0
    /\ result = -1

Return(value) ==
    /\ pc' = "done"
    /\ result' = value
    /\ UNCHANGED <<inputs, i, b, streak, start_bit>>

\* One iteration of the loop over words.
ScanWord ==
    /\ pc = "word"
    /\ \/ /\ i >= max_words
          /\ Return(-1)
       \/ /\ i < max_words
          /\ IF FullWord(i)
             THEN i' = i + 1 /\ UNCHANGED <<pc, b>>
             ELSE pc' = "bit" /\ b' = 0 /\ UNCHANGED i
          /\ UNCHANGED <<inputs, streak, start_bit, result>>

\* Mutant of ScanBit: does not move on to the next word.
ScanBit_SameWord ==
    /\ pc = "bit"
    /\ IF b < WORD
       THEN b' = b + 1 /\ UNCHANGED pc
       ELSE pc' = "word" /\ UNCHANGED b
    /\ UNCHANGED <<inputs, i, streak, start_bit, result>>

\* One iteration of the loop over the bits of a word that is not full.
ScanBit ==
    /\ pc = "bit"
    /\ LET bit == i * WORD + b
       IN  \/ /\ b < WORD /\ bit \notin pmm_bitmap /\ bit < pmm_max_blocks
              /\ Return(bit)
           \/ /\ b < WORD /\ ~(bit \notin pmm_bitmap /\ bit < pmm_max_blocks)
              /\ b' = b + 1
              /\ UNCHANGED <<inputs, pc, i, streak, start_bit, result>>
           \/ /\ b >= WORD
              /\ pc' = "word" /\ i' = i + 1
              /\ UNCHANGED <<inputs, b, streak, start_bit, result>>

\* Mutant of ScanStreak: an occupied bit does not reset the streak.
ScanStreak_NoReset ==
    /\ pc = "streak" /\ i < pmm_max_blocks
    /\ start_bit' = IF streak = 0 THEN i ELSE start_bit
    /\ streak' = IF i \in pmm_bitmap THEN streak ELSE streak + 1
    /\ IF streak' = count
       THEN pc' = "done" /\ result' = start_bit' /\ UNCHANGED i
       ELSE i' = i + 1 /\ UNCHANGED <<pc, result>>
    /\ UNCHANGED <<inputs, b>>

\* One iteration of the streak loop; i is its loop variable `bit'.
ScanStreak ==
    /\ pc = "streak"
    /\ \/ /\ i >= pmm_max_blocks
          /\ Return(-1)
       \/ /\ i < pmm_max_blocks /\ i \notin pmm_bitmap
          /\ start_bit' = IF streak = 0 THEN i ELSE start_bit
          /\ streak' = streak + 1
          /\ IF streak + 1 = count
             THEN pc' = "done" /\ result' = start_bit' /\ UNCHANGED i
             ELSE i' = i + 1 /\ UNCHANGED <<pc, result>>
          /\ UNCHANGED <<inputs, b>>
       \/ /\ i < pmm_max_blocks /\ i \in pmm_bitmap
          /\ streak' = 0
          /\ i' = i + 1
          /\ UNCHANGED <<inputs, pc, b, start_bit, result>>

Next == ScanWord \/ ScanBit \/ ScanStreak

Spec == Init /\ [][Next]_vars

\* A search is straight-line code with interrupts that always return to it.
FairSpec == Spec /\ WF_vars(Next)

-----------------------------------------------------------------------------
(* Properties                                                               *)

\* A search returns the lowest start of a free run of the length asked for, and
\* -1 only when there is none: words are skipped, and streaks restarted,
\* without missing a run or returning one that contains an occupied block.
SearchCorrect == pc = "done" => result = FirstRun(Free, count)

\* Every search returns.
SearchReturns == <>(pc = "done")
=============================================================================
