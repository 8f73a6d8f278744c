------------------------------ MODULE BlockRuns ------------------------------
(***************************************************************************)
(* Runs of consecutive page frames: the vocabulary shared by the abstract   *)
(* block pool, the bitmap allocator (src/src/mm/pmm.c) and its search loops.*)
(***************************************************************************)
EXTENDS Integers

\* The n blocks that start at block s.
Run(s, n) == s .. (s + n - 1)

\* The blocks at which n consecutive blocks of `free' start.
RunStarts(free, n) == {s \in free : Run(s, n) \subseteq free}

\* What pmm_first_free_block / pmm_first_free_blocks return: the lowest start
\* of a free run of n blocks, -1 when there is none and when n is 0.
FirstRun(free, n) ==
    IF n = 0 \/ RunStarts(free, n) = {}
    THEN -1
    ELSE CHOOSE s \in RunStarts(free, n) :
            \A t \in RunStarts(free, n) : s <= t
=============================================================================
