-------------------------------- MODULE MCHeap --------------------------------
(* Instance of Heap: 2-byte alignment, 2-byte headers, addresses 0 to 31.   *)
(* The first region is unaligned at both ends and leaves 16 usable bytes;   *)
(* the second is too small for a block.                                     *)
EXTENDS Heap

MCInitArgs == {<<7, 18>>, <<7, 5>>}

\* 0 is refused, 1 is rounded up to 2, 31 overflows the rounding; 2 and 4
\* leave remainders that are and are not worth splitting off.
MCSizes == {0, 1, 4, 31}
=============================================================================
