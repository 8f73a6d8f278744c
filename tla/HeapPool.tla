------------------------------- MODULE HeapPool -------------------------------
(***************************************************************************)
(* What kmalloc and kfree promise (src/include/heap.h), without headers or  *)
(* lists: a region of bytes, a set of live allocations that never overlap,  *)
(* aligned pointers, and a refusal only when no stretch of unused bytes can *)
(* hold one more header and the rounded request.                            *)
(***************************************************************************)
EXTENDS Integers

CONSTANTS Align,      \* alignment of pointers and lengths
          Header,     \* bytes of bookkeeping in front of every allocation
          Slack,      \* an allocation is less than this longer than the request
          Addresses,  \* where the region may lie
          Sizes       \* request sizes

VARIABLES region,     \* the bytes managed, {} before the region is opened
          live,       \* allocations [ptr, len] granted and not freed
          answer      \* the last request and the pointer returned, 0 for NULL

vars == <<region, live, answer>>

Rounded(size) == ((size + Align - 1) \div Align) * Align
Extent(b) == b.ptr - Header .. b.ptr + b.len - 1
Unused == region \ UNION {Extent(b) : b \in live}
Fits(a, len) == a % Align = 0 /\ a .. a + Header + len - 1 \subseteq Unused

Init == region = {} /\ live = {} /\ answer = [size |-> 0, ptr |-> 0]

Open ==
    /\ region = {} /\ live = {}
    /\ region' \in SUBSET Addresses
    /\ UNCHANGED <<live, answer>>

Grant(size) ==
    \E a \in Unused, len \in Rounded(size) .. Rounded(size) + Slack - 1 :
        /\ size > 0
        /\ Fits(a, len)
        /\ live' = live \cup {[ptr |-> a + Header, len |-> len]}
        /\ answer' = [size |-> size, ptr |-> a + Header]
        /\ UNCHANGED region

Refuse(size) ==
    /\ size = 0 \/ ~\E a \in Unused : Fits(a, Rounded(size))
    /\ answer' = [size |-> size, ptr |-> 0]
    /\ UNCHANGED <<region, live>>

Free ==
    \E b \in live :
        /\ live' = live \ {b}
        /\ UNCHANGED <<region, answer>>

Next ==
    \/ Open
    \/ \E size \in Sizes : Grant(size) \/ Refuse(size)
    \/ Free

Spec == Init /\ [][Next]_vars
=============================================================================
