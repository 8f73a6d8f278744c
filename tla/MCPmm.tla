-------------------------------- MODULE MCPmm --------------------------------
(* Instance of Pmm: pages of 4 bytes, a 40-byte address space of 10 pages,  *)
(* 64-bit sums modulo 80.                                                   *)
(* Low memory is page 0, the kernel image bytes 5 to 8 (pages 1 and 2).     *)
EXTENDS Pmm

Region(b, s) == [base |-> b, size |-> s]
Entry(a, l, k) == [addr |-> a, len |-> l, available |-> k]

Description(entries, mem, fb) ==
    [present |-> TRUE, mmapOk |-> TRUE, entries |-> entries,
     hasMemory |-> mem > 0, mem_upper |-> mem,
     info |-> Region(1, 2), mmap |-> Region(3, 1),
     hasMods |-> fb = 18, mods |-> Region(11, 2),
     hasFb |-> fb > 0, fb |-> Region(fb, 2)]

\* One available region with every alignment of its two ends, optionally with
\* a second one that runs past the end of the address space, and a
\* framebuffer that is absent, straddles two pages, or lies above 4 GB.
MapBoots ==
    {Description({Entry(a, l, TRUE), Entry(a + l, 1, FALSE)} \cup more, 0, fb) :
        a \in {0, 6, 7, 8}, l \in 16 .. 20,
        more \in {{}, {Entry(29, 20, TRUE)}, {Entry(40, 4, TRUE)}},
        fb \in {0, 19, 44}}

\* A region whose end passes 2^64 (80 here), alone or above another one: the
\* wrapped end is 0, inside low memory, inside the region or above the other.
WrappedBoots ==
    {Description({Entry(a, 80 - a + w, TRUE)} \cup more, mem, 0) :
        a \in {16, 18}, w \in {0, 3, 12, 14},
        more \in {{}, {Entry(4, 6, TRUE)}, {Entry(8, 25, TRUE)}},
        mem \in {0, 16}}

\* Legacy fields only, nothing at all, and a map without available memory.
FallbackBoots ==
    {[Description({}, mem, 18) EXCEPT !.mmapOk = ok] :
        mem \in {0, 9, 16, 34}, ok \in BOOLEAN}
    \cup {NoMbd}

MCBoots == MapBoots \cup WrappedBoots \cup FallbackBoots

\* The same machine whose firmware also reports the last bytes of the address
\* space as available: the region starts inside the last page.
LastPageBoots ==
    {Description({Entry(8, 9, TRUE), Entry(a, 40 - a, TRUE)}, 0, 0) :
        a \in 36 .. 39}
=============================================================================
