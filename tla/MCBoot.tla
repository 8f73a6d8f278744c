-------------------------------- MODULE MCBoot --------------------------------
(* Instance of Boot: 16 pages of 16 bytes.  Low memory is page 0, the kernel *)
(* lies in pages 1 and 2, the Multiboot structures in page 3, and paging_init *)
(* maps pages 0 to 3.  Tables of 2 pages, and a pool of 5 of them, so that    *)
(* the frame buffer or the heap may find it empty.                            *)
EXTENDS Boot

E(size, addr, len, available) ==
    [size |-> size, addr |-> addr, len |-> len, available |-> available]
Rest == E(3, 0, 0, FALSE)      \* what lies between the entries

\* A map of the given entries one after another, cut off or followed by junk.
\* A size field takes 1 byte and an entry at least 2 more.
MapOf(entries, length) ==
    LET start[k \in 1 .. Len(entries) + 1] ==
            IF k = 1 THEN 0 ELSE start[k - 1] + entries[k - 1].size + 1
        whole == start[Len(entries) + 1]
    IN  [flag |-> TRUE, length |-> length, addr |-> 56,
         At |-> [o \in 0 .. length - 1 |->
                    IF \E k \in 1 .. Len(entries) : start[k] = o
                    THEN entries[CHOOSE k \in 1 .. Len(entries) : start[k] = o]
                    ELSE Rest]]

Low == E(2, 0, 12, TRUE)                   \* conventional memory
Ram(from, to) == E(3, from * 16, (to - from) * 16, TRUE)
Hole == E(2, 250, 6, FALSE)
High == E(2, 260, 100, TRUE)               \* above 4 GB
Past == E(2, 160, 480, TRUE)               \* past 2^64, its end wraps to page 8

\* Memory below and above the memory mapped at boot, in one piece, in two, too
\* small for the heap, none, and lost sight of past 2^64; then maps that are cut off at every byte, with
\* an entry too small or too long, whose lengths overflow, and empty ones.
GoodMaps ==
    {MapOf(<<Low, Ram(1, 8), Hole>>, 10), MapOf(<<Ram(0, 10), High>>, 7),
     MapOf(<<Ram(2, 5), Ram(8, 11), Low>>, 11), MapOf(<<Ram(7, 10)>>, 4),
     MapOf(<<Hole>>, 3), MapOf(<<Ram(4, 5), Past>>, 7)}
BadMaps ==
    {MapOf(<<Low, Ram(1, 8), Hole>>, n) : n \in {1, 2, 5, 9}}
    \cup {MapOf(<<Low, E(1, 0, 1, TRUE)>>, 5), MapOf(<<Ram(1, 8), E(9, 0, 1, TRUE)>>, 7),
          MapOf(<<E(2, 16, 400, TRUE), E(2, 16, 400, FALSE), High, High>>, 12),
          [MapOf(<<>>, 3) EXCEPT !.addr = 0], [MapOf(<<>>, 0) EXCEPT !.flag = FALSE]}

MCMaps == GoodMaps \cup BadMaps

Region(b, s) == [base |-> b, size |-> s]
Description(mmap, fbAddr, pitch, width, height) ==
    [present |-> TRUE, hasFb |-> TRUE, format |-> TRUE, fbAddr |-> fbAddr,
     pitch |-> pitch, width |-> width, height |-> height, mmap |-> mmap,
     hasMemory |-> TRUE, mem_upper |-> 100, info |-> Region(50, 5),
     hasMods |-> FALSE, mods |-> Region(0, 0)]

GoodMap == MapOf(<<Low, Ram(1, 8), Hole>>, 10)

\* Screens of 3 by 5 pixels up to 6 by 4 and 4 by 12: in one table, in more than
\* the pool has left for them or for the heap, and inside the RAM; rows with and
\* without padding.
MapCases == {Description(m, 192, 6, 3, 5) : m \in MCMaps}
FrameCases ==
    {Description(GoodMap, f[1], f[2], f[3], f[4]) :
        f \in {<<144, 8, 4, 12>>, <<186, 12, 6, 4>>, <<100, 12, 5, 7>>,
               <<116, 8, 4, 5>>, <<160, 8, 3, 8>>, <<200, 8, 4, 5>>}}
\* A frame that is unaligned, too narrow, too low, with a pitch that is odd or
\* too short, that leaves the address space; and no frame at all.
BadFrames ==
    {Description(GoodMap, f[1], f[2], f[3], f[4]) :
        f \in {<<201, 8, 4, 5>>, <<200, 8, 2, 5>>, <<200, 8, 4, 3>>,
               <<200, 9, 4, 5>>, <<200, 6, 4, 5>>, <<200, 8, 4, 7>>,
               <<200, 16, 4, 17>>, <<0, 8, 4, 5>>}}
    \cup {[present |-> FALSE],
          [Description(GoodMap, 200, 8, 4, 5) EXCEPT !.hasFb = FALSE],
          [Description(GoodMap, 200, 8, 4, 5) EXCEPT !.format = FALSE]}

MCDescriptions == MapCases \cup FrameCases \cup BadFrames

MCGeometries == {<<d.fbAddr, d.pitch, d.width, d.height>> :
                    d \in {d \in MCDescriptions : d.present}}

\* A text of two lines, and one that is longer than any line and than TEXT_MAX.
MCTexts == {<<"glyph", "newline", "glyph">>,
            <<"glyph", "glyph", "glyph", "glyph", "glyph", "glyph">>}
=============================================================================
