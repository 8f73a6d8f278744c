------------------------------- MODULE MCPaging -------------------------------
(* Instance of Paging: 2-byte pages, a directory of 4 entries, tables of 2  *)
(* pages, so an address space of 16 bytes, and a pool of 3 tables.          *)
EXTENDS Paging

\* None; in the middle of the space, unaligned; reaching over two tables; in
\* low memory.
MCFramebuffers == {<<0, 0>>, <<9, 2>>, <<10, 3>>, <<1, 2>>}

\* Heap-like ranges below the last page, aligned and not, one of which needs
\* more tables than the pool may still have, an empty one, and a remapping of
\* the framebuffer.
MCRanges == {<<6, 2, {WRITABLE}>>, <<5, 4, {WRITABLE}>>, <<9, 5, {WRITABLE}>>,
             <<8, 0, {WRITABLE}>>}

\* A page remapped to another frame and with other flags, the last page, and
\* calls with an unaligned address.
MCPages == {<<14, 4, {WRITABLE}>>, <<14, 14, {WRITABLE, USER}>>,
            <<6, 6, {}>>, <<13, 4, {}>>, <<14, 5, {}>>}

\* The range that ends at 4 GB.
TopRanges == {<<14, 2, {WRITABLE}>>}
=============================================================================
