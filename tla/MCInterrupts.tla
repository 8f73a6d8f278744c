----------------------------- MODULE MCInterrupts -----------------------------
(* Instance of Interrupts: two 8259s of 3 lines (2 is the spurious line of  *)
(* the master, 5 that of the slave, which is on line 1), four exceptions.   *)
EXTENDS Interrupts

\* The kernel handles an NMI, a double fault and the spurious line of the
\* master, for which two drivers compete; a handler may install another one, for a line the kernel leaves...
MCMainHandlers == {<<2, "a">>, <<1, "a">>, <<6, "a">>, <<6, "c">>}
MCIsrHandlers == {<<9, "b">>}
\* ... or for one that it handles.
RaceHandlers == {<<6, "b">>}

\* For liveness: an NMI handler is all that matters.
LiveHandlers == {<<2, "a">>}

\* For a CPU that takes NMIs in the shadow of STI (README, section 4): a fault,
\* the NMI and a line are handled.
NmiHandlers == {<<0, "a">>, <<2, "a">>, <<6, "a">>}
=============================================================================
