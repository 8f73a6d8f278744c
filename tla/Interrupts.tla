------------------------------ MODULE Interrupts ------------------------------
(***************************************************************************)
(* The dispatch of interrupts and exceptions: isr/isr.c, the stubs of       *)
(* isr/interrupts.s and pic/pic.c, with the parts of the CPU and of the     *)
(* 8259 pair they drive.                                                    *)
(*                                                                         *)
(* The CPU is one stack of frames, the innermost on top; each frame is at a *)
(* point `pc' of its stub or dispatcher, so a device can raise a line, and  *)
(* an NMI or a nested interrupt can arrive, between any two of them.  The   *)
(* 8259 is modelled as fully nested, edge triggered, with software EOI, as  *)
(* pic_init programs it.  The drivers that register handlers, unmask their  *)
(* lines and execute STI are clients of this code: none exists yet in the   *)
(* kernel, so they do what isr.h and pic.h allow.                           *)
(***************************************************************************)
EXTENDS Integers, Sequences, FiniteSets

CONSTANTS PIC_LINES,           \* lines of one 8259 (8)
          CASCADE,             \* the master's line the slave is wired to (2)
          ISR_NUM_EXCECOES,    \* CPU exceptions, and so the vector of line 0
          NMI, EXC_DOUBLE_FAULT, EXC_MACHINE_CHECK,
          Faults,              \* exceptions that occur
          Devices,             \* lines that have a device
          MainHandlers,        \* <<vector, handler>> the kernel registers
          IsrHandlers,         \* <<vector, handler>> registered by a handler
          STI_HOLDS_NMI,       \* see below
          MaxFrames,           \* bound on nesting
          MaxEvents            \* bound on lines raised and exceptions

IRQ_NUM_LINHAS == 2 * PIC_LINES
IRQ_VETOR_BASE == ISR_NUM_EXCECOES
Master == 0 .. PIC_LINES - 1
Slave == PIC_LINES .. IRQ_NUM_LINHAS - 1
Lines == Master \cup Slave
Exceptions == 0 .. ISR_NUM_EXCECOES - 1
Vectors == Exceptions \cup {IRQ_VETOR_BASE + l : l \in Lines}
Aborts == {EXC_DOUBLE_FAULT, EXC_MACHINE_CHECK}
Asynchronous == {NMI, EXC_MACHINE_CHECK}
Registrations == MainHandlers \cup IsrHandlers
Handlers == {r[2] : r \in Registrations}

ASSUME InterruptsAssumption ==
    /\ PIC_LINES \in Nat /\ CASCADE \in 0 .. PIC_LINES - 2
    /\ ISR_NUM_EXCECOES \in Nat
    /\ {NMI, EXC_DOUBLE_FAULT, EXC_MACHINE_CHECK} \cup Faults \subseteq Exceptions
    /\ Devices \subseteq Lines \ {CASCADE}
    /\ Registrations \subseteq Vectors \X Handlers
    /\ STI_HOLDS_NMI \in BOOLEAN
    /\ MaxFrames \in Nat /\ MaxEvents \in Nat

\* STI takes effect after the next instruction: on the boundary between the two
\* the CPU takes no maskable interrupt.  Whether it holds back an NMI or a
\* machine check there too differs between processors; it does if STI_HOLDS_NMI.

NULL == "NULL"

VARIABLES handlers,    \* handlers[vector]
          reg,         \* a registration of the kernel between test and store
          irr, imr,    \* the request and mask registers of both 8259s, as lines
          isr,         \* their in-service registers
          int_enabled,  \* the interrupt flag
          sti_shadow,  \* the CPU is between an STI and the next instruction
          nmi_blocked, \* an NMI was taken and no IRET executed since
          frames,      \* interrupted contexts, the innermost last
          panicked,    \* kernel_panic: CLI and HLT for ever
          events       \* lines raised and exceptions so far

pic == <<irr, imr, isr>>
table == <<handlers, reg>>
cpu == <<int_enabled, sti_shadow, nmi_blocked>>
vars == <<table, pic, cpu, frames, panicked, events>>

\* A frame: its vector, EFLAGS.IF of the interrupted code, the point its stub
\* is at and, as history, whether the 8259 really delivered a request, whether
\* a handler was called, and whether that handler has executed STI.
Frame(vector, real) ==
    [vector |-> vector, saved |-> int_enabled, pc |-> "entry",
     real |-> real, called |-> FALSE, opened |-> FALSE]

Running == frames # <<>> /\ ~panicked
Top == frames[Len(frames)]
Below == SubSeq(frames, 1, Len(frames) - 1)
IsIrq(f) == f.vector >= IRQ_VETOR_BASE
LineOf(f) == f.vector - IRQ_VETOR_BASE
GoTo(pc) == frames' = [frames EXCEPT ![Len(frames)].pc = pc]
MainRuns == frames = <<>> /\ ~panicked
HandlerRuns == Running /\ Top.pc = "handler"
Interruptible == int_enabled /\ ~sti_shadow

-----------------------------------------------------------------------------
\* The 8259s.  A request gets through its chip when it is not masked and
\* nothing of its priority or above is in service there.
Passes(l, chip) == l \notin imr /\ \A k \in isr \cap chip : l < k
SlaveRequests(pending) == {l \in pending \cap Slave : Passes(l, Slave)}
MasterRequests(pending) ==
    {l \in pending \cap Master : Passes(l, Master)}
        \cup {l \in {CASCADE} : SlaveRequests(pending) # {} /\ Passes(l, Master)}

Highest(requests) == CHOOSE l \in requests : \A k \in requests : l <= k
Winner(pending) ==
    LET m == Highest(MasterRequests(pending))
    IN  IF m = CASCADE THEN Highest(SlaveRequests(pending)) ELSE m

\* A non-specific EOI to one chip ends the highest priority in service there.
Eoi(inService, chip) ==
    {l \in inService : l \in chip => \E k \in inService \cap chip : k < l}

\* INTA: the CPU takes the frame of the vector the 8259s answer with.  A line
\* that falls before INTA, when nothing else is pending, yields the last vector
\* of the master, or of the slave when it falls after the master has chosen it.
Deliver(vector, real) ==
    /\ frames' = Append(frames, Frame(vector, real))
    /\ int_enabled' = FALSE
    /\ UNCHANGED <<table, sti_shadow, nmi_blocked, imr, panicked, events>>

CanInterrupt ==
    /\ Interruptible /\ ~panicked /\ Len(frames) < MaxFrames
    /\ MasterRequests(irr) # {}

Inta ==
    /\ CanInterrupt
    /\ LET l == Winner(irr)
       IN  /\ irr' = irr \ {l}
           /\ isr' = isr \cup {l} \cup (IF l \in Slave THEN {CASCADE} ELSE {})
           /\ Deliver(IRQ_VETOR_BASE + l, TRUE)

IntaSpuriousMaster ==
    /\ CanInterrupt
    /\ irr' = irr \ {Winner(irr)}
    /\ MasterRequests(irr') = {}
    /\ Deliver(IRQ_VETOR_BASE + PIC_LINES - 1, FALSE)
    /\ UNCHANGED isr

IntaSpuriousSlave ==
    /\ CanInterrupt /\ Winner(irr) \in Slave
    /\ irr' = irr \ {Winner(irr)}
    /\ SlaveRequests(irr') = {}
    /\ isr' = isr \cup {CASCADE}
    /\ Deliver(IRQ_VETOR_BASE + IRQ_NUM_LINHAS - 1, FALSE)

Raise(l) ==
    /\ events < MaxEvents /\ l \notin irr /\ ~panicked
    /\ irr' = irr \cup {l} /\ events' = events + 1
    /\ UNCHANGED <<table, imr, isr, cpu, frames, panicked>>

\* An exception of the running code, or an NMI or a machine check at any point,
\* the shadow of STI included unless the CPU holds them there.  An NMI blocks
\* others until the next IRET, whose ever it is.
Exception(v) ==
    /\ events < MaxEvents /\ Len(frames) < MaxFrames
    /\ MainRuns \/ HandlerRuns \/ (Running /\ v \in Asynchronous)
    /\ sti_shadow => ~STI_HOLDS_NMI
    /\ v = NMI => ~nmi_blocked
    /\ frames' = Append(frames, Frame(v, TRUE))
    /\ int_enabled' = FALSE /\ sti_shadow' = FALSE
    /\ nmi_blocked' = (nmi_blocked \/ v = NMI)
    /\ events' = events + 1
    /\ UNCHANGED <<table, pic, panicked>>

-----------------------------------------------------------------------------
\* Mutant of pic_irq_espuria: only the master is asked.
pic_irq_espuria_MasterOnly(irq) == irq = PIC_LINES - 1 /\ irq \notin isr

\* irq_handler: pic_irq_espuria, which for a spurious interrupt of the slave
\* ends the cascade at the master, then pic_send_eoi, then the handler.
pic_irq_espuria(irq) ==
    /\ irq \in {PIC_LINES - 1, IRQ_NUM_LINHAS - 1}
    /\ irq \notin isr

\* Mutant of IrqEntry: a spurious interrupt of the slave sends no EOI.
IrqEntry_NoCascadeEoi ==
    /\ Running /\ IsIrq(Top) /\ Top.pc = "entry"
    /\ GoTo(IF pic_irq_espuria(LineOf(Top)) THEN "iret" ELSE "eoi")
    /\ UNCHANGED <<table, pic, cpu, panicked, events>>

IrqEntry ==
    /\ Running /\ IsIrq(Top) /\ Top.pc = "entry"
    /\ IF pic_irq_espuria(LineOf(Top))
       THEN /\ GoTo("iret")
            /\ isr' = IF LineOf(Top) \in Slave THEN Eoi(isr, Master) ELSE isr
       ELSE GoTo("eoi") /\ UNCHANGED isr
    /\ UNCHANGED <<table, irr, imr, cpu, panicked, events>>

\* Mutant of pic_send_eoi: the slave's EOI is forgotten.
pic_send_eoi_MasterOnly(irq) == isr' = Eoi(isr, Master)

pic_send_eoi(irq) ==
    isr' = Eoi(IF irq \in Slave THEN Eoi(isr, Slave) ELSE isr, Master)

IrqEoi ==
    /\ Running /\ Top.pc = "eoi"
    /\ pic_send_eoi(LineOf(Top))
    /\ GoTo("call")
    /\ UNCHANGED <<table, irr, imr, cpu, panicked, events>>

\* The handler is called, with the frame it may change, when there is one.
CallHandler ==
    frames' = [frames EXCEPT ![Len(frames)].pc = "handler",
                             ![Len(frames)].called = TRUE]

IrqCall ==
    /\ Running /\ Top.pc = "call"
    /\ IF handlers[Top.vector] # NULL THEN CallHandler ELSE GoTo("iret")
    /\ UNCHANGED <<table, pic, cpu, panicked, events>>

\* isr_handler: an exception nobody handles is a kernel panic.
Panic == panicked' = TRUE /\ int_enabled' = FALSE

IsrEntry ==
    /\ Running /\ ~IsIrq(Top) /\ Top.pc = "entry"
    /\ IF handlers[Top.vector] # NULL
       THEN CallHandler /\ UNCHANGED <<int_enabled, panicked>>
       ELSE Panic /\ UNCHANGED frames
    /\ UNCHANGED <<table, sti_shadow, nmi_blocked, pic, events>>

\* Where the dispatcher returns to: isr_common_stub ends in STI and IRET,
\* irq_common_stub in IRET.
StubEnd == IF IsIrq(Top) THEN "iret" ELSE "sti"

\* Mutant of HandlerReturn: an abort that was handled is resumed.
HandlerReturn_Resumes ==
    /\ HandlerRuns
    /\ GoTo(StubEnd)
    /\ UNCHANGED <<table, pic, cpu, panicked, events>>

\* The handler returns to its dispatcher, which panics after an abort.
HandlerReturn ==
    /\ HandlerRuns
    /\ IF Top.vector \in Aborts
       THEN Panic /\ UNCHANGED frames
       ELSE GoTo(StubEnd) /\ UNCHANGED <<int_enabled, panicked>>
    /\ UNCHANGED <<table, sti_shadow, nmi_blocked, pic, events>>

\* Mutant of StubSti: the instruction after STI is not IRET, so the shadow is
\* over when IRET is reached.
StubSti_NotLast ==
    /\ Running /\ Top.pc = "sti"
    /\ int_enabled' = TRUE /\ sti_shadow' = FALSE
    /\ GoTo("iret")
    /\ UNCHANGED <<table, nmi_blocked, pic, panicked, events>>

\* STI casts a shadow when interrupts were disabled.
StubSti ==
    /\ Running /\ Top.pc = "sti"
    /\ int_enabled' = TRUE /\ sti_shadow' = ~int_enabled
    /\ GoTo("iret")
    /\ UNCHANGED <<table, nmi_blocked, pic, panicked, events>>

Iret ==
    /\ Running /\ Top.pc = "iret"
    /\ int_enabled' = Top.saved /\ sti_shadow' = FALSE /\ nmi_blocked' = FALSE
    /\ frames' = Below
    /\ UNCHANGED <<table, pic, panicked, events>>

-----------------------------------------------------------------------------
\* What a handler may do: enable interrupts (isr.h: "that is on whoever does
\* it"), when the code it interrupted had them enabled, and use the table.
HandlerSti ==
    /\ HandlerRuns /\ Top.saved /\ ~int_enabled
    /\ int_enabled' = TRUE
    /\ frames' = [frames EXCEPT ![Len(frames)].opened = TRUE]
    /\ UNCHANGED <<table, sti_shadow, nmi_blocked, pic, panicked, events>>

\* Mutant of Store: indexes the table one entry too far, past its end for the
\* last vector.
Store_NextEntry(v, h) ==
    /\ handlers' = [n \in DOMAIN handlers \cup {v + 1} |->
                       IF n = v + 1 THEN h ELSE handlers[n]]
    /\ UNCHANGED <<pic, cpu, frames, panicked, events>>

\* The entry of a vector is written.
Store(v, h) ==
    /\ handlers' = [handlers EXCEPT ![v] = h]
    /\ UNCHANGED <<pic, cpu, frames, panicked, events>>

\* isr_register_handler and irq_register_handler from a handler, one step while
\* interrupts are disabled: an NMI between its test and its store is left out.
HandlerRegisters(v, h) ==
    /\ HandlerRuns /\ ~int_enabled
    /\ handlers[v] = NULL
    /\ Store(v, h) /\ UNCHANGED reg

Unregister(v) ==
    /\ MainRuns \/ HandlerRuns
    /\ Store(v, NULL) /\ UNCHANGED reg

\* Mutant of RegisterTest: does not look whether the vector is taken.
RegisterTest_NoTest(v, h) ==
    /\ MainRuns /\ reg = <<>>
    /\ reg' = <<v, h>>
    /\ UNCHANGED <<handlers, pic, cpu, frames, panicked, events>>

\* vetor_registrar from the kernel proper: the test and the store are two
\* steps, between which an interrupt may be dispatched.  A failed test returns
\* -1 and changes nothing.
RegisterTest(v, h) ==
    /\ MainRuns /\ reg = <<>>
    /\ handlers[v] = NULL
    /\ reg' = <<v, h>>
    /\ UNCHANGED <<handlers, pic, cpu, frames, panicked, events>>

RegisterStore ==
    /\ MainRuns /\ reg # <<>>
    /\ Store(reg[1], reg[2]) /\ reg' = <<>>

\* A driver unmasks or masks its line; the kernel enables interrupts.
SetMask(mask) ==
    /\ MainRuns
    /\ imr' = mask
    /\ UNCHANGED <<table, irr, isr, cpu, frames, panicked, events>>

Sti ==
    /\ MainRuns /\ ~int_enabled
    /\ int_enabled' = TRUE
    /\ UNCHANGED <<table, sti_shadow, nmi_blocked, pic, frames, panicked, events>>

\* After isr_install, irq_install and pic_init, with interrupts disabled.
Init ==
    /\ handlers = [v \in Vectors |-> NULL] /\ reg = <<>>
    /\ irr = {} /\ imr = Lines /\ isr = {}
    /\ int_enabled = FALSE /\ sti_shadow = FALSE /\ nmi_blocked = FALSE
    /\ frames = <<>> /\ panicked = FALSE /\ events = 0

Stub == IrqEntry \/ IrqEoi \/ IrqCall \/ IsrEntry \/ StubSti \/ Iret

Next ==
    \/ Stub \/ HandlerReturn \/ HandlerSti
    \/ Inta \/ IntaSpuriousMaster \/ IntaSpuriousSlave
    \/ \E l \in Devices : Raise(l)
    \/ \E v \in Faults : Exception(v)
    \/ \E r \in MainHandlers : RegisterTest(r[1], r[2])
    \/ RegisterStore
    \/ \E r \in IsrHandlers : HandlerRegisters(r[1], r[2])
    \/ \E r \in Registrations : Unregister(r[1])
    \/ \E l \in Devices \cup {CASCADE} : SetMask(imr \ {l}) \/ SetMask(imr \cup {l})
    \/ Sti

Spec == Init /\ [][Next]_vars

\* The CPU executes its stubs, handlers return, and an enabled interrupt is
\* taken; nothing obliges a device, a driver or the kernel to act.
FairSpec == Spec /\ WF_vars(Stub) /\ WF_vars(HandlerReturn) /\ WF_vars(Inta)

-----------------------------------------------------------------------------
(* Properties                                                               *)

Pcs == {"entry", "eoi", "call", "handler", "sti", "iret"}

TypeOK ==
    /\ handlers \in [Vectors -> Handlers \cup {NULL}]
    /\ reg \in {<<>>} \cup MainHandlers
    /\ irr \subseteq Devices /\ imr \subseteq Lines /\ isr \subseteq Lines
    /\ {int_enabled, sti_shadow, nmi_blocked, panicked} \subseteq BOOLEAN
    /\ frames \in Seq([vector : Vectors, saved : BOOLEAN, pc : Pcs,
                       real : BOOLEAN, called : BOOLEAN, opened : BOOLEAN])
    /\ Len(frames) <= MaxFrames
    /\ events \in 0 .. MaxEvents

\* The in-service bits a frame still owes an EOI.
Owed(f) ==
    IF ~IsIrq(f) \/ f.pc \notin {"entry", "eoi"} THEN {}
    ELSE (IF f.real THEN {LineOf(f)} ELSE {})
           \cup (IF LineOf(f) \in Slave THEN {CASCADE} ELSE {})

\* Every bit in service belongs to a frame that will still end it, and no EOI
\* is sent that ends another's: in particular no handler runs, and no code with
\* interrupts enabled, while the 8259s are held (irq_handler, "EOI before the
\* handler").
PicBalanced ==
    /\ isr = UNION {Owed(frames[i]) : i \in DOMAIN frames}
    /\ Interruptible => isr = {}

\* pic_irq_espuria is right in every interleaving: the dispatcher leaves
\* through its spurious exit exactly when the 8259 delivered no real request,
\* so no device interrupt is lost and no handler runs for a phantom one.
SpuriousExact ==
    [][\A i \in DOMAIN frames \cap DOMAIN frames' :
          IsIrq(frames[i]) /\ frames[i].pc = "entry" /\ frames'[i].pc # "entry"
              => (frames'[i].pc = "eoi" <=> frames[i].real)]_vars

\* "The handler runs with maskable interrupts disabled" (isr.h): an interrupt
\* is nested in a frame only if the handler of that frame has enabled them,
\* however exceptions and their STI/IRET come in between, on a CPU that holds
\* NMIs back between the two.
NestedOnlyIfOpened ==
    \A i \in DOMAIN frames :
        i > 1 /\ IsIrq(frames[i]) => frames[i - 1].opened

\* An exception returns to the code it interrupted only after a handler has
\* run for it, never after an abort; and a panic is for ever.
FatalIsFinal ==
    [][/\ panicked => panicked'
       /\ Len(frames') < Len(frames) /\ ~IsIrq(Top)
             => Top.called /\ Top.vector \notin Aborts]_vars

\* "-1 if there is already a handler in this vector" (isr.h): a registration
\* never replaces the handler of another one.
NoSilentReplacement ==
    [][\A v \in Vectors : handlers[v] # NULL => handlers'[v] \in {handlers[v], NULL}]_vars

\* The 8259s are never left holding a line: whatever is in service is ended.
PicReleased == isr # {} ~> (isr = {} \/ panicked)

\* Once the kernel has enabled interrupts, a request that stays pending and
\* unmasked is delivered: no lost EOI blocks the lines of lower priority.
KernelOpen == IF frames = <<>> THEN int_enabled ELSE frames[1].saved
Reachable(l) == l \notin imr /\ (l \in Slave => CASCADE \notin imr)
PendingServed ==
    \A l \in Devices :
        (l \in irr /\ KernelOpen) ~> (l \notin irr \/ ~Reachable(l) \/ panicked)
=============================================================================
