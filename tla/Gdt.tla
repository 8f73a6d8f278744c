---------------------------------- MODULE Gdt ----------------------------------
(***************************************************************************)
(* The descriptor table and the task state segment, src/gdt/gdt.c,          *)
(* src/gdt/gdt_asm.s and src/gdt/tss.c, with the segment registers they     *)
(* load.  A descriptor's fields are numbers; & and | with constants are     *)
(* written as remainders, quotients and sums of disjoint bits.              *)
(***************************************************************************)
EXTENDS Integers

CONSTANTS GDT_BASE,      \* the address of the table gdt
          TSS_BASE,      \* the address of tss
          KERNEL_STACK   \* the top of pilha_kernel

ASSUME GdtAssumption ==
    /\ GDT_BASE \in Nat /\ TSS_BASE \in Nat
    /\ TSS_BASE \div 16777216 < 256     \* below 4 GB
    /\ KERNEL_STACK \in Nat \ {0}

VARIABLES gdt,           \* the six descriptors
          gdtr,          \* the register LGDT loads
          seg,           \* cs, ds, ss and tr
          tss            \* its fields ss0, esp0 and iomap_base

gvars == <<gdt, gdtr, seg, tss>>

SELETOR_CODIGO_KERNEL == 8
SELETOR_DADOS_KERNEL == 16
SELETOR_TSS == 40
GDT_NUM_ENTRADAS == 6
SIZEOF_ENTRY == 8
SIZEOF_TSS == 104
TSS_AVAILABLE == 137     \* 0x89
TSS_BUSY == 139          \* 0x8B

\* gdt_definir_entrada(base, limite, access, granularity).
Descriptor(base, limite, access, granularity) ==
    [base_low |-> base % 65536,
     base_middle |-> (base \div 65536) % 256,
     base_high |-> (base \div 16777216) % 256,
     limit_low |-> limite % 65536,
     granularity |-> ((limite \div 65536) % 16) + (granularity \div 16) * 16,
     access |-> access]

Flat(access) == Descriptor(0, 1048575, access, 207)   \* 0xFFFFF, 0xCF

\* The table gdt_instalar writes.
Descriptors ==
    [n \in 0 .. GDT_NUM_ENTRADAS - 1 |->
        CASE n = 0 -> Descriptor(0, 0, 0, 0)
          [] n = 1 -> Flat(154)      \* 0x9A
          [] n = 2 -> Flat(146)      \* 0x92
          [] n = 3 -> Flat(250)      \* 0xFA
          [] n = 4 -> Flat(242)      \* 0xF2
          [] OTHER -> Descriptor(TSS_BASE, SIZEOF_TSS - 1, TSS_AVAILABLE, 0)]

\* What the processor reads back from a descriptor.
Base(d) == d.base_low + d.base_middle * 65536 + d.base_high * 16777216
Limit(d) == d.limit_low + (d.granularity % 16) * 65536
Present(d) == d.access >= 128

\* tss_preparar: no I/O bitmap, the segment ends where it would begin.
TssPreparar ==
    tss' = [ss0 |-> SELETOR_DADOS_KERNEL, esp0 |-> KERNEL_STACK,
            iomap_base |-> SIZEOF_TSS]

\* gdt_flush and tss_flush: LGDT, the data selectors, a far jump that reloads CS,
\* and LTR.
Flush ==
    /\ gdtr' = [base |-> GDT_BASE, limit |-> GDT_NUM_ENTRADAS * SIZEOF_ENTRY - 1]
    /\ seg' = [cs |-> SELETOR_CODIGO_KERNEL, ds |-> SELETOR_DADOS_KERNEL,
               ss |-> SELETOR_DADOS_KERNEL, tr |-> SELETOR_TSS]

\* gdt_instalar; LTR marks the descriptor of the TSS busy.
GdtInstalar ==
    /\ gdt' = [Descriptors EXCEPT ![SELETOR_TSS \div SIZEOF_ENTRY].access = TSS_BUSY]
    /\ TssPreparar
    /\ Flush

\* gdt_obter_estado's `valido', what the command gdt reports.
EstadoValido ==
    /\ gdtr.base = GDT_BASE
    /\ gdtr.limit = GDT_NUM_ENTRADAS * SIZEOF_ENTRY - 1
    /\ seg.cs = SELETOR_CODIGO_KERNEL
    /\ seg.ds = SELETOR_DADOS_KERNEL /\ seg.ss = SELETOR_DADOS_KERNEL
    /\ seg.tr = SELETOR_TSS /\ gdt[5].access = TSS_BUSY
    /\ Base(gdt[5]) = TSS_BASE
    /\ gdt[5].limit_low = SIZEOF_TSS - 1 /\ gdt[5].granularity = 0
    /\ tss.ss0 = SELETOR_DADOS_KERNEL /\ tss.esp0 # 0
    /\ tss.iomap_base = SIZEOF_TSS

\* What the boot loader leaves: a table and selectors of its own.
GdtInit ==
    /\ gdt = [n \in 0 .. GDT_NUM_ENTRADAS - 1 |-> Descriptor(0, 0, 0, 0)]   \* .bss
    /\ gdtr = [base |-> 0, limit |-> 0]
    /\ seg = [cs |-> 0, ds |-> 0, ss |-> 0, tr |-> 0]
    /\ tss = [ss0 |-> 0, esp0 |-> 0, iomap_base |-> 0]

\* A selector of the table names a present descriptor of ring 0 that reaches
\* all four gigabytes: base 0, and a limit of 0xFFFFF pages.
FlatSelector(s) ==
    LET d == gdt[s \div SIZEOF_ENTRY]
    IN  /\ s + SIZEOF_ENTRY - 1 <= gdtr.limit
        /\ Present(d) /\ (d.access \div 32) % 4 = 0
        /\ Base(d) = 0 /\ Limit(d) = 1048575 /\ d.granularity >= 128
=============================================================================
