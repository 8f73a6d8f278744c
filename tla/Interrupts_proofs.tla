--------------------------- MODULE Interrupts_proofs ---------------------------
(***************************************************************************)
(* Proofs about Interrupts, for any number of lines, exceptions, handlers   *)
(* and nested frames.  Every step of the specification does one of three    *)
(* things to the stack of frames: push one, replace the innermost, or pop   *)
(* it; the lemmas of the middle part say once for each of the three what it *)
(* takes to keep the invariant.                                             *)
(*                                                                         *)
(* The invariant has two layers.  TInv, types and what a frame has been     *)
(* through, holds on every CPU.  IInv, who owes which EOI and who may be    *)
(* interrupted, holds on one that takes no NMI and no machine check between *)
(* STI and IRET (STI_HOLDS_NMI); the theorems that rest on it say so.       *)
(***************************************************************************)
EXTENDS Interrupts, ArithLemmas, SequenceTheorems

FrameType == [vector : Vectors, saved : BOOLEAN, pc : Pcs,
              real : BOOLEAN, called : BOOLEAN, opened : BOOLEAN]
SpuriousLines == {PIC_LINES - 1, IRQ_NUM_LINHAS - 1}
Depth == Len(frames)

\* What a frame has been through: only an interrupt is acknowledged, only an
\* exception ends in STI, and one about to return was handled and is no abort.
Handled(f) ==
    /\ f.pc \in {"eoi", "call"} => IsIrq(f)
    /\ f.pc = "handler" => f.called
    /\ f.pc = "sti" => ~IsIrq(f)
    /\ ~IsIrq(f) /\ f.pc \in {"sti", "iret"} => f.called /\ f.vector \notin Aborts

\* The shadow of STI is over the IRET that follows it.
ShadowAtIret == sti_shadow => frames # <<>> /\ Top.pc = "iret"

FramesHandled ==
    /\ frames \in Seq(FrameType) /\ Len(frames) <= MaxFrames
    /\ \A i \in 1 .. Depth : Handled(frames[i])
    /\ ShadowAtIret

RestTyped ==
    /\ handlers \in [Vectors -> Handlers \cup {NULL}]
    /\ reg \in {<<>>} \cup MainHandlers
    /\ irr \subseteq Devices /\ imr \subseteq Lines /\ isr \subseteq Lines
    /\ int_enabled \in BOOLEAN /\ sti_shadow \in BOOLEAN
    /\ nmi_blocked \in BOOLEAN /\ panicked \in BOOLEAN
    /\ events \in 0 .. MaxEvents

TInv == RestTyped /\ FramesHandled

\* What holds of the frame of an interrupt: it was taken with interrupts enabled
\* and is real unless it came on a last line; only a real one passes the
\* spurious test.
Sound(f) ==
    /\ IsIrq(f) => f.saved
    /\ IsIrq(f) => f.real \/ LineOf(f) \in SpuriousLines
    /\ f.pc \in {"eoi", "call"} => f.real

FramesSound == \A i \in 1 .. Depth : Sound(frames[i])

\* Who owes which in-service bit: the bits are what the frames owe, and while a
\* frame owes one, the running code cannot be interrupted and no frame above
\* will restore interrupts.
Service ==
    /\ \A i \in 1 .. Depth : Owed(frames[i]) \subseteq isr
    /\ \A l \in isr : \E i \in 1 .. Depth : l \in Owed(frames[i])
    /\ \A i \in 1 .. Depth : Owed(frames[i]) # {} =>
          /\ ~Interruptible
          /\ \A j \in i + 1 .. Depth : ~frames[j].saved

\* A handler can be interrupted only by its own STI.
Opened ==
    /\ Interruptible /\ Depth > 0 => frames[Depth].opened
    /\ \A i \in 2 .. Depth : frames[i].saved => frames[i - 1].opened

IInv == TInv /\ FramesSound /\ Service /\ Opened

-----------------------------------------------------------------------------
(* The three things a step does to the stack                                *)

Pushed(f) ==
    /\ frames' \in Seq(FrameType)
    /\ Len(frames') = Depth + 1
    /\ frames'[Depth + 1] = f
    /\ \A i \in 1 .. Depth : frames'[i] = frames[i]

Replaced(f) ==
    /\ frames' \in Seq(FrameType)
    /\ Depth \in Nat \ {0}
    /\ Len(frames') = Depth
    /\ frames'[Depth] = f
    /\ \A i \in 1 .. Depth - 1 : frames'[i] = frames[i]

Popped ==
    /\ frames' \in Seq(FrameType)
    /\ Depth \in Nat \ {0}
    /\ Len(frames') = Depth - 1
    /\ \A i \in 1 .. Depth - 1 : frames'[i] = frames[i]

LEMMA FrameTyped ==
    ASSUME TInv
    PROVE  /\ frames \in Seq(FrameType)
           /\ Depth \in Nat
           /\ \A i \in 1 .. Depth : frames[i] \in FrameType
           /\ DOMAIN frames = 1 .. Depth
<1>1. frames \in Seq(FrameType)
  BY DEF TInv, FramesHandled
<1> QED
  BY <1>1, LenProperties, ElementOfSeq DEF Depth

LEMMA TypesHold == TInv => TypeOK
BY DEF TInv, RestTyped, FramesHandled, TypeOK, FrameType

LEMMA PushFrame ==
    ASSUME TInv, NEW f \in FrameType, frames' = Append(frames, f)
    PROVE  Pushed(f)
<1>1. frames \in Seq(FrameType)
  BY FrameTyped
<1> QED
  BY <1>1, AppendProperties DEF Pushed, Depth

LEMMA ReplaceFrame ==
    ASSUME TInv, frames # <<>>, NEW f \in FrameType,
           frames' = [frames EXCEPT ![Len(frames)] = f]
    PROVE  Replaced(f)
<1>1. frames \in Seq(FrameType) /\ Depth \in Nat
  BY FrameTyped
<1>2. Depth \in Nat \ {0}
  BY <1>1, EmptySeq DEF Depth
<1> QED
  BY <1>1, <1>2, ExceptSeq DEF Replaced, Depth

LEMMA PopFrame ==
    ASSUME TInv, frames # <<>>, frames' = Below
    PROVE  Popped
<1>1. frames \in Seq(FrameType) /\ Depth \in Nat
  BY FrameTyped
<1>2. Depth \in Nat \ {0}
  BY <1>1, EmptySeq DEF Depth
<1>3. \A i \in 1 .. Depth - 1 : frames[i] \in FrameType
  BY <1>2, FrameTyped
<1>4. /\ SubSeq(frames, 1, Depth - 1) \in Seq(FrameType)
      /\ Len(SubSeq(frames, 1, Depth - 1)) = IF 1 <= Depth - 1 THEN Depth - 1 - 1 + 1 ELSE 0
      /\ \A i \in 1 .. Depth - 1 - 1 + 1 :
            SubSeq(frames, 1, Depth - 1)[i] = frames[1 + i - 1]
  <2>1. 1 \in Int /\ Depth - 1 \in Int
    BY <1>2
  <2> QED
    BY <1>3, <2>1, SubSeqProperties
<1>5. frames' = SubSeq(frames, 1, Depth - 1)
  BY DEF Below, Depth
<1>6. \A i \in 1 .. Depth - 1 : frames'[i] = frames[i]
  <2> TAKE i \in 1 .. Depth - 1
  <2>1. i \in 1 .. Depth - 1 - 1 + 1 /\ 1 + i - 1 = i
    BY <1>2
  <2> QED
    BY <1>4, <1>5, <2>1
<1>7. Len(frames') = Depth - 1
  BY <1>2, <1>4, <1>5
<1> QED
  BY <1>2, <1>4, <1>5, <1>6, <1>7 DEF Popped

-----------------------------------------------------------------------------
(* The invariant over the three                                             *)

Stack == FramesSound /\ Service /\ Opened

\* A frame that still owes a bit has every frame above it closed, so if the
\* innermost frame is an interrupt it is the only one that owes.
LEMMA TopOwesAlone ==
    ASSUME IInv, frames # <<>>, Top.saved
    PROVE  /\ \A i \in 1 .. Depth - 1 : Owed(frames[i]) = {}
           /\ isr = Owed(Top)
<1>1. Depth \in Nat \ {0}
  BY FrameTyped, EmptySeq DEF IInv, Depth
<1>2. \A i \in 1 .. Depth - 1 : Owed(frames[i]) = {}
  <2> SUFFICES ASSUME NEW i \in 1 .. Depth - 1, Owed(frames[i]) # {} PROVE FALSE
    OBVIOUS
  <2>1. i \in 1 .. Depth /\ Depth \in i + 1 .. Depth
    BY <1>1
  <2>2. ~frames[Depth].saved
    BY <2>1 DEF IInv, Service
  <2> QED
    BY <2>2 DEF Top, Depth
<1>3. \A i \in 1 .. Depth : i # Depth => i \in 1 .. Depth - 1
  BY <1>1
<1>4. Depth \in 1 .. Depth
  BY <1>1
<1> QED
  BY <1>2, <1>3, <1>4 DEF IInv, Service, Top, Depth

LEMMA NobodyOwes ==
    ASSUME IInv, Interruptible
    PROVE  isr = {} /\ \A i \in 1 .. Depth : Owed(frames[i]) = {}
BY DEF IInv, Service

LEMMA PushKeeps ==
    ASSUME IInv, NEW f, Pushed(f), Sound(f),
           f.saved => Interruptible, ~Interruptible',
           \/ ~IsIrq(f) /\ isr' = isr
           \/ Interruptible /\ isr' = Owed(f)
    PROVE  Stack'
<1> DEFINE n == Depth
<1>1. n \in Nat
  BY FrameTyped DEF IInv
<1>2. Depth' = n + 1
  BY DEF Pushed, Depth
<1>3. \A i \in 1 .. n + 1 : i = n + 1 \/ i \in 1 .. n
  BY <1>1
<1>4. FramesSound'
  BY <1>2, <1>3 DEF FramesSound, Pushed, IInv, Sound, IsIrq, LineOf
<1>5. Opened'
  <2> SUFFICES ASSUME NEW i \in 2 .. n + 1, frames'[i].saved
               PROVE  frames'[i - 1].opened
    BY <1>2 DEF Opened
  <2>1. CASE i = n + 1
    <3>1. Interruptible /\ n > 0 /\ i - 1 = n /\ n \in 1 .. n
      BY <1>1, <2>1 DEF Pushed
    <3>2. frames[n].opened
      BY <3>1 DEF IInv, Opened
    <3> QED
      BY <3>1, <3>2 DEF Pushed
  <2>2. CASE i # n + 1
    <3>1. i \in 2 .. n /\ i \in 1 .. n /\ i - 1 \in 1 .. n
      BY <1>1, <2>2
    <3> QED
      BY <3>1 DEF Pushed, IInv, Opened
  <2> QED
    BY <2>1, <2>2
<1>6. \A i \in 1 .. n : Owed(frames'[i]) = Owed(frames[i])
  BY DEF Pushed
<1>7. frames'[n + 1] = f
  BY DEF Pushed
<1>8. CASE ~IsIrq(f) /\ isr' = isr
  <2>1. Owed(f) = {}
    BY <1>8 DEF Owed
  <2>2. \A i \in 1 .. n + 1 : Owed(frames'[i]) # {} => i \in 1 .. n /\ Owed(frames[i]) # {}
    BY <1>3, <1>6, <1>7, <2>1
  <2>3. \A i \in 1 .. n + 1 : Owed(frames'[i]) \subseteq isr'
    BY <1>3, <1>6, <1>7, <1>8, <2>1 DEF IInv, Service
  <2>4. \A l \in isr' : \E i \in 1 .. n + 1 : l \in Owed(frames'[i])
    <3> SUFFICES ASSUME NEW l \in isr' PROVE \E i \in 1 .. n + 1 : l \in Owed(frames'[i])
      OBVIOUS
    <3>1. PICK i \in 1 .. n : l \in Owed(frames[i])
      BY <1>8 DEF IInv, Service
    <3>2. i \in 1 .. n + 1
      BY <1>1
    <3> QED
      BY <1>6, <3>1, <3>2
  <2>5. \A i \in 1 .. n + 1 : Owed(frames'[i]) # {} =>
            ~Interruptible' /\ \A j \in i + 1 .. n + 1 : ~frames'[j].saved
    <3> SUFFICES ASSUME NEW i \in 1 .. n + 1, Owed(frames'[i]) # {},
                        NEW j \in i + 1 .. n + 1
                 PROVE  ~frames'[j].saved
      OBVIOUS
    <3>1. i \in 1 .. n /\ Owed(frames[i]) # {}
      BY <2>2
    <3>2. ~Interruptible /\ \A k \in i + 1 .. n : ~frames[k].saved
      BY <3>1 DEF IInv, Service
    <3>3. CASE j = n + 1
      BY <1>7, <3>2, <3>3
    <3>4. CASE j # n + 1
      <4>1. j \in i + 1 .. n /\ j \in 1 .. n
        BY <1>1, <3>1, <3>4
      <4> QED
        BY <3>2, <4>1 DEF Pushed
    <3> QED
      BY <3>3, <3>4
  <2> QED
    BY <1>2, <1>4, <1>5, <2>3, <2>4, <2>5 DEF Stack, Service
<1>9. CASE Interruptible /\ isr' = Owed(f)
  <2>1. \A i \in 1 .. n : Owed(frames'[i]) = {}
    BY <1>6, <1>9, NobodyOwes
  <2>2. n + 1 \in 1 .. n + 1 /\ \A i \in 1 .. n + 1 : (n + 1) + 1 .. n + 1 = {}
    BY <1>1
  <2>3. Service'
    BY <1>2, <1>3, <1>7, <1>9, <2>1, <2>2 DEF Service
  <2> QED
    BY <1>4, <1>5, <2>3 DEF Stack
<1> QED
  BY <1>8, <1>9

LEMMA ReplaceKeeps ==
    ASSUME IInv, frames # <<>>, NEW f, Replaced(f), Sound(f),
           f.saved = Top.saved, Top.opened => f.opened,
           Interruptible' => Interruptible \/ (f.opened /\ f.saved /\ Owed(f) = {}),
           \/ Owed(f) = Owed(Top) /\ isr' = isr
           \/ Top.saved /\ Owed(f) = {} /\ isr' = {}
    PROVE  Stack'
<1> DEFINE n == Depth
<1>1. n \in Nat \ {0} /\ n \in 1 .. n
  BY DEF Replaced
<1>2. Depth' = n /\ frames'[n] = f /\ Top = frames[n]
  BY DEF Replaced, Depth, Top
<1>3. \A i \in 1 .. n : i = n \/ i \in 1 .. n - 1
  BY <1>1
<1>4. FramesSound'
  BY <1>2, <1>3 DEF FramesSound, Replaced, IInv, Sound, IsIrq, LineOf
<1>5. \A i \in 1 .. n : frames'[i].saved = frames[i].saved
  BY <1>2, <1>3 DEF Replaced
<1>6. \A i \in 1 .. n : frames[i].opened => frames'[i].opened
  BY <1>2, <1>3 DEF Replaced
<1>7. Opened'
  <2>1. \A i \in 2 .. n : i \in 1 .. n /\ i - 1 \in 1 .. n
    BY <1>1
  <2>2. \A i \in 2 .. n : frames'[i].saved => frames'[i - 1].opened
    BY <1>5, <1>6, <2>1 DEF IInv, Opened
  <2>3. Interruptible' => frames'[n].opened
    BY <1>1, <1>2 DEF IInv, Opened
  <2> QED
    BY <1>2, <2>2, <2>3 DEF Opened
<1>8. CASE Owed(f) = Owed(Top) /\ isr' = isr
  <2>1. \A i \in 1 .. n : Owed(frames'[i]) = Owed(frames[i])
    BY <1>2, <1>3, <1>8 DEF Replaced
  <2>2. \A i \in 1 .. n : Owed(frames[i]) # {} => ~Interruptible'
    <3> SUFFICES ASSUME NEW i \in 1 .. n, Owed(frames[i]) # {}, Interruptible' PROVE FALSE
      OBVIOUS
    <3>1. ~Interruptible
      BY DEF IInv, Service
    <3>2. Top.saved /\ Owed(Top) = {}
      BY <1>8, <3>1
    <3> QED
      BY <1>2, <1>3, <3>2, TopOwesAlone
  <2>3. \A i \in 1 .. n : \A j \in i + 1 .. n : j \in 1 .. n
    BY <1>1
  <2>4. Service'
    BY <1>2, <1>5, <1>8, <2>1, <2>2, <2>3 DEF IInv, Service
  <2> QED
    BY <1>4, <1>7, <2>4 DEF Stack
<1>9. CASE Top.saved /\ Owed(f) = {} /\ isr' = {}
  <2>1. \A i \in 1 .. n : Owed(frames'[i]) = {}
    BY <1>2, <1>3, <1>9, TopOwesAlone DEF Replaced
  <2>2. Service'
    BY <1>2, <1>9, <2>1 DEF Service
  <2> QED
    BY <1>4, <1>7, <2>2 DEF Stack
<1> QED
  BY <1>8, <1>9

LEMMA PopKeeps ==
    ASSUME IInv, frames # <<>>, Popped, Top.pc = "iret",
           Interruptible' => Top.saved, isr' = isr
    PROVE  Stack'
<1> DEFINE n == Depth
<1>1. n \in Nat \ {0} /\ n \in 1 .. n
  BY DEF Popped
<1>2. Depth' = n - 1 /\ Top = frames[n]
  BY DEF Popped, Depth, Top
<1>3. \A i \in 1 .. n - 1 : i \in 1 .. n /\ n \in i + 1 .. n
  BY <1>1
<1>4. FramesSound'
  BY <1>2, <1>3 DEF FramesSound, Popped, IInv, Sound, IsIrq, LineOf
<1>5. Opened'
  <2>1. Interruptible' /\ n - 1 > 0 => frames'[n - 1].opened
    <3> HAVE Interruptible' /\ n - 1 > 0
    <3>1. n \in 2 .. n /\ n - 1 \in 1 .. n - 1
      BY <1>1
    <3> QED
      BY <1>2, <3>1 DEF IInv, Opened, Popped
  <2>2. \A i \in 2 .. n - 1 : i \in 2 .. n /\ i \in 1 .. n - 1 /\ i - 1 \in 1 .. n - 1
    BY <1>1
  <2>3. \A i \in 2 .. n - 1 : frames'[i].saved => frames'[i - 1].opened
    BY <2>2 DEF IInv, Opened, Popped
  <2> QED
    BY <1>2, <2>1, <2>3 DEF Opened
<1>6. Owed(Top) = {}
  BY DEF Owed
<1>7. \A i \in 1 .. n - 1 : Owed(frames'[i]) = Owed(frames[i])
  BY DEF Popped
<1>8. \A l \in isr' : \E i \in 1 .. n - 1 : l \in Owed(frames'[i])
  <2> SUFFICES ASSUME NEW l \in isr PROVE \E i \in 1 .. n - 1 : l \in Owed(frames'[i])
    OBVIOUS
  <2>1. PICK i \in 1 .. n : l \in Owed(frames[i])
    BY DEF IInv, Service
  <2>2. i \in 1 .. n - 1
    BY <1>1, <1>2, <1>6, <2>1
  <2> QED
    BY <1>7, <2>1, <2>2
<1>9. \A i \in 1 .. n - 1 : Owed(frames'[i]) # {} =>
          ~Interruptible' /\ \A j \in i + 1 .. n - 1 : ~frames'[j].saved
  <2> SUFFICES ASSUME NEW i \in 1 .. n - 1, Owed(frames[i]) # {}
               PROVE  ~Interruptible' /\ \A j \in i + 1 .. n - 1 : ~frames'[j].saved
    BY <1>7
  <2>1. \A j \in i + 1 .. n : ~frames[j].saved
    BY <1>3 DEF IInv, Service
  <2>2. \A j \in i + 1 .. n - 1 : j \in i + 1 .. n /\ j \in 1 .. n - 1
    BY <1>1
  <2> QED
    BY <1>2, <1>3, <2>1, <2>2 DEF Popped
<1>10. \A i \in 1 .. n - 1 : Owed(frames'[i]) \subseteq isr'
  BY <1>3, <1>7 DEF IInv, Service
<1> QED
  BY <1>2, <1>4, <1>5, <1>8, <1>9, <1>10 DEF Stack, Service
-----------------------------------------------------------------------------
(* The 8259s                                                                *)

LEMMA LinesNat == Lines \subseteq Nat /\ Master \subseteq Nat /\ Slave \subseteq Nat
BY InterruptsAssumption DEF Lines, Master, Slave, IRQ_NUM_LINHAS

\* The priority resolver returns one of the requests it is given.
LEMMA HighestIsRequest ==
    ASSUME NEW R \in SUBSET Lines, R # {}
    PROVE  Highest(R) \in R
<1>1. \E l \in R : \A k \in R : l <= k
  BY LinesNat, NatMinimum
<1> QED
  BY <1>1 DEF Highest

\* The line INTA selects is a pending one; when it is a slave's, the master has
\* been asked through the cascade.
LEMMA WinnerIsPending ==
    ASSUME irr \in SUBSET Lines, CASCADE \notin irr, MasterRequests(irr) # {}
    PROVE  Winner(irr) \in irr
<1> DEFINE m == Highest(MasterRequests(irr))
<1>1. MasterRequests(irr) \subseteq Lines
  BY InterruptsAssumption DEF MasterRequests, Lines, Master
<1>2. m \in MasterRequests(irr)
  BY <1>1, HighestIsRequest
<1>3. CASE m = CASCADE
  <2>1. SlaveRequests(irr) # {}
    BY <1>2, <1>3 DEF MasterRequests
  <2>2. Highest(SlaveRequests(irr)) \in SlaveRequests(irr)
    BY <2>1, HighestIsRequest DEF SlaveRequests
  <2> QED
    BY <1>3, <2>2 DEF Winner, SlaveRequests
<1>4. CASE m # CASCADE
  BY <1>2, <1>4 DEF Winner, MasterRequests
<1> QED
  BY <1>3, <1>4

\* A non-specific EOI to a chip that has a single line in service ends it, and
\* does not touch the other chip.
LEMMA EoiEndsSingle ==
    ASSUME NEW l \in Nat, NEW chip, l \in chip, NEW rest, rest \cap chip = {}
    PROVE  Eoi({l} \cup rest, chip) = rest
<1>1. ({l} \cup rest) \cap chip = {l}
  OBVIOUS
<1>2. ~(l < l)
  OBVIOUS
<1> QED
  BY <1>1, <1>2 DEF Eoi

LEMMA EoiEndsLast ==
    ASSUME NEW l \in Nat, NEW chip, l \in chip
    PROVE  Eoi({l}, chip) = {}
<1>1. {l} \cap chip = {l} /\ ~(l < l)
  OBVIOUS
<1> QED
  BY <1>1 DEF Eoi

LEMMA MasterSlaveDisjoint == Master \cap Slave = {} /\ CASCADE \in Master
BY InterruptsAssumption DEF Master, Slave, IRQ_NUM_LINHAS

\* Vectors of exceptions and of lines do not overlap.
LEMMA VectorsOfLines ==
    /\ \A l \in Lines : /\ IRQ_VETOR_BASE + l \in Vectors
                        /\ IRQ_VETOR_BASE + l >= IRQ_VETOR_BASE
                        /\ (IRQ_VETOR_BASE + l) - IRQ_VETOR_BASE = l
    /\ \A v \in Exceptions : v \in Vectors /\ ~(v >= IRQ_VETOR_BASE)
    /\ \A f \in FrameType : IsIrq(f) => LineOf(f) \in Lines
    /\ SpuriousLines \subseteq Lines /\ CASCADE \notin SpuriousLines
    /\ PIC_LINES - 1 \in Master /\ IRQ_NUM_LINHAS - 1 \in Slave
BY InterruptsAssumption, LinesNat
   DEF Vectors, Exceptions, IRQ_VETOR_BASE, FrameType, IsIrq, LineOf, SpuriousLines,
       Lines, Master, Slave, IRQ_NUM_LINHAS

-----------------------------------------------------------------------------
(* Types, and what a frame has been through                                 *)

LEMMA TopTyped ==
    ASSUME TInv, frames # <<>>
    PROVE  Top \in FrameType /\ Handled(Top)
<1>1. Depth \in 1 .. Depth
  BY FrameTyped, EmptySeq DEF Depth
<1> QED
  BY <1>1, FrameTyped DEF TInv, FramesHandled, Top, Depth

LEMMA NoShadow ==
    ASSUME TInv, frames = <<>> \/ Top.pc # "iret"
    PROVE  sti_shadow = FALSE
BY DEF TInv, RestTyped, FramesHandled, ShadowAtIret

LEMMA PushHandled ==
    ASSUME TInv, NEW f, Pushed(f), Handled(f), Len(frames) < MaxFrames,
           sti_shadow' = FALSE
    PROVE  FramesHandled'
<1>1. Depth \in Nat /\ Depth' = Depth + 1
  BY FrameTyped DEF Pushed, Depth
<1>2. Len(frames') <= MaxFrames
  BY <1>1, InterruptsAssumption DEF Depth
<1>3. \A i \in 1 .. Depth + 1 : i = Depth + 1 \/ i \in 1 .. Depth
  BY <1>1
<1>4. \A i \in 1 .. Depth + 1 : Handled(frames'[i])
  BY <1>3 DEF Pushed, TInv, FramesHandled
<1>5. \A i \in 1 .. Depth' : Handled(frames[i])'
  BY <1>1, <1>4 DEF Handled, IsIrq
<1> QED
  BY <1>2, <1>5 DEF Pushed, FramesHandled, ShadowAtIret

LEMMA ReplaceHandled ==
    ASSUME TInv, NEW f, Replaced(f), Handled(f), sti_shadow' => f.pc = "iret"
    PROVE  FramesHandled'
<1>1. Depth \in Nat \ {0} /\ Depth' = Depth /\ frames'[Depth] = f
  BY DEF Replaced, Depth
<1>2. \A i \in 1 .. Depth : i = Depth \/ i \in 1 .. Depth - 1
  BY <1>1
<1>3. \A i \in 1 .. Depth - 1 : i \in 1 .. Depth
  BY <1>1
<1>4. \A i \in 1 .. Depth : Handled(frames'[i])
  BY <1>1, <1>2, <1>3 DEF Replaced, TInv, FramesHandled
<1>5. \A i \in 1 .. Depth' : Handled(frames[i])'
  BY <1>1, <1>4 DEF Handled, IsIrq
<1>6. Top' = f /\ frames' # <<>>
  BY <1>1, EmptySeq DEF Top, Depth
<1> QED
  BY <1>1, <1>5, <1>6 DEF Replaced, TInv, FramesHandled, ShadowAtIret, Depth

LEMMA PopHandled ==
    ASSUME TInv, Popped, sti_shadow' = FALSE
    PROVE  FramesHandled'
<1>1. Depth \in Nat \ {0} /\ Depth' = Depth - 1
  BY DEF Popped, Depth
<1>2. \A i \in 1 .. Depth - 1 : i \in 1 .. Depth
  BY <1>1
<1>3. \A i \in 1 .. Depth - 1 : Handled(frames'[i])
  BY <1>2 DEF Popped, TInv, FramesHandled
<1>4. \A i \in 1 .. Depth' : Handled(frames[i])'
  BY <1>1, <1>3 DEF Handled, IsIrq
<1>5. Len(frames') <= MaxFrames
  BY <1>1, InterruptsAssumption DEF Popped, Depth, TInv, FramesHandled
<1> QED
  BY <1>4, <1>5 DEF Popped, FramesHandled, ShadowAtIret

LEMMA SameHandled ==
    ASSUME TInv, frames' = frames, sti_shadow' = sti_shadow
    PROVE  FramesHandled'
BY DEF TInv, FramesHandled, Handled, IsIrq, ShadowAtIret, Top, Depth

\* Each way of moving the innermost frame, as one of the three shapes.
LEMMA GoToReplaces ==
    ASSUME TInv, frames # <<>>, NEW pc \in Pcs, GoTo(pc)
    PROVE  Replaced([Top EXCEPT !.pc = pc])
<1>1. [Top EXCEPT !.pc = pc] \in FrameType
  BY TopTyped DEF FrameType
<1>2. frames' = [frames EXCEPT ![Len(frames)] = [Top EXCEPT !.pc = pc]]
  BY DEF GoTo, Top
<1> QED
  BY <1>1, <1>2, ReplaceFrame

LEMMA CallReplaces ==
    ASSUME TInv, frames # <<>>, CallHandler
    PROVE  Replaced([Top EXCEPT !.pc = "handler", !.called = TRUE])
<1> DEFINE f == [Top EXCEPT !.pc = "handler", !.called = TRUE]
<1>1. f \in FrameType
  BY TopTyped DEF FrameType, Pcs
<1>2. frames' = [frames EXCEPT ![Len(frames)] = f]
  BY DEF CallHandler, Top
<1> QED
  BY <1>1, <1>2, ReplaceFrame

LEMMA StiReplaces ==
    ASSUME TInv, HandlerSti
    PROVE  Replaced([Top EXCEPT !.opened = TRUE])
<1> DEFINE f == [Top EXCEPT !.opened = TRUE]
<1>1. frames # <<>>
  BY DEF HandlerSti, HandlerRuns, Running
<1>2. f \in FrameType
  BY <1>1, TopTyped DEF FrameType
<1>3. frames' = [frames EXCEPT ![Len(frames)] = f]
  BY DEF HandlerSti, Top
<1> QED
  BY <1>1, <1>2, <1>3, ReplaceFrame

\* How the fields of the innermost frame read after a step of its pc, its call
\* and its STI.
LEMMA PcFields ==
    ASSUME NEW f \in FrameType, NEW pc \in Pcs
    PROVE  LET g == [f EXCEPT !.pc = pc]
           IN  /\ g.pc = pc /\ g.vector = f.vector /\ g.saved = f.saved
               /\ g.real = f.real /\ g.called = f.called /\ g.opened = f.opened
               /\ IsIrq(g) = IsIrq(f) /\ LineOf(g) = LineOf(f)
BY DEF FrameType, IsIrq, LineOf

LEMMA CallFields ==
    ASSUME NEW f \in FrameType
    PROVE  LET g == [f EXCEPT !.pc = "handler", !.called = TRUE]
           IN  /\ g.pc = "handler" /\ g.called /\ g.saved = f.saved
               /\ g.opened = f.opened /\ g.real = f.real
               /\ IsIrq(g) = IsIrq(f) /\ LineOf(g) = LineOf(f)
BY DEF FrameType, IsIrq, LineOf

LEMMA StiFields ==
    ASSUME NEW f \in FrameType
    PROVE  LET g == [f EXCEPT !.opened = TRUE]
           IN  /\ g.pc = f.pc /\ g.opened /\ g.saved = f.saved /\ g.called = f.called
               /\ g.vector = f.vector /\ g.real = f.real
               /\ IsIrq(g) = IsIrq(f) /\ LineOf(g) = LineOf(f)
BY DEF FrameType, IsIrq, LineOf

\* A handler is entered only by CallHandler, so the rest of the dispatch may
\* move to any other point the frame is ready for.
LEMMA GoToHandled ==
    ASSUME TInv, frames # <<>>, NEW pc \in Pcs, GoTo(pc),
           pc \in {"eoi", "call"} => IsIrq(Top),
           pc = "handler" => Top.called,
           pc = "sti" => ~IsIrq(Top),
           ~IsIrq(Top) /\ pc \in {"sti", "iret"} => Top.called /\ Top.vector \notin Aborts,
           sti_shadow' => pc = "iret"
    PROVE  FramesHandled'
<1> DEFINE f == [Top EXCEPT !.pc = pc]
<1>1. Replaced(f)
  BY GoToReplaces
<1>2. Top \in FrameType
  BY TopTyped
<1>3. /\ f.pc = pc /\ f.vector = Top.vector /\ f.called = Top.called
      /\ IsIrq(f) = IsIrq(Top)
  BY <1>2, PcFields
<1> HIDE DEF f
<1>4. Handled(f)
  BY <1>3 DEF Handled
<1> QED
  BY <1>1, <1>3, <1>4, ReplaceHandled

LEMMA CallHandled ==
    ASSUME TInv, frames # <<>>, CallHandler, sti_shadow' = FALSE
    PROVE  FramesHandled'
<1> DEFINE f == [Top EXCEPT !.pc = "handler", !.called = TRUE]
<1>1. Replaced(f)
  BY CallReplaces
<1>2. f.pc = "handler" /\ f.called
  BY TopTyped, CallFields
<1> HIDE DEF f
<1>3. Handled(f)
  BY <1>2 DEF Handled
<1> QED
  BY <1>1, <1>3, ReplaceHandled

\* The frames that interrupts and exceptions push.
LEMMA FramePushed ==
    ASSUME TInv, NEW v \in Vectors, NEW real \in BOOLEAN,
           frames' = Append(frames, Frame(v, real))
    PROVE  Pushed(Frame(v, real)) /\ Handled(Frame(v, real))
<1>1. Frame(v, real) \in FrameType
  BY DEF Frame, FrameType, Pcs, TInv, RestTyped
<1>2. Frame(v, real).pc = "entry"
  BY DEF Frame
<1> QED
  BY <1>1, <1>2, PushFrame DEF Handled

LEMMA LastVectors ==
    /\ IRQ_VETOR_BASE + PIC_LINES - 1 \in Vectors
    /\ IRQ_VETOR_BASE + IRQ_NUM_LINHAS - 1 \in Vectors
    /\ Faults \subseteq Vectors
<1>1. PIC_LINES - 1 \in Lines /\ IRQ_NUM_LINHAS - 1 \in Lines
  BY VectorsOfLines DEF SpuriousLines
<1>2. /\ IRQ_VETOR_BASE + (PIC_LINES - 1) = IRQ_VETOR_BASE + PIC_LINES - 1
      /\ IRQ_VETOR_BASE + (IRQ_NUM_LINHAS - 1) = IRQ_VETOR_BASE + IRQ_NUM_LINHAS - 1
  BY InterruptsAssumption DEF IRQ_VETOR_BASE, IRQ_NUM_LINHAS
<1>3. Faults \subseteq Exceptions
  BY InterruptsAssumption
<1> QED
  BY <1>1, <1>2, <1>3 DEF Vectors

LEMMA WinnerTyped ==
    ASSUME TInv, CanInterrupt
    PROVE  /\ Winner(irr) \in irr /\ Winner(irr) \in Lines
           /\ IRQ_VETOR_BASE + Winner(irr) \in Vectors
<1>1. irr \in SUBSET Lines /\ CASCADE \notin irr
  BY InterruptsAssumption DEF TInv, RestTyped
<1>2. Winner(irr) \in irr
  BY <1>1, WinnerIsPending DEF CanInterrupt
<1> QED
  BY <1>1, <1>2 DEF Vectors

Interrupt == Inta \/ IntaSpuriousMaster \/ IntaSpuriousSlave
Fault == \E v \in Faults : Exception(v)
Dispatch == IrqEntry \/ IrqEoi \/ IrqCall \/ IsrEntry \/ HandlerReturn \/ StubSti
Device == \E l \in Devices : Raise(l)
TableStep ==
    \/ \E r \in MainHandlers : RegisterTest(r[1], r[2])
    \/ RegisterStore
    \/ \E r \in IsrHandlers : HandlerRegisters(r[1], r[2])
    \/ \E r \in Registrations : Unregister(r[1])
MaskStep == \E l \in Devices \cup {CASCADE} : SetMask(imr \ {l}) \/ SetMask(imr \cup {l})

LEMMA NextKinds ==
    Next <=> \/ Interrupt \/ Fault \/ Dispatch \/ Device \/ TableStep \/ MaskStep
             \/ Sti \/ HandlerSti \/ Iret
BY DEF Next, Stub, Interrupt, Fault, Dispatch, Device, TableStep, MaskStep

LEMMA FramesNext ==
    ASSUME TInv, Next
    PROVE  FramesHandled'
<1>1. CASE Interrupt
  <2>1. CanInterrupt /\ sti_shadow = FALSE /\ Len(frames) < MaxFrames
    BY <1>1 DEF Interrupt, Inta, IntaSpuriousMaster, IntaSpuriousSlave, CanInterrupt,
       Interruptible, TInv, RestTyped
  <2>2. \E v \in Vectors, real \in BOOLEAN : Deliver(v, real)
    BY <1>1, <2>1, WinnerTyped, LastVectors
       DEF Interrupt, Inta, IntaSpuriousMaster, IntaSpuriousSlave
  <2>3. PICK v \in Vectors, real \in BOOLEAN : Deliver(v, real)
    BY <2>2
  <2>4. frames' = Append(frames, Frame(v, real)) /\ sti_shadow' = FALSE
    BY <2>1, <2>3 DEF Deliver
  <2>5. Pushed(Frame(v, real)) /\ Handled(Frame(v, real))
    BY <2>4, FramePushed
  <2> QED
    BY <2>1, <2>4, <2>5, PushHandled
<1>2. CASE Fault
  <2>1. PICK v \in Faults : Exception(v)
    BY <1>2 DEF Fault
  <2>2. frames' = Append(frames, Frame(v, TRUE)) /\ sti_shadow' = FALSE
    BY <2>1 DEF Exception
  <2>3. Len(frames) < MaxFrames /\ v \in Vectors
    BY <2>1, LastVectors DEF Exception
  <2>4. Pushed(Frame(v, TRUE)) /\ Handled(Frame(v, TRUE))
    BY <2>2, <2>3, FramePushed
  <2> QED
    BY <2>2, <2>3, <2>4, PushHandled
<1>3. CASE Dispatch
  <2>1. frames # <<>> /\ Top.pc # "iret"
    BY <1>3 DEF Dispatch, IrqEntry, IrqEoi, IrqCall, IsrEntry, HandlerReturn, StubSti,
       HandlerRuns, Running
  <2>2. sti_shadow = FALSE /\ Handled(Top)
    BY <2>1, NoShadow, TopTyped
  <2>3. CASE IrqEntry \/ IrqEoi
    <3>1. IsIrq(Top) /\ sti_shadow' = FALSE
      BY <2>2, <2>3 DEF Handled, IrqEntry, IrqEoi, cpu
    <3>2. PICK pc \in {"iret", "eoi", "call"} : GoTo(pc)
      BY <2>3 DEF IrqEntry, IrqEoi
    <3> QED
      BY <2>1, <3>1, <3>2, GoToHandled DEF Pcs
  <2>4. CASE IrqCall
    <3>1. IsIrq(Top) /\ sti_shadow' = FALSE
      BY <2>2, <2>4 DEF Handled, IrqCall, cpu
    <3>2. CallHandler \/ GoTo("iret")
      BY <2>4 DEF IrqCall
    <3> QED
      BY <2>1, <3>1, <3>2, GoToHandled, CallHandled DEF Pcs
  <2>5. CASE IsrEntry
    <3>1. sti_shadow' = FALSE /\ (CallHandler \/ frames' = frames)
      BY <2>2, <2>5 DEF IsrEntry
    <3> QED
      BY <2>1, <2>2, <3>1, CallHandled, SameHandled
  <2>6. CASE HandlerReturn
    <3>1. sti_shadow' = FALSE /\ Top.called
      BY <2>2, <2>6 DEF HandlerReturn, HandlerRuns, Handled
    <3>2. CASE Top.vector \in Aborts
      BY <2>2, <2>6, <3>1, <3>2, SameHandled DEF HandlerReturn
    <3>3. CASE Top.vector \notin Aborts
      <4>1. GoTo(StubEnd) /\ StubEnd \in Pcs
        BY <2>6, <3>3 DEF HandlerReturn, StubEnd, Pcs
      <4>2. StubEnd \in {"iret", "sti"} /\ (StubEnd = "sti" => ~IsIrq(Top))
        BY DEF StubEnd
      <4> QED
        BY <2>1, <3>1, <3>3, <4>1, <4>2, GoToHandled
    <3> QED
      BY <3>2, <3>3
  <2>7. CASE StubSti
    <3>1. GoTo("iret") /\ "iret" \in Pcs
      BY <2>7 DEF StubSti, Pcs
    <3>2. Top.called /\ Top.vector \notin Aborts
      BY <2>2, <2>7 DEF StubSti, Handled
    <3> QED
      BY <2>1, <3>1, <3>2, GoToHandled
  <2> QED
    BY <1>3, <2>3, <2>4, <2>5, <2>6, <2>7 DEF Dispatch
<1>4. CASE Device \/ TableStep \/ MaskStep \/ Sti
  <2>1. frames' = frames /\ sti_shadow' = sti_shadow
    BY <1>4 DEF Device, TableStep, MaskStep, Raise, SetMask, Sti, RegisterTest,
       RegisterStore, HandlerRegisters, Unregister, Store, cpu
  <2> QED
    BY <2>1, SameHandled
<1>5. CASE HandlerSti
  <2> DEFINE f == [Top EXCEPT !.opened = TRUE]
  <2>1. frames # <<>> /\ Top.pc = "handler" /\ sti_shadow' = sti_shadow
    BY <1>5 DEF HandlerSti, HandlerRuns, Running
  <2>2. Replaced(f)
    BY <1>5, StiReplaces
  <2>3. f.pc = "handler" /\ f.called
    BY <2>1, TopTyped, StiFields DEF Handled
  <2>4. sti_shadow' = FALSE
    BY <2>1, NoShadow
  <2> HIDE DEF f
  <2>5. Handled(f)
    BY <2>3 DEF Handled
  <2> QED
    BY <2>2, <2>4, <2>5, ReplaceHandled
<1>6. CASE Iret
  <2>1. Popped /\ sti_shadow' = FALSE
    BY <1>6, PopFrame DEF Iret, Running
  <2> QED
    BY <2>1, PopHandled
<1> QED
  BY <1>1, <1>2, <1>3, <1>4, <1>5, <1>6, NextKinds

LEMMA EoiShrinks ==
    ASSUME NEW s, NEW chip
    PROVE  Eoi(s, chip) \subseteq s
BY DEF Eoi

LEMMA RestNext ==
    ASSUME TInv, Next
    PROVE  RestTyped'
<1>1. CASE Interrupt
  <2>1. CanInterrupt
    BY <1>1 DEF Interrupt, Inta, IntaSpuriousMaster, IntaSpuriousSlave
  <2>2. Winner(irr) \in Lines /\ CASCADE \in Lines
    BY <2>1, WinnerTyped, MasterSlaveDisjoint DEF Lines
  <2>3. /\ isr' \subseteq isr \cup {Winner(irr), CASCADE} /\ irr' \subseteq irr
        /\ int_enabled' = FALSE
        /\ UNCHANGED <<handlers, reg, sti_shadow, nmi_blocked, imr, panicked, events>>
    BY <1>1 DEF Interrupt, Inta, IntaSpuriousMaster, IntaSpuriousSlave, Deliver, table
  <2> QED
    BY <2>2, <2>3 DEF TInv, RestTyped
<1>2. CASE Fault
  <2>1. PICK v \in Faults : Exception(v)
    BY <1>2 DEF Fault
  <2>2. events' \in 0 .. MaxEvents
    BY <2>1, InterruptsAssumption DEF Exception, TInv, RestTyped
  <2>3. UNCHANGED <<handlers, reg, irr, imr, isr, panicked>>
    BY <2>1 DEF Exception, table, pic
  <2>4. int_enabled' \in BOOLEAN /\ sti_shadow' \in BOOLEAN /\ nmi_blocked' \in BOOLEAN
    BY <2>1 DEF Exception
  <2> QED
    BY <2>2, <2>3, <2>4 DEF TInv, RestTyped
<1>3. CASE Dispatch
  <2>1. isr' \subseteq isr
    BY <1>3, EoiShrinks DEF Dispatch, IrqEntry, IrqEoi, pic_send_eoi, IrqCall, IsrEntry,
       HandlerReturn, StubSti, pic
  <2>2. UNCHANGED <<handlers, reg, irr, imr, nmi_blocked, events>>
    BY <1>3 DEF Dispatch, IrqEntry, IrqEoi, IrqCall, IsrEntry, HandlerReturn, StubSti,
       table, pic, cpu
  <2>3. /\ int_enabled' \in {int_enabled, TRUE, FALSE} /\ panicked' \in {panicked, TRUE}
        /\ sti_shadow' \in {sti_shadow, ~int_enabled}
    BY <1>3 DEF Dispatch, IrqEntry, IrqEoi, IrqCall, IsrEntry, HandlerReturn, StubSti,
       Panic, cpu
  <2> QED
    BY <2>1, <2>2, <2>3 DEF TInv, RestTyped
<1>4. CASE Device
  BY <1>4, InterruptsAssumption DEF Device, Raise, TInv, RestTyped, table, cpu
<1>5. CASE TableStep
  <2>1. UNCHANGED <<irr, imr, isr, int_enabled, sti_shadow, nmi_blocked, panicked, events>>
    BY <1>5 DEF TableStep, RegisterTest, RegisterStore, HandlerRegisters, Unregister,
       Store, pic, cpu
  <2>2. \A r \in Registrations : r = <<r[1], r[2]>> /\ r[1] \in Vectors /\ r[2] \in Handlers
    BY InterruptsAssumption
  <2>3. handlers \in [Vectors -> Handlers \cup {NULL}] /\ reg \in {<<>>} \cup MainHandlers
    BY DEF TInv, RestTyped
  <2>4. /\ handlers' \in [Vectors -> Handlers \cup {NULL}]
        /\ reg' \in {<<>>} \cup MainHandlers
    <3>1. ASSUME NEW r \in MainHandlers, RegisterTest(r[1], r[2])
          PROVE  handlers' = handlers /\ reg' \in MainHandlers
      BY <2>2, <3>1 DEF RegisterTest, Registrations
    <3>2. ASSUME RegisterStore
          PROVE  reg' = <<>> /\ \E h \in Handlers : \E v : handlers' = [handlers EXCEPT ![v] = h]
      BY <2>2, <2>3, <3>2 DEF RegisterStore, Store, Registrations
    <3>3. ASSUME NEW r \in IsrHandlers, HandlerRegisters(r[1], r[2])
          PROVE  reg' = reg /\ \E h \in Handlers : \E v : handlers' = [handlers EXCEPT ![v] = h]
      BY <2>2, <3>3 DEF HandlerRegisters, Store, Registrations
    <3>4. ASSUME NEW r \in Registrations, Unregister(r[1])
          PROVE  reg' = reg /\ handlers' = [handlers EXCEPT ![r[1]] = NULL]
      BY <3>4 DEF Unregister, Store
    <3>5. ASSUME NEW h \in Handlers \cup {NULL}, NEW v, handlers' = [handlers EXCEPT ![v] = h]
          PROVE  handlers' \in [Vectors -> Handlers \cup {NULL}]
      BY <2>3, <3>5
    <3> QED
      BY <1>5, <2>3, <3>1, <3>2, <3>3, <3>4, <3>5 DEF TableStep
  <2> QED
    BY <2>1, <2>4 DEF TInv, RestTyped
<1>6. CASE MaskStep
  <2>1. Devices \cup {CASCADE} \subseteq Lines
    BY InterruptsAssumption, MasterSlaveDisjoint DEF Lines
  <2> QED
    BY <1>6, <2>1 DEF MaskStep, SetMask, TInv, RestTyped, table, cpu
<1>7. CASE Sti \/ HandlerSti
  BY <1>7 DEF Sti, HandlerSti, TInv, RestTyped, table, pic
<1>8. CASE Iret
  <2>1. Top.saved \in BOOLEAN
    BY <1>8, TopTyped DEF Iret, Running, FrameType
  <2> QED
    BY <1>8, <2>1 DEF Iret, TInv, RestTyped, table, pic
<1> QED
  BY <1>1, <1>2, <1>3, <1>4, <1>5, <1>6, <1>7, <1>8, NextKinds

LEMMA TypesNext ==
    ASSUME TInv, [Next]_vars
    PROVE  TInv'
<1>1. CASE Next
  BY <1>1, FramesNext, RestNext DEF TInv
<1>2. CASE UNCHANGED vars
  <2>1. RestTyped'
    BY <1>2 DEF vars, table, pic, cpu, TInv, RestTyped
  <2>2. FramesHandled'
    BY <1>2, SameHandled DEF vars, cpu
  <2> QED
    BY <2>1, <2>2 DEF TInv
<1> QED
  BY <1>1, <1>2

LEMMA InitTypes ==
    ASSUME Init PROVE TInv
<1>1. Len(frames) = 0 /\ frames \in Seq(FrameType)
  BY EmptySeq DEF Init
<1>2. FramesHandled
  BY <1>1, InterruptsAssumption DEF FramesHandled, ShadowAtIret, Init, Depth
<1>3. RestTyped
  <2>1. handlers \in [Vectors -> Handlers \cup {NULL}] /\ events \in 0 .. MaxEvents
    BY InterruptsAssumption DEF Init
  <2> QED
    BY <2>1 DEF RestTyped, Init
<1> QED
  BY <1>2, <1>3 DEF TInv

-----------------------------------------------------------------------------
(* Who owes what and who may be interrupted, one lemma per kind of step     *)

LEMMA TopSound ==
    ASSUME IInv, frames # <<>>
    PROVE  Top \in FrameType /\ Handled(Top) /\ Sound(Top)
<1>1. Depth \in 1 .. Depth
  BY FrameTyped, EmptySeq DEF IInv, Depth
<1> QED
  BY <1>1, TopTyped DEF IInv, FramesSound, Top, Depth

\* An invariant step in which the stack is what it was.
LEMMA SameStack ==
    ASSUME IInv, frames' = frames, isr' = isr, Interruptible' => Interruptible
    PROVE  Stack'
BY DEF IInv, Stack, FramesSound, Service, Opened, Depth

LEMMA InitEstablishes ==
    ASSUME Init PROVE IInv
<1>1. Depth = 0
  BY EmptySeq DEF Init, Depth
<1>2. isr = {}
  BY DEF Init
<1>3. FramesSound /\ Service /\ Opened
  BY <1>1, <1>2 DEF FramesSound, Service, Opened
<1> QED
  BY <1>3, InitTypes DEF IInv

\* Requests, the table of handlers and the masks leave CPU and stack alone.
LEMMA QuietPreserves ==
    ASSUME IInv, Device \/ TableStep \/ MaskStep PROVE Stack'
<1>1. frames' = frames /\ isr' = isr /\ int_enabled' = int_enabled /\ sti_shadow' = sti_shadow
  BY DEF Device, TableStep, MaskStep, Raise, SetMask, RegisterTest, RegisterStore,
     HandlerRegisters, Unregister, Store, pic, cpu
<1> QED
  BY <1>1, SameStack DEF Interruptible

LEMMA StiPreserves ==
    ASSUME IInv, Sti PROVE Stack'
<1>1. Depth = 0 /\ Depth' = 0
  BY EmptySeq DEF Sti, MainRuns, Depth
<1>2. isr' = isr
  BY DEF Sti, pic
<1> QED
  BY <1>1, <1>2 DEF IInv, Stack, FramesSound, Service, Opened

\* INTA, real or spurious: interrupts were enabled, so nothing is in service,
\* and the new frame owes exactly the bits that INTA sets.
LEMMA DeliverPreserves ==
    ASSUME IInv, CanInterrupt, NEW l \in Lines, NEW real \in BOOLEAN,
           real \/ l \in SpuriousLines,
           Deliver(IRQ_VETOR_BASE + l, real),
           isr' = (IF real THEN {l} ELSE {}) \cup (IF l \in Slave THEN {CASCADE} ELSE {})
    PROVE  Stack'
<1> DEFINE f == Frame(IRQ_VETOR_BASE + l, real)
<1>1. /\ IsIrq(f) /\ LineOf(f) = l /\ f.saved
      /\ f.pc = "entry" /\ f.real = real
  BY VectorsOfLines DEF Frame, IsIrq, LineOf, CanInterrupt, Interruptible
<1>2. Sound(f)
  BY <1>1 DEF Sound
<1>3. Owed(f) = isr'
  BY <1>1 DEF Owed
<1>4. Pushed(f)
  BY VectorsOfLines, FramePushed DEF Deliver, IInv
<1>5. ~Interruptible' /\ Interruptible
  BY DEF Deliver, Interruptible, CanInterrupt
<1> HIDE DEF f
<1> QED
  BY <1>1, <1>2, <1>3, <1>4, <1>5, PushKeeps

LEMMA IntaPreserves ==
    ASSUME IInv, Interrupt PROVE Stack'
<1>1. CanInterrupt
  BY DEF Interrupt, Inta, IntaSpuriousMaster, IntaSpuriousSlave
<1>2. isr = {}
  BY <1>1, NobodyOwes DEF CanInterrupt
<1>3. CASE Inta
  <2>1. Winner(irr) \in Lines
    BY <1>1, WinnerTyped DEF IInv
  <2>2. /\ isr' = {Winner(irr)} \cup (IF Winner(irr) \in Slave THEN {CASCADE} ELSE {})
        /\ Deliver(IRQ_VETOR_BASE + Winner(irr), TRUE)
    BY <1>2, <1>3 DEF Inta
  <2> QED
    BY <1>1, <2>1, <2>2, DeliverPreserves
<1>4. CASE IntaSpuriousMaster
  <2>1. PIC_LINES - 1 \in Lines /\ PIC_LINES - 1 \in SpuriousLines /\ PIC_LINES - 1 \notin Slave
    BY VectorsOfLines, MasterSlaveDisjoint DEF SpuriousLines
  <2>2. isr' = {}
    BY <1>2, <1>4 DEF IntaSpuriousMaster
  <2>3. IRQ_VETOR_BASE + (PIC_LINES - 1) = IRQ_VETOR_BASE + PIC_LINES - 1
    BY InterruptsAssumption DEF IRQ_VETOR_BASE
  <2>4. Deliver(IRQ_VETOR_BASE + (PIC_LINES - 1), FALSE)
    BY <1>4, <2>3 DEF IntaSpuriousMaster
  <2> QED
    BY <1>1, <2>1, <2>2, <2>4, DeliverPreserves
<1>5. CASE IntaSpuriousSlave
  <2>1. /\ IRQ_NUM_LINHAS - 1 \in Lines /\ IRQ_NUM_LINHAS - 1 \in SpuriousLines
        /\ IRQ_NUM_LINHAS - 1 \in Slave
    BY VectorsOfLines DEF SpuriousLines
  <2>2. isr' = {CASCADE}
    BY <1>2, <1>5 DEF IntaSpuriousSlave
  <2>3. IRQ_VETOR_BASE + (IRQ_NUM_LINHAS - 1) = IRQ_VETOR_BASE + IRQ_NUM_LINHAS - 1
    BY InterruptsAssumption DEF IRQ_VETOR_BASE, IRQ_NUM_LINHAS
  <2>4. Deliver(IRQ_VETOR_BASE + (IRQ_NUM_LINHAS - 1), FALSE)
    BY <1>5, <2>3 DEF IntaSpuriousSlave
  <2> QED
    BY <1>1, <2>1, <2>2, <2>4, DeliverPreserves
<1> QED
  BY <1>3, <1>4, <1>5 DEF Interrupt

\* The one step that needs the assumption on the CPU: in the shadow of STI the
\* interrupt flag is set over code that nothing may interrupt.
LEMMA ExceptionPreserves ==
    ASSUME STI_HOLDS_NMI, IInv, Fault PROVE Stack'
<1>1. PICK v \in Faults : Exception(v)
  BY DEF Fault
<1> DEFINE f == Frame(v, TRUE)
<1>2. v \in Exceptions /\ v \in Vectors
  BY InterruptsAssumption, VectorsOfLines
<1>3. ~IsIrq(f) /\ f.saved = int_enabled /\ f.pc = "entry"
  BY <1>2, VectorsOfLines DEF Frame, IsIrq
<1>4. Sound(f)
  BY <1>3 DEF Sound
<1>5. Pushed(f)
  BY <1>1, <1>2, FramePushed DEF Exception, IInv
<1>6. ~sti_shadow /\ ~Interruptible' /\ isr' = isr
  BY <1>1 DEF Exception, Interruptible, pic
<1> HIDE DEF f
<1> QED
  BY <1>3, <1>4, <1>5, <1>6, PushKeeps DEF Interruptible
-----------------------------------------------------------------------------
(* The steps of the stubs and of the handlers                               *)

\* What is in service while the innermost frame is an interrupt.
LEMMA InServiceAtTop ==
    ASSUME IInv, frames # <<>>, IsIrq(Top), Top.pc \in {"entry", "eoi"}
    PROVE  /\ LineOf(Top) \in Lines
           /\ isr = (IF Top.real THEN {LineOf(Top)} ELSE {})
                       \cup (IF LineOf(Top) \in Slave THEN {CASCADE} ELSE {})
<1>1. Top \in FrameType /\ Sound(Top)
  BY TopSound
<1>2. isr = Owed(Top)
  BY <1>1, TopOwesAlone DEF Sound
<1> QED
  BY <1>1, <1>2, VectorsOfLines DEF Owed

\* The spurious test is right: it holds of a last line exactly when the 8259
\* has delivered no request.
LEMMA SpuriousTestExact ==
    ASSUME IInv, frames # <<>>, IsIrq(Top), Top.pc = "entry"
    PROVE  pic_irq_espuria(LineOf(Top)) <=> ~Top.real
<1>1. Sound(Top)
  BY TopSound
<1>2. CASE Top.real
  BY <1>2, InServiceAtTop DEF pic_irq_espuria
<1>3. CASE ~Top.real
  <2>1. LineOf(Top) \in SpuriousLines
    BY <1>1, <1>3 DEF Sound
  <2>2. LineOf(Top) # CASCADE
    BY <2>1, VectorsOfLines
  <2>3. LineOf(Top) \notin isr
    BY <1>3, <2>2, InServiceAtTop
  <2> QED
    BY <1>3, <2>1, <2>3 DEF pic_irq_espuria, SpuriousLines
<1> QED
  BY <1>2, <1>3

LEMMA IrqEntryPreserves ==
    ASSUME IInv, IrqEntry PROVE Stack'
<1> DEFINE l == LineOf(Top)
<1>1. frames # <<>> /\ IsIrq(Top) /\ Top.pc = "entry"
  BY DEF IrqEntry, Running
<1>2. Top \in FrameType /\ Sound(Top) /\ Top.saved
  BY <1>1, TopSound DEF Sound
<1>3. Interruptible' => Interruptible
  BY DEF IrqEntry, Interruptible, cpu
<1>4. CASE pic_irq_espuria(l)
  <2> DEFINE f == [Top EXCEPT !.pc = "iret"]
  <2>1. Replaced(f)
    BY <1>1, <1>4, GoToReplaces DEF IrqEntry, Pcs, IInv
  <2>2. f.pc = "iret" /\ f.saved = Top.saved /\ f.opened = Top.opened
        /\ f.real = Top.real /\ IsIrq(f) /\ LineOf(f) = l
    BY <1>1, <1>2, PcFields DEF Pcs
  <2>3. Owed(f) = {} /\ Sound(f)
    BY <1>1, <1>2, <2>2 DEF Owed, Sound
  <2>4. ~Top.real
    BY <1>1, <1>4, SpuriousTestExact
  <2>5. isr' = {}
    <3>1. CASE l \in Slave
      <4>1. isr = {CASCADE}
        BY <1>1, <2>4, <3>1, InServiceAtTop
      <4>2. Eoi({CASCADE}, Master) = {}
        BY EoiEndsLast, MasterSlaveDisjoint, LinesNat
      <4> QED
        BY <1>4, <3>1, <4>1, <4>2 DEF IrqEntry
    <3>2. CASE l \notin Slave
      BY <1>1, <1>4, <2>4, <3>2, InServiceAtTop DEF IrqEntry
    <3> QED
      BY <3>1, <3>2
  <2> HIDE DEF f
  <2> QED
    BY <1>1, <1>2, <1>3, <2>1, <2>2, <2>3, <2>5, ReplaceKeeps
<1>5. CASE ~pic_irq_espuria(l)
  <2> DEFINE f == [Top EXCEPT !.pc = "eoi"]
  <2>1. Replaced(f)
    BY <1>1, <1>5, GoToReplaces DEF IrqEntry, Pcs, IInv
  <2>2. f.pc = "eoi" /\ f.saved = Top.saved /\ f.opened = Top.opened
        /\ f.real = Top.real /\ IsIrq(f) /\ LineOf(f) = l
    BY <1>1, <1>2, PcFields DEF Pcs
  <2>3. Top.real
    BY <1>1, <1>5, SpuriousTestExact
  <2>4. Owed(f) = Owed(Top) /\ Sound(f)
    BY <1>1, <1>2, <2>2, <2>3 DEF Owed, Sound
  <2>5. isr' = isr
    BY <1>5 DEF IrqEntry
  <2> HIDE DEF f
  <2> QED
    BY <1>1, <1>3, <2>1, <2>2, <2>4, <2>5, ReplaceKeeps
<1> QED
  BY <1>4, <1>5

LEMMA IrqEoiPreserves ==
    ASSUME IInv, IrqEoi PROVE Stack'
<1> DEFINE l == LineOf(Top)
           f == [Top EXCEPT !.pc = "call"]
<1>1. frames # <<>> /\ Top.pc = "eoi"
  BY DEF IrqEoi, Running
<1>2. Top \in FrameType /\ Sound(Top) /\ IsIrq(Top) /\ Top.real /\ Top.saved
  BY <1>1, TopSound DEF Handled, Sound
<1>3. Interruptible' => Interruptible
  BY DEF IrqEoi, Interruptible, cpu
<1>4. Replaced(f)
  BY <1>1, GoToReplaces DEF IrqEoi, Pcs, IInv
<1>5. f.pc = "call" /\ f.saved = Top.saved /\ f.opened = Top.opened
      /\ f.real = Top.real /\ IsIrq(f) /\ LineOf(f) = l
  BY <1>2, PcFields DEF Pcs
<1>6. Owed(f) = {} /\ Sound(f)
  BY <1>2, <1>5 DEF Owed, Sound
<1>7. l \in Lines /\ isr = {l} \cup (IF l \in Slave THEN {CASCADE} ELSE {})
  BY <1>1, <1>2, InServiceAtTop
<1>8. isr' = Eoi(IF l \in Slave THEN Eoi(isr, Slave) ELSE isr, Master)
  BY DEF IrqEoi, pic_send_eoi
<1>9. isr' = {}
  <2>1. CASE l \in Slave
    <3>1. {CASCADE} \cap Slave = {} /\ l \in Nat /\ CASCADE \in Nat
      BY <1>7, MasterSlaveDisjoint, LinesNat
    <3>2. Eoi({l} \cup {CASCADE}, Slave) = {CASCADE}
      BY <2>1, <3>1, EoiEndsSingle
    <3>3. Eoi({CASCADE}, Master) = {}
      BY <3>1, MasterSlaveDisjoint, EoiEndsLast
    <3> QED
      BY <1>7, <1>8, <2>1, <3>2, <3>3
  <2>2. CASE l \notin Slave
    <3>1. l \in Master /\ l \in Nat
      BY <1>7, <2>2, LinesNat DEF Lines
    <3>2. Eoi({l}, Master) = {}
      BY <3>1, EoiEndsLast
    <3> QED
      BY <1>7, <1>8, <2>2, <3>2
  <2> QED
    BY <2>1, <2>2
<1> HIDE DEF f
<1> QED
  BY <1>1, <1>2, <1>3, <1>4, <1>5, <1>6, <1>9, ReplaceKeeps

\* Calling a handler, and moving to the end of the stub, owe nothing before or
\* after.
LEMMA CalledKeeps ==
    ASSUME IInv, frames # <<>>, Owed(Top) = {}, CallHandler, isr' = isr,
           Interruptible' => Interruptible
    PROVE  Stack'
<1> DEFINE f == [Top EXCEPT !.pc = "handler", !.called = TRUE]
<1>1. Replaced(f)
  BY CallReplaces DEF IInv
<1>2. Top \in FrameType /\ Sound(Top)
  BY TopSound
<1>3. /\ f.pc = "handler" /\ f.saved = Top.saved /\ f.opened = Top.opened
      /\ f.real = Top.real /\ IsIrq(f) = IsIrq(Top) /\ LineOf(f) = LineOf(Top)
  BY <1>2, CallFields
<1> HIDE DEF f
<1>4. Owed(f) = {} /\ Sound(f)
  BY <1>2, <1>3 DEF Owed, Sound
<1> QED
  BY <1>1, <1>3, <1>4, ReplaceKeeps

LEMMA LeaveKeeps ==
    ASSUME IInv, frames # <<>>, Owed(Top) = {}, isr' = isr,
           NEW pc \in {"sti", "iret"}, GoTo(pc),
           Interruptible' => Interruptible
    PROVE  Stack'
<1> DEFINE f == [Top EXCEPT !.pc = pc]
<1>1. pc \in Pcs /\ pc \notin {"entry", "eoi", "call"}
  BY DEF Pcs
<1>2. Replaced(f)
  BY <1>1, GoToReplaces DEF IInv
<1>3. Top \in FrameType /\ Sound(Top)
  BY TopSound
<1>4. /\ f.pc = pc /\ f.saved = Top.saved /\ f.opened = Top.opened
      /\ f.real = Top.real /\ IsIrq(f) = IsIrq(Top) /\ LineOf(f) = LineOf(Top)
  BY <1>1, <1>3, PcFields
<1> HIDE DEF f
<1>5. Owed(f) = {} /\ Sound(f)
  BY <1>1, <1>3, <1>4 DEF Owed, Sound
<1> QED
  BY <1>2, <1>4, <1>5, ReplaceKeeps

LEMMA PanicKeeps ==
    ASSUME IInv, Panic, isr' = isr, frames' = frames
    PROVE  Stack'
BY SameStack DEF Panic, Interruptible

LEMMA CallPreserves ==
    ASSUME IInv, IrqCall \/ IsrEntry \/ HandlerReturn PROVE Stack'
<1>1. frames # <<>>
  BY DEF IrqCall, IsrEntry, HandlerReturn, HandlerRuns, Running
<1>2. Owed(Top) = {} /\ isr' = isr
  BY DEF IrqCall, IsrEntry, HandlerReturn, HandlerRuns, Owed, pic
<1>3. CASE IrqCall
  <2>1. Interruptible' => Interruptible
    BY <1>3 DEF IrqCall, Interruptible, cpu
  <2>2. CallHandler \/ GoTo("iret")
    BY <1>3 DEF IrqCall
  <2> QED
    BY <1>1, <1>2, <2>1, <2>2, CalledKeeps, LeaveKeeps
<1>4. CASE IsrEntry
  <2>1. CASE handlers[Top.vector] # NULL
    <3>1. CallHandler /\ (Interruptible' => Interruptible)
      BY <1>4, <2>1 DEF IsrEntry, Interruptible
    <3> QED
      BY <1>1, <1>2, <3>1, CalledKeeps
  <2>2. CASE handlers[Top.vector] = NULL
    BY <1>2, <1>4, <2>2, PanicKeeps DEF IsrEntry
  <2> QED
    BY <2>1, <2>2
<1>5. CASE HandlerReturn
  <2>1. CASE Top.vector \in Aborts
    BY <1>2, <1>5, <2>1, PanicKeeps DEF HandlerReturn
  <2>2. CASE Top.vector \notin Aborts
    <3>1. GoTo(StubEnd) /\ (Interruptible' => Interruptible)
      BY <1>5, <2>2 DEF HandlerReturn, Interruptible
    <3>2. StubEnd \in {"sti", "iret"}
      BY DEF StubEnd
    <3> QED
      BY <1>1, <1>2, <3>1, <3>2, LeaveKeeps
  <2> QED
    BY <2>1, <2>2
<1> QED
  BY <1>3, <1>4, <1>5

\* STI makes the code interruptible only where it was: otherwise IRET is still
\* to come in its shadow.
LEMMA StubStiPreserves ==
    ASSUME IInv, StubSti PROVE Stack'
<1>1. frames # <<>> /\ Top.pc = "sti"
  BY DEF StubSti, Running
<1>2. sti_shadow = FALSE
  BY <1>1, NoShadow DEF IInv
<1>3. Owed(Top) = {} /\ isr' = isr /\ GoTo("iret")
  BY <1>1 DEF Owed, StubSti, pic
<1>4. Interruptible' => Interruptible
  BY <1>2 DEF StubSti, Interruptible
<1> QED
  BY <1>1, <1>3, <1>4, LeaveKeeps

LEMMA HandlerStiPreserves ==
    ASSUME IInv, HandlerSti PROVE Stack'
<1> DEFINE f == [Top EXCEPT !.opened = TRUE]
<1>1. frames # <<>> /\ Top.pc = "handler" /\ Top.saved
  BY DEF HandlerSti, HandlerRuns, Running
<1>2. Top \in FrameType /\ Sound(Top)
  BY <1>1, TopSound
<1>3. Replaced(f)
  BY StiReplaces DEF IInv
<1>4. /\ f.pc = "handler" /\ f.opened /\ f.saved = Top.saved
      /\ f.real = Top.real /\ IsIrq(f) = IsIrq(Top) /\ LineOf(f) = LineOf(Top)
  BY <1>1, <1>2, StiFields
<1> HIDE DEF f
<1>5. Owed(f) = {} /\ Owed(Top) = {} /\ Sound(f) /\ isr' = isr
  BY <1>1, <1>2, <1>4 DEF Owed, Sound, HandlerSti, pic
<1> QED
  BY <1>1, <1>3, <1>4, <1>5, ReplaceKeeps

LEMMA IretPreserves ==
    ASSUME IInv, Iret PROVE Stack'
<1>1. frames # <<>> /\ Top.pc = "iret" /\ frames' = Below
  BY DEF Iret, Running
<1>2. Popped
  BY <1>1, PopFrame DEF IInv
<1>3. (Interruptible' => Top.saved) /\ isr' = isr
  BY DEF Iret, Interruptible, pic
<1> QED
  BY <1>1, <1>2, <1>3, PopKeeps

LEMMA NextPreserves ==
    ASSUME STI_HOLDS_NMI, IInv, [Next]_vars PROVE IInv'
<1>1. TInv'
  BY TypesNext DEF IInv
<1>2. Stack'
  <2>1. CASE Next
    BY <2>1, QuietPreserves, ExceptionPreserves, IntaPreserves, StiPreserves,
       IrqEntryPreserves, IrqEoiPreserves, CallPreserves, StubStiPreserves,
       HandlerStiPreserves, IretPreserves, NextKinds
       DEF Dispatch
  <2>2. CASE UNCHANGED vars
    BY <2>2, SameStack DEF vars, pic, cpu, Interruptible
  <2> QED
    BY <2>1, <2>2
<1> QED
  BY <1>1, <1>2 DEF IInv, Stack

-----------------------------------------------------------------------------
(* Theorems                                                                 *)

\* Types, and what a frame has been through, on every CPU.
THEOREM HandledInvariance == Spec => []TInv
BY InitTypes, TypesNext, PTL DEF Spec

\* Types are kept for every number of lines, vectors and frames.
THEOREM TypeCorrect == Spec => []TypeOK
BY HandledInvariance, TypesHold, PTL

\* On a CPU that holds NMIs back in the shadow of STI, the whole invariant holds
\* in every reachable state.
THEOREM Invariance == STI_HOLDS_NMI /\ Spec => []IInv
<1>1. SUFFICES ASSUME STI_HOLDS_NMI PROVE Spec => []IInv
  OBVIOUS
<1>2. Init => IInv
  BY InitEstablishes
<1>3. IInv /\ [Next]_vars => IInv'
  BY <1>1, NextPreserves
<1> QED
  BY <1>2, <1>3, PTL DEF Spec

\* The in-service bits are exactly what the frames still owe an EOI, and none
\* is set while interrupts can be taken, whatever nests where, if the CPU holds
\* NMIs back between STI and IRET.
THEOREM PicIsBalanced == STI_HOLDS_NMI /\ Spec => []PicBalanced
<1>1. IInv => PicBalanced
  <2> SUFFICES ASSUME IInv PROVE PicBalanced
    OBVIOUS
  <2>1. DOMAIN frames = 1 .. Depth
    BY FrameTyped DEF IInv
  <2>2. isr = UNION {Owed(frames[i]) : i \in DOMAIN frames}
    BY <2>1 DEF IInv, Service
  <2> QED
    BY <2>2, NobodyOwes DEF PicBalanced
<1> QED
  BY <1>1, Invariance, PTL

\* An interrupt is nested only in a handler that executed STI, if the CPU holds
\* NMIs back between the STI and the IRET of isr_common_stub.
THEOREM NestingByConsent == STI_HOLDS_NMI /\ Spec => []NestedOnlyIfOpened
<1>1. IInv => NestedOnlyIfOpened
  <2> SUFFICES ASSUME IInv, NEW i \in DOMAIN frames, i > 1, IsIrq(frames[i])
               PROVE  frames[i - 1].opened
    BY DEF NestedOnlyIfOpened
  <2>1. i \in 1 .. Depth /\ Depth \in Nat
    BY FrameTyped DEF IInv
  <2>2. i \in 2 .. Depth
    BY <2>1
  <2>3. frames[i].saved
    BY <2>1 DEF IInv, FramesSound, Sound
  <2> QED
    BY <2>2, <2>3 DEF IInv, Opened
<1> QED
  BY <1>1, Invariance, PTL

-----------------------------------------------------------------------------
(* Action properties                                                        *)

\* The same three shapes, seen from one frame that stays on the stack.
LEMMA PushLeavesOthers ==
    ASSUME TInv, NEW f, frames' = Append(frames, f)
    PROVE  /\ \A i \in DOMAIN frames : frames'[i] = frames[i]
           /\ ~(Len(frames') < Len(frames))
BY FrameTyped

LEMMA ReplaceLeavesOthers ==
    ASSUME TInv, frames # <<>>, NEW f, frames' = [frames EXCEPT ![Len(frames)] = f]
    PROVE  /\ \A i \in DOMAIN frames : i # Len(frames) => frames'[i] = frames[i]
           /\ ~(Len(frames') < Len(frames))
BY FrameTyped

LEMMA PopLeavesOthers ==
    ASSUME TInv, frames # <<>>, Popped
    PROVE  \A i \in DOMAIN frames \cap DOMAIN frames' : frames'[i] = frames[i]
BY FrameTyped DEF Popped, Depth

\* Every step, by what it does to the stack; only the entry of its stub moves
\* the frame of an interrupt that is still at "entry".
LEMMA StepShapes ==
    ASSUME [Next]_vars
    PROVE  \/ frames' = frames
           \/ \E f : frames' = Append(frames, f)
           \/ /\ frames # <<>> /\ \E f : frames' = [frames EXCEPT ![Len(frames)] = f]
              /\ IsIrq(Top) /\ Top.pc = "entry" => IrqEntry
           \/ Iret
<1>1. CASE Interrupt \/ Fault
  BY <1>1 DEF Interrupt, Fault, Inta, IntaSpuriousMaster, IntaSpuriousSlave, Deliver,
     Exception
<1>2. CASE Device \/ TableStep \/ MaskStep \/ Sti \/ UNCHANGED vars
  BY <1>2 DEF Device, TableStep, MaskStep, Sti, RegisterStore, Raise, RegisterTest,
     HandlerRegisters, Unregister, SetMask, Store, vars
<1>3. CASE Dispatch \/ HandlerSti \/ Iret
  <2>1. CASE IrqEntry \/ Iret
    BY <2>1 DEF IrqEntry, GoTo, Running
  <2>2. CASE IrqEoi \/ IrqCall \/ HandlerReturn \/ HandlerSti \/ StubSti
    <3>1. frames # <<>> /\ Top.pc # "entry"
      BY <2>2 DEF IrqEoi, IrqCall, HandlerReturn, HandlerSti, StubSti, HandlerRuns, Running
    <3>2. frames' = frames \/ \E f : frames' = [frames EXCEPT ![Len(frames)] = f]
      BY <2>2 DEF IrqEoi, IrqCall, HandlerReturn, HandlerSti, StubSti, GoTo, CallHandler
    <3> QED
      BY <3>1, <3>2
  <2>3. CASE IsrEntry
    BY <2>3 DEF IsrEntry, CallHandler, Running
  <2> QED
    BY <1>3, <2>1, <2>2, <2>3 DEF Dispatch
<1> QED
  BY <1>1, <1>2, <1>3, NextKinds

\* An interrupt leaves by the spurious exit exactly when the 8259 delivered no
\* real request, whatever was nested, ended or raised before, if the CPU holds
\* NMIs back between STI and IRET.
THEOREM SpuriousTestIsExact == STI_HOLDS_NMI /\ Spec => SpuriousExact
<1>1. ASSUME IInv, [Next]_vars, NEW i \in DOMAIN frames \cap DOMAIN frames',
             IsIrq(frames[i]), frames[i].pc = "entry", frames'[i].pc # "entry"
      PROVE  frames'[i].pc = "eoi" <=> frames[i].real
  <2>1. TInv
    BY <1>1 DEF IInv
  <2>2. frames # <<>> /\ i = Len(frames) /\ IrqEntry
    <3>1. Iret => frames # <<>> /\ Popped
      BY <2>1, PopFrame DEF Iret, Running
    <3> QED
      BY <1>1, <2>1, <3>1, StepShapes, PushLeavesOthers, ReplaceLeavesOthers,
         PopLeavesOthers DEF Top
  <2>3. frames[i] = Top /\ i \in Nat
    BY <2>1, <2>2, FrameTyped DEF Top
  <2>4. pic_irq_espuria(LineOf(Top)) <=> ~Top.real
    BY <1>1, <2>2, <2>3, SpuriousTestExact
  <2>5. frames'[i].pc = IF pic_irq_espuria(LineOf(Top)) THEN "iret" ELSE "eoi"
    <3>1. ASSUME NEW pc \in Pcs, GoTo(pc) PROVE frames'[i].pc = pc
      <4>1. Replaced([Top EXCEPT !.pc = pc])
        BY <2>1, <2>2, <3>1, GoToReplaces
      <4> QED
        BY <1>1, <2>2, <4>1, TopSound DEF Replaced, Depth, FrameType
    <3> QED
      BY <2>2, <3>1 DEF IrqEntry, Pcs
  <2>6. Top.real \in BOOLEAN
    BY <1>1, <2>2, TopSound DEF FrameType
  <2> QED
    BY <2>3, <2>4, <2>5, <2>6
<1>2. IInv /\ [Next]_vars =>
        [\A i \in DOMAIN frames \cap DOMAIN frames' :
            IsIrq(frames[i]) /\ frames[i].pc = "entry" /\ frames'[i].pc # "entry"
                => (frames'[i].pc = "eoi" <=> frames[i].real)]_vars
  BY <1>1
<1> QED
  BY <1>2, Invariance, PTL DEF Spec, SpuriousExact

\* An exception returns only after a handler ran for it, never after an abort,
\* and nothing leaves a panic.
THEOREM FatalStaysFinal == Spec => FatalIsFinal
<1>1. ASSUME [Next]_vars, panicked PROVE panicked'
  BY <1>1 DEF Next, vars, Stub, IrqEntry, IrqEoi, IrqCall, IsrEntry, StubSti, Iret, Panic,
     HandlerReturn, HandlerSti, HandlerRuns, Running, Inta, IntaSpuriousMaster,
     IntaSpuriousSlave, CanInterrupt, Raise, Exception, MainRuns, RegisterTest,
     RegisterStore, HandlerRegisters, Unregister, Store, SetMask, Sti
<1>2. ASSUME TInv, [Next]_vars, Len(frames') < Len(frames), ~IsIrq(Top)
      PROVE  Top.called /\ Top.vector \notin Aborts
  <2>2. Iret
    <3>1. Len(frames) \in Nat
      BY <1>2, FrameTyped DEF Depth
    <3> QED
      BY <1>2, <3>1, StepShapes, PushLeavesOthers, ReplaceLeavesOthers
  <2>3. frames # <<>> /\ Top.pc = "iret"
    BY <2>2 DEF Iret, Running
  <2> QED
    BY <1>2, <2>3, TopTyped DEF Handled
<1>3. TInv /\ [Next]_vars =>
        [/\ panicked => panicked'
         /\ Len(frames') < Len(frames) /\ ~IsIrq(Top)
               => Top.called /\ Top.vector \notin Aborts]_vars
  BY <1>1, <1>2
<1> QED
  BY <1>3, HandledInvariance, PTL DEF Spec, FatalIsFinal

-----------------------------------------------------------------------------
(* Registration.  The two steps of vetor_registrar are safe while no handler *)
(* registers another one for a vector the kernel registers.                 *)

OwnVectors == \A r \in MainHandlers, q \in IsrHandlers : r[1] # q[1]

\* What the kernel has tested is still so when it stores.
StillFree == reg # <<>> => handlers[reg[1]] = NULL

LEMMA TableSteps ==
    ASSUME [Next]_vars
    PROVE  \/ UNCHANGED <<handlers, reg>>
           \/ \E r \in MainHandlers : RegisterTest(r[1], r[2])
           \/ RegisterStore
           \/ \E r \in IsrHandlers : HandlerRegisters(r[1], r[2])
           \/ \E r \in Registrations : Unregister(r[1])
  BY NextKinds DEF vars, table, Dispatch, IrqEntry, IrqEoi, IrqCall, IsrEntry, StubSti, Iret,
     HandlerReturn, HandlerSti, Interrupt, Inta, IntaSpuriousMaster, IntaSpuriousSlave,
     Deliver, Device, Raise, Fault, Exception, TableStep, MaskStep, SetMask, Sti

LEMMA StillFreeNext ==
    ASSUME OwnVectors, TypeOK, StillFree, [Next]_vars
    PROVE  StillFree'
<1>1. CASE UNCHANGED <<handlers, reg>>
  BY <1>1 DEF StillFree
<1>2. ASSUME NEW r \in MainHandlers, RegisterTest(r[1], r[2]) PROVE StillFree'
  BY <1>2 DEF StillFree, RegisterTest
<1>3. CASE RegisterStore
  BY <1>3 DEF StillFree, RegisterStore
<1>4. ASSUME NEW r \in IsrHandlers, HandlerRegisters(r[1], r[2]) PROVE StillFree'
  <2>1. reg' = reg /\ handlers' = [handlers EXCEPT ![r[1]] = r[2]]
    BY <1>4 DEF HandlerRegisters, Store
  <2>2. reg # <<>> => reg[1] # r[1]
    BY DEF OwnVectors, TypeOK
  <2>3. handlers \in [Vectors -> Handlers \cup {NULL}]
    BY DEF TypeOK
  <2>4. reg # <<>> => reg[1] \in Vectors
    BY InterruptsAssumption DEF TypeOK, Registrations
  <2> QED
    BY <2>1, <2>2, <2>3, <2>4 DEF StillFree
<1>5. ASSUME NEW r \in Registrations, Unregister(r[1]) PROVE StillFree'
  <2>1. reg' = reg /\ handlers' = [handlers EXCEPT ![r[1]] = NULL]
    BY <1>5 DEF Unregister, Store
  <2>2. handlers \in [Vectors -> Handlers \cup {NULL}]
    BY DEF TypeOK
  <2>3. reg # <<>> => reg[1] \in Vectors
    BY InterruptsAssumption DEF TypeOK, Registrations
  <2> QED
    BY <2>1, <2>2, <2>3 DEF StillFree
<1> QED
  BY <1>1, <1>2, <1>3, <1>4, <1>5, TableSteps

LEMMA NothingReplaced ==
    ASSUME TypeOK, StillFree, [Next]_vars,
           NEW v \in Vectors, handlers[v] # NULL
    PROVE  handlers'[v] \in {handlers[v], NULL}
<1>1. handlers \in [Vectors -> Handlers \cup {NULL}]
  BY DEF TypeOK
<1>2. CASE UNCHANGED <<handlers, reg>> \/ \E r \in MainHandlers : RegisterTest(r[1], r[2])
  BY <1>2 DEF RegisterTest
<1>3. CASE RegisterStore
  BY <1>1, <1>3 DEF RegisterStore, Store, StillFree
<1>4. ASSUME NEW r \in IsrHandlers, HandlerRegisters(r[1], r[2])
      PROVE  handlers'[v] \in {handlers[v], NULL}
  BY <1>1, <1>4 DEF HandlerRegisters, Store
<1>5. ASSUME NEW r \in Registrations, Unregister(r[1])
      PROVE  handlers'[v] \in {handlers[v], NULL}
  BY <1>1, <1>5 DEF Unregister, Store
<1> QED
  BY <1>2, <1>3, <1>4, <1>5, TableSteps

\* While drivers keep to vectors of their own, a registration never replaces
\* another's handler, although vetor_registrar tests and stores in two steps
\* and a handler may register others in between (finding 3 is what happens
\* when they do not).
THEOREM NeverReplaced == OwnVectors /\ Spec => NoSilentReplacement
<1>1. SUFFICES ASSUME OwnVectors PROVE Spec => NoSilentReplacement
  OBVIOUS
<1>2. Init => StillFree
  BY DEF Init, StillFree
<1>3. TypeOK /\ StillFree /\ [Next]_vars => StillFree'
  BY <1>1, StillFreeNext
<1>4. TypeOK /\ StillFree /\ [Next]_vars =>
        [\A v \in Vectors : handlers[v] # NULL => handlers'[v] \in {handlers[v], NULL}]_vars
  BY NothingReplaced
<1> QED
  BY <1>2, <1>3, <1>4, TypeCorrect, PTL DEF Spec, NoSilentReplacement
=============================================================================
