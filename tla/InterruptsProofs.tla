-------------------------- MODULE InterruptsProofs --------------------------
(*************************************************************************)
(* Interrupts: genoa_entry leaves no interrupt without a handler, the    *)
(* two controllers are always what the driver takes them to be, the      *)
(* terminal is not entered twice and a panic is the end, for any set of  *)
(* devices, any body of main and with or without faults. All follow from *)
(* one inductive invariant, Inv, which says of the instruction that      *)
(* genoa_entry has reached (place) which handlers are registered, what   *)
(* the controllers have been told and which frames may lie above it.     *)
(*                                                                       *)
(* IsrStub, at the end: the stub, the order of struct register_ctx and   *)
(* the processor's frame, which are written down in three places, fit    *)
(* together for every vector whose error code the stub knows of; for the *)
(* two others the theorems say what happens.                             *)
(*************************************************************************)
EXTENDS Interrupts, TLAPS, SequenceTheorems, FiniteSetTheorems

-----------------------------------------------------------------------------
(* The functions, instruction by instruction *)

\* The part of genoa_entry before Driver.
Boot == << Do("idt_init"), Do("load_idt"), Do("cli") >> \o pic_init \o << Do("sti") >>
        \o Log \o pit_init
Last == 25 + Len(Driver)
DriverCalls == [op : {"mask", "unmask"}, irqs : SUBSET (0 .. 15)]
               \cup [op : {"out_mask"}, chip : Chips]
               \cup [op : {"register"}, vector : Vectors, handler : {"irq8_handler"}]

LEMMA BootCode ==
  /\ Len(Boot) = 24
  /\ Boot[1] = Do("idt_init") /\ Boot[2] = Do("load_idt") /\ Boot[3] = Do("cli")
  /\ Boot[4] = OutCommand("master", {0, 4}) /\ Boot[5] = OutCommand("slave", {0, 4})
  /\ Boot[6] = OutData("master", {5}) /\ Boot[7] = OutData("slave", {3, 5})
  /\ Boot[8] = OutData("master", {2}) /\ Boot[9] = OutData("slave", {1})
  /\ Boot[10] = OutData("master", {0}) /\ Boot[11] = OutData("slave", {0})
  /\ Boot[12] = OutData("master", Byte) /\ Boot[13] = OutData("slave", Byte)
  /\ Boot[14] = MaskIrqs(0 .. 15) /\ Boot[15] = Do("sti")
  /\ Boot[16] = Do("print") /\ Boot[17] = Do("printed")
  /\ Boot[18] = Do("set_callback") /\ Boot[19] = Do("pit_mode")
  /\ Boot[20] = Register(IDT_IRQ_BASE, "pit_handler")
  /\ Boot[21] = Do("pit_low") /\ Boot[22] = Do("pit_high")
  /\ Boot[23] = UnmaskIrqs({0}) /\ Boot[24] = OutMask("master")
BY DEF Boot, Log, pic_init, Icw1, Icw2, Icw3And4, pic_maskall, pit_init, pic_unmask, ChipOf

LEMMA EntryCode ==
  /\ Len(Driver) \in Nat
  /\ Len(genoa_entry) = Last
  /\ \A k \in 1 .. 24 : genoa_entry[k] = Boot[k]
  /\ \A j \in 1 .. Len(Driver) : genoa_entry[24 + j] = Driver[j]
  /\ genoa_entry[Last] = Do("hlt")
<1> DEFINE S == {Boot[k] : k \in 1 .. 24} \cup DriverCalls \cup {Do("hlt")}
<1>1. Driver \in Seq(DriverCalls)
  BY DriverAssumption DEF DriverCalls
<1>2. Driver \in Seq(S) /\ Len(Driver) \in Nat
  BY <1>1
<1>3. Boot \in Seq(S)
  <2>1. ASSUME NEW T, \A k \in 1 .. 24 : Boot[k] \in T PROVE Boot \in Seq(T)
    <3>1. /\ Do("idt_init") \in T /\ Do("load_idt") \in T /\ Do("cli") \in T
          /\ OutCommand("master", {0, 4}) \in T /\ OutCommand("slave", {0, 4}) \in T
          /\ OutData("master", {5}) \in T /\ OutData("slave", {3, 5}) \in T
          /\ OutData("master", {2}) \in T /\ OutData("slave", {1}) \in T
          /\ OutData("master", {0}) \in T /\ OutData("slave", {0}) \in T
          /\ OutData("master", Byte) \in T /\ OutData("slave", Byte) \in T
          /\ MaskIrqs(0 .. 15) \in T /\ Do("sti") \in T
          /\ Do("print") \in T /\ Do("printed") \in T
          /\ Do("set_callback") \in T /\ Do("pit_mode") \in T
          /\ Register(IDT_IRQ_BASE, "pit_handler") \in T
          /\ Do("pit_low") \in T /\ Do("pit_high") \in T
          /\ UnmaskIrqs({0}) \in T /\ OutMask("master") \in T
      BY <2>1, BootCode
    <3> QED
      BY <3>1 DEF Boot, Log, pic_init, Icw1, Icw2, Icw3And4, pic_maskall, pit_init,
                  pic_unmask, ChipOf
  <2>2. \A k \in 1 .. 24 : Boot[k] \in S
    OBVIOUS
  <2> HIDE DEF S
  <2> QED
    BY <2>1, <2>2
<1>4. << Do("hlt") >> \in Seq(S)
  OBVIOUS
<1>5. genoa_entry = Boot \o Driver \o << Do("hlt") >>
  BY DEF genoa_entry, Boot
<1> HIDE DEF S
<1>6. /\ Boot \o Driver \in Seq(S) /\ Len(Boot \o Driver) = 24 + Len(Driver)
      /\ \A i \in 1 .. 24 + Len(Driver) :
           (Boot \o Driver)[i] = IF i <= 24 THEN Boot[i] ELSE Driver[i - 24]
  <2>1. Len(Boot) = 24
    BY BootCode
  <2>2. ASSUME NEW s \in Seq(S), NEW t \in Seq(S)
        PROVE  /\ s \o t \in Seq(S) /\ Len(s \o t) = Len(s) + Len(t)
               /\ \A i \in 1 .. Len(s) + Len(t) :
                    (s \o t)[i] = IF i <= Len(s) THEN s[i] ELSE t[i - Len(s)]
    BY ConcatProperties
  <2>3. /\ Boot \o Driver \in Seq(S) /\ Len(Boot \o Driver) = Len(Boot) + Len(Driver)
        /\ \A i \in 1 .. Len(Boot) + Len(Driver) :
             (Boot \o Driver)[i] = IF i <= Len(Boot) THEN Boot[i] ELSE Driver[i - Len(Boot)]
    BY <1>2, <1>3, <2>2
  <2> QED
    BY <2>1, <2>3
<1> DEFINE B == Boot \o Driver
<1> HIDE DEF B
<1>7. /\ Len(genoa_entry) = 24 + Len(Driver) + 1
      /\ \A i \in 1 .. 24 + Len(Driver) + 1 :
           genoa_entry[i] = IF i <= 24 + Len(Driver) THEN B[i] ELSE << Do("hlt") >>[i - (24 + Len(Driver))]
  <2>1. B \in Seq(S) /\ Len(B) = 24 + Len(Driver) /\ Len(<< Do("hlt") >>) = 1
    BY <1>6 DEF B
  <2>2. genoa_entry = B \o << Do("hlt") >>
    BY <1>5 DEF B
  <2> QED
    BY <2>1, <2>2, <1>4, ConcatProperties
<1>8. ASSUME NEW i \in 1 .. 24 + Len(Driver)
      PROVE  B[i] = IF i <= 24 THEN Boot[i] ELSE Driver[i - 24]
  BY <1>6 DEF B
<1>9. \A k \in 1 .. 24 : genoa_entry[k] = Boot[k]
  BY <1>2, <1>7, <1>8
<1>10. \A j \in 1 .. Len(Driver) : genoa_entry[24 + j] = Driver[j]
  BY <1>2, <1>7, <1>8
<1>11. genoa_entry[Last] = Do("hlt")
  BY <1>2, <1>7 DEF Last
<1> QED
  BY <1>2, <1>7, <1>9, <1>10, <1>11 DEF Last

LEMMA PitCode ==
  /\ Len(pit_handler) = 3
  /\ pit_handler[1] = Do("callback")
  /\ pit_handler[2] = OutCommand("master", {5})
  /\ pit_handler[3] = Do("iret")
BY DEF pit_handler, pic_eoi

LEMMA Irq8Code ==
  /\ Len(irq8_handler) = 3
  /\ irq8_handler[1] = OutCommand("slave", {5})
  /\ irq8_handler[2] = OutCommand("master", {5})
  /\ irq8_handler[3] = Do("iret")
BY DEF irq8_handler, pic_eoi

LEMMA TickCode ==
  /\ Len(tick) = 3
  /\ tick[1] = Do("print") /\ tick[2] = Do("printed") /\ tick[3] = Do("ret")
BY DEF tick, Log

LEMMA PanicCode ==
  /\ Len(kpanic) = 4
  /\ kpanic[1] = Do("print") /\ kpanic[2] = Do("printed")
  /\ kpanic[3] = Do("cli") /\ kpanic[4] = Do("hlt")
BY DEF kpanic, Log

Handlers == {"pit_handler", "irq8_handler"}
Calm == {"genoa_entry", "kpanic"}    \* functions that run with interrupts on
Frames == [name : Names \ {"NULL"}, at : Nat, flag : BOOLEAN]
InCode(f) == f.at \in 1 .. Len(Code(f.name))

LEMMA NameCases ==
  ASSUME NEW f \in Frames
  PROVE  \/ f.name = "genoa_entry" \/ f.name = "pit_handler" \/ f.name = "tick"
         \/ f.name = "kpanic" \/ f.name = "irq8_handler"
BY DEF Frames, Names

\* Where a frame of a handler, of a tick or of a panic can stand.
LEMMA AboveBoot ==
  ASSUME NEW f \in Frames, InCode(f)
  PROVE  /\ f.name = "pit_handler" =>
              \/ f.at = 1 /\ InstructionOf(f) = Do("callback")
              \/ f.at = 2 /\ InstructionOf(f) = OutCommand("master", {5})
              \/ f.at = 3 /\ InstructionOf(f) = Do("iret")
         /\ f.name = "irq8_handler" =>
              \/ f.at = 1 /\ InstructionOf(f) = OutCommand("slave", {5})
              \/ f.at = 2 /\ InstructionOf(f) = OutCommand("master", {5})
              \/ f.at = 3 /\ InstructionOf(f) = Do("iret")
         /\ f.name = "tick" =>
              \/ f.at = 1 /\ InstructionOf(f) = Do("print")
              \/ f.at = 2 /\ InstructionOf(f) = Do("printed")
              \/ f.at = 3 /\ InstructionOf(f) = Do("ret")
         /\ f.name = "kpanic" =>
              \/ f.at = 1 /\ InstructionOf(f) = Do("print")
              \/ f.at = 2 /\ InstructionOf(f) = Do("printed")
              \/ f.at = 3 /\ InstructionOf(f) = Do("cli")
              \/ f.at = 4 /\ InstructionOf(f) = Do("hlt")
<1>1. CASE f.name = "pit_handler"
  <2>1. Code(f.name) = pit_handler
    BY <1>1 DEF Code
  <2>2. InstructionOf(f) = pit_handler[f.at]
    BY <2>1 DEF InstructionOf
  <2>3. f.at = 1 \/ f.at = 2 \/ f.at = 3
    BY <2>1, PitCode DEF InCode
  <2> QED
    BY <1>1, <2>2, <2>3, PitCode
<1>2. CASE f.name = "irq8_handler"
  <2>1. Code(f.name) = irq8_handler
    BY <1>2 DEF Code
  <2>2. InstructionOf(f) = irq8_handler[f.at]
    BY <2>1 DEF InstructionOf
  <2>3. f.at = 1 \/ f.at = 2 \/ f.at = 3
    BY <2>1, Irq8Code DEF InCode
  <2> QED
    BY <1>2, <2>2, <2>3, Irq8Code
<1>3. CASE f.name = "tick"
  <2>1. Code(f.name) = tick
    BY <1>3 DEF Code
  <2>2. InstructionOf(f) = tick[f.at]
    BY <2>1 DEF InstructionOf
  <2>3. f.at = 1 \/ f.at = 2 \/ f.at = 3
    BY <2>1, TickCode DEF InCode
  <2> QED
    BY <1>3, <2>2, <2>3, TickCode
<1>4. CASE f.name = "kpanic"
  <2>1. Code(f.name) = kpanic
    BY <1>4 DEF Code
  <2>2. InstructionOf(f) = kpanic[f.at]
    BY <2>1 DEF InstructionOf
  <2>3. f.at = 1 \/ f.at = 2 \/ f.at = 3 \/ f.at = 4
    BY <2>1, PanicCode DEF InCode
  <2> QED
    BY <1>4, <2>2, <2>3, PanicCode
<1> QED
  BY <1>1, <1>2, <1>3, <1>4

LEMMA CodeLengths ==
  /\ Len(Code("genoa_entry")) = Last /\ Last \in Nat /\ Last >= 25
  /\ Len(Code("pit_handler")) = 3 /\ Len(Code("irq8_handler")) = 3
  /\ Len(Code("tick")) = 3 /\ Len(Code("kpanic")) = 4
<1>1. Len(Code("genoa_entry")) = Last /\ Last \in Nat /\ Last >= 25
  BY EntryCode DEF Code, Last
<1>2. Len(Code("pit_handler")) = 3 /\ Len(Code("irq8_handler")) = 3
  BY PitCode, Irq8Code DEF Code
<1>3. Len(Code("tick")) = 3 /\ Len(Code("kpanic")) = 4
  BY TickCode, PanicCode DEF Code
<1> QED
  BY <1>1, <1>2, <1>3

-----------------------------------------------------------------------------
(* The stack *)

\* An instruction that only moves on.
LEMMA AfterNext ==
  ASSUME stack \in Seq(Frames), Len(stack) >= 1, NextInstruction
  PROVE  /\ stack' \in Seq(Frames) /\ Len(stack') = Len(stack)
         /\ \A k \in 1 .. Len(stack) - 1 : stack'[k] = stack[k]
         /\ stack'[Len(stack)].name = Top.name
         /\ stack'[Len(stack)].at = Top.at + 1
         /\ stack'[Len(stack)].flag = Top.flag
<1> DEFINE n == Len(stack)
           e == [Top EXCEPT !.at = @ + 1]
<1>1. n \in Nat /\ n \in 1 .. n /\ Top \in Frames
  BY ElementOfSeq DEF Top
<1>2. e \in Frames /\ e.name = Top.name /\ e.at = Top.at + 1 /\ e.flag = Top.flag
  BY <1>1 DEF Frames
<1>3. stack' = [stack EXCEPT ![n] = e]
  BY <1>1 DEF NextInstruction, Top
<1> HIDE DEF e
<1>4. /\ [stack EXCEPT ![n] = e] \in Seq(Frames)
      /\ Len([stack EXCEPT ![n] = e]) = n
      /\ \A j \in 1 .. n : [stack EXCEPT ![n] = e][j] = IF j = n THEN e ELSE stack[j]
  BY <1>1, <1>2, ExceptSeq
<1>5. stack' \in Seq(Frames) /\ Len(stack') = n
  BY <1>3, <1>4
<1>6. \A j \in 1 .. n : stack'[j] = IF j = n THEN e ELSE stack[j]
  BY <1>3, <1>4
<1>7. stack'[n] = e /\ \A k \in 1 .. n - 1 : stack'[k] = stack[k]
  BY <1>1, <1>6
<1> QED
  BY <1>2, <1>5, <1>7

\* An interrupt or an exception.
LEMMA AfterPush ==
  ASSUME stack \in Seq(Frames), NEW name \in Names \ {"NULL"}, interrupts \in BOOLEAN,
         Push(name)
  PROVE  /\ stack' \in Seq(Frames) /\ Len(stack') = Len(stack) + 1
         /\ \A k \in 1 .. Len(stack) : stack'[k] = stack[k]
         /\ stack'[Len(stack) + 1] = Frame(name, interrupts)
<1>1. Frame(name, interrupts) \in Frames
  BY DEF Frame, Frames
<1> QED
  BY <1>1, AppendProperties DEF Push

\* A call: the caller moves on, the frame of the function is pushed.
LEMMA AfterCall ==
  ASSUME stack \in Seq(Frames), Len(stack) >= 1, NEW name \in Names \ {"NULL"},
         interrupts \in BOOLEAN, Call(name)
  PROVE  /\ stack' \in Seq(Frames) /\ Len(stack') = Len(stack) + 1
         /\ \A k \in 1 .. Len(stack) - 1 : stack'[k] = stack[k]
         /\ stack'[Len(stack)].name = Top.name
         /\ stack'[Len(stack)].at = Top.at + 1
         /\ stack'[Len(stack) + 1] = Frame(name, interrupts)
<1> DEFINE n == Len(stack)
           e == [Top EXCEPT !.at = @ + 1]
           s == [stack EXCEPT ![n] = e]
<1>1. n \in Nat /\ n \in 1 .. n /\ Top \in Frames
  BY ElementOfSeq DEF Top
<1>2. e \in Frames /\ e.name = Top.name /\ e.at = Top.at + 1
  BY <1>1 DEF Frames
<1>3. stack' = Append(s, Frame(name, interrupts))
  BY <1>1 DEF Call, Top
<1> HIDE DEF e
<1>4. /\ s \in Seq(Frames) /\ Len(s) = n
      /\ \A j \in 1 .. n : s[j] = IF j = n THEN e ELSE stack[j]
  BY <1>1, <1>2, ExceptSeq
<1>5. Frame(name, interrupts) \in Frames
  BY DEF Frame, Frames
<1> HIDE DEF s
<1>6. /\ stack' \in Seq(Frames) /\ Len(stack') = n + 1
      /\ \A j \in 1 .. n : stack'[j] = s[j]
      /\ stack'[n + 1] = Frame(name, interrupts)
  BY <1>3, <1>4, <1>5, AppendProperties
<1> QED
  BY <1>1, <1>2, <1>4, <1>6

\* A return.
LEMMA AfterPop ==
  ASSUME stack \in Seq(Frames), Len(stack) >= 2, Pop
  PROVE  /\ stack' \in Seq(Frames) /\ Len(stack') = Len(stack) - 1
         /\ \A k \in 1 .. Len(stack) - 1 : stack'[k] = stack[k]
<1>1. Len(stack) - 1 \in Int /\ \A i \in 1 .. Len(stack) - 1 : stack[i] \in Frames
  BY ElementOfSeq
<1> QED
  BY <1>1, SubSeqProperties DEF Pop

-----------------------------------------------------------------------------
(* The controllers *)

Master == chips["master"]
Slave == chips["slave"]

LEMMA Fields ==
  ASSUME NEW r \in Registers
  PROVE  /\ r.imr \in SUBSET Byte /\ r.irr \in SUBSET Byte /\ r.isr \in SUBSET Byte
         /\ r.offset \in Nat /\ r.expects \in {"command", "icw2", "icw3", "icw4"}
         /\ r = [imr |-> r.imr, irr |-> r.irr, isr |-> r.isr, offset |-> r.offset,
                 expects |-> r.expects]
BY DEF Registers

LEMMA ValueNat == \A byte : Value(byte) \in Nat
<1>1. \A byte : \A b \in Byte : Bit(byte, b) \in Nat
  BY DEF Bit, Weight, Byte
<1>2. \A byte : /\ Bit(byte, 0) \in Nat /\ Bit(byte, 1) \in Nat /\ Bit(byte, 2) \in Nat
                /\ Bit(byte, 3) \in Nat /\ Bit(byte, 4) \in Nat /\ Bit(byte, 5) \in Nat
                /\ Bit(byte, 6) \in Nat /\ Bit(byte, 7) \in Nat
  BY <1>1 DEF Byte
<1> QED
  BY <1>2 DEF Value

\* The vectors that pic_init programs.
LEMMA Offsets == Value({5} \ (0 .. 2)) = 32 /\ Value({3, 5} \ (0 .. 2)) = 40
<1>1. {5} \ (0 .. 2) = {5} /\ {3, 5} \ (0 .. 2) = {3, 5}
  OBVIOUS
<1>2. Value({5}) = 32
  BY DEF Value, Bit, Weight
<1>3. Value({3, 5}) = 40
  BY DEF Value, Bit, Weight
<1> QED
  BY <1>1, <1>2, <1>3

LEMMA MinOfByte ==
  ASSUME NEW S \in SUBSET Byte, S # {}
  PROVE  Min(S) \in S /\ \A x \in S : Min(S) <= x
<1>1. \E x \in S : \A y \in S : x <= y
  <2>1. PICK z \in S : TRUE
    OBVIOUS
  <2>2. \A y \in S : y \in 0 .. 7
    BY DEF Byte
  <2>3. CASE 0 \in S
    BY <2>2, <2>3
  <2>4. CASE 0 \notin S /\ 1 \in S
    BY <2>2, <2>4
  <2>5. CASE 0 \notin S /\ 1 \notin S /\ 2 \in S
    BY <2>2, <2>5
  <2>6. CASE 0 \notin S /\ 1 \notin S /\ 2 \notin S /\ 3 \in S
    BY <2>2, <2>6
  <2>7. CASE (\A k \in 0 .. 3 : k \notin S) /\ 4 \in S
    BY <2>2, <2>7
  <2>8. CASE (\A k \in 0 .. 4 : k \notin S) /\ 5 \in S
    BY <2>2, <2>8
  <2>9. CASE \A k \in 0 .. 5 : k \notin S
    BY <2>1, <2>2, <2>9
  <2> QED
    BY <2>3, <2>4, <2>5, <2>6, <2>7, <2>8, <2>9
<1> QED
  BY <1>1 DEF Min

\* What a byte of data changes.
LEMMA DataFacts ==
  ASSUME chips \in [Chips -> Registers], NEW c \in Chips, NEW b \in SUBSET Byte,
         WriteData(c, b)
  PROVE  /\ chips' \in [Chips -> Registers]
         /\ \A d \in Chips : d # c => chips'[d] = chips[d]
         /\ chips'[c].irr = chips[c].irr /\ chips'[c].isr = chips[c].isr
         /\ chips[c].expects = "icw2" =>
              /\ chips'[c].offset = Value(b \ (0 .. 2)) /\ chips'[c].expects = "icw3"
              /\ chips'[c].imr = chips[c].imr
         /\ chips[c].expects = "icw3" =>
              /\ chips'[c].offset = chips[c].offset /\ chips'[c].expects = "icw4"
              /\ chips'[c].imr = chips[c].imr
         /\ chips[c].expects = "icw4" =>
              /\ chips'[c].offset = chips[c].offset /\ chips'[c].expects = "command"
              /\ chips'[c].imr = chips[c].imr
         /\ chips[c].expects = "command" =>
              /\ chips'[c].offset = chips[c].offset /\ chips'[c].expects = "command"
              /\ chips'[c].imr = b
<1> DEFINE r == chips[c]
           d == Data(r, b)
<1>1. /\ r \in Registers /\ r.imr \in SUBSET Byte /\ r.irr \in SUBSET Byte
      /\ r.isr \in SUBSET Byte /\ r.offset \in Nat
      /\ r.expects \in {"command", "icw2", "icw3", "icw4"}
      /\ r = [imr |-> r.imr, irr |-> r.irr, isr |-> r.isr, offset |-> r.offset,
              expects |-> r.expects]
  BY Fields
<1>2. chips' = [chips EXCEPT ![c] = d]
  BY DEF WriteData
<1> HIDE DEF r
<1>3. Value(b \ (0 .. 2)) \in Nat
  BY ValueNat
<1>4. CASE r.expects = "icw2"
  <2>1. d = [r EXCEPT !.offset = Value(b \ (0 .. 2)), !.expects = "icw3"]
    BY <1>4 DEF Data
  <2>2. d \in Registers /\ d.irr = r.irr /\ d.isr = r.isr /\ d.imr = r.imr
        /\ d.offset = Value(b \ (0 .. 2)) /\ d.expects = "icw3"
    BY <1>1, <1>3, <2>1 DEF Registers
  <2> HIDE DEF d
  <2> QED
    BY <1>2, <1>4, <2>2 DEF r
<1>5. CASE r.expects = "icw3"
  <2>1. d = [r EXCEPT !.expects = "icw4"]
    BY <1>5 DEF Data
  <2>2. d \in Registers /\ d.irr = r.irr /\ d.isr = r.isr /\ d.imr = r.imr
        /\ d.offset = r.offset /\ d.expects = "icw4"
    BY <1>1, <2>1 DEF Registers
  <2> HIDE DEF d
  <2> QED
    BY <1>2, <1>5, <2>2 DEF r
<1>6. CASE r.expects = "icw4"
  <2>1. d = [r EXCEPT !.expects = "command"]
    BY <1>6 DEF Data
  <2>2. d \in Registers /\ d.irr = r.irr /\ d.isr = r.isr /\ d.imr = r.imr
        /\ d.offset = r.offset /\ d.expects = "command"
    BY <1>1, <2>1 DEF Registers
  <2> HIDE DEF d
  <2> QED
    BY <1>2, <1>6, <2>2 DEF r
<1>7. CASE r.expects = "command"
  <2>1. d = [r EXCEPT !.imr = b]
    BY <1>7 DEF Data
  <2>2. d \in Registers /\ d.irr = r.irr /\ d.isr = r.isr /\ d.imr = b
        /\ d.offset = r.offset /\ d.expects = "command"
    BY <1>1, <1>7, <2>1 DEF Registers
  <2> HIDE DEF d
  <2> QED
    BY <1>2, <1>7, <2>2 DEF r
<1> QED
  BY <1>1, <1>4, <1>5, <1>6, <1>7

\* ICW1.
LEMMA Icw1Facts ==
  ASSUME chips \in [Chips -> Registers], NEW c \in Chips, WriteCommand(c, {0, 4})
  PROVE  /\ chips' \in [Chips -> Registers]
         /\ \A d \in Chips : d # c => chips'[d] = chips[d]
         /\ chips'[c].irr = {} /\ chips'[c].isr = {} /\ chips'[c].imr = {}
         /\ chips'[c].offset = chips[c].offset /\ chips'[c].expects = "icw2"
<1> DEFINE r == chips[c]
           d == Command(r, {0, 4})
<1>1. r \in Registers
  OBVIOUS
<1>2. chips' = [chips EXCEPT ![c] = d]
  BY DEF WriteCommand
<1> HIDE DEF r
<1>3. d = [r EXCEPT !.imr = {}, !.irr = {}, !.isr = {}, !.expects = "icw2"]
  BY DEF Command
<1>4. d \in Registers /\ d.irr = {} /\ d.isr = {} /\ d.imr = {}
      /\ d.offset = r.offset /\ d.expects = "icw2"
  BY <1>1, <1>3 DEF Registers
<1> HIDE DEF d
<1> QED
  BY <1>2, <1>4 DEF r

\* The end of interrupt: one line less in service.
LEMMA EoiFacts ==
  ASSUME chips \in [Chips -> Registers], NEW c \in Chips, WriteCommand(c, {5})
  PROVE  /\ chips' \in [Chips -> Registers]
         /\ \A d \in Chips : d # c => chips'[d] = chips[d]
         /\ chips'[c].irr = chips[c].irr /\ chips'[c].imr = chips[c].imr
         /\ chips'[c].offset = chips[c].offset /\ chips'[c].expects = chips[c].expects
         /\ (\A x, y \in chips[c].isr : x = y) => chips'[c].isr = {}
<1> DEFINE r == chips[c]
           d == Command(r, {5})
<1>1. /\ r \in Registers /\ r.isr \in SUBSET Byte
  BY Fields
<1>2. chips' = [chips EXCEPT ![c] = d]
  BY DEF WriteCommand
<1> HIDE DEF r
<1>3. CASE r.isr = {}
  <2>1. d = r
    BY <1>3 DEF Command
  <2> HIDE DEF d
  <2> QED
    BY <1>1, <1>2, <1>3, <2>1 DEF r
<1>4. CASE r.isr # {}
  <2>1. d = [r EXCEPT !.isr = @ \ {Min(r.isr)}]
    BY <1>4 DEF Command
  <2>2. d \in Registers /\ d.irr = r.irr /\ d.imr = r.imr /\ d.isr = r.isr \ {Min(r.isr)}
        /\ d.offset = r.offset /\ d.expects = r.expects
    BY <1>1, <2>1 DEF Registers
  <2>3. Min(r.isr) \in r.isr
    BY <1>1, <1>4, MinOfByte
  <2>4. (\A x, y \in r.isr : x = y) => d.isr = {}
    BY <2>2, <2>3
  <2> HIDE DEF d
  <2> QED
    BY <1>2, <2>2, <2>4 DEF r
<1> QED
  BY <1>3, <1>4

\* A line that becomes active is only requested.
LEMMA RaiseFacts ==
  ASSUME chips \in [Chips -> Registers], NEW irq \in 0 .. 15, Raise(irq)
  PROVE  /\ chips' \in [Chips -> Registers]
         /\ \A c \in Chips : /\ chips'[c].imr = chips[c].imr /\ chips'[c].isr = chips[c].isr
                             /\ chips'[c].offset = chips[c].offset
                             /\ chips'[c].expects = chips[c].expects
         /\ irq # Cascade /\ Cascade \notin Master.irr => Cascade \notin Master'.irr
<1> DEFINE c == ChipOf(irq)
           r == chips[c]
           d == [r EXCEPT !.irr = @ \cup {LineOf(irq)}]
<1>1. c \in Chips /\ LineOf(irq) \in Byte /\ (c = "master" => LineOf(irq) = irq)
  BY DEF ChipOf, Chips, LineOf, Byte
<1>2. r \in Registers
  BY <1>1
<1>3. chips' = [chips EXCEPT ![c] = d]
  BY DEF Raise
<1> HIDE DEF c, r
<1>4. d \in Registers /\ d.irr = r.irr \cup {LineOf(irq)} /\ d.imr = r.imr
      /\ d.isr = r.isr /\ d.offset = r.offset /\ d.expects = r.expects
  BY <1>1, <1>2 DEF Registers
<1> HIDE DEF d
<1>5. chips' \in [Chips -> Registers] /\ chips'[c] = d
      /\ \A x \in Chips : x # c => chips'[x] = chips[x]
  BY <1>1, <1>3, <1>4
<1>6. \A x \in Chips : /\ chips'[x].imr = chips[x].imr /\ chips'[x].isr = chips[x].isr
                       /\ chips'[x].offset = chips[x].offset
                       /\ chips'[x].expects = chips[x].expects
  BY <1>4, <1>5 DEF r
<1>7. ASSUME irq # Cascade, Cascade \notin Master.irr
      PROVE  Cascade \notin Master'.irr
  <2>1. CASE c = "master"
    BY <1>1, <1>4, <1>5, <1>7, <2>1 DEF Master, r
  <2>2. CASE c # "master"
    BY <1>5, <1>7, <2>2 DEF Master, Chips
  <2> QED
    BY <2>1, <2>2
<1> QED
  BY <1>5, <1>6, <1>7

\* What the processor takes: a line that is not masked, at its vector.
LEMMA AcknowledgeFacts ==
  ASSUME chips \in [Chips -> Registers], Cascade \notin Master.irr, NEW v,
         Acknowledge(v)
  PROVE  /\ chips' \in [Chips -> Registers]
         /\ \A c \in Chips : /\ chips'[c].imr = chips[c].imr
                             /\ chips'[c].offset = chips[c].offset
                             /\ chips'[c].expects = chips[c].expects
         /\ Cascade \notin Master'.irr
         /\ \E l \in Byte : l \notin Master.imr /\ Master'.isr = Master.isr \cup {l}
         /\ \/ /\ Slave'.isr = Slave.isr
               /\ \E l \in Byte : l # Cascade /\ l \notin Master.imr /\ v = Master.offset + l
            \/ \E s \in Byte : /\ s \notin Slave.imr /\ v = Slave.offset + s
                               /\ Slave'.isr = Slave.isr \cup {s}
<1> DEFINE m == chips["master"]
           w == chips["slave"]
           l == Min(MasterRequests)
           s == Min(Requests("slave"))
           e == Serve(m, l)
           f == Serve(w, s)
<1>1. m \in Registers /\ w \in Registers /\ m.irr \in SUBSET Byte /\ w.irr \in SUBSET Byte
  BY Fields DEF Chips
<1>2. MasterRequests \in SUBSET Byte /\ \A x \in MasterRequests : x \notin m.imr
  BY <1>1 DEF MasterRequests, Cascade, Byte
<1>3. l \in Byte /\ l \notin m.imr
  BY <1>2, MinOfByte DEF Acknowledge
<1>4. Requests("slave") \in SUBSET Byte /\ \A x \in Requests("slave") : x \notin w.imr
  BY <1>1 DEF Requests
<1>5. Requests("slave") # {} => s \in Byte /\ s \notin w.imr
  BY <1>4, MinOfByte
<1>6. l = Cascade => Requests("slave") # {}
  <2>1. l \in MasterRequests
    BY <1>2, MinOfByte DEF Acknowledge
  <2> HIDE DEF l
  <2> QED
    BY <2>1 DEF MasterRequests, Master
<1>7. \/ l = Cascade /\ chips' = [chips EXCEPT !["master"] = e, !["slave"] = f]
         /\ v = w.offset + s
      \/ l # Cascade /\ chips' = [chips EXCEPT !["master"] = e] /\ v = m.offset + l
  BY DEF Acknowledge
<1> HIDE DEF l, s, m, w
<1>8. e \in Registers /\ e.irr = m.irr \ {l} /\ e.isr = m.isr \cup {l} /\ e.imr = m.imr
      /\ e.offset = m.offset /\ e.expects = m.expects
  BY <1>1, <1>3 DEF Registers, Serve
<1>9. ASSUME s \in Byte
      PROVE  f \in Registers /\ f.isr = w.isr \cup {s} /\ f.imr = w.imr
             /\ f.offset = w.offset /\ f.expects = w.expects
  BY <1>1, <1>9 DEF Registers, Serve
<1> HIDE DEF e, f
<1>10. CASE l = Cascade
  <2>1. s \in Byte /\ s \notin w.imr
    BY <1>5, <1>6, <1>10
  <2>2. chips' = [chips EXCEPT !["master"] = e, !["slave"] = f] /\ v = w.offset + s
    BY <1>7, <1>10
  <2>3. /\ chips' \in [Chips -> Registers] /\ chips'["master"] = e /\ chips'["slave"] = f
    BY <1>8, <1>9, <2>1, <2>2 DEF Chips
  <2>4. \A c \in Chips : /\ chips'[c].imr = chips[c].imr /\ chips'[c].offset = chips[c].offset
                         /\ chips'[c].expects = chips[c].expects
    BY <1>8, <1>9, <2>1, <2>3 DEF Chips, m, w
  <2>5. Cascade \notin Master'.irr /\ Master'.isr = Master.isr \cup {l} /\ Slave'.isr = Slave.isr \cup {s}
    BY <1>8, <1>9, <2>1, <2>3 DEF Master, Slave, m, w
  <2> QED
    BY <1>3, <2>1, <2>2, <2>3, <2>4, <2>5 DEF Master, Slave, m, w
<1>11. CASE l # Cascade
  <2>1. chips' = [chips EXCEPT !["master"] = e] /\ v = m.offset + l
    BY <1>7, <1>11
  <2>2. chips' \in [Chips -> Registers] /\ chips'["master"] = e /\ chips'["slave"] = w
    BY <1>8, <2>1 DEF Chips, w
  <2>3. \A c \in Chips : /\ chips'[c].imr = chips[c].imr /\ chips'[c].offset = chips[c].offset
                         /\ chips'[c].expects = chips[c].expects
    BY <1>8, <2>2 DEF Chips, m, w
  <2>4. Cascade \notin Master'.irr /\ Master'.isr = Master.isr \cup {l} /\ Slave'.isr = Slave.isr
    BY <1>8, <2>2 DEF Master, Slave, m, w
  <2> QED
    BY <1>3, <1>11, <2>1, <2>2, <2>3, <2>4 DEF Master, m
<1> QED
  BY <1>10, <1>11

-----------------------------------------------------------------------------
(* The invariant.  place is the instruction of genoa_entry that is next: it *)
(* says how far the boot has come, whatever runs on top of it.              *)

place == stack[1].at

Types ==
  /\ chips \in [Chips -> Registers]
  /\ g_curmask \in SUBSET (0 .. 15)
  /\ real_handlers \in [Vectors -> Names \cup {"idt_default_interrupt_handler"}]
  /\ idt_loaded \in BOOLEAN /\ pit_callback \in BOOLEAN /\ interrupts \in BOOLEAN
  /\ pit \in {"running", "low", "high"}
  /\ stack \in Seq(Frames) /\ Len(stack) >= 1

\* A handler interrupts genoa_entry or kpanic and nothing else; what runs with
\* interrupts on is one of these two, and a kpanic that has halted is alone.
Stands(k) ==
  /\ InCode(stack[k])
  /\ stack[k].name = "genoa_entry" <=> k = 1
  /\ stack[k].name \in Handlers =>
       place >= 16 /\ \A j \in 1 .. k - 1 : stack[j].name \in Calm
  /\ stack[k].name = "tick" => k > 1 /\ stack[k - 1].name = "pit_handler"
  /\ interrupts => stack[k].name \in Calm
  /\ stack[k].name = "kpanic" /\ stack[k].at = 4 => ~interrupts /\ k = Len(stack)
StackShape == \A k \in 1 .. Len(stack) : Stands(k)

\* The table is there before the flag is set, the default handler stays, and
\* what a driver has registered is still registered.
TableLoaded == idt_loaded <=> place >= 3
FlagClear == place <= 15 => ~interrupts
Defaults ==
  place >= 2 => \A v \in Exceptions : real_handlers[v] = "idt_default_interrupt_handler"
Others ==
  \A v \in Vectors \ Exceptions :
    /\ real_handlers[v] \in {"NULL"} \cup Handlers
    /\ real_handlers[v] = "pit_handler" => v = IDT_IRQ_BASE
TimerServed == place >= 21 => real_handlers[IDT_IRQ_BASE] \in Handlers
Registered ==
  \A j \in 1 .. place - 25 :
    Driver[j].op = "register" /\ Driver[j].vector \notin Exceptions =>
      real_handlers[Driver[j].vector] = "irq8_handler"

\* The initialisation words of the controllers, one by one.
MasterWords ==
  /\ place \in 5 .. 6 => Master.expects = "icw2"
  /\ place \in 7 .. 8 => Master.expects = "icw3"
  /\ place \in 9 .. 10 => Master.expects = "icw4"
  /\ place >= 11 => Master.expects = "command"
  /\ place >= 7 => Master.offset = 32
  /\ place \in 13 .. 24 => Master.imr = Byte
SlaveWords ==
  /\ place \in 6 .. 7 => Slave.expects = "icw2"
  /\ place \in 8 .. 9 => Slave.expects = "icw3"
  /\ place \in 10 .. 11 => Slave.expects = "icw4"
  /\ place >= 12 => Slave.expects = "command"
  /\ place >= 8 => Slave.offset = 40
  /\ place \in 14 .. 24 => Slave.imr = Byte
AllMasked == place \in 15 .. 23 => g_curmask = 0 .. 15

\* A line that is not masked, in g_curmask or in its chip, has a handler; and
\* the two agree but for the calls that have not written the chip yet.
Ready(irq) == irq = Cascade \/ real_handlers[IDT_IRQ_BASE + irq] \in Handlers
UnmaskedReady ==
  place >= 15 => \A irq \in 0 .. 15 :
    irq \notin g_curmask \/ LineOf(irq) \notin chips[ChipOf(irq)].imr => Ready(irq)
Unwritten(c) ==
  \E j \in 1 .. place - 25 :
    Touches(Driver[j], c) /\ \A k \in j + 1 .. place - 25 : Driver[k] # OutMask(c)
MasksWritten ==
  place >= 15 => \A c \in Chips :
    \/ chips[c].imr = MaskByte(g_curmask, c)
    \/ place = 24 /\ c = "master"
    \/ Unwritten(c)

\* Outside a handler nothing is in service; a handler has one line of each
\* chip in service until it has told the chip.
Idle == \A k \in 1 .. Len(stack) : stack[k].name \notin Handlers
AtMostOne(lines) == \A x, y \in lines : x = y
Serving(k) ==
  /\ k = 2 /\ place >= 25
  /\ AtMostOne(Master.isr) /\ (stack[k].at = 3 => Master.isr = {})
  /\ AtMostOne(Slave.isr)
  /\ stack[k].name = "pit_handler" \/ stack[k].at > 1 => Slave.isr = {}
Service ==
  ~Running("kpanic") =>
    /\ Idle => Master.isr = {} /\ Slave.isr = {}
    /\ \A k \in 1 .. Len(stack) : stack[k].name \in Handlers => Serving(k)

Tables == TableLoaded /\ FlagClear /\ Defaults /\ Others /\ TimerServed /\ Registered
Words == MasterWords /\ SlaveWords /\ AllMasked
Masks == UnmaskedReady /\ MasksWritten
NoCascadeRequest == Cascade \notin Master.irr

Inv == Types /\ StackShape /\ Tables /\ Words /\ Masks /\ NoCascadeRequest /\ Service

LEMMA StackFacts ==
  ASSUME Types, StackShape
  PROVE  /\ Len(stack) \in Nat /\ \A k \in 1 .. Len(stack) : stack[k] \in Frames
         /\ Top = stack[Len(stack)] /\ Top \in Frames /\ InCode(Top)
         /\ stack[1].name = "genoa_entry" /\ place \in 1 .. Last
         /\ Len(stack) = 1 <=> Top.name = "genoa_entry"
<1>1. Len(stack) \in Nat /\ \A k \in 1 .. Len(stack) : stack[k] \in Frames
  BY ElementOfSeq DEF Types
<1>2. Len(stack) >= 1
  BY DEF Types
<1>3. \A k \in 1 .. Len(stack) : InCode(stack[k]) /\ (stack[k].name = "genoa_entry" <=> k = 1)
  BY DEF StackShape, Stands
<1>4. Top = stack[Len(stack)] /\ Top \in Frames /\ InCode(Top)
  BY <1>1, <1>2, <1>3 DEF Top
<1>5. stack[1].name = "genoa_entry" /\ InCode(stack[1])
  BY <1>1, <1>2, <1>3
<1>6. place \in 1 .. Last
  BY <1>5, CodeLengths DEF place, InCode
<1>7. Len(stack) = 1 <=> Top.name = "genoa_entry"
  <2>1. Len(stack) \in 1 .. Len(stack)
    BY <1>1, <1>2
  <2>2. stack[Len(stack)].name = "genoa_entry" <=> Len(stack) = 1
    BY <1>3, <2>1
  <2> QED
    BY <1>4, <2>2
<1> QED
  BY <1>1, <1>4, <1>5, <1>6, <1>7

\* The instruction at which genoa_entry stands.
LEMMA EntryInstruction ==
  ASSUME Types, StackShape
  PROVE  /\ place \in 1 .. 24 => InstructionOf(stack[1]) = Boot[place]
         /\ \A j \in 1 .. Len(Driver) : place = 24 + j => InstructionOf(stack[1]) = Driver[j]
         /\ place = Last => InstructionOf(stack[1]) = Do("hlt")
         /\ \/ place \in 1 .. 24
            \/ \E j \in 1 .. Len(Driver) : place = 24 + j
            \/ place = Last
<1>1. InstructionOf(stack[1]) = genoa_entry[place] /\ place \in 1 .. Last
  BY StackFacts DEF InstructionOf, place, Code
<1>2. Last = 25 + Len(Driver) /\ Len(Driver) \in Nat
  BY EntryCode DEF Last
<1>3. place \in 1 .. 24 \/ (\E j \in 1 .. Len(Driver) : place = 24 + j) \/ place = Last
  <2>1. CASE place <= 24
    BY <1>1, <2>1
  <2>2. CASE place > 24 /\ place # Last
    <3>1. place - 24 \in 1 .. Len(Driver) /\ place = 24 + (place - 24)
      BY <1>1, <1>2, <2>2
    <3> QED
      BY <3>1
  <2> QED
    BY <1>1, <2>1, <2>2
<1>4. ASSUME place \in 1 .. 24 PROVE InstructionOf(stack[1]) = Boot[place]
  BY <1>1, <1>4, EntryCode
<1>5. ASSUME NEW j \in 1 .. Len(Driver), place = 24 + j PROVE InstructionOf(stack[1]) = Driver[j]
  BY <1>1, <1>5, EntryCode
<1>6. ASSUME place = Last PROVE InstructionOf(stack[1]) = Do("hlt")
  BY <1>1, <1>6, EntryCode
<1> QED
  BY <1>3, <1>4, <1>5, <1>6

\* It is the one that is executed when nothing runs on top of it.
LEMMA BootInstruction ==
  ASSUME Types, StackShape, Len(stack) = 1
  PROVE  /\ place \in 1 .. 24 => Instruction = Boot[place]
         /\ \A j \in 1 .. Len(Driver) : place = 24 + j => Instruction = Driver[j]
         /\ place = Last => Instruction = Do("hlt")
         /\ place \in 1 .. 24 \/ (\E j \in 1 .. Len(Driver) : place = 24 + j) \/ place = Last
<1>1. Instruction = InstructionOf(stack[1])
  BY StackFacts DEF Instruction
<1> QED
  BY <1>1, EntryInstruction

-----------------------------------------------------------------------------
(* What a step of the processor is *)

\* The action that executes an instruction.
LEMMA ByOp ==
  ASSUME Execute
  PROVE  \/ idt_init /\ Instruction.op = "idt_init"
         \/ load_idt /\ Instruction.op = "load_idt"
         \/ idt_register_handler /\ Instruction.op = "register"
         \/ SetFlag /\ Instruction.op \in {"cli", "sti"}
         \/ WritePic /\ Instruction.op \in {"command", "data", "out_mask"}
         \/ SetMask /\ Instruction.op \in {"mask", "unmask"}
         \/ WritePit /\ Instruction.op \in {"pit_mode", "pit_low", "pit_high"}
         \/ SetCallback /\ Instruction.op = "set_callback"
         \/ Callback /\ Instruction.op = "callback"
         \/ UseTerminal /\ Instruction.op \in {"print", "printed"}
         \/ Return /\ Instruction.op \in {"ret", "iret"}
BY DEF Execute, At, idt_init, load_idt, idt_register_handler, SetFlag, WritePic, SetMask,
       WritePit, SetCallback, Callback, UseTerminal, Return

\* A call of a later driver.
LEMMA DriverCall ==
  ASSUME NEW j \in 1 .. Len(Driver)
  PROVE  \/ /\ Driver[j].op \in {"mask", "unmask"} /\ Driver[j].irqs \in SUBSET (0 .. 15)
         \/ /\ Driver[j].op = "out_mask" /\ Driver[j].chip \in Chips
            /\ Driver[j] = OutMask(Driver[j].chip)
         \/ /\ Driver[j].op = "register" /\ Driver[j].vector \in Vectors
            /\ Driver[j].handler = "irq8_handler"
            /\ Driver[j] = Register(Driver[j].vector, "irq8_handler")
<1>1. Driver \in Seq(DriverCalls)
  BY DriverAssumption DEF DriverCalls
<1>2. Driver[j] \in DriverCalls
  BY <1>1, ElementOfSeq
<1> QED
  BY <1>2 DEF DriverCalls, OutMask, Register

\* The operation at each place of the boot.
LEMMA BootOps ==
  ASSUME Types, StackShape, Len(stack) = 1
  PROVE  /\ place = 1 => Instruction.op = "idt_init"
         /\ place = 2 => Instruction.op = "load_idt"
         /\ place = 3 => Instruction.op = "cli"
         /\ place \in 4 .. 5 => Instruction.op = "command" /\ Instruction.byte = {0, 4}
         /\ place \in 6 .. 13 => Instruction.op = "data"
         /\ place = 14 => Instruction.op = "mask" /\ Instruction.irqs = 0 .. 15
         /\ place = 15 => Instruction.op = "sti"
         /\ place \in 16 .. 17 => Instruction.op \in {"print", "printed"}
         /\ place = 18 => Instruction.op = "set_callback"
         /\ place \in {19, 21, 22} => Instruction.op \in {"pit_mode", "pit_low", "pit_high"}
         /\ place = 20 => Instruction.op = "register" /\ Instruction.vector = IDT_IRQ_BASE
                          /\ Instruction.handler = "pit_handler"
         /\ place = 23 => Instruction.op = "unmask" /\ Instruction.irqs = {0}
         /\ place = 24 => Instruction.op = "out_mask" /\ Instruction.chip = "master"
         /\ place = Last => Instruction.op = "hlt"
         /\ \A j \in 1 .. Len(Driver) : place = 24 + j => Instruction = Driver[j]
<1>1. /\ place \in 1 .. 24 => Instruction = Boot[place]
      /\ place = Last => Instruction = Do("hlt")
      /\ \A j \in 1 .. Len(Driver) : place = 24 + j => Instruction = Driver[j]
  BY BootInstruction
<1>2. /\ place \in 1 .. 3 => Instruction.op = << "idt_init", "load_idt", "cli" >>[place]
      /\ place \in 4 .. 5 => Instruction.op = "command" /\ Instruction.byte = {0, 4}
  BY <1>1, BootCode DEF Do, OutCommand
<1>3. place \in 6 .. 13 => Instruction.op = "data"
  BY <1>1, BootCode DEF OutData
<1>4. /\ place = 14 => Instruction.op = "mask" /\ Instruction.irqs = 0 .. 15
      /\ place = 15 => Instruction.op = "sti"
      /\ place \in 16 .. 17 => Instruction.op \in {"print", "printed"}
      /\ place = 18 => Instruction.op = "set_callback"
      /\ place \in {19, 21, 22} => Instruction.op \in {"pit_mode", "pit_low", "pit_high"}
  BY <1>1, BootCode DEF Do, MaskIrqs
<1>5. /\ place = 20 => Instruction.op = "register" /\ Instruction.vector = IDT_IRQ_BASE
                       /\ Instruction.handler = "pit_handler"
      /\ place = 23 => Instruction.op = "unmask" /\ Instruction.irqs = {0}
      /\ place = 24 => Instruction.op = "out_mask" /\ Instruction.chip = "master"
  BY <1>1, BootCode DEF Register, UnmaskIrqs, OutMask
<1>6. place = Last => Instruction.op = "hlt"
  BY <1>1 DEF Do
<1> QED
  BY SMTT(30), <1>1, <1>2, <1>3, <1>4, <1>5, <1>6

\* The bytes of pic_init.
LEMMA BootBytes ==
  ASSUME Types, StackShape, Len(stack) = 1, place \in 4 .. 13
  PROVE  /\ Instruction.chip = IF place \in {4, 6, 8, 10, 12} THEN "master" ELSE "slave"
         /\ Instruction.byte \in SUBSET Byte
         /\ place = 6 => Instruction.byte = {5}
         /\ place = 7 => Instruction.byte = {3, 5}
         /\ place \in 12 .. 13 => Instruction.byte = Byte
<1>1. Instruction = Boot[place]
  BY BootInstruction
<1>2. place = 4 \/ place = 5 \/ place = 6 \/ place = 7 \/ place = 8 \/ place = 9
      \/ place = 10 \/ place = 11 \/ place = 12 \/ place = 13
  OBVIOUS
<1>3. CASE place \in 4 .. 7
  BY <1>1, <1>3, BootCode DEF OutCommand, OutData, Byte
<1>4. CASE place \in 8 .. 11
  BY <1>1, <1>4, BootCode DEF OutData, Byte
<1>5. CASE place \in 12 .. 13
  BY <1>1, <1>5, BootCode DEF OutData
<1> QED
  BY <1>2, <1>3, <1>4, <1>5

\* A step of genoa_entry moves it on, and it does not leave its last instruction.
LEMMA BootMoves ==
  ASSUME Types, StackShape, Len(stack) = 1, Execute
  PROVE  /\ NextInstruction /\ place # Last
         /\ stack' \in Seq(Frames) /\ Len(stack') = 1
         /\ stack'[1].name = "genoa_entry" /\ place' = place + 1
<1>1. place # Last
  <2>1. place = Last => Instruction.op = "hlt"
    BY BootOps
  <2> QED
    BY <2>1, ByOp
<1>2. Instruction.op \notin {"callback", "ret", "iret"}
  <2>1. place \in 1 .. 24 \/ \E j \in 1 .. Len(Driver) : place = 24 + j
    BY <1>1, BootInstruction
  <2>2. CASE place \in 1 .. 24
    <3>1. place \in 1 .. 3 \/ place \in 4 .. 5 \/ place \in 6 .. 13 \/ place = 14
          \/ place = 15 \/ place \in 16 .. 17 \/ place = 18 \/ place \in {19, 21, 22}
          \/ place = 20 \/ place = 23 \/ place = 24
      BY <2>2
    <3>2. place \in 1 .. 3 => place = 1 \/ place = 2 \/ place = 3
      OBVIOUS
    <3> QED
      BY <3>1, <3>2, BootOps
  <2>3. CASE \E j \in 1 .. Len(Driver) : place = 24 + j
    <3>1. PICK j \in 1 .. Len(Driver) : place = 24 + j
      BY <2>3
    <3>2. Instruction = Driver[j]
      BY <3>1, BootOps
    <3> QED
      BY <3>2, DriverCall
  <2> QED
    BY <2>1, <2>2, <2>3
<1>3. NextInstruction
  BY <1>2, ByOp DEF idt_init, load_idt, idt_register_handler, SetFlag, WritePic, SetMask,
                    WritePit, SetCallback, UseTerminal
<1>4. /\ stack' \in Seq(Frames) /\ Len(stack') = 1
      /\ stack'[1].name = Top.name /\ stack'[1].at = Top.at + 1
  BY <1>3, AfterNext DEF Types
<1>5. Top = stack[1] /\ Top.name = "genoa_entry"
  BY StackFacts
<1> QED
  BY <1>1, <1>3, <1>4, <1>5 DEF place

\* What a step of genoa_entry does to the table and to the flag.
LEMMA BootTable ==
  ASSUME Types, StackShape, Len(stack) = 1, Execute
  PROVE  /\ place = 1 =>
              /\ real_handlers' = [v \in Vectors |->
                   IF v \in Exceptions THEN "idt_default_interrupt_handler" ELSE real_handlers[v]]
              /\ UNCHANGED <<idt_loaded, interrupts>>
         /\ place = 2 => idt_loaded' = TRUE /\ UNCHANGED <<real_handlers, interrupts>>
         /\ place = 3 => interrupts' = FALSE /\ UNCHANGED <<real_handlers, idt_loaded>>
         /\ place = 15 => interrupts' = TRUE /\ UNCHANGED <<real_handlers, idt_loaded>>
         /\ place = 20 =>
              /\ real_handlers' = (IF MayRegister(IDT_IRQ_BASE)
                   THEN [real_handlers EXCEPT ![IDT_IRQ_BASE] = "pit_handler"] ELSE real_handlers)
              /\ UNCHANGED <<idt_loaded, interrupts>>
         /\ place \in 4 .. 24 \ {15, 20} => UNCHANGED <<real_handlers, idt_loaded, interrupts>>
         /\ \A j \in 1 .. Len(Driver) : place = 24 + j =>
              /\ UNCHANGED <<idt_loaded, interrupts>>
              /\ Driver[j].op # "register" => UNCHANGED real_handlers
              /\ Driver[j].op = "register" =>
                   real_handlers' = IF MayRegister(Driver[j].vector)
                     THEN [real_handlers EXCEPT ![Driver[j].vector] = "irq8_handler"]
                     ELSE real_handlers
<1>1. place = 1 => idt_init
  BY ByOp, BootOps
<1>2. place = 2 => load_idt
  BY ByOp, BootOps
<1>3. place = 3 => SetFlag /\ Instruction.op = "cli"
  BY ByOp, BootOps
<1>4. place = 15 => SetFlag /\ Instruction.op = "sti"
  BY ByOp, BootOps
<1>5. place = 20 => idt_register_handler /\ Instruction.vector = IDT_IRQ_BASE
                    /\ Instruction.handler = "pit_handler"
  BY ByOp, BootOps
<1>6. place \in 4 .. 24 \ {15, 20} => UNCHANGED <<real_handlers, idt_loaded, interrupts>>
  <2> SUFFICES ASSUME place \in 4 .. 24 \ {15, 20}
               PROVE  UNCHANGED <<real_handlers, idt_loaded, interrupts>>
    OBVIOUS
  <2>1. \/ place \in 4 .. 5 \/ place \in 6 .. 13 \/ place = 14 \/ place \in 16 .. 17
        \/ place = 18 \/ place \in {19, 21, 22} \/ place = 23 \/ place = 24
    OBVIOUS
  <2>2. Instruction.op \in {"command", "data", "mask", "print", "printed", "set_callback",
                            "pit_mode", "pit_low", "pit_high", "unmask", "out_mask"}
    BY <2>1, BootOps
  <2>3. WritePic \/ SetMask \/ UseTerminal \/ SetCallback \/ WritePit
    BY <2>2, ByOp
  <2> QED
    BY <2>3 DEF WritePic, SetMask, UseTerminal, SetCallback, WritePit
<1>7. ASSUME NEW j \in 1 .. Len(Driver), place = 24 + j
      PROVE  /\ UNCHANGED <<idt_loaded, interrupts>>
             /\ Driver[j].op # "register" => UNCHANGED real_handlers
             /\ Driver[j].op = "register" =>
                  real_handlers' = IF MayRegister(Driver[j].vector)
                    THEN [real_handlers EXCEPT ![Driver[j].vector] = "irq8_handler"]
                    ELSE real_handlers
  <2>1. Instruction = Driver[j]
    BY <1>7, BootOps
  <2>2. CASE Driver[j].op = "register"
    <3>1. idt_register_handler /\ Driver[j].handler = "irq8_handler"
      BY <2>1, <2>2, ByOp, DriverCall
    <3> QED
      BY <2>1, <2>2, <3>1 DEF idt_register_handler
  <2>3. CASE Driver[j].op # "register"
    <3>1. WritePic \/ SetMask
      BY <2>1, <2>3, ByOp, DriverCall
    <3> QED
      BY <2>3, <3>1 DEF WritePic, SetMask
  <2> QED
    BY <2>2, <2>3
<1>8. place = 1 => /\ real_handlers' = [v \in Vectors |->
                        IF v \in Exceptions THEN "idt_default_interrupt_handler" ELSE real_handlers[v]]
                   /\ UNCHANGED <<idt_loaded, interrupts>>
  BY <1>1 DEF idt_init
<1>9. /\ place = 2 => idt_loaded' = TRUE /\ UNCHANGED <<real_handlers, interrupts>>
      /\ place = 3 => interrupts' = FALSE /\ UNCHANGED <<real_handlers, idt_loaded>>
      /\ place = 15 => interrupts' = TRUE /\ UNCHANGED <<real_handlers, idt_loaded>>
  BY <1>2, <1>3, <1>4 DEF load_idt, SetFlag, At
<1>10. place = 20 =>
         /\ real_handlers' = (IF MayRegister(IDT_IRQ_BASE)
              THEN [real_handlers EXCEPT ![IDT_IRQ_BASE] = "pit_handler"] ELSE real_handlers)
         /\ UNCHANGED <<idt_loaded, interrupts>>
  BY <1>5 DEF idt_register_handler
<1> QED
  BY <1>6, <1>7, <1>8, <1>9, <1>10

\* What it does to the controllers and to g_curmask.
LEMMA BootChips ==
  ASSUME Types, StackShape, Len(stack) = 1, Execute
  PROVE  /\ place \in 1 .. 3 \cup 15 .. 22 => UNCHANGED <<chips, g_curmask>>
         /\ place \in 4 .. 5 =>
              WriteCommand(IF place = 4 THEN "master" ELSE "slave", {0, 4}) /\ UNCHANGED g_curmask
         /\ place \in 6 .. 13 =>
              WriteData(Instruction.chip, Instruction.byte) /\ UNCHANGED g_curmask
         /\ place = 14 => UNCHANGED chips /\ g_curmask' = g_curmask \cup (0 .. 15)
         /\ place = 23 => UNCHANGED chips /\ g_curmask' = g_curmask \ {0}
         /\ place = 24 => WriteData("master", MaskByte(g_curmask, "master")) /\ UNCHANGED g_curmask
         /\ \A j \in 1 .. Len(Driver) : place = 24 + j =>
              /\ Driver[j].op = "mask" => UNCHANGED chips /\ g_curmask' = g_curmask \cup Driver[j].irqs
              /\ Driver[j].op = "unmask" => UNCHANGED chips /\ g_curmask' = g_curmask \ Driver[j].irqs
              /\ Driver[j].op = "register" => UNCHANGED <<chips, g_curmask>>
              /\ Driver[j].op = "out_mask" =>
                   /\ WriteData(Driver[j].chip, MaskByte(g_curmask, Driver[j].chip))
                   /\ UNCHANGED g_curmask
<1>1. place \in 1 .. 3 \cup 15 .. 22 => UNCHANGED <<chips, g_curmask>>
  <2> SUFFICES ASSUME place \in 1 .. 3 \cup 15 .. 22 PROVE UNCHANGED <<chips, g_curmask>>
    OBVIOUS
  <2>1. \/ place = 1 \/ place = 2 \/ place = 3 \/ place = 15 \/ place \in 16 .. 17 \/ place = 18
        \/ place \in {19, 21, 22} \/ place = 20
    OBVIOUS
  <2>2. Instruction.op \in {"idt_init", "load_idt", "cli", "sti", "print", "printed",
                            "set_callback", "pit_mode", "pit_low", "pit_high", "register"}
    BY <2>1, BootOps
  <2>3. idt_init \/ load_idt \/ SetFlag \/ UseTerminal \/ SetCallback \/ WritePit
        \/ idt_register_handler
    BY <2>2, ByOp
  <2> QED
    BY <2>3 DEF idt_init, load_idt, SetFlag, UseTerminal, SetCallback, WritePit,
                idt_register_handler
<1>2. place \in 4 .. 5 =>
        WriteCommand(IF place = 4 THEN "master" ELSE "slave", {0, 4}) /\ UNCHANGED g_curmask
  <2> SUFFICES ASSUME place \in 4 .. 5
               PROVE  WriteCommand(IF place = 4 THEN "master" ELSE "slave", {0, 4})
                      /\ UNCHANGED g_curmask
    OBVIOUS
  <2>1. Instruction.op = "command" /\ Instruction.byte = {0, 4}
        /\ Instruction.chip = IF place = 4 THEN "master" ELSE "slave"
    BY BootOps, BootBytes
  <2>2. WritePic
    BY <2>1, ByOp
  <2> QED
    BY <2>1, <2>2 DEF WritePic, At
<1>3. place \in 6 .. 13 => WriteData(Instruction.chip, Instruction.byte) /\ UNCHANGED g_curmask
  <2> SUFFICES ASSUME place \in 6 .. 13
               PROVE  WriteData(Instruction.chip, Instruction.byte) /\ UNCHANGED g_curmask
    OBVIOUS
  <2>1. Instruction.op = "data"
    BY BootOps
  <2>2. WritePic
    BY <2>1, ByOp
  <2> QED
    BY <2>1, <2>2 DEF WritePic, At
<1>4. place = 14 => UNCHANGED chips /\ g_curmask' = g_curmask \cup (0 .. 15)
  <2>1. place = 14 => SetMask /\ Instruction.op = "mask" /\ Instruction.irqs = 0 .. 15
    BY BootOps, ByOp
  <2> QED
    BY <2>1 DEF SetMask, At
<1>5. place = 23 => UNCHANGED chips /\ g_curmask' = g_curmask \ {0}
  <2>1. place = 23 => SetMask /\ Instruction.op = "unmask" /\ Instruction.irqs = {0}
    BY BootOps, ByOp
  <2> QED
    BY <2>1 DEF SetMask, At
<1>6. place = 24 => WriteData("master", MaskByte(g_curmask, "master")) /\ UNCHANGED g_curmask
  <2>1. place = 24 => WritePic /\ Instruction.op = "out_mask" /\ Instruction.chip = "master"
    BY BootOps, ByOp
  <2> QED
    BY <2>1 DEF WritePic, At
<1>7. ASSUME NEW j \in 1 .. Len(Driver), place = 24 + j
      PROVE  /\ Driver[j].op = "mask" => UNCHANGED chips /\ g_curmask' = g_curmask \cup Driver[j].irqs
             /\ Driver[j].op = "unmask" => UNCHANGED chips /\ g_curmask' = g_curmask \ Driver[j].irqs
             /\ Driver[j].op = "register" => UNCHANGED <<chips, g_curmask>>
             /\ Driver[j].op = "out_mask" =>
                  /\ WriteData(Driver[j].chip, MaskByte(g_curmask, Driver[j].chip))
                  /\ UNCHANGED g_curmask
  <2>1. Instruction = Driver[j]
    BY <1>7, BootOps
  <2>2. ASSUME Driver[j].op \in {"mask", "unmask"}
        PROVE  SetMask
    BY <2>1, <2>2, ByOp
  <2>3. Driver[j].op = "register" => idt_register_handler
    BY <2>1, ByOp
  <2>4. Driver[j].op = "out_mask" => WritePic
    BY <2>1, ByOp
  <2>5. /\ Driver[j].op = "mask" => UNCHANGED chips /\ g_curmask' = g_curmask \cup Driver[j].irqs
        /\ Driver[j].op = "unmask" => UNCHANGED chips /\ g_curmask' = g_curmask \ Driver[j].irqs
    BY <2>1, <2>2 DEF SetMask, At
  <2>6. Driver[j].op = "register" => UNCHANGED <<chips, g_curmask>>
    BY <2>3 DEF idt_register_handler
  <2>7. Driver[j].op = "out_mask" =>
          /\ WriteData(Driver[j].chip, MaskByte(g_curmask, Driver[j].chip))
          /\ UNCHANGED g_curmask
    BY <2>1, <2>4 DEF WritePic, At
  <2> QED
    BY <2>5, <2>6, <2>7
<1> QED
  BY <1>1, <1>2, <1>3, <1>4, <1>5, <1>6, <1>7

-----------------------------------------------------------------------------
(* genoa_entry keeps the invariant *)

\* What the place excludes.
LEMMA Places ==
  ASSUME Types, StackShape, Len(stack) = 1, Execute
  PROVE  place \in 1 .. 24 \/ \E j \in 1 .. Len(Driver) : place = 24 + j
BY BootInstruction, BootMoves

LEMMA BootKeepsTypes ==
  ASSUME Inv, Len(stack) = 1, Execute
  PROVE  Types'
<1>0. Types /\ StackShape
  BY DEF Inv
<1>1. stack' \in Seq(Frames) /\ Len(stack') >= 1
  <2>1. stack' \in Seq(Frames) /\ Len(stack') = 1
    BY <1>0, BootMoves
  <2> QED
    BY <2>1
<1>2. pit' \in {"running", "low", "high"} /\ pit_callback' \in BOOLEAN
  BY <1>0, ByOp DEF Types, idt_init, load_idt, idt_register_handler, SetFlag, WritePic, SetMask,
              WritePit, SetCallback, Callback, UseTerminal, Return
<1>3. idt_loaded' \in BOOLEAN /\ interrupts' \in BOOLEAN
      /\ real_handlers' \in [Vectors -> Names \cup {"idt_default_interrupt_handler"}]
  <2>1. IDT_IRQ_BASE \in Vectors /\ "pit_handler" \in Names /\ "irq8_handler" \in Names
    BY DEF IDT_IRQ_BASE, Vectors, Names
  <2>2. CASE place \in 1 .. 24
    <3>1. \/ place = 1 \/ place = 2 \/ place = 3 \/ place = 15 \/ place = 20
          \/ place \in 4 .. 24 \ {15, 20}
      BY <2>2
    <3> QED
      BY <1>0, <2>1, <3>1, BootTable DEF Types
  <2>3. ASSUME NEW j \in 1 .. Len(Driver), place = 24 + j
        PROVE  idt_loaded' \in BOOLEAN /\ interrupts' \in BOOLEAN
               /\ real_handlers' \in [Vectors -> Names \cup {"idt_default_interrupt_handler"}]
    <3>1. UNCHANGED <<idt_loaded, interrupts>>
      BY <1>0, <2>3, BootTable
    <3>2. CASE Driver[j].op # "register"
      <4>1. UNCHANGED real_handlers
        BY <1>0, <2>3, <3>2, BootTable
      <4> QED
        BY <1>0, <3>1, <4>1 DEF Types
    <3>3. CASE Driver[j].op = "register"
      <4>1. real_handlers' = IF MayRegister(Driver[j].vector)
              THEN [real_handlers EXCEPT ![Driver[j].vector] = "irq8_handler"]
              ELSE real_handlers
        BY <1>0, <2>3, <3>3, BootTable
      <4> QED
        BY <1>0, <2>1, <3>1, <4>1 DEF Types
    <3> QED
      BY <3>2, <3>3
  <2> QED
    BY <1>0, <2>2, <2>3, Places
<1>4. chips' \in [Chips -> Registers] /\ g_curmask' \in SUBSET (0 .. 15)
  <2>1. chips \in [Chips -> Registers] /\ g_curmask \in SUBSET (0 .. 15)
        /\ "master" \in Chips /\ "slave" \in Chips
    BY <1>0 DEF Types, Chips
  <2>2. \A c \in Chips : MaskByte(g_curmask, c) \in SUBSET Byte
    BY DEF MaskByte
  <2>3. CASE place \in 1 .. 24
    <3>1. \/ place \in 1 .. 3 \cup 15 .. 22 \/ place \in 4 .. 5 \/ place \in 6 .. 13
          \/ place = 14 \/ place = 23 \/ place = 24
      BY <2>3
    <3>2. CASE place \in 1 .. 3 \cup 15 .. 22 \/ place = 14 \/ place = 23
      BY <1>0, <2>1, <3>2, BootChips
    <3>3. CASE place \in 4 .. 5
      BY <1>0, <2>1, <3>3, BootChips, Icw1Facts
    <3>4. CASE place \in 6 .. 13
      <4>1. Instruction.chip \in Chips /\ Instruction.byte \in SUBSET Byte
        BY <1>0, <2>1, <3>4, BootBytes
      <4>2. WriteData(Instruction.chip, Instruction.byte) /\ UNCHANGED g_curmask
        BY <1>0, <3>4, BootChips
      <4> QED
        BY <2>1, <4>1, <4>2, DataFacts
    <3>5. CASE place = 24
      <4>1. WriteData("master", MaskByte(g_curmask, "master")) /\ UNCHANGED g_curmask
        BY <1>0, <3>5, BootChips
      <4> QED
        BY <2>1, <2>2, <4>1, DataFacts
    <3> QED
      BY <3>1, <3>2, <3>3, <3>4, <3>5
  <2>4. ASSUME NEW j \in 1 .. Len(Driver), place = 24 + j
        PROVE  chips' \in [Chips -> Registers] /\ g_curmask' \in SUBSET (0 .. 15)
    <3>1. CASE Driver[j].op = "out_mask"
      <4>1. /\ WriteData(Driver[j].chip, MaskByte(g_curmask, Driver[j].chip))
            /\ UNCHANGED g_curmask /\ Driver[j].chip \in Chips
        BY <1>0, <2>4, <3>1, BootChips, DriverCall
      <4> QED
        BY <2>1, <2>2, <4>1, DataFacts
    <3>2. CASE Driver[j].op \in {"mask", "unmask"}
      <4>1. Driver[j].irqs \in SUBSET (0 .. 15)
        BY <3>2, DriverCall
      <4>2. UNCHANGED chips
            /\ (g_curmask' = g_curmask \cup Driver[j].irqs \/ g_curmask' = g_curmask \ Driver[j].irqs)
        BY <1>0, <2>4, <3>2, BootChips
      <4> QED
        BY <2>1, <4>1, <4>2
    <3>3. CASE Driver[j].op = "register"
      BY <1>0, <2>1, <2>4, <3>3, BootChips
    <3> QED
      BY <3>1, <3>2, <3>3, DriverCall
  <2> QED
    BY <1>0, <2>3, <2>4, Places
<1> QED
  BY <1>1, <1>2, <1>3, <1>4 DEF Types

LEMMA BootKeepsShape ==
  ASSUME Inv, Len(stack) = 1, Execute
  PROVE  StackShape'
<1>1. Types /\ StackShape
  BY DEF Inv
<1>2. /\ Len(stack') = 1 /\ stack'[1].name = "genoa_entry" /\ stack'[1].at = place + 1
      /\ place # Last
  BY <1>1, BootMoves DEF place
<1>3. place \in 1 .. Last
  BY <1>1, StackFacts
<1>4. InCode(stack[1])'
  BY <1>2, <1>3, CodeLengths DEF InCode
<1>5. Stands(1)'
  BY <1>2, <1>4 DEF Stands, Handlers, Calm
<1> QED
  BY <1>2, <1>5 DEF StackShape

LEMMA BootKeepsTables ==
  ASSUME Inv, Len(stack) = 1, Execute
  PROVE  Tables'
<1>1. Types /\ StackShape /\ Tables
  BY DEF Inv
<1>2. place' = place + 1 /\ place \in Nat /\ Len(Driver) \in Nat
  <2>1. place' = place + 1
    BY <1>1, BootMoves
  <2>2. place \in 1 .. Last /\ Last \in Nat
    BY <1>1, StackFacts, CodeLengths
  <2>3. Len(Driver) \in Nat
    BY EntryCode
  <2> QED
    BY <2>1, <2>2, <2>3
<1>3. CASE place = 1
  <2>1. /\ real_handlers' = [v \in Vectors |->
             IF v \in Exceptions THEN "idt_default_interrupt_handler" ELSE real_handlers[v]]
        /\ UNCHANGED <<idt_loaded, interrupts>>
    BY <1>1, <1>3, BootTable
  <2>2. (TableLoaded /\ FlagClear)'
    BY <1>1, <1>2, <1>3, <2>1 DEF Tables, TableLoaded, FlagClear
  <2>3. (Defaults /\ Others)'
    BY <1>1, <2>1 DEF Tables, Defaults, Others, Vectors, Exceptions
  <2>4. (TimerServed /\ Registered)'
    BY <1>2, <1>3 DEF TimerServed, Registered
  <2> QED
    BY <2>2, <2>3, <2>4 DEF Tables
<1>4. CASE place \in 2 .. 24 \ {20}
  <2>1. /\ UNCHANGED real_handlers
        /\ IF place = 2 THEN idt_loaded' = TRUE ELSE UNCHANGED idt_loaded
        /\ IF place = 3 THEN interrupts' = FALSE
           ELSE place # 15 => UNCHANGED interrupts
    <3>1. place = 2 \/ place = 3 \/ place = 15 \/ place \in 4 .. 24 \ {15, 20}
      BY <1>4
    <3> QED
      BY <1>1, <3>1, BootTable
  <2>2. TableLoaded'
    BY <1>1, <1>2, <1>4, <2>1 DEF Tables, TableLoaded
  <2>3. FlagClear'
    BY <1>1, <1>2, <1>4, <2>1 DEF Tables, FlagClear
  <2>4. (Defaults /\ Others)'
    BY <1>1, <1>2, <1>4, <2>1 DEF Tables, Defaults, Others
  <2>5. (TimerServed /\ Registered)'
    BY <1>1, <1>2, <1>4, <2>1 DEF Tables, TimerServed, Registered
  <2> QED
    BY <2>2, <2>3, <2>4, <2>5 DEF Tables
<1>5. CASE place = 20
  <2>1. MayRegister(IDT_IRQ_BASE)
    BY <1>1 DEF MayRegister, Tables, Others, Vectors, Exceptions, IDT_IRQ_BASE, Handlers
  <2>2. /\ real_handlers' = [real_handlers EXCEPT ![IDT_IRQ_BASE] = "pit_handler"]
        /\ UNCHANGED <<idt_loaded, interrupts>>
    BY <1>1, <1>5, <2>1, BootTable
  <2>3. real_handlers'[IDT_IRQ_BASE] = "pit_handler"
        /\ \A v \in Vectors : v # IDT_IRQ_BASE => real_handlers'[v] = real_handlers[v]
    BY <1>1, <2>2 DEF Types, IDT_IRQ_BASE, Vectors
  <2>4. (TableLoaded /\ FlagClear)'
    BY <1>1, <1>2, <1>5, <2>2 DEF Tables, TableLoaded, FlagClear
  <2>5. Defaults'
    <3>1. \A v \in Exceptions : v \in Vectors /\ v # IDT_IRQ_BASE
      BY DEF Exceptions, Vectors, IDT_IRQ_BASE
    <3>2. \A v \in Exceptions : real_handlers[v] = "idt_default_interrupt_handler"
      BY <1>1, <1>5 DEF Tables, Defaults
    <3> QED
      BY <2>3, <3>1, <3>2 DEF Defaults
  <2>6. Others'
    BY <1>1, <2>3 DEF Tables, Others, Handlers
  <2>7. (TimerServed /\ Registered)'
    BY <1>2, <1>5, <2>3 DEF TimerServed, Registered, Handlers
  <2> QED
    BY <2>4, <2>5, <2>6, <2>7 DEF Tables
<1>6. ASSUME NEW j \in 1 .. Len(Driver), place = 24 + j
      PROVE  Tables'
  <2>1. UNCHANGED <<idt_loaded, interrupts>>
    BY <1>1, <1>6, BootTable
  <2>2. (TableLoaded /\ FlagClear)'
    BY <1>1, <1>2, <1>6, <2>1 DEF Tables, TableLoaded, FlagClear
  <2>3. CASE Driver[j].op # "register" \/ ~MayRegister(Driver[j].vector)
    <3>1. UNCHANGED real_handlers
      BY <1>1, <1>6, <2>3, BootTable
    <3>2. (Defaults /\ Others /\ TimerServed)'
      BY <1>1, <1>2, <1>6, <3>1 DEF Tables, Defaults, Others, TimerServed
    <3>3. Driver[j].op = "register" => Driver[j].vector \in Exceptions
      <4> SUFFICES ASSUME Driver[j].op = "register", Driver[j].vector \notin Exceptions
                   PROVE  FALSE
        OBVIOUS
      <4>1. Driver[j].vector \in Vectors \ Exceptions
        BY DriverCall
      <4> QED
        BY <1>1, <2>3, <4>1 DEF Tables, Others, MayRegister, Handlers
    <3>4. Registered'
      <4> SUFFICES ASSUME NEW i \in 1 .. place - 24,
                          Driver[i].op = "register", Driver[i].vector \notin Exceptions
                   PROVE  real_handlers'[Driver[i].vector] = "irq8_handler"
        BY <1>2 DEF Registered
      <4>1. i # j
        BY <3>3
      <4>2. i \in 1 .. place - 25
        BY <1>6, <4>1
      <4> QED
        BY <1>1, <3>1, <4>2 DEF Tables, Registered
    <3> QED
      BY <2>2, <3>2, <3>4 DEF Tables
  <2>4. CASE Driver[j].op = "register" /\ MayRegister(Driver[j].vector)
    <3> DEFINE x == Driver[j].vector
    <3>1. real_handlers' = [real_handlers EXCEPT ![x] = "irq8_handler"] /\ x \in Vectors
      BY <1>1, <1>6, <2>4, BootTable, DriverCall
    <3>2. real_handlers'[x] = "irq8_handler"
          /\ \A v \in Vectors : v # x => real_handlers'[v] = real_handlers[v]
      BY <1>1, <3>1 DEF Types
    <3>3. x \notin Exceptions
      BY <1>1, <1>6, <2>4 DEF Tables, Defaults, MayRegister
    <3> HIDE DEF x
    <3>4. Defaults'
      <4>1. \A v \in Exceptions : v \in Vectors /\ v # x
        <5>1. \A v \in Exceptions : v \in Vectors
          BY DEF Exceptions, Vectors
        <5> QED
          BY <3>3, <5>1
      <4>2. \A v \in Exceptions : real_handlers[v] = "idt_default_interrupt_handler"
        BY <1>1, <1>2, <1>6 DEF Tables, Defaults
      <4> QED
        BY <3>2, <4>1, <4>2 DEF Defaults
    <3>5. Others'
      BY <1>1, <3>2 DEF Tables, Others, Handlers
    <3>6. TimerServed'
      <4>1. IDT_IRQ_BASE \in Vectors
        BY DEF IDT_IRQ_BASE, Vectors
      <4>2. place >= 21 => real_handlers'[IDT_IRQ_BASE] \in Handlers
        BY <1>1, <3>2, <4>1 DEF Tables, TimerServed, Handlers
      <4>3. place >= 21
        BY <1>2, <1>6
      <4> QED
        BY <4>2, <4>3 DEF TimerServed
    <3>7. Registered'
      <4> SUFFICES ASSUME NEW i \in 1 .. place - 24,
                          Driver[i].op = "register", Driver[i].vector \notin Exceptions
                   PROVE  real_handlers'[Driver[i].vector] = "irq8_handler"
        BY <1>2 DEF Registered
      <4>1. i \in 1 .. Len(Driver) /\ Driver[i].vector \in Vectors
        BY <1>6, DriverCall
      <4>2. CASE i = j
        BY <3>2, <4>2 DEF x
      <4>3. CASE i # j
        <5>1. i \in 1 .. place - 25
          BY <1>6, <4>3
        <5>2. real_handlers[Driver[i].vector] = "irq8_handler"
          BY <1>1, <5>1 DEF Tables, Registered
        <5> QED
          BY <3>2, <4>1, <5>2
      <4> QED
        BY <4>2, <4>3
    <3> QED
      BY <2>2, <3>4, <3>5, <3>6, <3>7 DEF Tables
  <2> QED
    BY <2>3, <2>4
<1> QED
  <2>1. place \in 1 .. 24 => place = 1 \/ place \in 2 .. 24 \ {20} \/ place = 20
    OBVIOUS
  <2> QED
    BY <1>1, <1>3, <1>4, <1>5, <1>6, <2>1, Places

\* A byte that pic_init sends, at the chip that gets it and at the other one.
LEMMA BootByte ==
  ASSUME Inv, Len(stack) = 1, Execute, place \in 6 .. 13
  PROVE  LET c == IF place \in {6, 8, 10, 12} THEN "master" ELSE "slave" IN
         /\ \A d \in Chips : d # c => chips'[d] = chips[d]
         /\ chips'[c].irr = chips[c].irr /\ chips'[c].isr = chips[c].isr
         /\ chips[c].expects = "icw2" =>
              /\ place = 6 => chips'[c].offset = 32
              /\ place = 7 => chips'[c].offset = 40
              /\ chips'[c].expects = "icw3"
         /\ chips[c].expects = "icw3" =>
              chips'[c].offset = chips[c].offset /\ chips'[c].expects = "icw4"
         /\ chips[c].expects = "icw4" =>
              chips'[c].offset = chips[c].offset /\ chips'[c].expects = "command"
         /\ chips[c].expects = "command" =>
              /\ chips'[c].offset = chips[c].offset /\ chips'[c].expects = "command"
              /\ place \in 12 .. 13 => chips'[c].imr = Byte
<1> DEFINE c == IF place \in {6, 8, 10, 12} THEN "master" ELSE "slave"
           b == Instruction.byte
<1>1. Types /\ StackShape
  BY DEF Inv
<1>2. Instruction.chip = c /\ b \in SUBSET Byte /\ (place = 6 => b = {5})
      /\ (place = 7 => b = {3, 5}) /\ (place \in 12 .. 13 => b = Byte)
  BY <1>1, BootBytes
<1>3. c \in Chips /\ chips \in [Chips -> Registers]
  BY <1>1 DEF Chips, Types
<1>4. WriteData(Instruction.chip, b)
  BY <1>1, BootChips
<1>5. WriteData(c, b)
  BY <1>2, <1>4
<1>6. (place = 6 => Value(b \ (0 .. 2)) = 32) /\ (place = 7 => Value(b \ (0 .. 2)) = 40)
  BY <1>2, Offsets
<1> HIDE DEF c, b
<1>7. /\ \A d \in Chips : d # c => chips'[d] = chips[d]
      /\ chips'[c].irr = chips[c].irr /\ chips'[c].isr = chips[c].isr
      /\ chips[c].expects = "icw2" =>
           /\ chips'[c].offset = Value(b \ (0 .. 2)) /\ chips'[c].expects = "icw3"
      /\ chips[c].expects = "icw3" =>
           /\ chips'[c].offset = chips[c].offset /\ chips'[c].expects = "icw4"
      /\ chips[c].expects = "icw4" =>
           /\ chips'[c].offset = chips[c].offset /\ chips'[c].expects = "command"
      /\ chips[c].expects = "command" =>
           /\ chips'[c].offset = chips[c].offset /\ chips'[c].expects = "command"
           /\ chips'[c].imr = b
  BY <1>2, <1>3, <1>5, DataFacts
<1>8. /\ \A d \in Chips : d # c => chips'[d] = chips[d]
      /\ chips'[c].irr = chips[c].irr /\ chips'[c].isr = chips[c].isr
      /\ chips[c].expects = "icw2" =>
           /\ place = 6 => chips'[c].offset = 32
           /\ place = 7 => chips'[c].offset = 40
           /\ chips'[c].expects = "icw3"
      /\ chips[c].expects = "icw3" =>
           chips'[c].offset = chips[c].offset /\ chips'[c].expects = "icw4"
      /\ chips[c].expects = "icw4" =>
           chips'[c].offset = chips[c].offset /\ chips'[c].expects = "command"
      /\ chips[c].expects = "command" =>
           /\ chips'[c].offset = chips[c].offset /\ chips'[c].expects = "command"
           /\ place \in 12 .. 13 => chips'[c].imr = Byte
  BY <1>2, <1>6, <1>7
<1> QED
  BY <1>8 DEF c

\* A mask byte, written after boot.
LEMMA MaskWritten ==
  ASSUME Inv, NEW c \in Chips, place >= 12, WriteData(c, MaskByte(g_curmask, c))
  PROVE  /\ \A d \in Chips : d # c => chips'[d] = chips[d]
         /\ chips'[c].irr = chips[c].irr /\ chips'[c].isr = chips[c].isr
         /\ chips'[c].offset = chips[c].offset /\ chips'[c].expects = "command"
         /\ chips'[c].imr = MaskByte(g_curmask, c)
<1>1. chips[c].expects = "command"
  <2>1. StackShape /\ Types /\ MasterWords /\ SlaveWords
    BY DEF Inv, Words
  <2>2. place \in Nat
    BY <2>1, StackFacts, CodeLengths
  <2> QED
    BY <2>1, <2>2 DEF MasterWords, SlaveWords, Master, Slave, Chips
<1>2. MaskByte(g_curmask, c) \in SUBSET Byte
  BY DEF MaskByte
<1>3. chips \in [Chips -> Registers]
  BY DEF Inv, Types
<1> QED
  BY <1>1, <1>2, <1>3, DataFacts

LEMMA BootKeepsWords ==
  ASSUME Inv, Len(stack) = 1, Execute
  PROVE  Words'
<1>1. Types /\ StackShape /\ Words /\ chips \in [Chips -> Registers]
      /\ "master" \in Chips /\ "slave" \in Chips
  BY DEF Inv, Types, Chips
<1>2. place' = place + 1 /\ place \in Nat
  <2>1. place' = place + 1
    BY <1>1, BootMoves
  <2>2. place \in 1 .. Last /\ Last \in Nat
    BY <1>1, StackFacts, CodeLengths
  <2> QED
    BY <2>1, <2>2
<1>3. ASSUME UNCHANGED chips, place \notin 4 .. 13, place # 24 PROVE (MasterWords /\ SlaveWords)'
  <2>1. UNCHANGED <<Master, Slave>>
    BY <1>3 DEF Master, Slave
  <2> HIDE DEF Master, Slave
  <2>2. MasterWords'
    BY <1>1, <1>2, <1>3, <2>1 DEF Words, MasterWords
  <2>3. SlaveWords'
    BY <1>1, <1>2, <1>3, <2>1 DEF Words, SlaveWords
  <2> QED
    BY <2>2, <2>3
<1>4. CASE place = 4
  <2>1. WriteCommand("master", {0, 4})
    BY <1>1, <1>4, BootChips
  <2>2. Master'.expects = "icw2"
    BY <1>1, <2>1, Icw1Facts DEF Master
  <2>3. MasterWords' /\ SlaveWords' /\ AllMasked'
    BY <1>2, <1>4, <2>2 DEF MasterWords, SlaveWords, AllMasked
  <2> QED
    BY <2>3 DEF Words
<1>5. CASE place = 5
  <2>1. WriteCommand("slave", {0, 4})
    BY <1>1, <1>5, BootChips
  <2>2. Slave'.expects = "icw2" /\ Master' = Master
    BY <1>1, <2>1, Icw1Facts DEF Master, Slave
  <2>3. MasterWords' /\ SlaveWords' /\ AllMasked'
    BY <1>1, <1>2, <1>5, <2>2 DEF Words, MasterWords, SlaveWords, AllMasked
  <2> QED
    BY <2>3 DEF Words
<1>6. CASE place \in {6, 8, 10, 12}
  <2>1. /\ Slave' = Slave
        /\ Master.expects = "icw2" =>
             (place = 6 => Master'.offset = 32) /\ Master'.expects = "icw3"
        /\ Master.expects = "icw3" => Master'.offset = Master.offset /\ Master'.expects = "icw4"
        /\ Master.expects = "icw4" => Master'.offset = Master.offset /\ Master'.expects = "command"
        /\ Master.expects = "command" =>
             /\ Master'.offset = Master.offset /\ Master'.expects = "command"
             /\ place = 12 => Master'.imr = Byte
    BY <1>1, <1>6, BootByte DEF Master, Slave
  <2>2. MasterWords'
    BY <1>1, <1>2, <1>6, <2>1 DEF Words, MasterWords
  <2>3. SlaveWords' /\ AllMasked'
    BY <1>1, <1>2, <1>6, <2>1 DEF Words, SlaveWords, AllMasked
  <2> QED
    BY <2>2, <2>3 DEF Words
<1>7. CASE place \in {7, 9, 11, 13}
  <2>1. /\ Master' = Master
        /\ Slave.expects = "icw2" =>
             (place = 7 => Slave'.offset = 40) /\ Slave'.expects = "icw3"
        /\ Slave.expects = "icw3" => Slave'.offset = Slave.offset /\ Slave'.expects = "icw4"
        /\ Slave.expects = "icw4" => Slave'.offset = Slave.offset /\ Slave'.expects = "command"
        /\ Slave.expects = "command" =>
             /\ Slave'.offset = Slave.offset /\ Slave'.expects = "command"
             /\ place = 13 => Slave'.imr = Byte
    BY <1>1, <1>7, BootByte DEF Master, Slave
  <2>2. SlaveWords'
    BY <1>1, <1>2, <1>7, <2>1 DEF Words, SlaveWords
  <2>3. MasterWords' /\ AllMasked'
    BY <1>1, <1>2, <1>7, <2>1 DEF Words, MasterWords, AllMasked
  <2> QED
    BY <2>2, <2>3 DEF Words
<1>8. CASE place = 14
  <2>1. UNCHANGED chips /\ g_curmask' = g_curmask \cup (0 .. 15) /\ g_curmask \in SUBSET (0 .. 15)
    BY <1>1, <1>8, BootChips DEF Types
  <2>2. (MasterWords /\ SlaveWords)'
    BY <1>3, <1>8, <2>1
  <2>3. AllMasked'
    <3>1. g_curmask' = 0 .. 15
      BY <2>1
    <3> QED
      BY <3>1 DEF AllMasked
  <2> QED
    BY <2>2, <2>3 DEF Words
<1>9. CASE place \in 1 .. 3 \cup 15 .. 22
  <2>1. UNCHANGED <<chips, g_curmask>>
    BY <1>1, <1>9, BootChips
  <2>2. (MasterWords /\ SlaveWords)'
    BY <1>3, <1>9, <2>1
  <2>3. AllMasked'
    BY <1>1, <1>2, <1>9, <2>1 DEF Words, AllMasked
  <2> QED
    BY <2>2, <2>3 DEF Words
<1>10. CASE place = 23
  <2>1. UNCHANGED chips
    BY <1>1, <1>10, BootChips
  <2>2. (MasterWords /\ SlaveWords)'
    BY <1>3, <1>10, <2>1
  <2>3. AllMasked'
    BY <1>2, <1>10 DEF AllMasked
  <2> QED
    BY <2>2, <2>3 DEF Words
<1>11. ASSUME NEW c \in Chips, place >= 24, WriteData(c, MaskByte(g_curmask, c))
       PROVE  Words'
  <2>1. /\ \A d \in Chips : d # c => chips'[d] = chips[d]
        /\ chips'[c].offset = chips[c].offset /\ chips'[c].expects = "command"
    BY <1>2, <1>11, MaskWritten
  <2>2. \A d \in Chips : /\ chips'[d].offset = chips[d].offset
                         /\ chips[d].expects = "command" => chips'[d].expects = "command"
    BY <2>1
  <2>3. /\ Master'.offset = Master.offset /\ Slave'.offset = Slave.offset
        /\ Master.expects = "command" => Master'.expects = "command"
        /\ Slave.expects = "command" => Slave'.expects = "command"
    BY <1>1, <2>2 DEF Master, Slave
  <2>4. MasterWords'
    BY <1>1, <1>2, <1>11, <2>3 DEF Words, MasterWords
  <2>5. SlaveWords' /\ AllMasked'
    BY <1>1, <1>2, <1>11, <2>3 DEF Words, SlaveWords, AllMasked
  <2> QED
    BY <2>4, <2>5 DEF Words
<1>12. CASE place = 24
  BY <1>1, <1>11, <1>12, BootChips
<1>13. ASSUME NEW j \in 1 .. Len(Driver), place = 24 + j
       PROVE  Words'
  <2>1. CASE Driver[j].op = "out_mask"
    BY <1>1, <1>2, <1>11, <1>13, <2>1, BootChips, DriverCall
  <2>2. CASE Driver[j].op # "out_mask"
    <3>1. UNCHANGED chips
      BY <1>1, <1>13, <2>2, BootChips, DriverCall
    <3>2. place >= 25
      BY <1>2, <1>13
    <3>3. (MasterWords /\ SlaveWords)'
      BY <1>3, <3>1, <3>2
    <3>4. AllMasked'
      BY <1>2, <3>2 DEF AllMasked
    <3> QED
      BY <3>3, <3>4 DEF Words
  <2> QED
    BY <2>1, <2>2
<1> QED
  <2>1. place \in 1 .. 24 =>
          \/ place \in 1 .. 3 \cup 15 .. 22 \/ place = 4 \/ place = 5
          \/ place \in {6, 8, 10, 12} \/ place \in {7, 9, 11, 13} \/ place = 14
          \/ place = 23 \/ place = 24
    OBVIOUS
  <2> QED
    BY <1>1, <1>4, <1>5, <1>6, <1>7, <1>8, <1>9, <1>10, <1>12, <1>13, <2>1, Places

LEMMA Lines ==
  /\ \A irq \in 0 .. 15 : ChipOf(irq) \in Chips /\ LineOf(irq) \in Byte
                          /\ IrqOf(ChipOf(irq), LineOf(irq)) = irq
  /\ \A c \in Chips, b \in Byte : /\ IrqOf(c, b) \in 0 .. 15
                                  /\ ChipOf(IrqOf(c, b)) = c /\ LineOf(IrqOf(c, b)) = b
<1>1. ASSUME NEW irq \in 0 .. 15
      PROVE  ChipOf(irq) \in Chips /\ LineOf(irq) \in Byte /\ IrqOf(ChipOf(irq), LineOf(irq)) = irq
  <2>1. CASE irq < 8
    BY <2>1 DEF ChipOf, Chips, LineOf, Byte, IrqOf
  <2>2. CASE irq >= 8
    BY <2>2 DEF ChipOf, Chips, LineOf, Byte, IrqOf
  <2> QED
    BY <2>1, <2>2
<1>2. ASSUME NEW c \in Chips, NEW b \in Byte
      PROVE  IrqOf(c, b) \in 0 .. 15 /\ ChipOf(IrqOf(c, b)) = c /\ LineOf(IrqOf(c, b)) = b
  <2>1. CASE c = "master"
    BY <2>1 DEF ChipOf, Chips, LineOf, Byte, IrqOf
  <2>2. CASE c = "slave"
    BY <2>2 DEF ChipOf, Chips, LineOf, Byte, IrqOf
  <2> QED
    BY <2>1, <2>2 DEF Chips
<1> QED
  BY <1>1, <1>2

\* A line with a handler keeps one.
LEMMA BootKeepsReady ==
  ASSUME Inv, Len(stack) = 1, Execute, place >= 14, NEW irq \in 0 .. 15, Ready(irq)
  PROVE  Ready(irq)'
<1> DEFINE v == IDT_IRQ_BASE + irq
<1>1. Types /\ StackShape
  BY DEF Inv
<1>2. v \in Vectors /\ real_handlers \in [Vectors -> Names \cup {"idt_default_interrupt_handler"}]
  BY <1>1 DEF IDT_IRQ_BASE, Vectors, Types
<1>3. real_handlers'[v] = real_handlers[v] \/ real_handlers'[v] \in Handlers
  <2>1. CASE place \in 1 .. 24
    <3>1. place = 15 \/ place = 20 \/ place \in 4 .. 24 \ {15, 20}
      BY <2>1
    <3>2. CASE place = 20
      <4>1. real_handlers' = (IF MayRegister(IDT_IRQ_BASE)
              THEN [real_handlers EXCEPT ![IDT_IRQ_BASE] = "pit_handler"] ELSE real_handlers)
        BY <1>1, <3>2, BootTable
      <4> HIDE DEF v
      <4> QED
        BY <1>2, <4>1 DEF Handlers
    <3>3. CASE place = 15 \/ place \in 4 .. 24 \ {15, 20}
      BY <1>1, <3>3, BootTable
    <3> QED
      BY <3>1, <3>2, <3>3
  <2>2. ASSUME NEW j \in 1 .. Len(Driver), place = 24 + j
        PROVE  real_handlers'[v] = real_handlers[v] \/ real_handlers'[v] \in Handlers
    <3>1. \/ UNCHANGED real_handlers
          \/ real_handlers' = [real_handlers EXCEPT ![Driver[j].vector] = "irq8_handler"]
      BY <1>1, <2>2, BootTable
    <3> HIDE DEF v
    <3> QED
      BY <1>2, <3>1 DEF Handlers
  <2> QED
    BY <1>1, <2>1, <2>2, Places
<1> QED
  BY <1>3 DEF Ready

\* A chip that is written masks what g_curmask says.
LEMMA WrittenReady ==
  ASSUME Inv, NEW c \in Chips, place >= 24, WriteData(c, MaskByte(g_curmask, c)),
         NEW irq \in 0 .. 15, LineOf(irq) \notin chips'[ChipOf(irq)].imr
  PROVE  Ready(irq)
<1>1. /\ \A d \in Chips : d # c => chips'[d] = chips[d]
      /\ chips'[c].imr = MaskByte(g_curmask, c)
  <2>1. Types /\ StackShape
    BY DEF Inv
  <2>2. place \in Nat
    BY <2>1, StackFacts, CodeLengths
  <2> QED
    BY <2>2, MaskWritten
<1>2. UnmaskedReady /\ place >= 15
  <2>1. Types /\ StackShape /\ UnmaskedReady
    BY DEF Inv, Masks
  <2>2. place \in Nat
    BY <2>1, StackFacts, CodeLengths
  <2> QED
    BY <2>1, <2>2
<1>3. CASE ChipOf(irq) = c
  <2>1. LineOf(irq) \in Byte /\ IrqOf(c, LineOf(irq)) = irq
    BY <1>3, Lines
  <2>2. irq \notin g_curmask
    BY <1>1, <1>3, <2>1 DEF MaskByte
  <2> QED
    BY <1>2, <2>2 DEF UnmaskedReady
<1>4. CASE ChipOf(irq) # c
  <2>1. LineOf(irq) \notin chips[ChipOf(irq)].imr
    BY <1>1, <1>4, Lines
  <2> QED
    BY <1>2, <2>1 DEF UnmaskedReady
<1> QED
  BY <1>3, <1>4

LEMMA BootKeepsUnmasked ==
  ASSUME Inv, Len(stack) = 1, Execute, Words', Tables'
  PROVE  UnmaskedReady'
<1>1. Types /\ StackShape /\ Tables /\ UnmaskedReady
  BY DEF Inv, Masks
<1>2. place' = place + 1 /\ place \in Nat
  <2>1. place' = place + 1
    BY <1>1, BootMoves
  <2>2. place \in 1 .. Last /\ Last \in Nat
    BY <1>1, StackFacts, CodeLengths
  <2> QED
    BY <2>1, <2>2
<1>3. CASE place <= 13
  BY <1>2, <1>3 DEF UnmaskedReady
<1>4. CASE place \in 14 .. 23
  <2>1. chips'["master"].imr = Byte /\ chips'["slave"].imr = Byte
    BY <1>2, <1>4 DEF Words, MasterWords, SlaveWords, Master, Slave
  <2>2. \A irq \in 0 .. 15 : LineOf(irq) \in chips'[ChipOf(irq)].imr
    BY <2>1, Lines DEF Chips
  <2>3. CASE place \in 14 .. 22
    <3>1. g_curmask' = 0 .. 15
      BY <1>2, <2>3 DEF Words, AllMasked
    <3> QED
      BY <2>2, <3>1 DEF UnmaskedReady
  <2>4. CASE place = 23
    <3>1. g_curmask = 0 .. 15 /\ g_curmask' = g_curmask \ {0}
      BY <1>1, <2>4, BootChips DEF Inv, Words, AllMasked
    <3>2. \A irq \in 0 .. 15 : irq \notin g_curmask' => irq = 0
      BY <3>1
    <3>3. real_handlers'[IDT_IRQ_BASE] \in Handlers
      BY <1>2, <2>4 DEF Tables, TimerServed
    <3>4. IDT_IRQ_BASE + 0 = IDT_IRQ_BASE
      BY DEF IDT_IRQ_BASE
    <3>5. Ready(0)'
      BY <3>3, <3>4 DEF Ready
    <3> QED
      BY <2>2, <3>2, <3>5 DEF UnmaskedReady
  <2> QED
    BY <1>4, <2>3, <2>4
<1>5. ASSUME NEW c \in Chips, place >= 24, WriteData(c, MaskByte(g_curmask, c)),
             UNCHANGED g_curmask
      PROVE  UnmaskedReady'
  <2> SUFFICES ASSUME NEW irq \in 0 .. 15,
                      irq \notin g_curmask' \/ LineOf(irq) \notin chips'[ChipOf(irq)].imr
               PROVE  Ready(irq)'
    BY DEF UnmaskedReady
  <2>1. Ready(irq)
    <3>1. irq \notin g_curmask => Ready(irq)
      BY <1>1, <1>2, <1>5 DEF UnmaskedReady
    <3>2. LineOf(irq) \notin chips'[ChipOf(irq)].imr => Ready(irq)
      BY <1>5, WrittenReady
    <3> QED
      BY <1>5, <3>1, <3>2
  <2>2. place >= 14
    BY <1>2, <1>5
  <2> QED
    BY <2>1, <2>2, BootKeepsReady
<1>6. CASE place = 24
  BY <1>1, <1>5, <1>6, BootChips DEF Chips
<1>7. ASSUME NEW j \in 1 .. Len(Driver), place = 24 + j
      PROVE  UnmaskedReady'
  <2>1. place >= 14 /\ place >= 15 /\ place >= 21 /\ place >= 25 /\ place - 25 = j - 1
    BY <1>2, <1>7
  <2>2. CASE Driver[j].op = "out_mask"
    BY <1>1, <1>5, <1>7, <2>1, <2>2, BootChips, DriverCall
  <2>3. CASE Driver[j].op \in {"mask", "unmask", "register"}
    <3>1. UNCHANGED chips
      BY <1>1, <1>7, <2>3, BootChips
    <3> SUFFICES ASSUME NEW irq \in 0 .. 15,
                        irq \notin g_curmask' \/ LineOf(irq) \notin chips[ChipOf(irq)].imr
                 PROVE  Ready(irq)'
      BY <3>1 DEF UnmaskedReady
    <3>2. irq \notin g_curmask \/ LineOf(irq) \notin chips[ChipOf(irq)].imr => Ready(irq)
      BY <1>1, <2>1 DEF UnmaskedReady
    <3>3. CASE Driver[j].op \in {"mask", "register"}
      <4>1. g_curmask \subseteq g_curmask'
        BY <1>1, <1>7, <3>3, BootChips
      <4> QED
        BY <2>1, <3>2, <4>1, BootKeepsReady
    <3>4. CASE Driver[j].op = "unmask"
      <4>1. g_curmask' = g_curmask \ Driver[j].irqs
        BY <1>1, <1>7, <3>4, BootChips
      <4>2. CASE irq \in Driver[j].irqs
        <5>1. \/ irq \in {0, Cascade}
              \/ \E i \in 1 .. j - 1 : Driver[i] = Register(IDT_IRQ_BASE + irq, "irq8_handler")
          BY <3>4, <4>2, DriverAssumption
        <5>2. CASE irq = Cascade
          BY <5>2 DEF Ready
        <5>3. CASE irq = 0
          <6>1. real_handlers[IDT_IRQ_BASE] \in Handlers
            BY <1>1, <2>1 DEF Tables, TimerServed
          <6>2. IDT_IRQ_BASE + irq = IDT_IRQ_BASE
            BY <5>3 DEF IDT_IRQ_BASE
          <6>3. Ready(irq)
            BY <6>1, <6>2 DEF Ready
          <6> QED
            BY <2>1, <6>3, BootKeepsReady
        <5>4. ASSUME NEW i \in 1 .. j - 1,
                     Driver[i] = Register(IDT_IRQ_BASE + irq, "irq8_handler")
              PROVE  Ready(irq)'
          <6>1. Driver[i].op = "register" /\ Driver[i].vector = IDT_IRQ_BASE + irq
            BY <5>4 DEF Register
          <6>2. IDT_IRQ_BASE + irq \notin Exceptions
            BY DEF IDT_IRQ_BASE, Exceptions
          <6>3. real_handlers[IDT_IRQ_BASE + irq] = "irq8_handler"
            BY <1>1, <2>1, <6>1, <6>2 DEF Tables, Registered
          <6>4. Ready(irq)
            BY <6>3 DEF Ready, Handlers
          <6> QED
            BY <2>1, <6>4, BootKeepsReady
        <5> QED
          BY <5>1, <5>2, <5>3, <5>4
      <4>3. CASE irq \notin Driver[j].irqs
        BY <2>1, <3>2, <4>1, <4>3, BootKeepsReady
      <4> QED
        BY <4>2, <4>3
    <3> QED
      BY <2>3, <3>3, <3>4
  <2> QED
    BY <2>2, <2>3, DriverCall
<1> QED
  <2>1. place \in 1 .. 24 => place <= 13 \/ place \in 14 .. 23 \/ place = 24
    OBVIOUS
  <2> QED
    BY <1>1, <1>3, <1>4, <1>6, <1>7, <2>1, Places

LEMMA BootKeepsWritten ==
  ASSUME Inv, Len(stack) = 1, Execute, Words'
  PROVE  MasksWritten'
<1>1. Types /\ StackShape /\ MasksWritten
  BY DEF Inv, Masks
<1>2. place' = place + 1 /\ place \in Nat
  <2>1. place' = place + 1
    BY <1>1, BootMoves
  <2>2. place \in 1 .. Last /\ Last \in Nat
    BY <1>1, StackFacts, CodeLengths
  <2> QED
    BY <2>1, <2>2
<1>3. CASE place <= 13
  BY <1>2, <1>3 DEF MasksWritten
<1>4. CASE place \in 14 .. 22
  <2>1. \A c \in Chips : chips'[c].imr = Byte
    BY <1>2, <1>4 DEF Words, MasterWords, SlaveWords, Master, Slave, Chips
  <2>2. g_curmask' = 0 .. 15
    BY <1>2, <1>4 DEF Words, AllMasked
  <2>3. \A c \in Chips : MaskByte(g_curmask', c) = Byte
    BY <2>2, Lines DEF MaskByte
  <2> QED
    BY <2>1, <2>3 DEF MasksWritten, MaskByte
<1>5. CASE place = 23
  <2>1. chips'["slave"].imr = Byte
    BY <1>2, <1>5 DEF Words, SlaveWords, Slave
  <2>2. g_curmask = 0 .. 15 /\ g_curmask' = g_curmask \ {0}
    BY <1>1, <1>5, BootChips DEF Inv, Words, AllMasked
  <2>3. \A b \in Byte : IrqOf("slave", b) \in g_curmask'
    BY <2>2 DEF IrqOf, Byte
  <2>4. chips'["slave"].imr = MaskByte(g_curmask', "slave")
    BY <2>1, <2>3 DEF MaskByte
  <2> QED
    BY <1>2, <1>5, <2>4 DEF MasksWritten, MaskByte, Chips
<1>6. ASSUME NEW c \in Chips, Unwritten(c), place >= 25, Driver[place - 24] # OutMask(c)
      PROVE  Unwritten(c)'
  <2>1. PICK j \in 1 .. place - 25 :
          Touches(Driver[j], c) /\ \A k \in j + 1 .. place - 25 : Driver[k] # OutMask(c)
    BY <1>6 DEF Unwritten
  <2>2. j \in 1 .. place' - 25 /\ \A k \in j + 1 .. place' - 25 : Driver[k] # OutMask(c)
    BY <1>2, <1>6, <2>1
  <2> QED
    BY <2>1, <2>2 DEF Unwritten
<1>7. ASSUME NEW c \in Chips, place >= 24, WriteData(c, MaskByte(g_curmask, c)),
             UNCHANGED g_curmask,
             NEW d \in Chips, place = 24 \/ Driver[place - 24] = OutMask(c),
             place = 24 => c = "master"
      PROVE  chips'[d].imr = MaskByte(g_curmask', d) \/ Unwritten(d)'
  <2>1. /\ \A x \in Chips : x # c => chips'[x] = chips[x]
        /\ chips'[c].imr = MaskByte(g_curmask, c)
    BY <1>2, <1>7, MaskWritten
  <2>2. CASE d = c
    BY <1>7, <2>1, <2>2
  <2>3. CASE d # c
    <3>1. chips[d].imr = MaskByte(g_curmask, d) \/ Unwritten(d)
      BY <1>1, <1>2, <1>7, <2>3 DEF MasksWritten
    <3>2. chips'[d].imr = chips[d].imr
      BY <2>1, <2>3
    <3>3. CASE Unwritten(d)
      <4>1. place # 24
        BY <3>3 DEF Unwritten
      <4>2. place >= 25 /\ Driver[place - 24] # OutMask(d)
        BY <1>2, <1>7, <2>3, <4>1 DEF OutMask
      <4> QED
        BY <1>6, <3>3, <4>2
    <3> QED
      BY <1>7, <3>1, <3>2, <3>3
  <2> QED
    BY <2>2, <2>3
<1>8. CASE place = 24
  <2>1. WriteData("master", MaskByte(g_curmask, "master")) /\ UNCHANGED g_curmask
        /\ "master" \in Chips /\ place >= 24
    BY <1>1, <1>8, BootChips DEF Chips
  <2>2. \A d \in Chips : chips'[d].imr = MaskByte(g_curmask', d) \/ Unwritten(d)'
    BY <1>7, <1>8, <2>1
  <2> QED
    BY <2>2 DEF MasksWritten, MaskByte
<1>9. ASSUME NEW j \in 1 .. Len(Driver), place = 24 + j
      PROVE  MasksWritten'
  <2>1. place >= 25 /\ place - 24 = j
    BY <1>2, <1>9
  <2>2. CASE Driver[j].op = "out_mask"
    <3>1. /\ WriteData(Driver[j].chip, MaskByte(g_curmask, Driver[j].chip)) /\ UNCHANGED g_curmask
          /\ Driver[j].chip \in Chips /\ Driver[j] = OutMask(Driver[j].chip)
      BY <1>1, <1>9, <2>2, BootChips, DriverCall
    <3>2. \A d \in Chips : chips'[d].imr = MaskByte(g_curmask', d) \/ Unwritten(d)'
      BY <1>2, <1>7, <2>1, <3>1
    <3> QED
      BY <3>2 DEF MasksWritten, MaskByte
  <2>3. CASE Driver[j].op \in {"mask", "unmask", "register"}
    <3>1. UNCHANGED chips
      BY <1>1, <1>9, <2>3, BootChips
    <3>2. ASSUME NEW c \in Chips
          PROVE  chips'[c].imr = MaskByte(g_curmask', c) \/ Unwritten(c)'
      <4>1. CASE Touches(Driver[j], c)
        <5>1. j \in 1 .. place' - 25 /\ \A k \in j + 1 .. place' - 25 : FALSE
          BY <1>2, <1>9
        <5> QED
          BY <4>1, <5>1 DEF Unwritten
      <4>2. CASE ~Touches(Driver[j], c)
        <5>1. MaskByte(g_curmask', c) = MaskByte(g_curmask, c)
          <6>1. CASE Driver[j].op = "register"
            <7>1. UNCHANGED g_curmask
              BY <1>1, <1>9, <6>1, BootChips
            <7> QED
              BY <7>1
          <6>2. CASE Driver[j].op \in {"mask", "unmask"}
            <7>1. \A b \in Byte : IrqOf(c, b) \notin Driver[j].irqs
              BY <4>2, <6>2, Lines DEF Touches
            <7>2. g_curmask' = g_curmask \cup Driver[j].irqs
                  \/ g_curmask' = g_curmask \ Driver[j].irqs
              BY <1>1, <1>9, <6>2, BootChips
            <7>3. \A b \in Byte : IrqOf(c, b) \in g_curmask' <=> IrqOf(c, b) \in g_curmask
              BY <7>1, <7>2
            <7> QED
              BY <7>3 DEF MaskByte
          <6> QED
            BY <2>3, <6>1, <6>2
        <5>2. chips[c].imr = MaskByte(g_curmask, c) \/ Unwritten(c)
          BY <1>1, <1>2, <2>1 DEF MasksWritten
        <5>3. Driver[place - 24] # OutMask(c)
          <6>1. Driver[j].op # "out_mask"
            BY <2>3
          <6> QED
            BY <2>1, <6>1 DEF OutMask
        <5> QED
          BY <1>6, <2>1, <3>1, <5>1, <5>2, <5>3
      <4> QED
        BY <4>1, <4>2
    <3> QED
      BY <3>2 DEF MasksWritten, MaskByte
  <2> QED
    BY <2>2, <2>3, DriverCall
<1> QED
  <2>1. place \in 1 .. 24 => place <= 13 \/ place \in 14 .. 22 \/ place = 23 \/ place = 24
    OBVIOUS
  <2> QED
    BY <1>1, <1>3, <1>4, <1>5, <1>8, <1>9, <2>1, Places

\* In boot no line between the controllers is requested, and nothing is served.
LEMMA BootKeepsIdle ==
  ASSUME Inv, Len(stack) = 1, Execute
  PROVE  NoCascadeRequest' /\ Service'
<1>1. Types /\ StackShape /\ NoCascadeRequest /\ Service /\ chips \in [Chips -> Registers]
      /\ "master" \in Chips /\ "slave" \in Chips
  BY DEF Inv, Types, Chips
<1>2. stack[1].name = "genoa_entry" /\ place \in Nat
  BY <1>1, StackFacts, CodeLengths
<1>3. Master.isr = {} /\ Slave.isr = {}
  <2>1. Idle /\ ~Running("kpanic")
    <3>1. DOMAIN stack = 1 .. 1
      BY <1>1 DEF Types
    <3> QED
      BY <1>2, <3>1 DEF Idle, Running, Handlers
  <2> QED
    BY <1>1, <2>1 DEF Service
<1>4. Len(stack') = 1 /\ stack'[1].name = "genoa_entry"
  BY <1>1, BootMoves
<1>5. Cascade \notin chips'["master"].irr /\ chips'["master"].isr = {} /\ chips'["slave"].isr = {}
  <2>1. CASE UNCHANGED chips
    BY <1>1, <1>3, <2>1 DEF NoCascadeRequest, Master, Slave
  <2>2. ASSUME NEW c \in Chips, WriteCommand(c, {0, 4})
        PROVE  Cascade \notin chips'["master"].irr /\ chips'["master"].isr = {}
               /\ chips'["slave"].isr = {}
    BY <1>1, <1>3, <2>2, Icw1Facts DEF NoCascadeRequest, Master, Slave, Chips
  <2>3. ASSUME NEW c \in Chips, NEW b \in SUBSET Byte, WriteData(c, b)
        PROVE  Cascade \notin chips'["master"].irr /\ chips'["master"].isr = {}
               /\ chips'["slave"].isr = {}
    <3>1. \A d \in Chips : chips'[d].irr = chips[d].irr /\ chips'[d].isr = chips[d].isr
      BY <1>1, <2>3, DataFacts
    <3> QED
      BY <1>1, <1>3, <3>1 DEF NoCascadeRequest, Master, Slave
  <2>4. \A c \in Chips : MaskByte(g_curmask, c) \in SUBSET Byte
    BY DEF MaskByte
  <2>5. CASE place \in 1 .. 24
    <3>1. \/ place \in 1 .. 3 \cup 15 .. 22 \/ place \in 4 .. 5 \/ place \in 6 .. 13
          \/ place = 14 \/ place = 23 \/ place = 24
      BY <2>5
    <3>2. CASE place \in 1 .. 3 \cup 15 .. 22 \/ place = 14 \/ place = 23
      BY <1>1, <2>1, <3>2, BootChips
    <3>3. CASE place \in 4 .. 5
      BY <1>1, <2>2, <3>3, BootChips
    <3>4. CASE place \in 6 .. 13
      <4>1. Instruction.chip \in Chips /\ Instruction.byte \in SUBSET Byte
        BY <1>1, <3>4, BootBytes
      <4> QED
        BY <1>1, <2>3, <3>4, <4>1, BootChips
    <3>5. CASE place = 24
      BY <1>1, <2>3, <2>4, <3>5, BootChips
    <3> QED
      BY <3>1, <3>2, <3>3, <3>4, <3>5
  <2>6. ASSUME NEW j \in 1 .. Len(Driver), place = 24 + j
        PROVE  Cascade \notin chips'["master"].irr /\ chips'["master"].isr = {}
               /\ chips'["slave"].isr = {}
    <3>1. CASE Driver[j].op = "out_mask"
      BY <1>1, <2>3, <2>4, <2>6, <3>1, BootChips, DriverCall
    <3>2. CASE Driver[j].op # "out_mask"
      BY <1>1, <2>1, <2>6, <3>2, BootChips, DriverCall
    <3> QED
      BY <3>1, <3>2
  <2> QED
    BY <1>1, <2>5, <2>6, Places
<1> QED
  BY <1>4, <1>5 DEF NoCascadeRequest, Service, Master, Slave, Handlers

LEMMA BootStep ==
  ASSUME Inv, Len(stack) = 1, Execute
  PROVE  Inv'
<1>1. Types' /\ StackShape' /\ Tables' /\ Words'
  BY BootKeepsTypes, BootKeepsShape, BootKeepsTables, BootKeepsWords
<1>2. UnmaskedReady' /\ MasksWritten'
  BY <1>1, BootKeepsUnmasked, BootKeepsWritten
<1>3. NoCascadeRequest' /\ Service'
  BY BootKeepsIdle
<1> QED
  BY <1>1, <1>2, <1>3 DEF Inv, Masks

-----------------------------------------------------------------------------
(* What runs on top of genoa_entry keeps the invariant *)

\* As long as genoa_entry does not move, what the boot has set up stays.
LEMMA BootStays ==
  ASSUME Inv, place' = place, UNCHANGED <<real_handlers, idt_loaded, g_curmask>>,
         \A c \in Chips : /\ chips'[c].imr = chips[c].imr /\ chips'[c].offset = chips[c].offset
                          /\ chips'[c].expects = chips[c].expects,
         interrupts' => interrupts \/ place >= 16
  PROVE  Tables' /\ Words' /\ Masks'
<1>1. Tables /\ Words /\ Masks /\ "master" \in Chips /\ "slave" \in Chips /\ place \in Nat
  <2>1. Types /\ StackShape
    BY DEF Inv
  <2>2. place \in 1 .. Last /\ Last \in Nat
    BY <2>1, StackFacts, CodeLengths
  <2> QED
    BY <2>2 DEF Inv, Chips
<1>2. /\ Master'.imr = Master.imr /\ Master'.offset = Master.offset
      /\ Master'.expects = Master.expects
      /\ Slave'.imr = Slave.imr /\ Slave'.offset = Slave.offset
      /\ Slave'.expects = Slave.expects
  BY <1>1 DEF Master, Slave
<1>3. FlagClear'
  BY <1>1 DEF Tables, FlagClear
<1>4. (TableLoaded /\ Defaults /\ Others /\ TimerServed /\ Registered)'
  BY <1>1 DEF Tables, TableLoaded, Defaults, Others, TimerServed, Registered
<1>5. MasterWords' /\ SlaveWords' /\ AllMasked'
  BY <1>1, <1>2 DEF Words, MasterWords, SlaveWords, AllMasked
<1>6. \A irq \in 0 .. 15 : chips'[ChipOf(irq)].imr = chips[ChipOf(irq)].imr
  BY Lines
<1>7. UnmaskedReady'
  BY <1>1, <1>6 DEF Masks, UnmaskedReady, Ready
<1>8. MasksWritten'
  BY <1>1 DEF Masks, MasksWritten, Unwritten, MaskByte
<1> QED
  BY <1>3, <1>4, <1>5, <1>7, <1>8 DEF Tables, Words, Masks

LEMMA RunningIs ==
  ASSUME Types, NEW name
  PROVE  Running(name) <=> \E k \in 1 .. Len(stack) : stack[k].name = name
<1>1. DOMAIN stack = 1 .. Len(stack)
  BY DEF Types
<1> QED
  BY <1>1 DEF Running

\* A frame stands where it stood if neither it nor what is below has changed.
LEMMA StandsStill ==
  ASSUME Types, StackShape, NEW k \in 1 .. Len(stack),
         \A j \in 1 .. k : stack'[j] = stack[j],
         place' = place, interrupts' => stack[k].name \in Calm,
         stack[k].name = "kpanic" /\ stack[k].at = 4 => ~interrupts' /\ k = Len(stack')
  PROVE  Stands(k)'
<1>1. Stands(k) /\ k \in 1 .. k /\ Len(stack) \in Nat
  BY StackFacts DEF StackShape
<1>2. stack'[k] = stack[k]
  BY <1>1
<1>3. \A j \in 1 .. k - 1 : stack'[j] = stack[j]
  OBVIOUS
<1>4. k > 1 => stack'[k - 1] = stack[k - 1]
  BY <1>3
<1>5. InCode(stack[k])' /\ (stack'[k].name = "genoa_entry" <=> k = 1)
  BY <1>1, <1>2 DEF Stands, InCode
<1>6. stack'[k].name \in Handlers =>
        place' >= 16 /\ \A j \in 1 .. k - 1 : stack'[j].name \in Calm
  BY <1>1, <1>2, <1>3 DEF Stands
<1>7. stack'[k].name = "tick" => k > 1 /\ stack'[k - 1].name = "pit_handler"
  BY <1>1, <1>2, <1>4 DEF Stands
<1> QED
  BY <1>2, <1>5, <1>6, <1>7 DEF Stands

\* The innermost frame moves on.
LEMMA ShapeNext ==
  ASSUME Types, StackShape, Len(stack) > 1, NextInstruction,
         Top.at # Len(Code(Top.name)), interrupts' => interrupts,
         Top.name = "kpanic" /\ Top.at = 3 => ~interrupts'
  PROVE  /\ StackShape' /\ place' = place /\ Len(stack') = Len(stack)
         /\ \A k \in 1 .. Len(stack) : stack'[k].name = stack[k].name
         /\ \A k \in 1 .. Len(stack) - 1 : stack'[k] = stack[k]
         /\ stack'[Len(stack)].at = Top.at + 1 /\ stack' \in Seq(Frames)
<1>0. PICK n \in Nat : n = Len(stack)
  BY StackFacts
<1>1. /\ n \in Nat /\ Top = stack[n] /\ Top \in Frames /\ InCode(Top)
      /\ stack[1].name = "genoa_entry" /\ n \in 1 .. n /\ Stands(n)
  BY <1>0, StackFacts DEF StackShape, Types
<1>2. /\ stack' \in Seq(Frames) /\ Len(stack') = n
      /\ \A k \in 1 .. n - 1 : stack'[k] = stack[k]
      /\ stack'[n].name = Top.name /\ stack'[n].at = Top.at + 1
  BY <1>0, AfterNext DEF Types
<1>3. place' = place
  BY <1>0, <1>1, <1>2 DEF place
<1>4. \A k \in 1 .. n : stack'[k].name = stack[k].name
  BY <1>0, <1>1, <1>2
<1>5. ASSUME NEW k \in 1 .. n, k # n PROVE Stands(k)'
  <2>1. Stands(k) /\ \A j \in 1 .. k : stack'[j] = stack[j]
    BY <1>0, <1>1, <1>2, <1>5 DEF StackShape
  <2>2. interrupts' => stack[k].name \in Calm
    BY <1>0, <2>1 DEF Stands
  <2>3. ~(stack[k].name = "kpanic" /\ stack[k].at = 4)
    BY <1>0, <1>5, <2>1 DEF Stands
  <2> QED
    BY <1>0, <1>3, <2>1, <2>2, <2>3, StandsStill
<1>6. Stands(n)'
  <2>1. InCode(stack[n])'
    BY <1>1, <1>2, CodeLengths, NameCases DEF InCode, Frames
  <2>2. stack'[n].name = "genoa_entry" <=> n = 1
    BY <1>0, <1>1, <1>2 DEF Stands
  <2>3. stack'[n].name \in Handlers =>
          place' >= 16 /\ \A j \in 1 .. n - 1 : stack'[j].name \in Calm
    BY <1>0, <1>1, <1>2, <1>3 DEF Stands
  <2>4. stack'[n].name = "tick" => n > 1 /\ stack'[n - 1].name = "pit_handler"
    BY <1>0, <1>1, <1>2 DEF Stands
  <2>5. interrupts' => stack'[n].name \in Calm
    BY <1>0, <1>1, <1>2 DEF Stands
  <2>6. stack'[n].name = "kpanic" /\ stack'[n].at = 4 => ~interrupts' /\ n = Len(stack')
    <3>1. Top.at \in Nat
      BY <1>0, <1>1 DEF Frames
    <3> QED
      BY <1>0, <1>1, <1>2, <3>1
  <2> QED
    BY <1>0, <2>1, <2>2, <2>3, <2>4, <2>5, <2>6 DEF Stands
<1> QED
  BY <1>0, <1>2, <1>3, <1>4, <1>5, <1>6 DEF StackShape

\* A frame is pushed on a stack that may be interrupted.
LEMMA ShapePush ==
  ASSUME Types, StackShape, NEW name \in Handlers \cup {"kpanic"}, Push(name),
         interrupts' => interrupts,
         name \in Handlers => interrupts /\ ~interrupts' /\ place >= 16,
         Top.name = "kpanic" => interrupts
  PROVE  /\ StackShape' /\ place' = place /\ Len(stack') = Len(stack) + 1
         /\ \A k \in 1 .. Len(stack) : stack'[k] = stack[k]
         /\ stack'[Len(stack) + 1] = Frame(name, interrupts) /\ stack' \in Seq(Frames)
<1>0. PICK n \in Nat : n = Len(stack)
  BY StackFacts
<1>1. n \in Nat /\ n \in 1 .. n /\ 1 \in 1 .. n /\ Top = stack[n] /\ interrupts \in BOOLEAN
      /\ name \in Names \ {"NULL"}
  BY <1>0, StackFacts DEF Types, Handlers, Names
<1>2. /\ stack' \in Seq(Frames) /\ Len(stack') = n + 1
      /\ \A k \in 1 .. n : stack'[k] = stack[k]
      /\ stack'[n + 1] = Frame(name, interrupts)
  BY <1>0, <1>1, AfterPush DEF Types
<1>3. place' = place
  BY <1>0, <1>1, <1>2 DEF place
<1>4. ASSUME NEW k \in 1 .. n PROVE Stands(k)'
  <2>1. Stands(k) /\ \A j \in 1 .. k : stack'[j] = stack[j]
    BY <1>0, <1>1, <1>2 DEF StackShape
  <2>2. interrupts' => stack[k].name \in Calm
    BY <1>0, <2>1 DEF Stands
  <2>3. ~(stack[k].name = "kpanic" /\ stack[k].at = 4)
    BY <1>0, <1>1, <2>1 DEF Stands
  <2> QED
    BY <1>0, <1>3, <2>1, <2>2, <2>3, StandsStill
<1>5. /\ stack'[n + 1].name = name /\ stack'[n + 1].at = 1
  BY <1>0, <1>2 DEF Frame
<1>6. Stands(n + 1)'
  <2>1. InCode(stack[n + 1])'
    <3>1. name = "pit_handler" \/ name = "irq8_handler" \/ name = "kpanic"
      BY DEF Handlers
    <3>2. Len(Code(name)) = 3 \/ Len(Code(name)) = 4
      BY <3>1, CodeLengths
    <3>3. 1 \in 1 .. Len(Code(name))
      BY <3>2
    <3> QED
      BY <1>5, <3>3 DEF InCode
  <2>2. stack'[n + 1].name = "genoa_entry" <=> n + 1 = 1
    BY <1>0, <1>1, <1>5 DEF Handlers
  <2>3. stack'[n + 1].name \in Handlers =>
          place' >= 16 /\ \A j \in 1 .. n : stack'[j].name \in Calm
    <3>1. ASSUME name \in Handlers, NEW j \in 1 .. n PROVE stack'[j].name \in Calm
      BY <1>0, <1>2, <3>1 DEF StackShape, Stands
    <3> QED
      BY <1>0, <1>3, <1>5, <3>1
  <2>4. stack'[n + 1].name # "tick" /\ (interrupts' => stack'[n + 1].name \in Calm)
    BY <1>0, <1>5 DEF Handlers, Calm
  <2>5. stack'[n + 1].at # 4
    BY <1>0, <1>5
  <2>6. (n + 1) - 1 = n
    BY <1>0, <1>1
  <2> QED
    BY <1>0, <2>1, <2>2, <2>3, <2>4, <2>5, <2>6 DEF Stands
<1>7. \A k \in 1 .. n + 1 : k \in 1 .. n \/ k = n + 1
  BY <1>0, <1>1
<1> QED
  BY <1>0, <1>2, <1>3, <1>4, <1>6, <1>7 DEF StackShape

\* The timer's handler calls its callback.
LEMMA ShapeCall ==
  ASSUME Types, StackShape, Top.name = "pit_handler", Top.at = 1, Call("tick"),
         UNCHANGED interrupts
  PROVE  /\ StackShape' /\ place' = place /\ Len(stack') = Len(stack) + 1
         /\ \A k \in 1 .. Len(stack) : stack'[k].name = stack[k].name
         /\ \A k \in 1 .. Len(stack) - 1 : stack'[k] = stack[k]
         /\ stack'[Len(stack)].at = 2 /\ stack' \in Seq(Frames)
         /\ stack'[Len(stack) + 1].name = "tick"
<1>0. PICK n \in Nat : n = Len(stack)
  BY StackFacts
<1>1. /\ n \in 1 .. n /\ 1 \in 1 .. n /\ Top = stack[n] /\ interrupts \in BOOLEAN
      /\ "tick" \in Names \ {"NULL"} /\ n # 1 /\ n - 1 \in 1 .. n
  BY <1>0, StackFacts DEF Types, Names
<1>2. /\ stack' \in Seq(Frames) /\ Len(stack') = n + 1
      /\ \A k \in 1 .. n - 1 : stack'[k] = stack[k]
      /\ stack'[n].name = "pit_handler" /\ stack'[n].at = 2
      /\ stack'[n + 1] = Frame("tick", interrupts)
  <2>1. /\ stack' \in Seq(Frames) /\ Len(stack') = n + 1
        /\ \A k \in 1 .. n - 1 : stack'[k] = stack[k]
        /\ stack'[n].name = Top.name /\ stack'[n].at = Top.at + 1
        /\ stack'[n + 1] = Frame("tick", interrupts)
    BY <1>0, <1>1, AfterCall DEF Types
  <2> QED
    BY <2>1
<1>3. place' = place /\ Stands(n) /\ ~interrupts
  BY <1>0, <1>1, <1>2 DEF place, StackShape, Stands, Calm
<1>4. ASSUME NEW k \in 1 .. n, k # n PROVE Stands(k)'
  <2>1. Stands(k) /\ \A j \in 1 .. k : stack'[j] = stack[j]
    BY <1>0, <1>1, <1>2, <1>4 DEF StackShape
  <2>2. ~(stack[k].name = "kpanic" /\ stack[k].at = 4)
    BY <1>0, <1>4, <2>1 DEF Stands
  <2> QED
    BY <1>0, <1>3, <2>1, <2>2, StandsStill
<1>5. Stands(n)'
  <2>1. InCode(stack[n])'
    <3>1. 2 \in 1 .. Len(Code("pit_handler"))
      <4>1. Len(Code("pit_handler")) = 3 /\ 2 \in 1 .. 3
        BY CodeLengths
      <4> QED
        BY ONLY <4>1
    <3> QED
      BY <1>2, <3>1 DEF InCode
  <2>2. stack'[n].name = "genoa_entry" <=> n = 1
    BY <1>1, <1>2
  <2>3. stack'[n].name \in Handlers =>
          place' >= 16 /\ \A j \in 1 .. n - 1 : stack'[j].name \in Calm
    BY <1>1, <1>2, <1>3 DEF Stands, Handlers
  <2> QED
    BY <1>2, <1>3, <2>1, <2>2, <2>3 DEF Stands
<1>6. Stands(n + 1)'
  <2>1. stack'[n + 1].name = "tick" /\ stack'[n + 1].at = 1
    BY <1>2 DEF Frame
  <2>2. InCode(stack[n + 1])'
    <3>1. 1 \in 1 .. Len(Code("tick"))
      <4>1. Len(Code("tick")) = 3
        BY CodeLengths
      <4> QED
        BY <4>1
    <3> QED
      BY <2>1, <3>1 DEF InCode
  <2>3. n + 1 > 1 /\ n + 1 # 1 /\ (n + 1) - 1 = n
    BY <1>1
  <2> QED
    BY <1>2, <1>3, <2>1, <2>2, <2>3 DEF Stands, Handlers
<1>7. \A k \in 1 .. n + 1 : k \in 1 .. n \/ k = n + 1
  BY <1>1
<1>8. \A k \in 1 .. n : stack'[k].name = stack[k].name
  <2>1. \A k \in 1 .. n : k \in 1 .. n - 1 \/ k = n
    OBVIOUS
  <2> QED
    BY <1>1, <1>2, <2>1
<1>9. stack'[n + 1].name = "tick"
  BY <1>2 DEF Frame
<1> QED
  BY <1>0, <1>2, <1>3, <1>4, <1>5, <1>6, <1>7, <1>8, <1>9 DEF StackShape

\* The innermost frame returns, with interrupts off or to a calm function.
LEMMA ShapePop ==
  ASSUME Types, StackShape, Len(stack) > 1, Pop,
         Top.name \in Handlers \/ UNCHANGED interrupts
  PROVE  /\ StackShape' /\ place' = place /\ Len(stack') = Len(stack) - 1
         /\ \A k \in 1 .. Len(stack) - 1 : stack'[k] = stack[k]
         /\ stack' \in Seq(Frames)
<1>0. PICK n \in Nat : n = Len(stack)
  BY StackFacts
<1>1. n >= 2 /\ 1 \in 1 .. n - 1 /\ Top = stack[n] /\ n \in 1 .. n /\ Stands(n)
  BY <1>0, StackFacts DEF StackShape
<1>2. /\ stack' \in Seq(Frames) /\ Len(stack') = n - 1
      /\ \A k \in 1 .. n - 1 : stack'[k] = stack[k]
  BY <1>0, <1>1, AfterPop DEF Types
<1>3. place' = place
  BY <1>1, <1>2 DEF place
<1>4. ASSUME NEW k \in 1 .. n - 1 PROVE Stands(k)'
  <2>1. k \in 1 .. n /\ k # n /\ \A j \in 1 .. k : stack'[j] = stack[j]
    BY <1>2
  <2>2. Stands(k)
    BY <1>0, <2>1 DEF StackShape
  <2>3. ~(stack[k].name = "kpanic" /\ stack[k].at = 4)
    BY <1>0, <2>1, <2>2 DEF Stands
  <2>4. interrupts' => stack[k].name \in Calm
    <3>1. CASE Top.name \in Handlers
      BY <1>1, <3>1 DEF Stands
    <3>2. CASE UNCHANGED interrupts
      BY <2>2, <3>2 DEF Stands
    <3> QED
      BY <3>1, <3>2
  <2> QED
    BY <1>0, <1>3, <2>1, <2>3, <2>4, StandsStill
<1> QED
  BY <1>0, <1>2, <1>3, <1>4 DEF StackShape

\* Without a kpanic a handler is the second frame of the stack, and what it
\* serves is what Service says.
LEMMA ServingHandler ==
  ASSUME Types, StackShape, Service, ~Running("kpanic"), NEW k \in 1 .. Len(stack),
         stack[k].name \in Handlers
  PROVE  Serving(k)
BY DEF Service

\* Frames that keep their names, handlers that keep their places, chips that
\* serve what they served.
LEMMA ServiceStays ==
  ASSUME Inv, Types', place' = place,
         \A c \in Chips : chips'[c].isr = chips[c].isr,
         \A k \in 1 .. Len(stack) : stack[k].name = "kpanic" =>
           k \in 1 .. Len(stack') /\ stack'[k].name = "kpanic",
         \A k \in 1 .. Len(stack) : stack[k].name \in Handlers =>
           k \in 1 .. Len(stack') /\ stack'[k].name \in Handlers,
         \A k \in 1 .. Len(stack') : stack'[k].name \in Handlers =>
           /\ k \in 1 .. Len(stack) /\ stack'[k].name = stack[k].name
           /\ stack'[k].at = stack[k].at \/ (stack[k].name = "pit_handler" /\ stack'[k].at = 2)
  PROVE  Service'
<1>1. Types /\ Service /\ Master'.isr = Master.isr /\ Slave'.isr = Slave.isr
  BY DEF Inv, Master, Slave, Chips
<1> SUFFICES ASSUME ~Running("kpanic")'
             PROVE  /\ Idle' => Master'.isr = {} /\ Slave'.isr = {}
                    /\ \A k \in 1 .. Len(stack') : stack'[k].name \in Handlers => Serving(k)'
  BY DEF Service
<1>2. ~Running("kpanic")
  <2>1. (Running("kpanic") <=> \E k \in 1 .. Len(stack) : stack[k].name = "kpanic")'
    <3>1. DOMAIN stack' = 1 .. Len(stack')
      BY DEF Types
    <3> QED
      BY <3>1 DEF Running
  <2>2. Running("kpanic") <=> \E k \in 1 .. Len(stack) : stack[k].name = "kpanic"
    BY <1>1, RunningIs
  <2> QED
    BY <2>1, <2>2
<1>3. Idle' => Master'.isr = {} /\ Slave'.isr = {}
  BY <1>1, <1>2 DEF Service, Idle
<1>4. ASSUME NEW k \in 1 .. Len(stack'), stack'[k].name \in Handlers PROVE Serving(k)'
  <2>1. k \in 1 .. Len(stack) /\ stack'[k].name = stack[k].name
        /\ (stack'[k].at = stack[k].at \/ (stack[k].name = "pit_handler" /\ stack'[k].at = 2))
    BY <1>4
  <2>2. Serving(k)
    BY <1>1, <1>2, <1>4, <2>1 DEF Service
  <2> QED
    BY <1>1, <2>1, <2>2 DEF Serving, AtMostOne
<1> QED
  BY <1>3, <1>4

Same == <<g_curmask, real_handlers, idt_loaded, pit_callback, pit>>

\* What a step of anything but genoa_entry can be.
LEMMA AboveCases ==
  ASSUME Types, StackShape, Len(stack) > 1, Execute
  PROVE  /\ UNCHANGED Same
         /\ \/ /\ Top.name = "pit_handler" /\ Top.at = 1 /\ UNCHANGED <<chips, interrupts>>
               /\ Call("tick") \/ NextInstruction
            \/ /\ \/ Top.name = "pit_handler" /\ Top.at = 2 /\ WriteCommand("master", {5})
                  \/ Top.name = "irq8_handler" /\ Top.at = 1 /\ WriteCommand("slave", {5})
                  \/ Top.name = "irq8_handler" /\ Top.at = 2 /\ WriteCommand("master", {5})
               /\ NextInstruction /\ UNCHANGED interrupts
            \/ /\ Top.name \in {"tick", "kpanic"} /\ Top.at \in 1 .. 2
               /\ NextInstruction /\ UNCHANGED <<chips, interrupts>>
            \/ /\ Top.name = "kpanic" /\ Top.at = 3
               /\ NextInstruction /\ ~interrupts' /\ interrupts' \in BOOLEAN /\ UNCHANGED chips
            \/ /\ Top.name = "tick" /\ Top.at = 3 /\ Pop /\ UNCHANGED <<chips, interrupts>>
            \/ /\ Top.name \in Handlers /\ Top.at = 3 /\ Pop /\ interrupts' = Top.flag
               /\ UNCHANGED chips
<1>1. Top \in Frames /\ InCode(Top) /\ Top.name # "genoa_entry"
      /\ Instruction = InstructionOf(Top)
  BY StackFacts DEF Instruction
<1>2. \/ Top.name = "pit_handler" \/ Top.name = "tick" \/ Top.name = "kpanic"
      \/ Top.name = "irq8_handler"
  BY <1>1, NameCases
<1>3. CASE Top.name = "pit_handler"
  <2>1. \/ Top.at = 1 /\ Instruction = Do("callback")
        \/ Top.at = 2 /\ Instruction = OutCommand("master", {5})
        \/ Top.at = 3 /\ Instruction = Do("iret")
    BY <1>1, <1>3, AboveBoot
  <2>2. CASE Top.at = 1 /\ Instruction = Do("callback")
    <3>1. Callback
      BY <2>2, ByOp DEF Do
    <3> QED
      BY <1>3, <2>2, <3>1 DEF Callback, Same
  <2>3. CASE Top.at = 2 /\ Instruction = OutCommand("master", {5})
    <3>1. WritePic /\ Instruction.op = "command" /\ Instruction.chip = "master"
          /\ Instruction.byte = {5}
      BY <2>3, ByOp DEF OutCommand
    <3> QED
      BY <1>3, <2>3, <3>1 DEF WritePic, At, Same
  <2>4. CASE Top.at = 3 /\ Instruction = Do("iret")
    <3>1. Return /\ Instruction.op = "iret"
      BY <2>4, ByOp DEF Do
    <3> QED
      BY <1>3, <2>4, <3>1 DEF Return, At, Same, Handlers
  <2> QED
    BY <2>1, <2>2, <2>3, <2>4
<1>4. CASE Top.name = "irq8_handler"
  <2>1. \/ Top.at = 1 /\ Instruction = OutCommand("slave", {5})
        \/ Top.at = 2 /\ Instruction = OutCommand("master", {5})
        \/ Top.at = 3 /\ Instruction = Do("iret")
    BY <1>1, <1>4, AboveBoot
  <2>2. CASE Top.at = 1 /\ Instruction = OutCommand("slave", {5})
    <3>1. WritePic /\ Instruction.op = "command" /\ Instruction.chip = "slave"
          /\ Instruction.byte = {5}
      BY <2>2, ByOp DEF OutCommand
    <3> QED
      BY <1>4, <2>2, <3>1 DEF WritePic, At, Same
  <2>3. CASE Top.at = 2 /\ Instruction = OutCommand("master", {5})
    <3>1. WritePic /\ Instruction.op = "command" /\ Instruction.chip = "master"
          /\ Instruction.byte = {5}
      BY <2>3, ByOp DEF OutCommand
    <3> QED
      BY <1>4, <2>3, <3>1 DEF WritePic, At, Same
  <2>4. CASE Top.at = 3 /\ Instruction = Do("iret")
    <3>1. Return /\ Instruction.op = "iret"
      BY <2>4, ByOp DEF Do
    <3> QED
      BY <1>4, <2>4, <3>1 DEF Return, At, Same, Handlers
  <2> QED
    BY <2>1, <2>2, <2>3, <2>4
<1>5. CASE Top.name = "tick"
  <2>1. \/ Top.at \in 1 .. 2 /\ Instruction.op \in {"print", "printed"}
        \/ Top.at = 3 /\ Instruction.op = "ret"
    BY <1>1, <1>5, AboveBoot DEF Do
  <2>2. CASE Top.at \in 1 .. 2 /\ Instruction.op \in {"print", "printed"}
    <3>1. UseTerminal
      BY <2>2, ByOp
    <3> QED
      BY <1>5, <2>2, <3>1 DEF UseTerminal, Same
  <2>3. CASE Top.at = 3 /\ Instruction.op = "ret"
    <3>1. Return
      BY <2>3, ByOp
    <3> QED
      BY <1>5, <2>3, <3>1 DEF Return, At, Same
  <2> QED
    BY <2>1, <2>2, <2>3
<1>6. CASE Top.name = "kpanic"
  <2>1. \/ Top.at \in 1 .. 2 /\ Instruction.op \in {"print", "printed"}
        \/ Top.at = 3 /\ Instruction.op = "cli"
        \/ Instruction.op = "hlt"
    BY <1>1, <1>6, AboveBoot DEF Do
  <2>2. CASE Top.at \in 1 .. 2 /\ Instruction.op \in {"print", "printed"}
    <3>1. UseTerminal
      BY <2>2, ByOp
    <3> QED
      BY <1>6, <2>2, <3>1 DEF UseTerminal, Same
  <2>3. CASE Top.at = 3 /\ Instruction.op = "cli"
    <3>1. SetFlag
      BY <2>3, ByOp
    <3> QED
      BY <1>6, <2>3, <3>1 DEF SetFlag, At, Same
  <2>4. CASE Instruction.op = "hlt"
    BY <2>4, ByOp
  <2> QED
    BY <2>1, <2>2, <2>3, <2>4
<1> QED
  BY <1>2, <1>3, <1>4, <1>5, <1>6

\* The other conjuncts, once the stack and what is served are known.
LEMMA AboveRest ==
  ASSUME Inv, UNCHANGED Same, StackShape', place' = place,
         stack' \in Seq(Frames), Len(stack') >= 1,
         chips' \in [Chips -> Registers],
         \A c \in Chips : /\ chips'[c].imr = chips[c].imr /\ chips'[c].irr = chips[c].irr
                          /\ chips'[c].offset = chips[c].offset
                          /\ chips'[c].expects = chips[c].expects,
         interrupts' \in BOOLEAN, interrupts' => interrupts \/ place >= 16,
         Types' => Service'
  PROVE  Inv'
<1>1. Types'
  BY DEF Inv, Types, Same
<1>2. Tables' /\ Words' /\ Masks'
  BY BootStays DEF Same
<1>3. NoCascadeRequest'
  BY DEF Inv, NoCascadeRequest, Master, Chips
<1> QED
  BY <1>1, <1>2, <1>3 DEF Inv

LEMMA AboveStep ==
  ASSUME Inv, Len(stack) > 1, Execute
  PROVE  Inv'
<1>0. PICK n \in Nat : n = Len(stack)
  BY StackFacts DEF Inv
<1>1. /\ Types /\ StackShape /\ Service /\ chips \in [Chips -> Registers] /\ interrupts \in BOOLEAN
      /\ n > 1 /\ n \in 1 .. n /\ n - 1 \in 1 .. n /\ Top = stack[n] /\ Top \in Frames /\ InCode(Top)
      /\ Stands(n) /\ stack[n] = Top
  BY <1>0, StackFacts DEF Inv, Types, StackShape
<1>2. UNCHANGED Same
  BY <1>0, <1>1, AboveCases
<1>3. \A k \in 1 .. n : k \in 1 .. n - 1 \/ k = n
  OBVIOUS
<1>4. CASE /\ Top.name = "pit_handler" /\ Top.at = 1 /\ UNCHANGED <<chips, interrupts>>
           /\ Call("tick") \/ NextInstruction
  <2>1. CASE Call("tick")
    <3>1. /\ StackShape' /\ place' = place /\ Len(stack') = n + 1
          /\ \A k \in 1 .. n : stack'[k].name = stack[k].name
          /\ \A k \in 1 .. n - 1 : stack'[k] = stack[k]
          /\ stack'[n].at = 2 /\ stack' \in Seq(Frames)
          /\ stack'[n + 1].name = "tick"
      BY <1>0, <1>1, <1>4, <2>1, ShapeCall
    <3>2. Types' => Service'
      <4>1. \A k \in 1 .. Len(stack) : k \in 1 .. Len(stack') /\ stack'[k].name = stack[k].name
        BY <1>0, <3>1
      <4>2. ASSUME NEW k \in 1 .. Len(stack'), stack'[k].name \in Handlers
            PROVE  /\ k \in 1 .. Len(stack) /\ stack'[k].name = stack[k].name
                   /\ stack'[k].at = stack[k].at
                      \/ (stack[k].name = "pit_handler" /\ stack'[k].at = 2)
        <5>1. k # n + 1
          BY <3>1, <4>2 DEF Handlers
        <5>2. k \in 1 .. n
          BY <3>1, <5>1
        <5> QED
          BY <1>0, <1>1, <1>3, <1>4, <3>1, <5>2
      <4>3. \A c \in Chips : chips'[c].isr = chips[c].isr
        BY <1>4
      <4> QED
        BY <3>1, <4>1, <4>2, <4>3, ServiceStays
    <3> QED
      BY <1>1, <1>2, <1>4, <3>1, <3>2, AboveRest
  <2>2. CASE NextInstruction
    <3>1. Top.at # Len(Code(Top.name))
      <4>1. Len(Code(Top.name)) = 3
        BY <1>4, CodeLengths
      <4> QED
        BY <1>4, <4>1
    <3>2. /\ StackShape' /\ place' = place /\ Len(stack') = n
          /\ \A k \in 1 .. n : stack'[k].name = stack[k].name
          /\ \A k \in 1 .. n - 1 : stack'[k] = stack[k]
          /\ stack'[n].at = Top.at + 1 /\ stack' \in Seq(Frames)
      BY <1>0, <1>1, <1>4, <2>2, <3>1, ShapeNext
    <3>3. Types' => Service'
      <4>1. \A k \in 1 .. Len(stack) : k \in 1 .. Len(stack') /\ stack'[k].name = stack[k].name
        BY <1>0, <3>2
      <4>2. ASSUME NEW k \in 1 .. Len(stack'), stack'[k].name \in Handlers
            PROVE  /\ k \in 1 .. Len(stack) /\ stack'[k].name = stack[k].name
                   /\ stack'[k].at = stack[k].at
                      \/ (stack[k].name = "pit_handler" /\ stack'[k].at = 2)
        <5>1. k \in 1 .. n
          BY <3>2
        <5> QED
          BY <1>0, <1>1, <1>3, <1>4, <3>2, <5>1
      <4>3. \A c \in Chips : chips'[c].isr = chips[c].isr
        BY <1>4
      <4> QED
        BY <3>2, <4>1, <4>2, <4>3, ServiceStays
    <3> QED
      BY <1>1, <1>2, <1>4, <3>2, <3>3, AboveRest
  <2> QED
    BY <1>4, <2>1, <2>2
<1>5. ASSUME NEW c \in Chips, WriteCommand(c, {5}), NextInstruction, UNCHANGED interrupts,
             \/ Top.name = "pit_handler" /\ Top.at = 2 /\ c = "master"
             \/ Top.name = "irq8_handler" /\ Top.at = 1 /\ c = "slave"
             \/ Top.name = "irq8_handler" /\ Top.at = 2 /\ c = "master"
      PROVE  Inv'
  <2>1. Top.at # Len(Code(Top.name))
    <3>1. Len(Code(Top.name)) = 3
      BY <1>5, CodeLengths
    <3> QED
      BY <1>5, <3>1
  <2>2. /\ StackShape' /\ place' = place /\ Len(stack') = n
        /\ \A k \in 1 .. n : stack'[k].name = stack[k].name
        /\ \A k \in 1 .. n - 1 : stack'[k] = stack[k]
        /\ stack'[n].at = Top.at + 1 /\ stack' \in Seq(Frames)
    BY <1>0, <1>1, <1>5, <2>1, ShapeNext
  <2>3. /\ chips' \in [Chips -> Registers]
        /\ \A d \in Chips : d # c => chips'[d] = chips[d]
        /\ chips'[c].irr = chips[c].irr /\ chips'[c].imr = chips[c].imr
        /\ chips'[c].offset = chips[c].offset /\ chips'[c].expects = chips[c].expects
        /\ (\A x, y \in chips[c].isr : x = y) => chips'[c].isr = {}
    BY <1>1, <1>5, EoiFacts
  <2>4. Types' => Service'
    <3> SUFFICES ASSUME Types', ~Running("kpanic")'
                 PROVE  /\ Idle' => Master'.isr = {} /\ Slave'.isr = {}
                        /\ \A k \in 1 .. Len(stack') : stack'[k].name \in Handlers => Serving(k)'
      BY DEF Service
    <3>1. ~Running("kpanic")
      <4>1. DOMAIN stack' = 1 .. n /\ DOMAIN stack = 1 .. n
        BY <1>0, <1>1, <2>2 DEF Types
      <4> QED
        BY <2>2, <4>1 DEF Running
    <3>2. stack[n].name \in Handlers
      BY <1>1, <1>5 DEF Handlers
    <3>3. Serving(n)
      BY <1>0, <1>1, <3>1, <3>2, ServingHandler
    <3>4. stack'[n].name \in Handlers
      BY <1>1, <2>2, <3>2
    <3>5. ~Idle'
      BY <1>1, <2>2, <3>4 DEF Idle
    <3>6. ASSUME NEW k \in 1 .. Len(stack'), stack'[k].name \in Handlers PROVE Serving(k)'
      <4>1. stack[k].name \in Handlers /\ k \in 1 .. n
        BY <2>2, <3>6
      <4>2. k = 2 /\ n = 2
        BY <1>0, <1>1, <3>1, <3>3, <4>1, ServingHandler DEF Serving
      <4>3. chips'[c].isr = {}
        BY <2>3, <3>3 DEF Serving, AtMostOne, Master, Slave, Chips
      <4>4. stack'[k].name = Top.name /\ stack'[k].at = Top.at + 1
        BY <1>1, <2>2, <4>2
      <4>5. c = "master" => Master'.isr = {} /\ Slave'.isr = Slave.isr /\ Slave.isr = {}
        BY <1>1, <1>5, <2>3, <3>3, <4>3 DEF Serving, Master, Slave, Chips
      <4>6. c = "slave" => Slave'.isr = {} /\ Master'.isr = Master.isr /\ Top.at = 1
        BY <1>5, <2>3, <4>3 DEF Master, Slave, Chips
      <4> QED
        BY <2>2, <3>3, <4>2, <4>4, <4>5, <4>6 DEF Serving, AtMostOne, Chips
    <3> QED
      BY <3>5, <3>6
  <2>5. \A d \in Chips : /\ chips'[d].imr = chips[d].imr /\ chips'[d].irr = chips[d].irr
                         /\ chips'[d].offset = chips[d].offset
                         /\ chips'[d].expects = chips[d].expects
    BY <2>3
  <2> QED
    BY <1>1, <1>2, <1>5, <2>2, <2>3, <2>4, <2>5, AboveRest
<1>6. ASSUME Top.name \in {"tick", "kpanic"}, Top.at \in 1 .. 3, Top.name = "tick" => Top.at # 3,
             NextInstruction, UNCHANGED chips, interrupts' \in BOOLEAN,
             interrupts' => interrupts, Top.at = 3 => ~interrupts'
      PROVE  Inv'
  <2>1. Top.at # Len(Code(Top.name))
    <3>1. /\ Top.name = "tick" => Len(Code(Top.name)) = 3
          /\ Top.name = "kpanic" => Len(Code(Top.name)) = 4
      BY CodeLengths
    <3> QED
      BY <1>6, <3>1
  <2>2. /\ StackShape' /\ place' = place /\ Len(stack') = n
        /\ \A k \in 1 .. n : stack'[k].name = stack[k].name
        /\ \A k \in 1 .. n - 1 : stack'[k] = stack[k]
        /\ stack'[n].at = Top.at + 1 /\ stack' \in Seq(Frames)
    BY <1>0, <1>1, <1>6, <2>1, ShapeNext
  <2>3. Types' => Service'
    <3>1. \A k \in 1 .. Len(stack) : k \in 1 .. Len(stack') /\ stack'[k].name = stack[k].name
      BY <1>0, <2>2
    <3>2. ASSUME NEW k \in 1 .. Len(stack'), stack'[k].name \in Handlers
          PROVE  /\ k \in 1 .. Len(stack) /\ stack'[k].name = stack[k].name
                 /\ stack'[k].at = stack[k].at
                    \/ (stack[k].name = "pit_handler" /\ stack'[k].at = 2)
      <4>1. k \in 1 .. n /\ k # n
        BY <1>1, <1>6, <2>2, <3>2 DEF Handlers
      <4> QED
        BY <1>0, <1>3, <2>2, <4>1
    <3>3. \A c \in Chips : chips'[c].isr = chips[c].isr
      BY <1>6
    <3> QED
      BY <2>2, <3>1, <3>2, <3>3, ServiceStays
  <2> QED
    BY <1>1, <1>2, <1>6, <2>2, <2>3, AboveRest
<1>7. CASE Top.name = "tick" /\ Top.at = 3 /\ Pop /\ UNCHANGED <<chips, interrupts>>
  <2>1. /\ StackShape' /\ place' = place /\ Len(stack') = n - 1
        /\ \A k \in 1 .. n - 1 : stack'[k] = stack[k]
        /\ stack' \in Seq(Frames)
    BY <1>0, <1>1, <1>7, ShapePop
  <2>2. Types' => Service'
    <3>1. \A k \in 1 .. Len(stack) : stack[k].name \in Handlers \cup {"kpanic"} =>
            k \in 1 .. Len(stack') /\ stack'[k].name = stack[k].name
      BY <1>0, <1>1, <1>3, <1>7, <2>1 DEF Handlers
    <3>2. ASSUME NEW k \in 1 .. Len(stack'), stack'[k].name \in Handlers
          PROVE  /\ k \in 1 .. Len(stack) /\ stack'[k].name = stack[k].name
                 /\ stack'[k].at = stack[k].at
                    \/ (stack[k].name = "pit_handler" /\ stack'[k].at = 2)
      BY <1>0, <1>1, <2>1
    <3>3. \A c \in Chips : chips'[c].isr = chips[c].isr
      BY <1>7
    <3> QED
      BY <2>1, <3>1, <3>2, <3>3, ServiceStays
  <2> QED
    BY <1>1, <1>2, <1>7, <2>1, <2>2, AboveRest
<1>8. CASE Top.name \in Handlers /\ Top.at = 3 /\ Pop /\ interrupts' = Top.flag /\ UNCHANGED chips
  <2>1. /\ StackShape' /\ place' = place /\ Len(stack') = n - 1
        /\ \A k \in 1 .. n - 1 : stack'[k] = stack[k]
        /\ stack' \in Seq(Frames)
    BY <1>0, <1>1, <1>8, ShapePop
  <2>2. place >= 16 /\ interrupts' \in BOOLEAN
    BY <1>1, <1>8 DEF Stands, Frames
  <2>3. Types' => Service'
    <3> SUFFICES ASSUME Types', ~Running("kpanic")'
                 PROVE  /\ Idle' => Master'.isr = {} /\ Slave'.isr = {}
                        /\ \A k \in 1 .. Len(stack') : stack'[k].name \in Handlers => Serving(k)'
      BY DEF Service
    <3>1. ~Running("kpanic")
      <4>1. DOMAIN stack' = 1 .. n - 1 /\ DOMAIN stack = 1 .. n
        BY <1>0, <1>1, <2>1 DEF Types
      <4> QED
        BY <1>1, <1>3, <1>8, <2>1, <4>1 DEF Running, Handlers
    <3>2. Serving(n)
      BY <1>0, <1>1, <1>8, <3>1, ServingHandler
    <3>3. Master'.isr = {} /\ Slave'.isr = {}
      BY <1>1, <1>8, <3>2 DEF Serving, Master, Slave
    <3>4. ASSUME NEW k \in 1 .. Len(stack'), stack'[k].name \in Handlers PROVE FALSE
      <4>1. k \in 1 .. n /\ k < n /\ stack[k].name \in Handlers
        BY <1>1, <2>1, <3>4
      <4>2. Serving(k)
        BY <1>0, <1>1, <3>1, <4>1, ServingHandler
      <4> QED
        BY <3>2, <4>1, <4>2 DEF Serving
    <3> QED
      BY <3>3, <3>4
  <2> QED
    BY <1>1, <1>2, <1>8, <2>1, <2>2, <2>3, AboveRest
<1>9. "master" \in Chips /\ "slave" \in Chips
  BY DEF Chips
<1>10. \/ /\ Top.name = "pit_handler" /\ Top.at = 1 /\ UNCHANGED <<chips, interrupts>>
          /\ Call("tick") \/ NextInstruction
       \/ /\ \/ Top.name = "pit_handler" /\ Top.at = 2 /\ WriteCommand("master", {5})
             \/ Top.name = "irq8_handler" /\ Top.at = 1 /\ WriteCommand("slave", {5})
             \/ Top.name = "irq8_handler" /\ Top.at = 2 /\ WriteCommand("master", {5})
          /\ NextInstruction /\ UNCHANGED interrupts
       \/ /\ Top.name \in {"tick", "kpanic"} /\ Top.at \in 1 .. 2
          /\ NextInstruction /\ UNCHANGED <<chips, interrupts>>
       \/ /\ Top.name = "kpanic" /\ Top.at = 3
          /\ NextInstruction /\ ~interrupts' /\ interrupts' \in BOOLEAN /\ UNCHANGED chips
       \/ /\ Top.name = "tick" /\ Top.at = 3 /\ Pop /\ UNCHANGED <<chips, interrupts>>
       \/ /\ Top.name \in Handlers /\ Top.at = 3 /\ Pop /\ interrupts' = Top.flag
          /\ UNCHANGED chips
  BY <1>0, <1>1, AboveCases
<1> QED
  BY <1>1, <1>4, <1>5, <1>6, <1>7, <1>8, <1>9, <1>10

-----------------------------------------------------------------------------
(* Interrupts, exceptions and devices keep the invariant *)

\* An interrupt that is taken has a handler of the kernel, and only one line of
\* each controller goes into service for it.
LEMMA InterruptTaken ==
  ASSUME Inv, Interrupt
  PROVE  /\ place >= 25 /\ Idle /\ (~Running("kpanic") => Master.isr = {} /\ Slave.isr = {})
         /\ chips' \in [Chips -> Registers]
         /\ \A c \in Chips : /\ chips'[c].imr = chips[c].imr
                             /\ chips'[c].offset = chips[c].offset
                             /\ chips'[c].expects = chips[c].expects
         /\ Cascade \notin Master'.irr
         /\ \E l \in Byte : Master'.isr = Master.isr \cup {l}
         /\ \E name \in Handlers :
              /\ Push(name)
              /\ \/ Slave'.isr = Slave.isr
                 \/ /\ \E s \in Byte : Slave'.isr = Slave.isr \cup {s}
                    /\ name = "irq8_handler"
<1>0. PICK v \in Vectors : Acknowledge(v) /\ Push(Handler(v))
  BY DEF Interrupt
<1>1. /\ Types /\ StackShape /\ Tables /\ Words /\ Masks /\ NoCascadeRequest /\ Service
      /\ interrupts /\ place \in Nat /\ chips \in [Chips -> Registers]
      /\ "master" \in Chips /\ "slave" \in Chips
  <2>1. Types /\ StackShape
    BY DEF Inv
  <2>2. place \in 1 .. Last /\ Last \in Nat
    BY <2>1, StackFacts, CodeLengths
  <2> QED
    BY <2>1, <2>2 DEF Inv, Interrupt, Types, Chips
<1>2. place >= 16
  BY <1>1 DEF Tables, FlagClear
<1>3. /\ chips' \in [Chips -> Registers]
      /\ \A c \in Chips : /\ chips'[c].imr = chips[c].imr
                          /\ chips'[c].offset = chips[c].offset
                          /\ chips'[c].expects = chips[c].expects
      /\ Cascade \notin Master'.irr
      /\ \E l \in Byte : l \notin Master.imr /\ Master'.isr = Master.isr \cup {l}
      /\ \/ /\ Slave'.isr = Slave.isr
            /\ \E l \in Byte : l # Cascade /\ l \notin Master.imr /\ v = Master.offset + l
         \/ \E s \in Byte : /\ s \notin Slave.imr /\ v = Slave.offset + s
                            /\ Slave'.isr = Slave.isr \cup {s}
  BY <1>0, <1>1, AcknowledgeFacts DEF NoCascadeRequest
<1>4. Master.imr # Byte
  BY <1>3
<1>5. place >= 25
  BY <1>1, <1>2, <1>4 DEF Words, MasterWords
<1>6. Master.offset = 32 /\ Slave.offset = 40 /\ idt_loaded
  BY <1>1, <1>5 DEF Words, MasterWords, SlaveWords, Tables, TableLoaded
<1>7. Idle
  BY <1>1 DEF Idle, StackShape, Stands, Calm, Handlers
<1>8. \A irq \in 0 .. 15 : LineOf(irq) \notin chips[ChipOf(irq)].imr => Ready(irq)
  BY <1>1, <1>5 DEF Masks, UnmaskedReady
<1>9. real_handlers[v] \in Handlers
      /\ (Slave'.isr = Slave.isr \/ /\ \E s \in Byte : Slave'.isr = Slave.isr \cup {s}
                                    /\ real_handlers[v] = "irq8_handler")
  <2>1. CASE /\ Slave'.isr = Slave.isr
             /\ \E l \in Byte : l # Cascade /\ l \notin Master.imr /\ v = Master.offset + l
    <3>1. PICK l \in Byte : l # Cascade /\ l \notin Master.imr /\ v = Master.offset + l
      BY <2>1
    <3>2. l \in 0 .. 15 /\ ChipOf(l) = "master" /\ LineOf(l) = l /\ v = IDT_IRQ_BASE + l
      BY <1>6, <3>1 DEF Byte, ChipOf, LineOf, IDT_IRQ_BASE
    <3>3. Ready(l)
      BY <1>8, <3>1, <3>2 DEF Master
    <3> QED
      BY <2>1, <3>1, <3>2, <3>3 DEF Ready
  <2>2. CASE \E s \in Byte : /\ s \notin Slave.imr /\ v = Slave.offset + s
                             /\ Slave'.isr = Slave.isr \cup {s}
    <3>1. PICK s \in Byte : /\ s \notin Slave.imr /\ v = Slave.offset + s
                            /\ Slave'.isr = Slave.isr \cup {s}
      BY <2>2
    <3>2. s + 8 \in 0 .. 15 /\ ChipOf(s + 8) = "slave" /\ LineOf(s + 8) = s
          /\ v = IDT_IRQ_BASE + (s + 8) /\ s + 8 # Cascade
      BY <1>6, <3>1 DEF Byte, ChipOf, LineOf, IDT_IRQ_BASE, Cascade
    <3>3. Ready(s + 8)
      BY <1>8, <3>1, <3>2 DEF Slave
    <3>4. real_handlers[v] \in Handlers
      BY <3>2, <3>3 DEF Ready
    <3>5. v \in Vectors \ Exceptions /\ v # IDT_IRQ_BASE
      BY <3>2 DEF Byte, IDT_IRQ_BASE, Vectors, Exceptions
    <3>6. real_handlers[v] = "irq8_handler"
      BY <1>1, <3>4, <3>5 DEF Tables, Others, Handlers
    <3> QED
      BY <3>1, <3>4, <3>6
  <2> QED
    BY <1>3, <2>1, <2>2
<1>10. Handler(v) = real_handlers[v]
  BY <1>6, <1>9 DEF Handler, Handlers
<1>11. ~Running("kpanic") => Master.isr = {} /\ Slave.isr = {}
  BY <1>1, <1>7 DEF Service
<1> QED
  BY <1>0, <1>3, <1>5, <1>7, <1>9, <1>10, <1>11

LEMMA InterruptStep ==
  ASSUME Inv, Interrupt
  PROVE  Inv'
<1>0. PICK n \in Nat : n = Len(stack)
  BY StackFacts DEF Inv
<1>1. Types /\ StackShape /\ interrupts /\ ~interrupts' /\ interrupts' \in BOOLEAN
      /\ UNCHANGED Same /\ n >= 1
  BY <1>0 DEF Inv, Interrupt, Same, Types
<1>2. PICK name \in Handlers :
        /\ Push(name)
        /\ \/ Slave'.isr = Slave.isr
           \/ (\E s \in Byte : Slave'.isr = Slave.isr \cup {s}) /\ name = "irq8_handler"
  BY InterruptTaken
<1>3. /\ place >= 25 /\ Idle /\ (~Running("kpanic") => Master.isr = {} /\ Slave.isr = {})
      /\ chips' \in [Chips -> Registers]
      /\ \A c \in Chips : /\ chips'[c].imr = chips[c].imr
                          /\ chips'[c].offset = chips[c].offset
                          /\ chips'[c].expects = chips[c].expects
      /\ Cascade \notin Master'.irr
      /\ \E l \in Byte : Master'.isr = Master.isr \cup {l}
  BY InterruptTaken
<1>4. place >= 16
  <2>1. place \in 1 .. Last /\ Last \in Nat
    BY <1>1, StackFacts, CodeLengths
  <2> QED
    BY <1>3, <2>1
<1>5. /\ StackShape' /\ place' = place /\ Len(stack') = n + 1
      /\ \A k \in 1 .. n : stack'[k] = stack[k]
      /\ stack'[n + 1] = Frame(name, interrupts) /\ stack' \in Seq(Frames)
  BY <1>0, <1>1, <1>2, <1>4, ShapePush
<1>6. Types'
  BY <1>0, <1>1, <1>3, <1>5 DEF Types, Same
<1>7. Tables' /\ Words' /\ Masks'
  BY <1>1, <1>3, <1>5, BootStays DEF Same
<1>8. NoCascadeRequest'
  BY <1>3 DEF NoCascadeRequest
<1>9. Service'
  <2> SUFFICES ASSUME ~Running("kpanic")'
               PROVE  /\ Idle' => Master'.isr = {} /\ Slave'.isr = {}
                      /\ \A k \in 1 .. Len(stack') : stack'[k].name \in Handlers => Serving(k)'
    BY DEF Service
  <2>1. ~Running("kpanic")
    <3>1. DOMAIN stack' = 1 .. n + 1 /\ DOMAIN stack = 1 .. n
      BY <1>0, <1>1, <1>5 DEF Types
    <3> QED
      BY <1>5, <3>1 DEF Running
  <2>2. stack'[n + 1].name = name /\ stack'[n + 1].at = 1 /\ n + 1 \in 1 .. n + 1
    BY <1>1, <1>5 DEF Frame
  <2>3. ~Idle'
    BY <1>5, <2>2 DEF Idle
  <2>4. n = 1
    <3> SUFFICES ASSUME n # 1 PROVE FALSE
      OBVIOUS
    <3>1. 2 \in 1 .. n /\ stack[2].name # "genoa_entry" /\ stack[2].name \in Calm
      BY <1>0, <1>1 DEF StackShape, Stands
    <3>2. stack[2].name = "kpanic"
      BY <3>1 DEF Calm
    <3> QED
      BY <1>0, <1>1, <2>1, <3>1, <3>2, RunningIs
  <2>5. Master.isr = {} /\ Slave.isr = {}
    BY <1>3, <2>1
  <2>6. AtMostOne(Master'.isr) /\ AtMostOne(Slave'.isr)
        /\ (name = "pit_handler" => Slave'.isr = {})
    BY <1>2, <1>3, <2>5 DEF AtMostOne
  <2>7. ASSUME NEW k \in 1 .. Len(stack'), stack'[k].name \in Handlers PROVE Serving(k)'
    <3>1. k = 2
      <4>1. k \in 1 .. 2
        BY <1>5, <2>4
      <4>2. stack'[1].name \notin Handlers
        BY <1>0, <1>3, <1>5, <2>4 DEF Idle
      <4> QED
        BY <2>7, <4>1, <4>2
    <3>2. stack'[k].name = name /\ stack'[k].at = 1
      BY <2>2, <2>4, <3>1
    <3>3. k = 2 /\ place' >= 25
      BY <1>3, <1>5, <3>1
    <3>4. AtMostOne(Master.isr)' /\ AtMostOne(Slave.isr)'
      BY <2>6 DEF AtMostOne
    <3> QED
      BY <2>6, <3>2, <3>3, <3>4 DEF Serving
  <2> QED
    BY <2>3, <2>7
<1> QED
  BY <1>5, <1>6, <1>7, <1>8, <1>9 DEF Inv

\* An exception can only end in kpanic.
LEMMA ExceptionTaken ==
  ASSUME Inv, Exception
  PROVE  Push("kpanic") /\ Top.name # "kpanic" /\ UNCHANGED <<Same, chips, interrupts>>
<1>1. Types /\ StackShape /\ TableLoaded /\ Defaults
  BY DEF Inv, Tables
<1>2. place \in Nat
  BY <1>1, StackFacts, CodeLengths
<1>3. real_handlers[PageFault] = "idt_default_interrupt_handler"
  BY <1>1, <1>2 DEF Exception, TableLoaded, Defaults, PageFault, Exceptions
<1>4. Handler(PageFault) = "kpanic"
  BY <1>3 DEF Handler, Exception
<1>5. Top.name # "NULL"
  BY <1>1, StackFacts DEF Frames
<1> QED
  BY <1>4, <1>5, InterruptsAssumption DEF Exception, Same

LEMMA ExceptionStep ==
  ASSUME Inv, Exception
  PROVE  Inv'
<1>0. PICK n \in Nat : n = Len(stack)
  BY StackFacts DEF Inv
<1>1. Types /\ StackShape /\ n >= 1 /\ chips \in [Chips -> Registers] /\ interrupts \in BOOLEAN
  BY <1>0 DEF Inv, Types
<1>2. Push("kpanic") /\ Top.name # "kpanic" /\ UNCHANGED <<Same, chips, interrupts>>
  BY ExceptionTaken
<1>3. /\ StackShape' /\ place' = place /\ Len(stack') = n + 1
      /\ \A k \in 1 .. n : stack'[k] = stack[k]
      /\ stack'[n + 1] = Frame("kpanic", interrupts) /\ stack' \in Seq(Frames)
  BY <1>0, <1>1, <1>2, ShapePush DEF Handlers
<1>4. Types' => Service'
  <2>1. stack'[n + 1].name = "kpanic" /\ n + 1 \in 1 .. n + 1
    BY <1>3 DEF Frame
  <2>2. Types' => DOMAIN stack' = 1 .. n + 1
    BY <1>3 DEF Types
  <2> QED
    BY <2>1, <2>2 DEF Service, Running
<1> QED
  BY <1>1, <1>2, <1>3, <1>4, AboveRest

\* A line becomes active.
LEMMA LineStep ==
  ASSUME Inv, NEW irq \in 0 .. 15 \ {Cascade}, Raise(irq),
         UNCHANGED <<Same, interrupts, stack>>
  PROVE  Inv'
<1>1. Types /\ StackShape /\ Service /\ NoCascadeRequest /\ chips \in [Chips -> Registers]
  BY DEF Inv, Types
<1>2. /\ chips' \in [Chips -> Registers]
      /\ \A c \in Chips : /\ chips'[c].imr = chips[c].imr /\ chips'[c].isr = chips[c].isr
                          /\ chips'[c].offset = chips[c].offset
                          /\ chips'[c].expects = chips[c].expects
      /\ irq # Cascade /\ Cascade \notin Master.irr => Cascade \notin Master'.irr
  BY <1>1, RaiseFacts
<1>3. Types'
  BY <1>1, <1>2 DEF Types, Same
<1>4. StackShape' /\ place' = place
  BY <1>1 DEF StackShape, Stands, InCode, place
<1>5. Tables' /\ Words' /\ Masks'
  BY <1>2, <1>4, BootStays DEF Same
<1>6. NoCascadeRequest'
  BY <1>1, <1>2 DEF NoCascadeRequest
<1>7. Service'
  BY <1>3, <1>4, <1>2, ServiceStays
<1> QED
  BY <1>3, <1>4, <1>5, <1>6, <1>7 DEF Inv

LEMMA TimerStep ==
  ASSUME Inv, Timer
  PROVE  Inv'
<1>1. 0 \in 0 .. 15 \ {Cascade} /\ Raise(0) /\ UNCHANGED <<Same, interrupts, stack>>
  BY DEF Timer, Same, Cascade
<1> QED
  BY <1>1, LineStep

LEMMA DeviceStep ==
  ASSUME Inv, NEW irq \in Devices, Device(irq)
  PROVE  Inv'
<1>1. irq \in 0 .. 15 \ {Cascade} /\ Raise(irq) /\ UNCHANGED <<Same, interrupts, stack>>
  BY InterruptsAssumption DEF Device, Same
<1> QED
  BY <1>1, LineStep

-----------------------------------------------------------------------------
(* The invariant holds *)

LEMMA InvInit ==
  ASSUME Init
  PROVE  Inv
<1>1. /\ stack = << [name |-> "genoa_entry", at |-> 1, flag |-> FALSE] >>
      /\ Len(stack) = 1 /\ stack[1].name = "genoa_entry" /\ stack[1].at = 1 /\ place = 1
  BY DEF Init, Frame, place
<1>2. stack \in Seq(Frames)
  <2>1. [name |-> "genoa_entry", at |-> 1, flag |-> FALSE] \in Frames
    BY DEF Frames, Names
  <2> QED
    BY <1>1, <2>1
<1>3. chips \in [Chips -> Registers]
      /\ \A c \in Chips : chips[c].irr = {} /\ chips[c].isr = {}
  <2>1. PICK mask \in {{}, Byte} :
          chips = [c \in Chips |-> [imr |-> mask, irr |-> {}, isr |-> {},
                                    offset |-> IF c = "master" THEN 8 ELSE 112,
                                    expects |-> "command"]]
    BY DEF Init
  <2> QED
    BY <2>1 DEF Registers
<1>4. Types
  <2>1. /\ g_curmask = 0 .. 15 /\ real_handlers = [v \in Vectors |-> "NULL"]
        /\ idt_loaded = FALSE /\ pit_callback = FALSE /\ pit = "running" /\ interrupts = FALSE
    BY DEF Init
  <2>2. real_handlers \in [Vectors -> Names \cup {"idt_default_interrupt_handler"}]
    BY <2>1 DEF Names
  <2>3. Len(stack) >= 1
    BY <1>1
  <2> QED
    BY <1>2, <1>3, <2>1, <2>2, <2>3 DEF Types
<1>5. StackShape
  <2>1. InCode(stack[1])
    BY <1>1, CodeLengths DEF InCode
  <2>2. Stands(1)
    BY <1>1, <2>1 DEF Stands, Handlers, Calm
  <2>3. \A k \in 1 .. Len(stack) : k = 1
    BY <1>1
  <2> QED
    BY <2>2, <2>3 DEF StackShape
<1>6. Tables
  <2>1. \A v \in Vectors : real_handlers[v] = "NULL"
    BY DEF Init
  <2>2. TableLoaded /\ FlagClear /\ Defaults /\ TimerServed /\ Registered
    BY <1>1 DEF Init, TableLoaded, FlagClear, Defaults, TimerServed, Registered
  <2>3. Others
    BY <2>1 DEF Others
  <2> QED
    BY <2>2, <2>3 DEF Tables
<1>7. Words /\ Masks
  BY <1>1 DEF Words, MasterWords, SlaveWords, AllMasked, Masks, UnmaskedReady, MasksWritten
<1>8. NoCascadeRequest /\ Service
  BY <1>1, <1>3 DEF NoCascadeRequest, Service, Master, Slave, Chips, Handlers
<1> QED
  BY <1>4, <1>5, <1>6, <1>7, <1>8 DEF Inv

LEMMA InvStep ==
  ASSUME Inv, Next
  PROVE  Inv'
<1>1. PICK n \in Nat : n = Len(stack) /\ n >= 1
  BY StackFacts DEF Inv, Types
<1>2. CASE Execute
  <2>1. n = 1 \/ n > 1
    BY <1>1
  <2> QED
    BY <1>1, <1>2, <2>1, BootStep, AboveStep
<1>3. CASE Interrupt
  BY <1>3, InterruptStep
<1>4. CASE Exception
  BY <1>4, ExceptionStep
<1>5. CASE Timer
  BY <1>5, TimerStep
<1>6. ASSUME NEW irq \in Devices, Device(irq) PROVE Inv'
  BY <1>6, DeviceStep
<1> QED
  BY <1>2, <1>3, <1>4, <1>5, <1>6 DEF Next

LEMMA InvStutter ==
  ASSUME Inv, UNCHANGED vars
  PROVE  Inv'
<1>1. Types' /\ NoCascadeRequest'
  BY DEF Inv, vars, Types, NoCascadeRequest, Master
<1>2. StackShape'
  BY DEF Inv, vars, StackShape, Stands, InCode, place
<1>3. place' = place
  BY DEF vars, place
<1>4. Tables' /\ Words' /\ Masks'
  BY <1>3, BootStays DEF vars
<1>5. Service'
  BY <1>1, <1>3, ServiceStays DEF vars
<1> QED
  BY <1>1, <1>2, <1>4, <1>5 DEF Inv

LEMMA InvAlways == Spec => []Inv
<1>1. Init => Inv
  BY InvInit
<1>2. Inv /\ [Next]_vars => Inv'
  BY InvStep, InvStutter
<1> QED
  BY <1>1, <1>2, PTL DEF Spec

LEMMA InvTypeOK ==
  ASSUME Inv
  PROVE  TypeOK
<1>1. Types /\ StackShape
  BY DEF Inv
<1>2. DOMAIN stack = 1 .. Len(stack)
  BY <1>1 DEF Types
<1>3. ASSUME NEW k \in DOMAIN stack
      PROVE  stack[k].name \in Names /\ stack[k].at \in 1 .. Len(Code(stack[k].name))
  <2>1. k \in 1 .. Len(stack)
    BY <1>2
  <2>2. stack[k] \in Frames /\ InCode(stack[k])
    BY <1>1, <2>1, StackFacts DEF StackShape, Stands
  <2> QED
    BY <2>2 DEF Frames, InCode
<1> QED
  BY <1>1, <1>3 DEF TypeOK, Types

-----------------------------------------------------------------------------
(* What follows from it *)

\* Whatever is connected, whatever a later driver does within its rules and
\* wherever an exception strikes, no interrupt from power-on to idle finds a
\* vector without a handler or one of an exception (pic.c, idt.c, main.c).
THEOREM HandlersAlwaysThere == Spec => EveryInterruptHasItsHandler
<1> DEFINE Good == Acknowledged => stack'[Len(stack')].name \notin {"NULL", "kpanic"}
<1>1. ASSUME Inv, [Next]_vars PROVE Good
  <2> SUFFICES ASSUME Acknowledged PROVE stack'[Len(stack')].name \notin {"NULL", "kpanic"}
    OBVIOUS
  <2>0. Types /\ StackShape /\ Len(stack) \in Nat /\ Len(stack) >= 1
    BY <1>1, StackFacts DEF Inv, Types
  <2>1. interrupts /\ ~interrupts' /\ Len(stack') > Len(stack)
    BY DEF Acknowledged
  <2>2. CASE Interrupt
    <3>1. PICK name \in Handlers : Push(name)
      BY <1>1, <2>2, InterruptTaken
    <3>2. Len(stack') = Len(stack) + 1 /\ stack'[Len(stack) + 1] = Frame(name, interrupts)
      BY <2>0, <3>1, AfterPush DEF Types, Handlers, Names
    <3>3. stack'[Len(stack')].name = name
      BY <3>2 DEF Frame
    <3> QED
      BY <3>3 DEF Handlers
  <2>3. CASE Execute
    <3>0. PICK n \in Nat : n = Len(stack) /\ n >= 1
      BY <2>0
    <3>1. CASE Len(stack) = 1
      BY <2>0, <2>1, <2>3, <3>1, BootMoves
    <3>2. CASE Len(stack) > 1
      <4>1. NextInstruction \/ Pop
        BY <2>0, <2>1, <2>3, <3>2, AboveCases
      <4>2. NextInstruction => Len(stack') = Len(stack)
        BY <2>0, AfterNext DEF Types
      <4>3. Pop => Len(stack') = Len(stack) - 1
        BY <2>0, <3>2, AfterPop DEF Types
      <4> QED
        BY <2>0, <2>1, <4>1, <4>2, <4>3
    <3>3. n = 1 \/ n > 1
      BY <3>0
    <3> QED
      BY <3>0, <3>1, <3>2, <3>3
  <2>4. CASE Exception
    BY <2>1, <2>4 DEF Exception
  <2>5. CASE Timer \/ \E irq \in Devices : Device(irq)
    BY <2>1, <2>5 DEF Timer, Device
  <2>6. CASE UNCHANGED vars
    BY <2>1, <2>6 DEF vars
  <2> QED
    BY <1>1, <2>2, <2>3, <2>4, <2>5, <2>6 DEF Next
<1> QED
  BY <1>1, InvAlways, PTL DEF Spec, EveryInterruptHasItsHandler

\* Between two calls of the driver g_curmask says what the controllers mask,
\* and outside the handlers nothing is in service (pic.c), for every driver.
THEOREM ControllersBelieved == Spec => []ControllersAsBelieved
<1>1. ASSUME Inv PROVE ControllersAsBelieved
  <2>0. Types /\ StackShape /\ MasksWritten /\ Service /\ DOMAIN stack = 1 .. Len(stack)
        /\ 1 \in DOMAIN stack /\ place \in Nat
    <3>1. Types /\ StackShape /\ DOMAIN stack = 1 .. Len(stack) /\ Len(stack) >= 1
          /\ Len(stack) \in Nat
      BY <1>1, StackFacts DEF Inv, Types
    <3>2. place \in Nat
      BY <3>1, StackFacts, CodeLengths
    <3> QED
      BY <1>1, <3>1, <3>2 DEF Inv, Masks
  <2>1. ASSUME Settled, NEW c \in Chips PROVE chips[c].imr = MaskByte(g_curmask, c)
    <3>1. InstructionOf(stack[1]).op \in
            {"print", "printed", "hlt", "callback", "ret", "iret", "sti"}
      BY <2>0, <2>1 DEF Settled
    <3>2. place \in 15 .. 17 \/ place = Last
      <4>1. ASSUME place \in 1 .. 14 \cup 18 .. 24 PROVE FALSE
        <5>1. InstructionOf(stack[1]) = Boot[place]
          BY <2>0, <4>1, EntryInstruction
        <5>2. place \in 1 .. 7 \/ place \in 8 .. 14 \/ place \in 18 .. 24
          BY <4>1
        <5> QED
          BY <3>1, <5>1, <5>2, BootCode DEF Do, OutCommand, OutData, MaskIrqs, UnmaskIrqs,
                                            OutMask, Register
      <4>2. ASSUME NEW j \in 1 .. Len(Driver), place = 24 + j PROVE FALSE
        <5>1. InstructionOf(stack[1]) = Driver[j]
          BY <2>0, <4>2, EntryInstruction
        <5> QED
          BY <3>1, <5>1, DriverCall
      <4>3. place \in 1 .. 24 => place \in 15 .. 17 \/ place \in 1 .. 14 \cup 18 .. 24
        OBVIOUS
      <4> QED
        BY <2>0, <4>1, <4>2, <4>3, EntryInstruction
    <3>3. Last = 25 + Len(Driver) /\ Len(Driver) \in Nat
      BY EntryCode DEF Last
    <3>4. ~Unwritten(c)
      <4>1. CASE place \in 15 .. 17
        BY <4>1 DEF Unwritten
      <4>2. CASE place = Last
        <5> SUFFICES ASSUME NEW j \in 1 .. Len(Driver), Touches(Driver[j], c),
                            \A k \in j + 1 .. Len(Driver) : Driver[k] # OutMask(c)
                     PROVE  FALSE
          BY <3>3, <4>2 DEF Unwritten
        <5>1. \E k \in j + 1 .. Len(Driver) : Driver[k] = OutMask(c)
          BY DriverAssumption
        <5> QED
          BY <5>1
      <4> QED
        BY <3>2, <4>1, <4>2
    <3>5. place >= 15 /\ place # 24
      BY <2>0, <3>2, <3>3
    <3> QED
      BY <2>0, <3>4, <3>5 DEF MasksWritten
  <2>2. ASSUME ~Running("pit_handler"), ~Running("irq8_handler"), ~Running("kpanic"),
               NEW c \in Chips
        PROVE  chips[c].isr = {}
    <3>1. Idle
      BY <2>0, <2>2 DEF Running, Idle, Handlers
    <3> QED
      BY <2>0, <2>2, <3>1 DEF Service, Master, Slave, Chips
  <2>3. TypeOK
    BY <1>1, InvTypeOK
  <2> QED
    BY <2>1, <2>2, <2>3 DEF ControllersAsBelieved
<1> QED
  BY <1>1, InvAlways, PTL

\* The terminal is never entered while it prints (main.c, pit.c, idt.c): the
\* timer's handler starts printing only when genoa_entry has printed its last
\* line, and no handler interrupts another one.
THEOREM TerminalNotReentered == Spec => []PrintNotReentered
<1>1. ASSUME Inv PROVE PrintNotReentered
  <2> DEFINE S == {k \in DOMAIN stack : InstructionOf(stack[k]).op = "printed"}
  <2> SUFFICES ASSUME ~Running("kpanic") PROVE ~(Cardinality(S) > 1)
    BY DEF PrintNotReentered
  <2>0. Types /\ StackShape /\ Service /\ DOMAIN stack = 1 .. Len(stack)
    BY <1>1 DEF Inv, Types
  <2>1. ASSUME NEW k \in S, k # 1
        PROVE  k = 3 /\ place >= 25
    <3>1. k \in 1 .. Len(stack) /\ InstructionOf(stack[k]).op = "printed"
      BY SMTT(30), <2>0
    <3>2. stack[k] \in Frames /\ Stands(k) /\ InCode(stack[k]) /\ stack[k].name # "kpanic"
      BY <2>0, <3>1, StackFacts DEF StackShape, Stands, Running
    <3>3. stack[k].name # "genoa_entry"
      BY <2>1, <3>2 DEF Stands
    <3>4. stack[k].name \notin {"pit_handler", "irq8_handler"}
      BY <3>1, <3>2, AboveBoot DEF Do, OutCommand
    <3>5. stack[k].name = "tick"
      BY <3>2, <3>3, <3>4, NameCases
    <3>6. k - 1 \in 1 .. Len(stack) /\ stack[k - 1].name \in Handlers
      BY <3>1, <3>2, <3>5 DEF Stands, Handlers
    <3>7. Serving(k - 1)
      BY <2>0, <3>6, ServingHandler
    <3> QED
      BY <3>1, <3>7 DEF Serving
  <2>2. ASSUME 1 \in S PROVE ~(place >= 25)
    <3>1. InstructionOf(stack[1]).op = "printed"
      BY <2>2
    <3>2. place # Last
      BY <2>0, <3>1, EntryInstruction DEF Do
    <3>3. \A j \in 1 .. Len(Driver) : place # 24 + j
      BY <2>0, <3>1, EntryInstruction, DriverCall
    <3> QED
      BY <2>0, <3>2, <3>3, EntryInstruction
  <2>3. \E x : S \subseteq {x}
    <3>1. CASE 1 \in S
      <4>1. S \subseteq {1}
        BY <2>1, <2>2, <3>1
      <4> QED
        BY <4>1
    <3>2. CASE 1 \notin S
      <4>1. S \subseteq {3}
        BY <2>1, <3>2
      <4> QED
        BY <4>1
    <3> QED
      BY <3>1, <3>2
  <2> HIDE DEF S
  <2>4. Cardinality(S) <= 1 /\ Cardinality(S) \in Nat
    <3>1. PICK x : S \subseteq {x}
      BY <2>3
    <3>2. IsFiniteSet({x}) /\ Cardinality({x}) = 1
      BY FS_Singleton
    <3>3. Cardinality(S) <= 1 /\ IsFiniteSet(S)
      BY <3>1, <3>2, FS_Subset
    <3> QED
      BY <3>3, FS_CardinalityType
  <2> QED
    BY <2>4
<1> QED
  BY <1>1, InvAlways, PTL

\* When kpanic has halted the processor, interrupts are off: nothing runs any
\* more (idt.c, kpanic and hcf).
THEOREM PanicStops == Spec => PanicIsFinal
<1>1. ASSUME Inv, [Next]_vars, Top.name = "kpanic", At("hlt") PROVE UNCHANGED stack
  <2>0. Types /\ StackShape
    BY <1>1 DEF Inv
  <2>1. Top \in Frames /\ InCode(Top) /\ Top = stack[Len(stack)] /\ Len(stack) \in 1 .. Len(stack)
    BY <2>0, StackFacts DEF Types
  <2>2. Top.at = 4
    <3>1. InstructionOf(Top).op = "hlt"
      BY <1>1 DEF At, Instruction
    <3> QED
      BY <1>1, <2>1, <3>1, AboveBoot DEF Do
  <2>3. ~interrupts
    BY <1>1, <2>0, <2>1, <2>2 DEF StackShape, Stands
  <2>4. ~Execute
    BY <1>1, ByOp DEF At
  <2>5. ~Interrupt /\ ~Exception
    BY <1>1, <2>3 DEF Interrupt, Exception
  <2> QED
    BY <1>1, <2>4, <2>5 DEF Next, Timer, Device, vars
<1>2. ASSUME Inv, [Next]_vars PROVE Top.name = "kpanic" /\ At("hlt") => UNCHANGED stack
  BY <1>1, <1>2
<1> QED
  BY <1>2, InvAlways, PTL DEF Spec, PanicIsFinal

-----------------------------------------------------------------------------
(* What the stub hands to a handler and gives back *)

\* The stub and the processor agree on whether there is an error code.
Agree(v) == v \in StubErrorCodes <=> v \in ProcessorErrorCodes

\* Every word of the context, from the call back to the interrupt.
ContextRight(m, v, code, c) ==
  /\ \A k \in 1 .. 21 : Context(c, k) = m.reg[ContextOrder[k]]
  /\ Context(c, 22) = v
  /\ Context(c, 23) = IF v \in ProcessorErrorCodes THEN code ELSE 0
  /\ Context(c, 24) = m.reg["rip"]
  /\ Context(c, 25) = m.reg["cs"]
  /\ Context(c, 26) = m.reg["rflags"]
  /\ Context(c, 27) = m.sp
  /\ Context(c, 28) = m.reg["ss"]

\* The structure lists the pushes backwards.
LEMMA OrdersMirror == \A k \in 1 .. 21 : ContextOrder[k] = SaveOrder[22 - k]
<1> SUFFICES ASSUME NEW k \in 1 .. 21 PROVE ContextOrder[k] = SaveOrder[22 - k]
  OBVIOUS
<1>1. \/ k = 1 \/ k = 2 \/ k = 3 \/ k = 4 \/ k = 5 \/ k = 6 \/ k = 7
      \/ k = 8 \/ k = 9 \/ k = 10 \/ k = 11 \/ k = 12 \/ k = 13 \/ k = 14
      \/ k = 15 \/ k = 16 \/ k = 17 \/ k = 18 \/ k = 19 \/ k = 20 \/ k = 21
  OBVIOUS
<1> QED
  BY <1>1 DEF ContextOrder, SaveOrder

\* Two runs of pushes, word by word.
LEMMA PushedFacts ==
  ASSUME NEW m, m.sp \in Int, NEW s, Len(s) \in Nat
  PROVE  /\ Pushed(m, s).reg = m.reg
         /\ Pushed(m, s).sp = m.sp - Len(s)
         /\ \A a \in Int : a >= m.sp => Pushed(m, s).mem[a] = m.mem[a]
         /\ \A k \in Nat : 1 <= k /\ k <= Len(s) => Pushed(m, s).mem[m.sp - k] = s[k]
BY DEF Pushed

\* What the processor leaves: the code, if any, on top of the frame.
LEMMA DeliveredFacts ==
  ASSUME NEW m, m.sp \in Int, m = [reg |-> m.reg, sp |-> m.sp, mem |-> m.mem],
         NEW v \in Vectors, NEW code
  PROVE  \E top \in Int :
           LET d == Delivered(m, v, code) IN
           /\ top % 2 = 0
           /\ d.reg = m.reg
           /\ d.sp = IF v \in ProcessorErrorCodes THEN top - 6 ELSE top - 5
           /\ v \in ProcessorErrorCodes => d.mem[top - 6] = code
           /\ d.mem[top - 5] = m.reg["rip"] /\ d.mem[top - 4] = m.reg["cs"]
           /\ d.mem[top - 3] = m.reg["rflags"] /\ d.mem[top - 2] = m.sp
           /\ d.mem[top - 1] = m.reg["ss"]
<1> DEFINE top == 2 * (m.sp \div 2)
           al == [m EXCEPT !.sp = 2 * (@ \div 2)]
           frame == << m.reg["ss"], m.sp, m.reg["rflags"], m.reg["cs"], m.reg["rip"] >>
           f == Pushed(al, frame)
           rest == IF v \in ProcessorErrorCodes THEN << code >> ELSE << >>
           d == Pushed(f, rest)
<1>1. top \in Int /\ top % 2 = 0
  OBVIOUS
<1>2. al = [reg |-> m.reg, sp |-> top, mem |-> m.mem]
  OBVIOUS
<1>3. Delivered(m, v, code) = d
  BY DEF Delivered
<1>4. Len(frame) = 5 /\ frame[1] = m.reg["ss"] /\ frame[2] = m.sp
      /\ frame[3] = m.reg["rflags"] /\ frame[4] = m.reg["cs"] /\ frame[5] = m.reg["rip"]
  OBVIOUS
<1>5. rest = << >> \/ rest = << code >>
  OBVIOUS
<1>6. /\ Len(rest) = (IF v \in ProcessorErrorCodes THEN 1 ELSE 0)
      /\ v \in ProcessorErrorCodes => rest[1] = code
  OBVIOUS
<1> HIDE DEF top, al, frame, rest
<1>7. /\ f.reg = m.reg /\ f.sp = top - 5
      /\ \A k \in Nat : 1 <= k /\ k <= 5 => f.mem[top - k] = frame[k]
  <2>1. al.sp \in Int /\ Len(frame) \in Nat
    BY <1>1, <1>2, <1>4
  <2>2. /\ f.reg = al.reg /\ f.sp = al.sp - Len(frame)
        /\ \A k \in Nat : 1 <= k /\ k <= Len(frame) => f.mem[al.sp - k] = frame[k]
    BY <2>1, PushedFacts
  <2> HIDE DEF f
  <2>3. al.sp = top /\ al.reg = m.reg
    BY <1>2
  <2> QED
    BY <1>4, <2>2, <2>3
<1>8. /\ f.mem[top - 1] = m.reg["ss"] /\ f.mem[top - 2] = m.sp
      /\ f.mem[top - 3] = m.reg["rflags"] /\ f.mem[top - 4] = m.reg["cs"]
      /\ f.mem[top - 5] = m.reg["rip"]
  BY <1>4, <1>7
<1> HIDE DEF f
<1>9. f.sp \in Int /\ Len(rest) \in Nat
  BY <1>1, <1>6, <1>7
<1>10. /\ d.reg = f.reg /\ d.sp = f.sp - Len(rest)
       /\ \A a \in Int : a >= f.sp => d.mem[a] = f.mem[a]
       /\ \A k \in Nat : 1 <= k /\ k <= Len(rest) => d.mem[f.sp - k] = rest[k]
  BY <1>9, PushedFacts
<1> HIDE DEF d
<1>11. /\ d.mem[top - 1] = m.reg["ss"] /\ d.mem[top - 2] = m.sp
       /\ d.mem[top - 3] = m.reg["rflags"] /\ d.mem[top - 4] = m.reg["cs"]
       /\ d.mem[top - 5] = m.reg["rip"]
  <2>1. \A a \in Int : a >= top - 5 => d.mem[a] = f.mem[a]
    BY <1>7, <1>10
  <2>2. /\ d.mem[top - 1] = f.mem[top - 1] /\ d.mem[top - 2] = f.mem[top - 2]
        /\ d.mem[top - 3] = f.mem[top - 3] /\ d.mem[top - 4] = f.mem[top - 4]
        /\ d.mem[top - 5] = f.mem[top - 5]
    BY <1>1, <2>1
  <2> QED
    BY <1>8, <2>2
<1>12. d.sp = IF v \in ProcessorErrorCodes THEN top - 6 ELSE top - 5
  BY <1>1, <1>6, <1>7, <1>10
<1>13. v \in ProcessorErrorCodes => d.mem[top - 6] = code
  <2> SUFFICES ASSUME v \in ProcessorErrorCodes PROVE d.mem[top - 6] = code
    OBVIOUS
  <2>1. d.mem[f.sp - 1] = rest[1]
    BY <1>6, <1>10
  <2>2. f.sp - 1 = top - 6
    BY <1>1, <1>7
  <2> QED
    BY <1>6, <2>1, <2>2
<1> QED
  BY <1>1, <1>3, <1>7, <1>10, <1>11, <1>12, <1>13

\* What the stub adds: "extra" is 1 when it pushes a zero for the code.
LEMMA StubFacts ==
  ASSUME NEW d, d.sp \in Int, NEW v \in Vectors,
         NEW extra, extra = (IF v \in StubErrorCodes THEN 0 ELSE 1)
  PROVE  LET c == Saved(Entered(d, v)) IN
         /\ c.sp = d.sp - extra - 22
         /\ \A k \in 1 .. 21 : Context(c, k) = d.reg[ContextOrder[k]]
         /\ Context(c, 22) = v
         /\ extra = 1 => Context(c, 23) = 0
         /\ \A a \in Int : a >= d.sp => c.mem[a] = d.mem[a]
<1> DEFINE zero == IF v \in StubErrorCodes THEN << >> ELSE << 0 >>
           z == Pushed(d, zero)
           last == << v >>
           e == Pushed(z, last)
           s == [k \in 1 .. 21 |-> e.reg[SaveOrder[k]]]
           c == Pushed(e, s)
<1>1. Saved(Entered(d, v)) = c
  BY DEF Saved, Entered
<1>2. Len(zero) = extra /\ extra \in Nat /\ (extra = 1 => zero[1] = 0)
  OBVIOUS
<1>3. Len(s) = 21
  OBVIOUS
<1> HIDE DEF zero
<1>4. /\ z.reg = d.reg /\ z.sp = d.sp - extra
      /\ \A a \in Int : a >= d.sp => z.mem[a] = d.mem[a]
      /\ extra = 1 => z.mem[d.sp - 1] = 0
  <2>1. /\ z.reg = d.reg /\ z.sp = d.sp - Len(zero)
        /\ \A a \in Int : a >= d.sp => z.mem[a] = d.mem[a]
        /\ \A k \in Nat : 1 <= k /\ k <= Len(zero) => z.mem[d.sp - k] = zero[k]
    <3>1. Len(zero) \in Nat
      BY <1>2
    <3> QED
      BY <3>1, PushedFacts
  <2> HIDE DEF z
  <2> QED
    BY <1>2, <2>1
<1> HIDE DEF z
<1>5. /\ e.reg = z.reg /\ e.sp = z.sp - 1
      /\ \A a \in Int : a >= z.sp => e.mem[a] = z.mem[a]
      /\ e.mem[z.sp - 1] = v
  <2>1. z.sp \in Int /\ Len(last) = 1 /\ Len(last) \in Nat /\ last[1] = v
    BY <1>2, <1>4
  <2> HIDE DEF last
  <2>2. /\ e.reg = z.reg /\ e.sp = z.sp - Len(last)
        /\ \A a \in Int : a >= z.sp => e.mem[a] = z.mem[a]
        /\ \A k \in Nat : 1 <= k /\ k <= Len(last) => e.mem[z.sp - k] = last[k]
    <3>1. z.sp \in Int /\ Len(last) \in Nat
      BY <2>1
    <3> QED
      BY ONLY <3>1, PushedFacts
  <2> HIDE DEF e
  <2> QED
    BY <2>1, <2>2
<1>6. s = [k \in 1 .. 21 |-> e.reg[SaveOrder[k]]]
  OBVIOUS
<1> HIDE DEF e, s
<1>7. /\ c.sp = e.sp - 21
      /\ \A a \in Int : a >= e.sp => c.mem[a] = e.mem[a]
      /\ \A k \in Nat : 1 <= k /\ k <= 21 => c.mem[e.sp - k] = s[k]
  <2>1. e.sp \in Int /\ Len(s) \in Nat
    BY <1>2, <1>3, <1>4, <1>5
  <2>2. /\ c.sp = e.sp - Len(s)
        /\ \A a \in Int : a >= e.sp => c.mem[a] = e.mem[a]
        /\ \A k \in Nat : 1 <= k /\ k <= Len(s) => c.mem[e.sp - k] = s[k]
    BY <2>1, PushedFacts
  <2> HIDE DEF c
  <2> QED
    BY <1>3, <2>2
<1> HIDE DEF c
<1>8. e.sp \in Int /\ z.sp \in Int /\ c.sp \in Int
  BY <1>2, <1>4, <1>5, <1>7
<1>9. c.sp = d.sp - extra - 22
  BY <1>2, <1>4, <1>5, <1>7
<1>10. \A k \in 1 .. 21 : Context(c, k) = d.reg[ContextOrder[k]]
  <2> SUFFICES ASSUME NEW k \in 1 .. 21 PROVE Context(c, k) = d.reg[ContextOrder[k]]
    OBVIOUS
  <2>1. c.sp + k - 1 = e.sp - (22 - k) /\ 22 - k \in 1 .. 21 /\ 22 - k \in Nat
    BY <1>7, <1>8
  <2>2. c.mem[e.sp - (22 - k)] = s[22 - k]
    BY <1>7, <2>1
  <2>3. s[22 - k] = d.reg[SaveOrder[22 - k]]
    BY <1>4, <1>5, <1>6, <2>1
  <2> QED
    BY <2>1, <2>2, <2>3, OrdersMirror DEF Context
<1>11. Context(c, 22) = v
  <2>1. c.sp + 22 - 1 = z.sp - 1 /\ z.sp - 1 >= e.sp
    BY <1>5, <1>7, <1>8
  <2> QED
    BY <1>5, <1>7, <1>8, <2>1 DEF Context
<1>12. extra = 1 => Context(c, 23) = 0
  <2> SUFFICES ASSUME extra = 1 PROVE Context(c, 23) = 0
    OBVIOUS
  <2>1. c.sp + 23 - 1 = d.sp - 1 /\ d.sp - 1 = z.sp /\ z.sp >= e.sp
    BY <1>4, <1>5, <1>8, <1>9
  <2> QED
    BY <1>4, <1>5, <1>7, <1>8, <2>1 DEF Context
<1>13. \A a \in Int : a >= d.sp => c.mem[a] = d.mem[a]
  <2> SUFFICES ASSUME NEW a \in Int, a >= d.sp PROVE c.mem[a] = d.mem[a]
    OBVIOUS
  <2>1. a >= z.sp /\ a >= e.sp
    BY <1>2, <1>4, <1>5
  <2> QED
    BY <1>4, <1>5, <1>7, <2>1
<1> QED
  BY <1>1, <1>9, <1>10, <1>11, <1>12, <1>13

\* At which vectors the two lists differ.
LEMMA Disagreement == \A v \in Vectors : Agree(v) <=> v \notin {21, 29}
BY DEF Vectors, Agree, StubErrorCodes, ProcessorErrorCodes

-----------------------------------------------------------------------------
\* At every vector but 21 and 29 the handler of that vector is called, each
\* member of its struct register_ctx is what the register held when the
\* interrupt came, and the stack is aligned as a call of C code needs it.
THEOREM HandlerSeesTheInterrupted ==
  ASSUME NEW m, m.sp \in Int, m = [reg |-> m.reg, sp |-> m.sp, mem |-> m.mem],
         NEW v \in Vectors \ {21, 29}, NEW code
  PROVE  LET c == AtCall(m, v, code) IN
         /\ ContextRight(m, v, code, c)
         /\ Called(c) = v
         /\ c.sp \in Int /\ c.sp % 2 = 0
<1> DEFINE d == Delivered(m, v, code)
           c == AtCall(m, v, code)
           extra == IF v \in StubErrorCodes THEN 0 ELSE 1
<1>1. v \in Vectors /\ (v \in StubErrorCodes <=> v \in ProcessorErrorCodes)
  BY Disagreement DEF Agree
<1>2. PICK top \in Int :
        /\ top % 2 = 0 /\ d.reg = m.reg
        /\ d.sp = IF v \in ProcessorErrorCodes THEN top - 6 ELSE top - 5
        /\ v \in ProcessorErrorCodes => d.mem[top - 6] = code
        /\ d.mem[top - 5] = m.reg["rip"] /\ d.mem[top - 4] = m.reg["cs"]
        /\ d.mem[top - 3] = m.reg["rflags"] /\ d.mem[top - 2] = m.sp
        /\ d.mem[top - 1] = m.reg["ss"]
  BY <1>1, DeliveredFacts
<1> HIDE DEF d
<1>3. d.sp \in Int
  BY <1>2
<1>4. /\ c.sp = d.sp - extra - 22
      /\ \A k \in 1 .. 21 : Context(c, k) = d.reg[ContextOrder[k]]
      /\ Context(c, 22) = v
      /\ extra = 1 => Context(c, 23) = 0
      /\ \A a \in Int : a >= d.sp => c.mem[a] = d.mem[a]
  <2>1. c = Saved(Entered(d, v))
    BY DEF AtCall, d
  <2> HIDE DEF c
  <2> QED
    BY <1>1, <1>3, <2>1, StubFacts
<1> HIDE DEF c
<1>5. c.sp = top - 28 /\ c.sp \in Int /\ d.sp <= top - 5
  BY <1>1, <1>2, <1>4
<1>6. Context(c, 23) = IF v \in ProcessorErrorCodes THEN code ELSE 0
  <2>1. CASE v \in ProcessorErrorCodes
    <3>1. c.sp + 23 - 1 = top - 6 /\ d.sp = top - 6
      BY <1>2, <1>5, <2>1
    <3> QED
      BY <1>2, <1>4, <2>1, <3>1 DEF Context
  <2>2. CASE v \notin ProcessorErrorCodes
    BY <1>1, <1>4, <2>2
  <2> QED
    BY <2>1, <2>2
<1>7. /\ Context(c, 24) = m.reg["rip"] /\ Context(c, 25) = m.reg["cs"]
      /\ Context(c, 26) = m.reg["rflags"] /\ Context(c, 27) = m.sp
      /\ Context(c, 28) = m.reg["ss"]
  <2>1. /\ c.sp + 24 - 1 = top - 5 /\ c.sp + 25 - 1 = top - 4
        /\ c.sp + 26 - 1 = top - 3 /\ c.sp + 27 - 1 = top - 2 /\ c.sp + 28 - 1 = top - 1
    BY <1>5
  <2> QED
    BY <1>2, <1>3, <1>4, <1>5, <2>1 DEF Context
<1>8. Called(c) = v
  <2>1. c.sp + 22 - 1 = c.sp + 21
    BY <1>5
  <2> QED
    BY <1>4, <2>1 DEF Called, Context
<1>9. c.sp % 2 = 0
  BY <1>2, <1>5
<1>10. ContextRight(m, v, code, c)
  BY <1>2, <1>4, <1>6, <1>7 DEF ContextRight
<1> QED
  BY <1>5, <1>8, <1>9, <1>10 DEF c

\* At the same vectors a handler that returns is not noticed: the general
\* registers, the flags, the stack and the place of execution are those of the
\* interrupted code, whatever the handler did to the registers and below.
THEOREM InterruptNotNoticed ==
  ASSUME NEW m, m.sp \in Int, m = [reg |-> m.reg, sp |-> m.sp, mem |-> m.mem],
         NEW v \in Vectors \ {21, 29}, NEW code,
         NEW n, HandlerReturns(AtCall(m, v, code), n)
  PROVE  Resumed(n) = [general |-> [k \in General |-> m.reg[SaveOrder[k]]],
                       rip |-> m.reg["rip"], cs |-> m.reg["cs"],
                       rflags |-> m.reg["rflags"], sp |-> m.sp, ss |-> m.reg["ss"]]
<1> DEFINE c == AtCall(m, v, code)
<1>1. ContextRight(m, v, code, c) /\ c.sp \in Int
  BY HandlerSeesTheInterrupted
<1>2. n.sp = c.sp /\ \A a \in Int : a >= c.sp => n.mem[a] = c.mem[a]
  BY DEF HandlerReturns
<1> HIDE DEF c
<1>3. \A k \in 1 .. 28 : n.mem[n.sp + k - 1] = Context(c, k)
  BY <1>1, <1>2 DEF Context
<1>4. \A k \in General : Popped(n, k) = m.reg[SaveOrder[k]]
  <2> SUFFICES ASSUME NEW k \in General PROVE Popped(n, k) = m.reg[SaveOrder[k]]
    OBVIOUS
  <2>1. 22 - k \in 1 .. 21 /\ 22 - k \in 1 .. 28 /\ 22 - (22 - k) = k
    BY DEF General
  <2>2. n.sp + (22 - k) - 1 = n.sp + 6 + 15 - k
    BY <1>1, <1>2 DEF General
  <2>3. Context(c, 22 - k) = m.reg[SaveOrder[k]]
    BY <1>1, <2>1, OrdersMirror DEF ContextRight
  <2> QED
    BY <1>3, <2>1, <2>2, <2>3 DEF Popped
<1>5. /\ n.mem[n.sp + 23] = m.reg["rip"] /\ n.mem[n.sp + 24] = m.reg["cs"]
      /\ n.mem[n.sp + 25] = m.reg["rflags"] /\ n.mem[n.sp + 26] = m.sp
      /\ n.mem[n.sp + 27] = m.reg["ss"]
  <2>1. /\ n.sp + 24 - 1 = n.sp + 23 /\ n.sp + 25 - 1 = n.sp + 24
        /\ n.sp + 26 - 1 = n.sp + 25 /\ n.sp + 27 - 1 = n.sp + 26
        /\ n.sp + 28 - 1 = n.sp + 27
    BY <1>1, <1>2
  <2> QED
    BY <1>1, <1>3, <2>1 DEF ContextRight
<1> QED
  BY <1>4, <1>5 DEF Resumed

\* At 21 and 29, of which the stub does not know that they have an error code,
\* the right handler is called but with the stack not aligned, and the end of
\* its context is off by a word: it finds 0 for the error code, the error code
\* for rip and rip for cs, and iretq would take the code for an address.
THEOREM ContextShiftedAtTwoVectors ==
  ASSUME NEW m, m.sp \in Int, m = [reg |-> m.reg, sp |-> m.sp, mem |-> m.mem],
         NEW v \in {21, 29}, NEW code
  PROVE  LET c == AtCall(m, v, code) IN
         /\ Called(c) = v /\ c.sp % 2 = 1
         /\ Context(c, 23) = 0
         /\ Context(c, 24) = code /\ Context(c, 25) = m.reg["rip"]
<1> DEFINE d == Delivered(m, v, code)
           c == AtCall(m, v, code)
<1>1. v \in Vectors /\ v \in ProcessorErrorCodes /\ v \notin StubErrorCodes
  BY DEF Vectors, ProcessorErrorCodes, StubErrorCodes
<1>2. PICK top \in Int :
        /\ top % 2 = 0 /\ d.sp = top - 6
        /\ d.mem[top - 6] = code /\ d.mem[top - 5] = m.reg["rip"]
  BY <1>1, DeliveredFacts
<1> HIDE DEF d
<1>3. d.sp \in Int
  BY <1>2
<1>4. /\ c.sp = d.sp - 1 - 22
      /\ Context(c, 22) = v /\ Context(c, 23) = 0
      /\ \A a \in Int : a >= d.sp => c.mem[a] = d.mem[a]
  <2>1. c = Saved(Entered(d, v))
    BY DEF AtCall, d
  <2> HIDE DEF c
  <2> QED
    BY <1>1, <1>3, <2>1, StubFacts
<1> HIDE DEF c
<1>5. c.sp = top - 29 /\ c.sp % 2 = 1
  BY <1>2, <1>4
<1>6. Context(c, 24) = code /\ Context(c, 25) = m.reg["rip"]
  <2>1. c.sp + 24 - 1 = top - 6 /\ c.sp + 25 - 1 = top - 5
    BY <1>5
  <2> QED
    BY <1>2, <1>3, <1>4, <2>1 DEF Context
<1>7. Called(c) = v
  <2>1. c.sp + 22 - 1 = c.sp + 21
    BY <1>5
  <2> QED
    BY <1>4, <2>1 DEF Called, Context
<1> QED
  BY <1>4, <1>5, <1>6, <1>7 DEF c
=============================================================================
