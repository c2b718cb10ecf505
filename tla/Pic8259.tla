------------------------------ MODULE Pic8259 ------------------------------
(***************************************************************************)
(* The two cascaded interrupt controllers, as far as src/sys/pic.c drives  *)
(* them (the chips are hardware), and the functions of that file as the    *)
(* sequences of instructions they execute.  A byte is the set of its bits. *)
(***************************************************************************)
EXTENDS Integers, Sequences, FiniteSetsExt

VARIABLE chips      \* chip -> its registers

Chips == {"master", "slave"}
Cascade == 2        \* the line of the master that the slave drives
Byte == 0 .. 7

ChipOf(irq) == IF irq < 8 THEN "master" ELSE "slave"
LineOf(irq) == irq % 8
IrqOf(chip, line) == IF chip = "master" THEN line ELSE line + 8

Weight == << 1, 2, 4, 8, 16, 32, 64, 128 >>
Bit(byte, b) == IF b \in byte THEN Weight[b + 1] ELSE 0
Value(byte) == Bit(byte, 0) + Bit(byte, 1) + Bit(byte, 2) + Bit(byte, 3)
               + Bit(byte, 4) + Bit(byte, 5) + Bit(byte, 6) + Bit(byte, 7)

Registers == [imr : SUBSET Byte, irr : SUBSET Byte, isr : SUBSET Byte,
              offset : Nat, expects : {"command", "icw2", "icw3", "icw4"}]

-----------------------------------------------------------------------------
(* What the chips do *)

\* Requests that are not masked and beat whatever is in service.
Requests(chip) == {l \in chips[chip].irr \ chips[chip].imr :
                     \A s \in chips[chip].isr : l < s}

\* The slave drives the cascade line as long as it has a request.
MasterRequests ==
  {l \in chips["master"].irr \cup {c \in {Cascade} : Requests("slave") # {}} :
     /\ l \notin chips["master"].imr
     /\ \A s \in chips["master"].isr : l < s}

\* A device raises its line; the edge is latched even while it is masked.
Raise(irq) ==
  chips' = [chips EXCEPT ![ChipOf(irq)].irr = @ \cup {LineOf(irq)}]

Serve(r, l) == [r EXCEPT !.irr = @ \ {l}, !.isr = @ \cup {l}]

\* The processor acknowledges a request: the winning line goes into service
\* and the vector is the offset that was programmed plus the line.
Acknowledge(vector) ==
  /\ MasterRequests # {}
  /\ LET l == Min(MasterRequests) IN
     IF l = Cascade
       THEN LET s == Min(Requests("slave")) IN
            /\ chips' = [chips EXCEPT !["master"] = Serve(@, l),
                                      !["slave"] = Serve(@, s)]
            /\ vector = chips["slave"].offset + s
       ELSE /\ chips' = [chips EXCEPT !["master"] = Serve(@, l)]
            /\ vector = chips["master"].offset + l

\* A command with bit 4 is ICW1: the mask and the requests are cleared, and
\* the next three bytes of data are ICW2, ICW3 and ICW4.  Bit 5 alone is the
\* non-specific end of interrupt.
Command(r, byte) ==
  CASE 4 \in byte -> [r EXCEPT !.imr = {}, !.irr = {}, !.isr = {},
                               !.expects = "icw2"]
    [] 4 \notin byte /\ 5 \in byte /\ r.isr # {} ->
         [r EXCEPT !.isr = @ \ {Min(r.isr)}]
    [] OTHER -> r

Data(r, byte) ==
  CASE r.expects = "icw2" -> [r EXCEPT !.offset = Value(byte \ (0 .. 2)),
                                       !.expects = "icw3"]
    [] r.expects = "icw3" -> [r EXCEPT !.expects = "icw4"]
    [] r.expects = "icw4" -> [r EXCEPT !.expects = "command"]
    [] OTHER              -> [r EXCEPT !.imr = byte]

WriteCommand(chip, byte) == chips' = [chips EXCEPT ![chip] = Command(@, byte)]
WriteData(chip, byte)    == chips' = [chips EXCEPT ![chip] = Data(@, byte)]

-----------------------------------------------------------------------------
(* The driver *)

OutCommand(chip, byte) == [op |-> "command", chip |-> chip, byte |-> byte]
OutData(chip, byte)    == [op |-> "data", chip |-> chip, byte |-> byte]

\* Assignments to g_curmask, and the write of the byte for one chip.
MaskIrqs(irqs)   == [op |-> "mask", irqs |-> irqs]
UnmaskIrqs(irqs) == [op |-> "unmask", irqs |-> irqs]
OutMask(chip)    == [op |-> "out_mask", chip |-> chip]

pic_maskall == << OutData("master", Byte), OutData("slave", Byte),
                  MaskIrqs(0 .. 15) >>

Icw1 == << OutCommand("master", {0, 4}), OutCommand("slave", {0, 4}) >>
Icw2 == << OutData("master", {5}), OutData("slave", {3, 5}) >>
Icw3And4 == << OutData("master", {2}), OutData("slave", {1}),
               OutData("master", {0}), OutData("slave", {0}) >>

pic_init == Icw1 \o Icw2 \o Icw3And4 \o pic_maskall

\* Mutant: the interrupt is not acknowledged.
pic_eoi_none(irq) == << >>

\* Mutant: only the master is told.
pic_eoi_master_only(irq) == << OutCommand("master", {5}) >>

pic_eoi(irq) ==
  (IF irq >= 8 THEN << OutCommand("slave", {5}) >> ELSE << >>)
  \o << OutCommand("master", {5}) >>

pic_mask(irq) == << MaskIrqs({irq}), OutMask(ChipOf(irq)) >>

pic_unmask(irq) == << UnmaskIrqs({irq}), OutMask(ChipOf(irq)) >>

\* The byte of a 16-bit mask that belongs to a chip.
MaskByte(irqs, chip) == {b \in Byte : IrqOf(chip, b) \in irqs}

=============================================================================
