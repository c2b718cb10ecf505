----------------------------- MODULE Interrupts -----------------------------
(***************************************************************************)
(* Interrupts from boot to idle: genoa_entry (src/main.c), the descriptor  *)
(* table and kpanic (sys/idt.c), the stub (sys/idt-stub.S), the controller *)
(* driver (sys/pic.c) and the timer (dev/timer/pit.c) on one processor.    *)
(*                                                                         *)
(* A function is the sequence of its instructions that matter here.  The   *)
(* processor executes the instruction of the innermost frame of its stack; *)
(* an interrupt or an exception pushes a frame between any two of them.    *)
(***************************************************************************)
EXTENDS Pic8259, IsrStub

CONSTANTS
  Devices,        \* lines, other than the timer's and the one between the
                  \* controllers, that may become active
  Driver,         \* calls a later driver adds between pit_init and hlt
  MayFault        \* functions in which an exception may happen

ASSUME InterruptsAssumption ==
  /\ Devices \subseteq 1 .. 15 \ {Cascade}
  /\ MayFault \subseteq {"genoa_entry", "pit_handler", "tick"}

VARIABLES
  g_curmask,      \* the lines masked, 16 bits
  real_handlers,  \* vector -> function
  idt_loaded,
  pit_callback,   \* TRUE once it is set
  pit,            \* what the timer chip is waiting for
  interrupts,     \* the interrupt flag of the processor
  stack           \* frames, the innermost one last

vars == <<chips, g_curmask, real_handlers, idt_loaded, pit_callback, pit,
          interrupts, stack>>

IDT_IRQ_BASE == 32
Exceptions == 0 .. 31
PageFault == 14

-----------------------------------------------------------------------------
(* The functions *)

Do(op) == [op |-> op]
Register(vector, handler) ==
  [op |-> "register", vector |-> vector, handler |-> handler]

\* A log line: kprintf writes to the terminal, which is not reentrant.
Log == << Do("print"), Do("printed") >>

pit_init ==
  << Do("set_callback"), Do("pit_mode"),
     Register(IDT_IRQ_BASE, "pit_handler"), Do("pit_low"), Do("pit_high") >>
  \o pic_unmask(0)

\* Mutant: interrupts are on before the controllers are initialised.
genoa_entry_early_sti ==
  << Do("idt_init"), Do("load_idt"), Do("sti") >> \o pic_init
  \o Log \o pit_init \o Driver \o << Do("hlt") >>

\* Mutant: the timer is started before the last messages are printed.
genoa_entry_early_timer ==
  << Do("idt_init"), Do("load_idt"), Do("cli") >> \o pic_init \o << Do("sti") >>
  \o pit_init \o Log \o Driver \o << Do("hlt") >>

\* The memory managers are set up where Log stands: they only print.
genoa_entry ==
  << Do("idt_init"), Do("load_idt"), Do("cli") >> \o pic_init \o << Do("sti") >>
  \o Log \o pit_init \o Driver \o << Do("hlt") >>

pit_handler == << Do("callback") >> \o pic_eoi(0) \o << Do("iret") >>

tick == Log \o << Do("ret") >>

\* Mutant: the processor is halted with interrupts on.
kpanic_hlt == Log \o << Do("hlt") >>

\* idt_default_interrupt_handler calls kpanic, which ends in hcf.
kpanic == Log \o << Do("cli"), Do("hlt") >>

\* A handler of a later driver, here on the second controller.
irq8_handler == pic_eoi(8) \o << Do("iret") >>

Code(name) ==
  CASE name = "genoa_entry"  -> genoa_entry
    [] name = "pit_handler"  -> pit_handler
    [] name = "tick"         -> tick
    [] name = "kpanic"       -> kpanic
    [] name = "irq8_handler" -> irq8_handler
    [] name = "NULL"         -> << Do("fault") >>   \* nothing is mapped there

Names == {"genoa_entry", "pit_handler", "tick", "kpanic", "irq8_handler",
          "NULL"}

\* What a later driver may call: pic_mask, pic_unmask and idt_register_handler,
\* a handler before the line is unmasked.
Touches(call, chip) ==
  call.op \in {"mask", "unmask"} /\ \E irq \in call.irqs : ChipOf(irq) = chip

ASSUME DriverAssumption ==
  /\ Driver \in Seq([op : {"mask", "unmask"}, irqs : SUBSET (0 .. 15)]
                     \cup [op : {"out_mask"}, chip : Chips]
                     \cup [op : {"register"}, vector : Vectors, handler : {"irq8_handler"}])
  /\ \A k \in 1 .. Len(Driver) :
       Driver[k].op = "unmask" => \A irq \in Driver[k].irqs :
         \/ irq \in {0, Cascade}
         \/ \E j \in 1 .. k - 1 : Driver[j] = Register(IDT_IRQ_BASE + irq, "irq8_handler")
  /\ \A k \in 1 .. Len(Driver), chip \in Chips :
       Touches(Driver[k], chip) => \E j \in k + 1 .. Len(Driver) : Driver[j] = OutMask(chip)

-----------------------------------------------------------------------------
(* The processor *)

Frame(name, flag) == [name |-> name, at |-> 1, flag |-> flag]
Top == stack[Len(stack)]
InstructionOf(frame) == Code(frame.name)[frame.at]
Instruction == InstructionOf(Top)
At(op) == Instruction.op = op

NextInstruction == stack' = [stack EXCEPT ![Len(stack)].at = @ + 1]
Call(name) == stack' = Append([stack EXCEPT ![Len(stack)].at = @ + 1],
                              Frame(name, interrupts))
Push(name) == stack' = Append(stack, Frame(name, interrupts))
Pop == stack' = SubSeq(stack, 1, Len(stack) - 1)

\* Which lines are masked at power-on is up to the firmware.
Init ==
  /\ \E mask \in {{}, Byte} :
       chips = [c \in Chips |-> [imr |-> mask, irr |-> {}, isr |-> {},
                                 offset |-> IF c = "master" THEN 8 ELSE 112,
                                 expects |-> "command"]]
  /\ g_curmask = 0 .. 15
  /\ real_handlers = [v \in Vectors |-> "NULL"]
  /\ idt_loaded = FALSE
  /\ pit_callback = FALSE
  /\ pit = "running"       \* the firmware's tick
  /\ interrupts = FALSE
  /\ stack = << Frame("genoa_entry", FALSE) >>

\* The first 32 vectors get the default handler, the others stay NULL.
idt_init ==
  /\ At("idt_init")
  /\ real_handlers' = [v \in Vectors |->
                         IF v \in Exceptions
                           THEN "idt_default_interrupt_handler"
                           ELSE real_handlers[v]]
  /\ NextInstruction
  /\ UNCHANGED <<chips, g_curmask, idt_loaded, pit_callback, pit, interrupts>>

load_idt ==
  /\ At("load_idt")
  /\ idt_loaded' = TRUE
  /\ NextInstruction
  /\ UNCHANGED <<chips, g_curmask, real_handlers, pit_callback, pit,
                 interrupts>>

MayRegister(v) == real_handlers[v] # "idt_default_interrupt_handler"

idt_register_handler ==
  /\ At("register")
  /\ LET v == Instruction.vector IN
     real_handlers' =
       IF MayRegister(v) THEN [real_handlers EXCEPT ![v] = Instruction.handler]
                         ELSE real_handlers
  /\ NextInstruction
  /\ UNCHANGED <<chips, g_curmask, idt_loaded, pit_callback, pit, interrupts>>

SetFlag ==
  /\ At("cli") \/ At("sti")
  /\ interrupts' = At("sti")
  /\ NextInstruction
  /\ UNCHANGED <<chips, g_curmask, real_handlers, idt_loaded, pit_callback, pit>>

\* outb to a controller, and the assignments to g_curmask.
WritePic ==
  /\ \/ At("command") /\ WriteCommand(Instruction.chip, Instruction.byte)
     \/ At("data") /\ WriteData(Instruction.chip, Instruction.byte)
     \/ At("out_mask")
        /\ WriteData(Instruction.chip, MaskByte(g_curmask, Instruction.chip))
  /\ NextInstruction
  /\ UNCHANGED <<g_curmask, real_handlers, idt_loaded, pit_callback, pit,
                 interrupts>>

SetMask ==
  /\ \/ At("mask") /\ g_curmask' = g_curmask \cup Instruction.irqs
     \/ At("unmask") /\ g_curmask' = g_curmask \ Instruction.irqs
  /\ NextInstruction
  /\ UNCHANGED <<chips, real_handlers, idt_loaded, pit_callback, pit,
                 interrupts>>

\* The mode byte stops the timer until both bytes of the count are there.
WritePit ==
  /\ \/ At("pit_mode") /\ pit' = "low"
     \/ At("pit_low") /\ pit' = "high"
     \/ At("pit_high") /\ pit' = "running"
  /\ NextInstruction
  /\ UNCHANGED <<chips, g_curmask, real_handlers, idt_loaded, pit_callback,
                 interrupts>>

SetCallback ==
  /\ At("set_callback")
  /\ pit_callback' = TRUE
  /\ NextInstruction
  /\ UNCHANGED <<chips, g_curmask, real_handlers, idt_loaded, pit, interrupts>>

\* if (pit_callback) pit_callback(frame);
Callback ==
  /\ At("callback")
  /\ IF pit_callback THEN Call("tick") ELSE NextInstruction
  /\ UNCHANGED <<chips, g_curmask, real_handlers, idt_loaded, pit_callback,
                 pit, interrupts>>

UseTerminal ==
  /\ At("print") \/ At("printed")
  /\ NextInstruction
  /\ UNCHANGED <<chips, g_curmask, real_handlers, idt_loaded, pit_callback,
                 pit, interrupts>>

Return ==
  /\ \/ At("ret") /\ UNCHANGED interrupts
     \/ At("iret") /\ interrupts' = Top.flag
  /\ Pop
  /\ UNCHANGED <<chips, g_curmask, real_handlers, idt_loaded, pit_callback, pit>>

\* The stub calls real_handlers[vector] with the flag its gate left.  Without
\* a table there is nothing to call.
Handler(v) ==
  CASE ~idt_loaded -> "NULL"
    [] idt_loaded /\ real_handlers[v] = "idt_default_interrupt_handler" -> "kpanic"
    [] OTHER -> real_handlers[v]

\* Vectors from 32 on have interrupt gates, which clear the flag.
Interrupt ==
  /\ interrupts
  /\ \E v \in Vectors : Acknowledge(v) /\ Push(Handler(v))
  /\ interrupts' = FALSE
  /\ UNCHANGED <<g_curmask, real_handlers, idt_loaded, pit_callback, pit>>

\* Exceptions have trap gates, which leave it.  (Without a table the machine
\* resets.)  A call of NULL is one that always faults.
Exception ==
  /\ Top.name \in MayFault \cup {"NULL"} /\ ~At("hlt") /\ ~At("printed")
  /\ idt_loaded
  /\ Push(Handler(PageFault))
  /\ UNCHANGED <<chips, g_curmask, real_handlers, idt_loaded, pit_callback,
                 pit, interrupts>>

Timer ==
  /\ pit = "running" /\ 0 \notin chips["master"].irr
  /\ Raise(0)
  /\ UNCHANGED <<g_curmask, real_handlers, idt_loaded, pit_callback, pit,
                 interrupts, stack>>

Device(irq) ==
  /\ LineOf(irq) \notin chips[ChipOf(irq)].irr
  /\ Raise(irq)
  /\ UNCHANGED <<g_curmask, real_handlers, idt_loaded, pit_callback, pit,
                 interrupts, stack>>

Execute ==
  \/ idt_init \/ load_idt \/ idt_register_handler
  \/ SetFlag \/ WritePic \/ SetMask \/ WritePit
  \/ SetCallback \/ Callback \/ UseTerminal \/ Return

Next ==
  \/ Execute
  \/ Interrupt \/ Exception
  \/ Timer \/ \E irq \in Devices : Device(irq)

\* The processor runs, takes interrupts that it can take, and the timer ticks.
Fairness == WF_vars(Execute) /\ WF_vars(Interrupt) /\ WF_vars(Timer)

Spec == Init /\ [][Next]_vars /\ Fairness

-----------------------------------------------------------------------------
(* Properties *)

\* The processor has taken an interrupt.
Acknowledged == interrupts /\ ~interrupts' /\ Len(stack') > Len(stack)

Running(name) == \E k \in DOMAIN stack : stack[k].name = name

\* Registers hold bytes, handlers are functions of the kernel, and a frame
\* never runs past the end of its function.
TypeOK ==
  /\ chips \in [Chips -> Registers]
  /\ g_curmask \in SUBSET (0 .. 15)
  /\ real_handlers \in
       [Vectors -> Names \cup {"idt_default_interrupt_handler"}]
  /\ {idt_loaded, pit_callback, interrupts} \subseteq BOOLEAN
  /\ pit \in {"running", "low", "high"}
  /\ \A k \in DOMAIN stack : /\ stack[k].name \in Names
                             /\ stack[k].at \in 1 .. Len(Code(stack[k].name))

\* Whatever the devices do from power-on to idle, no interrupt arrives without
\* a descriptor table, at a vector without a handler, or at one of an exception:
\* lines are unmasked only after their handler is in place, and the vectors are
\* moved before.
EveryInterruptHasItsHandler ==
  [][Acknowledged => stack'[Len(stack')].name \notin {"NULL", "kpanic"}]_vars

\* What the kernel believes of the controllers is true: between two calls of
\* the driver g_curmask says what the chips mask, and outside the handlers
\* nothing is in service: every interrupt is ended on each controller that it
\* went through, no more and no less.
Settled == \A k \in DOMAIN stack : InstructionOf(stack[k]).op \in
             {"print", "printed", "hlt", "callback", "ret", "iret", "sti"}
ControllersAsBelieved ==
  /\ TypeOK
  /\ Settled => \A c \in Chips : chips[c].imr = MaskByte(g_curmask, c)
  /\ ~Running("pit_handler") /\ ~Running("irq8_handler") /\ ~Running("kpanic")
       => \A c \in Chips : chips[c].isr = {}

\* The terminal is never entered while it is printing: neither by the timer
\* during boot nor by a handler that interrupts another one.  (kpanic, which
\* prints with interrupts on, is past caring.)
PrintNotReentered ==
  Cardinality({k \in DOMAIN stack : InstructionOf(stack[k]).op = "printed"})
    > 1 => Running("kpanic")

\* Once the processor has halted in kpanic nothing runs any more.
PanicIsFinal == [][Top.name = "kpanic" /\ At("hlt") => UNCHANGED stack]_vars

\* After boot the timer ticks for ever, unless the kernel panics: no tick
\* leaves the controller or the processor unable to take the next one.
TicksKeepComing == []<>(Top.name = "tick") \/ <>(Top.name = "kpanic")

=============================================================================
