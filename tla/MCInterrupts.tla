---------------------------- MODULE MCInterrupts ----------------------------
(* Instances of Interrupts for TLC: the calls a later driver may add.       *)
EXTENDS Interrupts

\* Stops and restarts the timer, tries to take over an exception, then serves
\* a line of the second controller.
TwoDrivers ==
  pic_mask(0) \o pic_unmask(0)
  \o << Register(PageFault, "irq8_handler") >>
  \o << Register(IDT_IRQ_BASE + 8, "irq8_handler") >>
  \o pic_unmask(8) \o pic_unmask(Cascade)
=============================================================================
