\* Boot, then drivers that mask and unmask lines, with devices that may be
\* active and exceptions that may happen at any time.
SPECIFICATION Spec
CONSTANTS
  Devices = {1, 8}
  Driver <- TwoDrivers
  MayFault = {"genoa_entry", "pit_handler", "tick"}
INVARIANTS
  ControllersAsBelieved PrintNotReentered
PROPERTIES
  EveryInterruptHasItsHandler PanicIsFinal TicksKeepComing
CHECK_DEADLOCK FALSE
