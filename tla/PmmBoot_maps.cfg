\* All maps of up to two entries beside the kernel's; a page of bitmap tracks
\* four pages, a table eight, and 4 GiB are seven pages.
SPECIFICATION BootSpec
CONSTANTS
  Maps <- MCMaps
  BitsPerByte = 2
  PageBytes = 2
  Levels = 2
  Radix = 8
  hhdm_offset = 16
  virtual_base = 56
  Requests = 1
  Text = 1
  Rodata = 1
  Data = 1
  Stack = 1
  FourGiB = 7
  MaxPages = 11
  MaxEntries = 2
  Places = {1, 6, 11}
INVARIANTS
  CoversUnlessJustPast PmmStartsSound SwitchLosesNothing ProtectionAsMeant
CHECK_DEADLOCK FALSE
