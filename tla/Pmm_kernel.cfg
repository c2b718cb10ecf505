\* The callers the kernel has: every request and release is for one page.
SPECIFICATION FairSpec
CONSTANTS
  Cores = {c1, c2}
  BitmapPages = 6
  WordSize = 4
  CacheSize = 2
  Usable = {2, 3, 4, 5}
  HhdmOffset = 8
  Wrap = 16
  Sizes = {0, 1}
  StrayPointers = {6}
  DoubleFrees = FALSE
INVARIANTS
  TypeOK NoDoubleAllocation NoPageLost FreePagesExact CacheSound
PROPERTIES
  ImplementsPageAllocator SomeCoreGetsIn
