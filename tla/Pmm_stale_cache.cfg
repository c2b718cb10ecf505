\* One core that asks for single pages and for pairs.
SPECIFICATION Spec
CONSTANTS
  Cores = {c1}
  BitmapPages = 4
  WordSize = 4
  CacheSize = 2
  Usable = {1, 2, 3}
  HhdmOffset = 8
  Wrap = 16
  Sizes = {1, 2}
  StrayPointers = {}
  DoubleFrees = FALSE
INVARIANT NoDoubleAllocation
