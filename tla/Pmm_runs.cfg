\* One core that asks for several pages at once, never for one, also where words
\* meet, and also releases pages which are free already.
SPECIFICATION Spec
CONSTANTS
  Cores = {c1}
  BitmapPages = 7
  WordSize = 4
  CacheSize = 2
  Usable = {1, 2, 3, 4, 5, 6}
  HhdmOffset = 8
  Wrap = 32
  Sizes = {2, 3}
  StrayPointers = {14}
  DoubleFrees = TRUE
INVARIANTS
  FreePagesExact
PROPERTIES
  FailsOnlyWithoutARun
