\* Two cores that work on page maps of their own, and on the kernel's half in turns.
SPECIFICATION Spec
CONSTANTS
  Cores = {c1, c2}
  Frames = {1, 2, 3, 4, 5, 6, 7, 8, 9, 10, 11, 12, 13}
  Data = {20}
  Index = {0, 1}
  KernelIndex = {1}
  KernelTop = {1}
  Virt <- BothHalves
  Accessed <- NoPages
  Modes = {TRUE}
  MaxMaps = 2
  LowestFirst = TRUE
SYMMETRY CoreSymmetry
INVARIANTS
  TablesNotFree TablesFormAForest
PROPERTY ImplementsAddressSpaces
