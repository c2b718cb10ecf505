\* Two cores, two sizes of blocks, two runs that hold three small blocks each.
SPECIFICATION Spec
CONSTANTS
  Cores = {c1, c2}
  Requests = {1, 3}
  Bases = {101, 202}
  PageSize = 8
  PageCount = 3
  MajorHeader = 2
  MinorHeader = 2
  ALIGNMENT = 2
  ALIGN_INFO = 2
  MaxBlocks = 3
SYMMETRY CoreSymmetry
INVARIANTS
  BlocksApart UsageExact RunsListed ContentsKept
CHECK_DEADLOCK FALSE
