\* Two blocks that do not fit into one run of pages.
SPECIFICATION HeapSpec
CONSTANTS
  Cores = {c1}
  Requests = {9}
  Bases = {}
  PageSize = 8
  PageCount = 3
  MajorHeader = 2
  MinorHeader = 2
  ALIGNMENT = 2
  ALIGN_INFO = 2
  MaxBlocks = 3
  FrameCount = 12
  MaxPage = 6
INVARIANT RunsApart
CHECK_DEADLOCK FALSE
