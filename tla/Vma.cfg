\* Callers that free the latest allocation first, and calls that run out of
\* pages half way.
SPECIFICATION Spec
CONSTANTS
  FrameCount = 8
  PageSize = 4
  Sizes = {1, 2, 3}
  MaxPage = 8
  Order = "lifo"
  Shortage = "data"
INVARIANTS
  PagesHaveOneUse OwnedIsLinked
PROPERTY FreedIsUnmapped
CHECK_DEADLOCK FALSE
