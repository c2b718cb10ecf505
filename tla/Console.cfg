CONSTANTS
  cols = 4
  rows = 3
  FLANTERM_MAX_ESC_VALUES = 3
  ValueWrap = 64
  Messages <- MCMessages
  PanicTexts <- MCPanic
  MaxWrites = 3
  MaxPanic = 2
SPECIFICATION Spec
INVARIANTS
  QueueSound
  FramebufferShowsGrid
  ContextSound
  PanicShown
PROPERTIES
  ActsAsScreen
  EditsAsDocumented
  KeepsToRegion
  ColoursFollowVideo
CHECK_DEADLOCK FALSE
