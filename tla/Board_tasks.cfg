SPECIFICATION AllSpec
CONSTANTS
  a = a
  b = b
  Caller <- TwoCallers
  Board <- AllBoards
  Delay <- Delays
  Wake <- NearWrap
  W = 32
  AckFloor = 2
  Lag = 1
  Slots = 1
  Patience = 2
INVARIANT MadeAsTold
PROPERTIES PlanFires SounderTrue SlotWatched
CHECK_DEADLOCK FALSE
