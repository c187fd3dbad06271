SPECIFICATION AllSpec
CONSTANTS
  m1 = m1   m2 = m2   m3 = m3   ann = ann   bob = bob
  Msg <- Messages
  Dest <- Peers
  To <- ToOf
  Telemetry = {}
  Depth = 1
  Rows = 4
  WaitMax = 1
  AskEvery = 2
  Collide = FALSE
  MaxThrows = 1
 
PROPERTIES  ListFollows
CHECK_DEADLOCK FALSE
