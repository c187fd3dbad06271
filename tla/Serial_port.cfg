SPECIFICATION AllSpec
CONSTANTS
  Frames <- SomeFrames
  Mtu = 3
  Cap = 4
  SlotCap = 3
  Bauds = {1, 2}
  Usable = {1}
  Retries = TRUE
PROPERTIES QueueIsServed Resynchronises NothingTypedIsLost PortShared LinksConclude
CHECK_DEADLOCK FALSE
