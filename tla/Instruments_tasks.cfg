SPECIFICATION AllSpec
CONSTANTS
  kDetentsPerKey = 2
  MaxRolls = 1
  MaxKeys = 2
  MaxTouches = 2
  MaxFaults = 1
  MaxBlanks = 1
PROPERTIES  ReadingsTrue  
CHECK_DEADLOCK FALSE
