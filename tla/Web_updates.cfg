SPECIFICATION AllSpec
CONSTANTS
  c1 = c1   c2 = c2   t1 = t1
  NoOne = NoOne   NoFile = NoFile   NoImage = NoImage   Garbage = Garbage   NoVersion = NoVersion
  Client <- TwoClients
  Task <- OneTask
  Version <- ThreeVersions
  Faults <- AllButLate
  Impatient = FALSE
  Chunks = 2
  MaxCuts = 1
  MaxPosts = 2
INVARIANT BootsVerified
PROPERTIES UploadKept 
CHECK_DEADLOCK FALSE
