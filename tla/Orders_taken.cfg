SPECIFICATION AllSpec
CONSTANTS
  ann = ann   bob = bob   c1 = c1   c2 = c2
  Senders <- TwoSenders
  Times <- TwoTimes
  Depth = 2
  Editors <- OneEditor
  Lists <- SomeLists
  Returns = FALSE
  Gaps = FALSE
  MaxEdits = 2
  MaxCuts = 2
  Retries = 2
  Supervised = {"rns", "loop", "card"}
  MaxFails = 2
  Requests <- All
  MaxAsks = 2
  MaxLosses = 1
  FlashRefuses = TRUE
  Updated = TRUE
 
PROPERTIES  OneProvedHand BootsTrue
CHECK_DEADLOCK FALSE
