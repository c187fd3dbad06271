SPECIFICATION AllSpec
CONSTANTS
  ann = ann   bob = bob   cid = cid   NoOne = NoOne
  Senders = {ann, bob}
  Frames <- SomeFrames
  Transfers <- SomeTransfers
  Readings = {1, 2}
  NaN = 0
  kBatch = 1
  RingSlots = 1
  ReplySlots = 1
  kProven = 1
  kSeen = 1
  kCommandBurst = 1
  kCommandRefill = 2
  kCommandCooldown = 1
  kMaxPositions = 1
  MaxThrows = 1
  Heard <- SomeHeard
  kMax = 1
  MAX_NEIGHBORS = 2
  MaxFaults = 1
  W = 16
  Intervals = {2, 4}
  Spread = 1
  BootDelay = 1
  PeerDelay = 1
  MaxOff = 3
  LastPeer = 4
  MaxBoots = 1
  MaxErased = 1
  n1 = n1   n2 = n2   c1 = c1
  NoCard = NoCard   NoTree = NoTree   NoMarker = NoMarker   Unreadable = Unreadable
  kStack = 2
  Letters = {1, 2, 3}
  Writer <- SomeWriter
  InboxSlots = 3
  QueueCap = 2
  RecentMax = 2
  Burst = 2
  MaxSeq = 5
  MaxLosses = 2
  Contexts <- Nodes
  Watched = {"rx"}
  Long = 1
  PageTimeout = 1
  Sleep = 1
  RestEvery = 3
  TurnedEvery = 2
  Bright = 80
  Profile = 0
  Floor = 5
  FullEvery = 2
  Oldest = 5
INVARIANTS    NothingBuried ReadsTrue  
PROPERTY OthersLeftAlone
CHECK_DEADLOCK FALSE
