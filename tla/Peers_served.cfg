\* Two clients under one name, two peers for one slot, a queue for two events, memory that fails.
SPECIFICATION FewSpec
CONSTANTS
  c1 = c1
  c2 = c2
  a1 = a1
  a2 = a2
  Tcp <- TwoTcp
  AutoPeer <- TwoAuto
  NameOf <- CutNames
  MaxClients = 1
  MaxPeers = 1
  EventRoom = 2
  RingRoom = 1
  Batch = 1
  Faults <- Memory
INVARIANTS TypeOK PeersTrue
PROPERTY Served
CHECK_DEADLOCK FALSE
