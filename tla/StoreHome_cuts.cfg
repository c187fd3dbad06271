\* One node, a legacy card, power cuts and failing copies; a queued move is settled.
SPECIFICATION FairSpec
CONSTANTS
  NoCard = NoCard   NoTree = NoTree   NoMarker = NoMarker   Unreadable = Unreadable
  Node = {n1}
  Card = {c1}
  Name = {"alpha", "beta"}
  LegacyCards = {c1}
  Faults = {"cut", "fsFail"}
  MaxWrites = 2
  MaxCuts = 2
  MaxRenames = 1
INVARIANTS TypeOK FormatSparesTheStore StoreKept
PROPERTY QueuedMoveSettles
