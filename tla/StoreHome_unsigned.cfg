\* Two nodes, a card, a power cut: a store on a card that was not signed yet is taken by the other node.
SPECIFICATION Spec
CONSTANTS
  NoCard = NoCard   NoTree = NoTree   NoMarker = NoMarker   Unreadable = Unreadable
  Node = {n1, n2}
  Card = {c1}
  Name = {"alpha", "beta"}
  LegacyCards = {}
  Faults = {"cut"}
  MaxWrites = 1
  MaxCuts = 1
  MaxRenames = 0
INVARIANT OwnStoreOnly
