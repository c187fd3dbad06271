\* The screens of the touch panel, two peers: a thread under another thread of the same screen.
SPECIFICATION Spec
CONSTANTS
  Peers = {p1, p2}
  None = None
  kStack = 4
INVARIANT AnswersGoToThem
CHECK_DEADLOCK FALSE
