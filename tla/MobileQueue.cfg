SPECIFICATION PhoneSpec
CONSTANTS
  r1 = r1  r2 = r2
  Replay = {r1, r2}
  Scripts <- MCScripts
  Ordered = 1
  Arriving = 2
  OnShelf = 2
  InBook = 3
  MaxOutages = 2
  MaxLosses = 1
SYMMETRY Symmetry
INVARIANTS QueueOrderKept NothingDropped BookIsShelf
CHECK_DEADLOCK FALSE
