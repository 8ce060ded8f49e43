SPECIFICATION MCSpec
CONSTANTS
  Action = {1, 2}
  Keyed = {1}
  Run = {r1, r2}
  Call = {c1, c2}
  NoAction = NoAction
  NoRun = NoRun
  MaxApplied = 2
  Faults = {"offline", "network", "answer", "server", "refusal", "close", "expiry"}
SYMMETRY Symmetry
CONSTRAINT Bounded
INVARIANTS
  NothingSilentlyLost
  KeyImpliesApplied
  AppliedOnce
CHECK_DEADLOCK FALSE
