SPECIFICATION Spec
CONSTANTS
  desk = desk
  lamp = lamp
  Api = {a1, a2}
  Web = {w1}
  Run = {r1, r2}
  Key = {desk, lamp}
  Stocked <- MCStocked
  Opening <- MCOpening
  Quantity = {1}
SYMMETRY Symmetry
INVARIANTS
  SettledRowsAgree
  AvailableExcludesReserved
CHECK_DEADLOCK FALSE
