SPECIFICATION Spec
CONSTANTS
  t1 = t1
  t2 = t2
  t3 = t3
  desk = desk
  lamp = lamp
  main = main
  shop = shop
  so1 = so1
  so2 = so2
  po1 = po1
  ret1 = ret1
  cnt1 = cnt1
  Tx = {t1, t2}
  Free = Free
  NoDoc = NoDoc
  Product <- MCProduct
  Warehouse <- MCOneWarehouse
  Sale = {so1}
  Purchase = {po1}
  Return = {ret1}
  Stocktake = {}
  Lines <- DocumentLines
  CountedAt <- NotCounted
  Opening <- MCOpening
  Quantity = {2}
INVARIANTS
  PostedOnce
CHECK_DEADLOCK FALSE
