SPECIFICATION FairSpec
CONSTANTS
  t1 = t1
  t2 = t2
  t3 = t3
  desk = desk
  lamp = lamp
  main = main
  shop = shop
  so1 = so1
  so2 = so2
  po1 = po1
  ret1 = ret1
  cnt1 = cnt1
  Tx = {t1, t2}
  Free = Free
  NoDoc = NoDoc
  Product <- MCProduct
  Warehouse <- MCWarehouse
  Sale = {so1, so2}
  Purchase = {po1}
  Return = {ret1}
  Stocktake = {cnt1}
  Lines <- SiteLines
  CountedAt <- MCCountedAt
  Opening <- TwoSites
  Quantity = {1, 2}
INVARIANTS
  LedgerMatchesBalance
  ReservationsMatchBalance
  NoNegativeStock
PROPERTIES
  ImplementsStockBook
  EveryTransactionEnds
CHECK_DEADLOCK FALSE
