SPECIFICATION MCSpec
CONSTANTS
  c1 = c1
  c2 = c2
  so1 = so1
  desk = desk
  lamp = lamp
  near = near
  single = single
  Clerk = {c1, c2}
  Duty <- MCDuty
  Order = {so1}
  Product = {desk, lamp}
  Item = {near, single}
  Ordered <- MCOrdered
  OrderOf <- MCOrderOf
  ProductOf <- MCProductOf
  QuantityOf <- MCQuantityOf
  MaxShipments = 2
INVARIANTS
  TypeOK
  ReservationsMatchBalance
  ShippedWithinOrder
  UnshippedIsReserved
  ShippedInFull
CHECK_DEADLOCK FALSE
