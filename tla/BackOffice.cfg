SPECIFICATION Spec
CONSTANTS
  screw = screw  frame = frame  bike = bike
  main = main  annex = annex  ann = ann  bob = bob
  x1 = x1  x2 = x2  k1 = k1  k2 = k2  short = short
  so1 = so1  so2 = so2  so3 = so3  inv = inv  po = po  pox = pox  mo = mo  ret = ret  cn = cn  ra = ra  rb = rb
  Request = {ra, rb}
  Product = {screw, frame, bike}
  Warehouse = {main, annex}
  User = {ann, bob}
  Row = {x1, x2}
  Key = {k1, k2}
  Blank = short
  Invoice = {inv}
  InvoiceTotal <- MCInvoiceTotal
  SalesOrder = {so1, so2, so3}
  PurchaseOrder = {po, pox}
  ManufacturingOrder = {mo}
  SalesReturn = {ret}
  CreditNote = {cn}
  MaxRequests = 4
  Lines <- MCLines
  ReturnOf <- MCReturnOf
  Build <- MCBuild
  Opening <- MCOpening
  Menu <- MCMenu
  Starts <- MCStarts
SYMMETRY Symmetry
INVARIANTS TypeOK BooksBalance NeverOverdrawn SomebodyManages
PROPERTY LikeDemoStore
CHECK_DEADLOCK FALSE
