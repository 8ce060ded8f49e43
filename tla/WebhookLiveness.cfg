SPECIFICATION FairSpec
CONSTANTS
  created = created
  updated = updated
  product = product
  ord = ord
  r1 = r1
  r2 = r2
  w1 = w1
  w2 = w2
  Event = {created, updated, product}
  Order = {ord}
  NoOrder = NoOrder
  OrderOf <- MCOrderOf
  Request = {r1}
  Worker = {w1, w2}
  NoEvent = NoEvent
  NoJob = NoJob
  MAX_WEBHOOK_ATTEMPTS = 2
  JobAttempts = 2
  MaxStalled = 1
  MaxReplays = 1
  Faults = {"restart"}
PROPERTIES
  StoredIsSettled
  ImportIsAnnounced
CHECK_DEADLOCK FALSE
