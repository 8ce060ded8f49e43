SPECIFICATION MCSpec
CONSTANTS
  c1 = c1
  c2 = c2
  g1 = g1
  inv = inv
  pay1 = pay1
  pay2 = pay2
  w1 = w1
  w2 = w2
  l1 = l1
  l2 = l2
  Clerk = {c1, c2}
  Page = {g1}
  Invoice = {inv}
  Payment = {pay1, pay2}
  InvoiceOf <- MCInvoiceOf
  Total <- MCTotal
  Amount = {1}
  NoPayment = NoPayment
  NoInvoice = NoInvoice
  Worker = {w1, w2}
  Log = {l1, l2}
  NoLog = NoLog
  NoDoc = NoDoc
  MAX_ACCOUNTING_ATTEMPTS = 2
  JobAttempts = 1
  MaxStalled = 1
  Faults = {"rejected", "answer", "database", "worker", "queue", "inactive"}
SYMMETRY Symmetry
INVARIANTS
  StatusIsEarned
  FullyPaidIsPaid
  PaymentAfterInvoice
  SyncedIsPushed
  PushedOnce
  DeadLetterEarned
CHECK_DEADLOCK FALSE
