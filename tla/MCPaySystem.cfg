SPECIFICATION PaySpec
CONSTANTS
  h1 = h1
  h2 = h2
  c1 = c1
  c2 = c2
  i1 = i1
  s1 = s1
  s2 = s2
  s3 = s3
  None = None
  MaxRows = 3
  MaxAttempts = 2
  BatchLimit = 1
  BackoffCap = 1
  MaxOverdue = 1
  SignificantDigits = 2
  ChargeId = {c1}
  Msisdn <- Phones
  Handler = {h1}
  Sms = {s1, s2, s3}
  Txn <- ThreeTransfers
  Readings <- RegexReadings
  ChargeReq <- OneRequest
  InvoiceId = {}
  InvoiceAmount <- Invoices5
  MaxFaults = 1
INVARIANTS
  CallsAreBacked
PROPERTIES
  FollowsLifecycle
  PaymentsAreReported
  QueuedIsConcluded
