SPECIFICATION Spec
CONSTANTS
  h1 = h1
  h2 = h2
  c1 = c1
  c2 = c2
  i1 = i1
  s1 = s1
  s2 = s2
  s3 = s3
  None = None
  SignificantDigits = 2
  ChargeId = {c1, c2}
  Msisdn <- Phones
  Handler = {h1, h2}
  Sms = {s1, s2, s3}
  Txn <- AllTxns
  Readings <- RegexReadings
  ChargeReq <- Requests
  InvoiceId = {i1}
  InvoiceAmount <- Invoices5
  MaxFaults = 1
SYMMETRY Symmetry
INVARIANTS
  TypeOK
  OnePostingPerEvent
  PaidIsPosted
  PaidInvoiceWasCollected
  SettledUnlessInterrupted
  OverSettlementBounded
  Consistent
  BooksReconcile
PROPERTIES
  NeverGuesses
