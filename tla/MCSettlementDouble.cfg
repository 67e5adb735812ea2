SPECIFICATION Spec
CONSTANTS
  h1 = h1
  h2 = h2
  c1 = c1
  c2 = c2
  i1 = i1
  s1 = s1
  s2 = s2
  s3 = s3
  None = None
  SignificantDigits = 2
  ChargeId = {c1}
  Msisdn <- Phones
  Handler = {h1, h2}
  Sms = {s1, s2}
  Txn <- AllTxns
  Readings <- RegexReadings
  ChargeReq <- OneRequest
  InvoiceId = {}
  InvoiceAmount <- Invoices5
  MaxFaults = 0
INVARIANTS
  SettledOnce
