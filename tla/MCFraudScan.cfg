SPECIFICATION ScanSpec
CONSTANTS
  h1 = h1
  h2 = h2
  c1 = c1
  c2 = c2
  i1 = i1
  s1 = s1
  s2 = s2
  s3 = s3
  None = None
  Multiple = 1
  MinSample = 1
  SignificantDigits = 2
  ChargeId = {c1, c2}
  Msisdn <- Phones
  Handler = {h1}
  Sms = {s1, s2, s3}
  Txn <- ScanTxns
  Readings <- ScanReadings
  ChargeReq <- ScanRequests
  InvoiceId = {}
  InvoiceAmount <- Invoices5
  MaxFaults = 1
SYMMETRY Symmetry
INVARIANTS
  ScanTypeOK
  ScanIsExact
  OutliersNeedHistory
