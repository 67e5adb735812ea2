SPECIFICATION HostedSpec
CONSTANTS
  h1 = h1
  h2 = h2
  c1 = c1
  c2 = c2
  i1 = i1
  s1 = s1
  s2 = s2
  s3 = s3
  p1 = p1
  None = None
  Gateway = {"bkash"}
  Claim = {"made up"}
  Poller = {p1}
  SignificantDigits = 2
  ChargeId = {c1, c2}
  Msisdn <- Phones
  Handler = {h1}
  Sms = {s1, s2}
  Txn <- BothTxns
  Readings <- RegexReadings
  ChargeReq <- CheckoutRequests
  InvoiceId = {i1}
  InvoiceAmount <- Invoices5
  MaxFaults = 1
SYMMETRY Symmetry
INVARIANTS
  CompletedIsVerified
  CompletedIsFinal
  SequentialIsExact
PROPERTIES
  CustomersCannotSettle
