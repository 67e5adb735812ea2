SPECIFICATION ReadingSpec
CONSTANTS
  h1 = h1
  c1 = c1
  s1 = s1
  s2 = s2
  s3 = s3
  None = None
  NoReply = NoReply
  Reversed = Reversed
  SignificantDigits = 2
  ChargeId = {c1}
  Msisdn <- Phones
  Handler = {h1}
  Sms = {s1, s2, s3}
  Txn <- Txns
  Readings <- ReadAs
  ChargeReq <- Requests
  InvoiceId = {}
  InvoiceAmount <- NoInvoices
  MaxFaults = 1
  Message <- Messages
  Chain <- Providers
  Replies <- AiReplies
INVARIANTS
  ReadingTypeOK
  AnswersAreTrue
  RecordedAsSent
  DriftLogIsComplete
PROPERTIES
  ReadingImplementsSettlement
  EveryDeliveryEnds
