SPECIFICATION Spec
CONSTANTS
  None = None
  l1 = l1
  o1 = o1
  o2 = o2
  o3 = o3
  Link = {l1}
  LinkReq <- OneUse
  Opener = {o1}
  Offer <- NoOffer
  MaxOpens = 3
CHECK_DEADLOCK FALSE
INVARIANTS
  CapRespected
