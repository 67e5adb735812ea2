SPECIFICATION Spec
CONSTANTS
  None = None
  l1 = l1
  o1 = o1
  o2 = o2
  o3 = o3
  Link = {l1}
  LinkReq <- LinkRequests
  Opener = {o1, o2, o3}
  Offer <- Offers
  MaxOpens = 5
SYMMETRY Symmetry
CHECK_DEADLOCK FALSE
INVARIANTS
  UsesAccountedFor
  OverdraftBounded
