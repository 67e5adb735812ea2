SPECIFICATION Spec
CONSTANTS
  t1 = t1
  t2 = t2
  k1 = k1
  d1 = d1
  None = None
  Task = {t1, t2}
  ApiKey = {k1}
  Device = {d1}
  Clients <- Scenarios
  Config <- Environments
  Lifetime = 1
  Width = 8
  MaxFaults = 2
INVARIANTS
  ApiTypeOK
  RevokedIsRefused
  AcceptedWasAllowed
  RefusedUnlessEmptied
  ErrorsAreExplained
  DraftsAddUp
PROPERTIES
  ChangesNeedALogin
