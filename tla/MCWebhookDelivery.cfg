SPECIFICATION Spec
CONSTANTS
  Delivery = {d1, d2, d3}
  MaxAttempts = 3
  BatchLimit = 2
  BackoffCap = 3
  MaxOverdue = 1
  MaxFaults = 1
SYMMETRY Symmetry
INVARIANTS
  TypeOK
  PostsAccountedFor
  ConclusionsAreTrue
PROPERTIES
  SendsOnlyWhenDue
  ConclusionsAreFinal
