SPECIFICATION Spec
CONSTANTS
  Workers = {w1, w2, w3}
  w1 = w1
  w2 = w2
  w3 = w3
  Nobody = Nobody
  Lease = 3
  RenewAfter = 5
  Patience = 3
  CommitFails = FALSE
INVARIANTS OneEditor
PROPERTIES MutexSpec
