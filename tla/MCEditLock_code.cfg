SPECIFICATION Spec
CONSTANTS
  Workers = {w1, w2}
  w1 = w1
  w2 = w2
  Nobody = Nobody
  Lease = 30
  RenewAfter = 32
  Patience = 33
  CommitFails = FALSE
SYMMETRY Symmetry
INVARIANTS OneWriter
