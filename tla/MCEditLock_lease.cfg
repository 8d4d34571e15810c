SPECIFICATION FairSpec
CONSTANTS
  Workers = {w1, w2, w3}
  w1 = w1
  w2 = w2
  w3 = w3
  Nobody = Nobody
  Lease = 1
  RenewAfter = 2
  Patience = 2
  CommitFails = TRUE
INVARIANTS TypeOK ExclusiveUntilTheft
PROPERTIES TheftNeedsSilence LockableAgain
