CONSTANTS
  w1 = w1  w2 = w2
  Web = {w1, w2}
  LastDoc = 4
  Places = 3
  MaxRetries <- Retries
  Environments <- OneHazard
SPECIFICATION FairSpec
INVARIANTS FamilyKept UserRowKept
PROPERTIES CustomersRecorded
CHECK_DEADLOCK FALSE
