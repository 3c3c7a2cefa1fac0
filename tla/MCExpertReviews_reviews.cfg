CONSTANTS
  n1 = n1  w1 = w1  w2 = w2
  Batches = {1, 2}
  Names = {n1}
  Web = {w1, w2}
  Environments <- OneHazard
SPECIFICATION FairSpec
INVARIANTS TypeOK OrderHonoured
PROPERTIES CompletedMeansReviewed OrderServed
CHECK_DEADLOCK FALSE
