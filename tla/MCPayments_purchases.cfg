CONSTANTS
  q1 = q1  w1 = w1  w2 = w2  worker = worker
  Configs = {1, 2}
  PlanOf <- PaidThenFree
  Processes = {w1, w2, worker}
  Questionnaires = {q1}
  Payments = {1, 2}
  Sessions = {1, 2}
  Web = {w1, w2}
  Prices = 2
  Environments <- OneHazard
SPECIFICATION FairSpec
INVARIANTS TypeOK FirstBatchOnce CompletedIsPaid PricesAdvance ExpertsGranted
PROPERTIES CompletedStays PaidIsRecorded CachesCatchUp
CHECK_DEADLOCK FALSE
