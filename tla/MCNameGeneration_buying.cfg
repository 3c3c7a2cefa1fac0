CONSTANTS
  n1 = n1  n2 = n2  n3 = n3  n4 = n4  n5 = n5
  single = single  coined = coined  double = double
  f = f  m = m  e = e
  Names = {n1, n2, n3, n4}
  Related = {}
  Pathways = {single, coined, double}
  Enabled = {single, coined, double}
  Level <- MCLevel
  PerBatch <- WidePerBatch
  Yield <- WideYield
  Capped = {}
  BatchSize = 1
  AllowedFailureThreshold = 100
  Requests = {f, m}
  Origin <- MCOrigin
  Batches = {1, 2, 3}
  NoName = NoName  NoBatch = NoBatch
  Concurrency = 2
  MaxCrashes = 1
SPECIFICATION FairSpec
INVARIANTS TypeOK OneChainNamesOnce NoBatchLeftEmpty RequestsServed StopsOnlyWhenExhausted
PROPERTIES DeliveredStays Settles
CHECK_DEADLOCK FALSE
