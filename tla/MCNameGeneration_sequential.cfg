CONSTANTS
  n1 = n1  n2 = n2  n3 = n3  n4 = n4  n5 = n5
  single = single  coined = coined  double = double
  f = f  m = m  e = e
  Names = {n1, n2, n3, n4, n5}
  Related = {{n1, n2}}
  Pathways = {single, coined, double}
  Enabled = {single, coined, double}
  Level <- MCLevel
  PerBatch <- MCPerBatch
  Yield <- MCYield
  Capped = {{coined}, {double}}
  BatchSize = 2
  AllowedFailureThreshold = 100
  Requests = {f, m, e}
  Origin <- MCOrigin
  Batches = {1, 2, 3}
  NoName = NoName  NoBatch = NoBatch
  Concurrency = 1
  MaxCrashes = 0
SPECIFICATION Spec
INVARIANTS NamesOnce PathwayNotDoubled BatchesWellFormed
PROPERTIES CascadeAdvances KeepsLedger
CHECK_DEADLOCK FALSE
