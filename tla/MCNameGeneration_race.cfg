CONSTANTS
  n1 = n1  n2 = n2  n3 = n3  n4 = n4  n5 = n5
  single = single  coined = coined  double = double
  f = f  m = m  e = e
  Names = {n1, n2, n3}
  Related = {}
  Pathways = {single, coined}
  Enabled = {single, coined}
  Level <- FlatLevel
  PerBatch <- SmallPerBatch
  Yield <- SmallYield
  Capped = {}
  BatchSize = 1
  AllowedFailureThreshold = 100
  Requests = {f, m}
  Origin <- MCOrigin
  Batches = {1, 2, 3}
  NoName = NoName  NoBatch = NoBatch
  Concurrency = 2
  MaxCrashes = 0
SPECIFICATION Spec
INVARIANTS NamesOnce
CHECK_DEADLOCK FALSE
