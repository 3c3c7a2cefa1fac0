CONSTANTS
  o1 = o1  o2 = o2  e1 = e1  e2 = e2
  Batches = {1, 2, 3}
  Orders = {o1}
  Events = {e1}
  OrderOf <- OneEvent
  Plans = {"paid"}
  Concurrency = 1
  MaxExperts = 0
  MaxCrashes = 1
SPECIFICATION Spec
INVARIANTS BoughtWithinPaid ReadyMailOnce FirstBatchServed
PROPERTIES FirstBatchRationaled
CHECK_DEADLOCK FALSE
