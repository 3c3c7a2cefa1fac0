CONSTANTS
  o1 = o1  o2 = o2  e1 = e1  e2 = e2
  Batches = {1, 2, 3}
  Orders = {o1, o2}
  Events = {e1, e2}
  OrderOf <- OwnEvents
  Plans = {"paid"}
  Concurrency = 1
  MaxExperts = 0
  MaxCrashes = 0
SPECIFICATION Spec
INVARIANTS BoughtAsPaid
CHECK_DEADLOCK FALSE
