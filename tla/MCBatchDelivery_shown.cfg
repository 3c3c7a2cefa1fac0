CONSTANTS
  o1 = o1  o2 = o2  e1 = e1  e2 = e2
  Batches = {1, 2}
  Orders = {o1}
  Events = {e1}
  OrderOf <- OneEvent
  Plans = {"FREE"}
  Concurrency = 2
  MaxExperts = 1
  MaxCrashes = 0
SPECIFICATION FairSpec
INVARIANTS TypeOK
PROPERTIES DelegatedIsShown SettledIsKept
CHECK_DEADLOCK FALSE
