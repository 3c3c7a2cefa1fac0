CONSTANTS
  q1 = q1  w1 = w1  w2 = w2  worker = worker
  Configs = {1}
  PlanOf <- PaidOnly
  Processes = {w1}
  Questionnaires = {q1}
  Payments = {1, 2}
  Sessions = {1, 2}
  Web = {w1}
  Prices = 2
  Environments <- NoHazard
SPECIFICATION Spec
INVARIANTS PaidHasPayment
CHECK_DEADLOCK FALSE
