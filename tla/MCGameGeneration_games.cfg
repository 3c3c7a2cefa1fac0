CONSTANTS
  a1 = a1  a2 = a2  b1 = b1  b2 = b2  b3 = b3  q1 = q1  q2 = q2  q3 = q3  q4 = q4  t1 = t1  t2 = t2
  Results = {a1, a2, b1, b2, b3}
  Questionnaires = {q1, q2, q3, q4}
  QuestionnaireOf <- Owners
  Level <- Levels
  Configs <- TwoConfigs
  NumberOfOptions = 2
  LastDate = 3
  Threshold = 2
  Increment = 1
  MaxAttempts = 3
  Tasks = {t1, t2}
  Environments <- OneHazard
SPECIFICATION FairSpec
INVARIANTS TypeOK NoReuse UsageCounted GamesWellFormed
PROPERTIES GameOrAlert
CHECK_DEADLOCK FALSE
