SPECIFICATION FairSpec
CONSTANTS
  Msgs = {m1, m2}
  Workers = {w1}
  None = None
  Orphan = Orphan
  Hooks = FALSE
  Started = TRUE
  Budget <- RecoveryBudget
PROPERTIES
  QueueDrains
  StopsSettle
