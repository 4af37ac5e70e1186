SPECIFICATION Spec
CONSTANTS
  Msgs = {m1, m2, m3}
  Workers = {w1, w2}
  None = None
  Orphan = Orphan
  Hooks = FALSE
  Started = TRUE
  Budget <- QueueBudget
SYMMETRY Symmetry
INVARIANTS
  TypeOK
  SentOnce
  ClaimsHaveOwners
PROPERTIES
  PauseHolds
