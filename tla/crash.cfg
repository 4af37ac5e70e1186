SPECIFICATION Spec
CONSTANTS
  Msgs = {m1, m2}
  Workers = {w1, w2}
  None = None
  Orphan = Orphan
  Hooks = FALSE
  Started = FALSE
  Budget <- CrashBudget
SYMMETRY Symmetry
INVARIANTS
  InlineHeld
  ArchivedNeverRuns
PROPERTIES
  Promise
  StopHolds
