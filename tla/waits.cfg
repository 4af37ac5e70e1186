SPECIFICATION Spec
CONSTANTS
  Msgs = {m1, m2}
  Workers = {w1, w2}
  None = None
  Orphan = Orphan
  Hooks = FALSE
  Started = TRUE
  Budget <- WaitBudget
SYMMETRY Symmetry
INVARIANTS
  InteractionWakes
  HostWakes
PROPERTIES
  NoCompetingTurn
  FirstInFirstOut
