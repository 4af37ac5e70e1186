SPECIFICATION FairSpec
CONSTANTS
  Msgs = {m1, m2}
  Workers = {w1}
  None = None
  Orphan = Orphan
  Hooks = TRUE
  Started = FALSE
  Budget <- FirstBudget
PROPERTIES
  InteractionWaitEnds
  ProvisioningWaitEnds
