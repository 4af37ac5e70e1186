SPECIFICATION Spec
CONSTANTS
  Threads = {t1, t2}
  Envs = {e1, e2}
  Paths = {p1, p2}
  None = None
  Adopts = FALSE
  Lasting = {}
  MaxStarts <- TwoStarts
  Limit <- FaultLimit
CHECK_DEADLOCK FALSE
SYMMETRY Symmetry
INVARIANTS
  OldAttemptsAreDead
PROPERTIES
  WorkspacesServeTurns
  ClaimOutlivesWorkspace
