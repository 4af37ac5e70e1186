SPECIFICATION Spec
CONSTANTS
  Threads = {t1}
  Envs = {e1, e2}
  Paths = {p1}
  None = None
  Adopts = FALSE
  Lasting = {}
  MaxStarts <- OneStart
  Limit <- DropLimit
CHECK_DEADLOCK FALSE
PROPERTIES
  ClaimOutlivesWorkspace
