SPECIFICATION Spec
CONSTANTS
  Threads = {t1, t2}
  Envs = {e1, e2}
  Paths = {p1, p2}
  None = None
  Adopts = TRUE
  Lasting = {}
  MaxStarts <- OneStart
  Limit <- EveryLimit
CHECK_DEADLOCK FALSE
SYMMETRY Symmetry
INVARIANTS
  TypeOK
  OneOwner
  ClaimsAreExclusive
  OneRowPerPath
  ReservationsAreWanted
  NothingLeaks
PROPERTIES
  NobodyIsEvicted
