SPECIFICATION FairSpec
CONSTANTS
  Threads = {t1}
  Envs = {e1, e2}
  Paths = {p1}
  None = None
  Adopts = FALSE
  Lasting = {}
  MaxStarts <- TwoStarts
  Limit <- BackLimit
CHECK_DEADLOCK FALSE
PROPERTIES
  StartsSettle
