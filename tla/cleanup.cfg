SPECIFICATION FairSpec
CONSTANTS
  Threads = {t1, t2}
  Envs = {e1, e2}
  Paths = {p1}
  None = None
  Adopts = FALSE
  Lasting = {e2}
  MaxStarts <- OneStart
  Limit <- FaultLimit
CHECK_DEADLOCK FALSE
PROPERTIES
  StartsSettle
  EmptyOnesGo
  StopsEnd
