\* Liveness: a requested abort ends the turn; a reader that reconnects catches up.
SPECIFICATION FairPartSpec
CONSTANTS
  Parts = {"aborting", "reading"}
  t1 = t1
  t2 = t2
  t3 = t3
  e1 = e1
  e2 = e2
  r1 = r1
  r2 = r2
  r3 = r3
  k1 = k1
  k2 = k2
  c1 = c1
  c2 = c2
  d1 = d1
  d2 = d2
  authorization = authorization
  Turns = {t1, t2}
  Effects = {e1, e2}
  Revisions = {r1}
  FirstRevision = r1
  Keys = {}
  Kinds = {placement}
  Policies = {"safe", "never", "confirm"}
  Services = {"tool"}
  MaxTime = 2
  MaxGeneration = 1
  Capacity = 11
  None = None
PROPERTIES AbortEndsTurn 
CHECK_DEADLOCK FALSE
