SPECIFICATION PartSpec
CONSTANTS
  Parts = {"commit", "reacquire", "reauthorize", "queue"}
  i1 = i1
  i2 = i2
  i3 = i3
  l1 = l1
  l2 = l2
  l3 = l3
  t1 = t1
  Invocations = {i1, i2}
  LeaseIds = {l1, l2}
  TicketIds = {t1, t2}
  Attempts = {1, 2}
  Generations = {0}
  Authorizations = {0, 1}
  Projections = {1, 2}
  Ttls = {1}
  Holds = {2}
  Deadlines = {3}
  MaxTime = 3
  MaxRenewals = 1
  None = None
SYMMETRY Symmetry
INVARIANTS LeasesInOrder TicketsFenced CommitsSound
PROPERTY LeaseRules
CHECK_DEADLOCK FALSE
