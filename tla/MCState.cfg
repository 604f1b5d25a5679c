SPECIFICATION PartSpec
CONSTANTS
  Parts = {"blobs", "sweeping", "failing", "opening", "answering", "secrets", "quota", "roles"}
  Keys = {k1}
  Permits = {p1, p2}
  Procs = {x1, x2}
  x1 = x1
  x2 = x2
  x3 = x3
  Grace = 1
  MaxEpoch = 4
  MaxTime = 2
  None = None
  r1 = r1
  r2 = r2
  r3 = r3
  i1 = i1
  i2 = i2
  k1 = k1
  k2 = k2
  t = t
  s = s
  member = member
  boss = boss
  chief = chief
INVARIANTS BlobsKept ArtifactsKept SecretsGuarded QuotaExact
PROPERTY StateRules
CHECK_DEADLOCK FALSE
SYMMETRY Symmetry
