SPECIFICATION PartSpec
CONSTANTS
  Parts = {"celld journal"}
  x1 = x1
  x2 = x2
  x3 = x3
  y1 = y1
  y2 = y2
  s1 = s1
  read = read
  alice = alice
  right = right
  dummy = dummy
  k1 = k1
  i1 = i1
  Turns = {t1, t2}
  Keys = {k1}
  Digests = {y1, y2}
  Operations = {x1, x2, x3}
  Callers = {c1}
  Readers = {r1}
  MaxReplay = 1
  QueueSize = 1
  MaxGeneration = 2
  MaxEphemeral = 1
  MaxFailures = 1
  None = None
INVARIANT RetryAnswered
CHECK_DEADLOCK FALSE
SYMMETRY Symmetry
