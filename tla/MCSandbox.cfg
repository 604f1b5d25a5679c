SPECIFICATION PartSpec
CONSTANTS
  Parts = {"spawning", "controlling", "streams", "writers", "session", "stdin", "handshake", "pool", "pool faults", "pool stops", "provider", "failing", "launcher", "launcher 2", "instance", "selection", "plans"}
  x1 = x1
  x2 = x2
  x3 = x3
  y1 = y1
  y2 = y2
  Callers = {x1, x2, x3}
  Requests <- SpawnRequests
  Commands = {"build"}
  Terminations = {}
  MaxGeneration = 2
  MaxFailures = 1
  None = None
SYMMETRY Symmetry
INVARIANTS   PlansSound
PROPERTY SandboxRules
CHECK_DEADLOCK FALSE
