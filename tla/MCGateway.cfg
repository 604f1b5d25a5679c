SPECIFICATION PartSpec
CONSTANTS
  Parts = {"machine", "never", "confirm", "serving", "model", "takeover"}
  x1 = x1
  x2 = x2
  x3 = x3
  y1 = y1
  y2 = y2
  sample = sample
  elicit = elicit
  roots = roots
  Coordinators = {x1, x2}
  Keys = {y1, y2}
  Policies = {"safe"}
  MaxOther = 1
  MaxAttempts = 2
  MaxGeneration = 2
  None = None
INVARIANTS  ModelSound
PROPERTY GatewayImplementsMachine
CHECK_DEADLOCK FALSE
SYMMETRY Symmetry
