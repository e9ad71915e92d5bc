SPECIFICATION Spec
CONSTANTS
  e1 = e1
  p1 = p1
  d1 = d1
  c1 = c1
  c2 = c2
  w1 = w1
  w2 = w2
  q1 = q1
  None = None
  Events <- OneEvent
  Endpoints <- OneEndpoint
  Manual <- NoManual
  Consumers <- OneConsumer
  Sweepers <- TwoSweepers
  Operators <- NoOperators
  MaxAttempts = 2
  MaxHandled = 2
  MaxFails = 1
SYMMETRY Symmetry
INVARIANTS
  ClaimIsExclusive
CHECK_DEADLOCK FALSE
