SPECIFICATION FairSpec
CONSTANTS
  e1 = e1
  p1 = p1
  d1 = d1
  c1 = c1
  c2 = c2
  w1 = w1
  w2 = w2
  q1 = q1
  None = None
  Events <- OneEvent
  Endpoints <- OneEndpoint
  Manual <- OneManual
  Consumers <- TwoConsumers
  Sweepers <- OneSweeper
  Operators <- OneOperator
  MaxAttempts = 2
  MaxHandled = 1
  MaxFails = 1
INVARIANTS
  TypeOK
  ExhaustedWasTried
  DispatchedOnce
PROPERTIES
  KeepsPromise
  EveryDeliveryEnds
  EveryEventLeavesTheLog
CHECK_DEADLOCK FALSE
