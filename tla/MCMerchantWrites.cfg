SPECIFICATION Spec
SYMMETRY AnyRequest
CONSTANTS
  r1 = r1
  r2 = r2
  r3 = r3
  k1 = k1
  k2 = k2
  live = live
  test = test
  manual = manual
  b1 = b1
  b2 = b2
  All = All
  None = None
  Requests <- ThreeRequests
  Keys <- TwoKeys
  Payments <- ThreePayments
  Sandbox <- TheTest
  Manual <- TheManual
  Bodies <- TwoBodies
  Worth = 3
  Asks <- ManyAsks
  Pool = 2
  MaxFails = 1
INVARIANTS
  TypeOK
  ReversedOncePerKey
  RefundsWithinPayment
  AnsweredAsStored
  SomebodyMoves
PROPERTIES
  KeepsPromise
CHECK_DEADLOCK FALSE
