SPECIFICATION Spec
CONSTANTS
  r1 = r1
  r2 = r2
  r3 = r3
  k1 = k1
  k2 = k2
  live = live
  test = test
  manual = manual
  b1 = b1
  b2 = b2
  All = All
  None = None
  Requests <- TwoRequests
  Keys <- TwoKeys
  Payments <- OnePayment
  Sandbox = {}
  Manual = {}
  Bodies = {}
  Worth = 3
  Asks <- OneAsk
  Pool = 2
  MaxFails = 1
PROPERTIES
  RetryReturnsTheRefund
CHECK_DEADLOCK FALSE
