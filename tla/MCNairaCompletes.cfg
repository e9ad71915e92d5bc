SPECIFICATION FairSpec
CONSTANTS
  s1 = s1
  w1 = w1
  w2 = w2
  h1 = h1
  h2 = h2
  t1 = t1
  t2 = t2
  None = None
  Settlements <- OneSettlement
  Workers <- OneWorker
  Hooks <- OneHook
  Timers <- OneTimer
  MaxFails = 0
PROPERTIES
  LandedNairaCompletes
CHECK_DEADLOCK FALSE
