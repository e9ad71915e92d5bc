SPECIFICATION FairSpec
CONSTANTS
  i1 = i1
  i2 = i2
  a1 = a1
  a2 = a2
  m1 = m1
  m2 = m2
  r1 = r1
  r2 = r2
  w1 = w1
  w2 = w2
  None = None
  Intents <- OneIntent
  TestIntents <- NoIntents
  Attempts <- OneAttempt
  Msgs <- OneMsg
  Requests <- OneRequest
  Workers <- OneWorker
  Cap = 1
  MaxFails = 1
PROPERTIES
  SubmitWindowRecovered
CHECK_DEADLOCK FALSE
