SPECIFICATION Spec
CONSTANTS
  d0 = d0
  d1 = d1
  p0 = p0
  p1 = p1
  k0 = k0
  k1 = k1
  a0 = a0
  a1 = a1
  r1 = r1
  r2 = r2
  None = None
  PhoneKeys <- Phones
  RecoveryKeys <- TwoRecoveryKeys
  EmailKeys <- TwoRecoveryKeys
  Limits <- TwoLimits
  FirstKey <- Provisioned
  Earlier <- OneKeyOrTwo
  Requests <- TwoRequests
  MaxIndex = 1
  MaxFails = 1
SYMMETRY Symmetry
INVARIANTS
  TypeOK
  ExecutedIsBacked
  OneColumnAtATime
PROPERTIES
  RotationsAreRejectedTruly
  KeepsPromise
CHECK_DEADLOCK FALSE
