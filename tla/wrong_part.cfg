SPECIFICATION Spec
CONSTANTS
  None = None
  small = small
  w1 = w1
  Uploads = {u1}
  Assets = {a1}
  Blobs = {big}
  Size <- MCSize
  R2EnterThreshold = 3
  D1ReturnThreshold = 1
  Multiparts = {m1, m2}
  LeaseTime = 0
  UploadTtl = 1
  Workers = {w1, w2}
  Plans <- PutOnly
  Duty <- AnyDuty
  MaxTime = 0
  LastPrepare = 0
  MaxCrashes = 0
  GuardCrashes = TRUE
INVARIANT SealedPartsInv
CHECK_DEADLOCK FALSE
