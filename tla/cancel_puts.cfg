SPECIFICATION Spec
CONSTANTS
  None = None
  small = small
  w1 = w1
  Uploads = {u1}
  Assets = {a1}
  Blobs = {big}
  Size <- MCSize
  R2EnterThreshold = 3
  D1ReturnThreshold = 1
  Multiparts = {m1, m2}
  LeaseTime = 1
  UploadTtl = 3
  Workers = {w1, w2, w3}
  Plans <- PutOnly
  Duty <- PutsAside
  MaxTime = 4
  LastPrepare = 4
  MaxCrashes = 0
  GuardCrashes = TRUE
PROPERTY CancelWaitsForPuts
CHECK_DEADLOCK FALSE
