SPECIFICATION FairSpec
CONSTANTS
  None = None
  small = small
  w1 = w1
  Uploads = {u1}
  Assets = {a1}
  Blobs = {big}
  Size <- MCSize
  R2EnterThreshold = 3
  D1ReturnThreshold = 1
  Multiparts = {m1}
  LeaseTime = 1
  UploadTtl = 1
  Workers = {w1, w2}
  Plans <- PutOnly
  Duty <- ClientsAndCron
  MaxTime = 2
  LastPrepare = 1
  MaxCrashes = 1
  GuardCrashes = TRUE
PROPERTY RolledForward
CHECK_DEADLOCK FALSE
