SPECIFICATION FairSpec
CONSTANTS
  None = None
  small = small
  w1 = w1
  Uploads = {u1, u2}
  Assets = {a1}
  Blobs = {big}
  Size <- MCSize
  R2EnterThreshold = 3
  D1ReturnThreshold = 1
  Multiparts = {m1}
  LeaseTime = 1
  UploadTtl = 1
  Workers = {w1, w2}
  Plans <- PutOrDelete
  Duty <- UploadsAndCron
  MaxTime = 1
  LastPrepare = 0
  MaxCrashes = 1
  GuardCrashes = FALSE
PROPERTIES LockReleased DeletionsReclaimed
CHECK_DEADLOCK FALSE
