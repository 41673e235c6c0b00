SPECIFICATION FairExpirySpec
CONSTANTS
  None = None
  small = small
  Uploads = {u1, u2}
  Assets = {a1}
  Blobs = {big}
  Size <- MCSize
  R2EnterThreshold = 3
  D1ReturnThreshold = 1
  Multiparts = {m1}
  LeaseTime = 2
  UploadTtl = 1
  Workers = {w1}
  Plans <- PutOrDelete
  Duty <- AnyDuty
  MaxTime = 2
  LastPrepare = 0
  MaxCrashes = 1
  GuardCrashes = FALSE
  Cleaners = {c1, c2}
  SpaceTtl = 1
  CleanupLease = 1
  RowLimit = 2
  MaxRun = 2
  MaxSpaces = 1
  LastCrash = 1
INVARIANTS NothingLeft ObjectsNamed CleanupExcludesRecovery UploadsIntact
PROPERTIES LiveUploadKept ExpiredReclaimed
CHECK_DEADLOCK FALSE
