SPECIFICATION Spec
CONSTANTS
  None = None
  small = small
  w1 = w1
  Uploads = {u1, u2}
  Assets = {a1}
  Blobs = {big}
  Size <- MCSize
  R2EnterThreshold = 3
  D1ReturnThreshold = 1
  Multiparts = {m1, m2}
  LeaseTime = 0
  UploadTtl = 2
  Workers = {w1, w2}
  Plans <- PutOrDelete
  Duty <- AnyDuty
  MaxTime = 2
  LastPrepare = 0
  MaxCrashes = 0
  GuardCrashes = TRUE
INVARIANTS TypeOK LockInv RevisionInv GuardInv NothingWrittenBeforeCommit SealedInv TargetSlotInv
PROPERTIES ForwardOnly ImplementsRevisions
SYMMETRY FullSymmetry
CHECK_DEADLOCK FALSE
