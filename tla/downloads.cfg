SPECIFICATION ReaderSpec
CONSTANTS
  None = None
  small = small
  middle = middle
  Uploads = {u1, u2, u3}
  Assets = {a1}
  Blobs = {small, middle, big, big2}
  Size <- MCSize
  R2EnterThreshold = 3
  D1ReturnThreshold = 1
  Multiparts = {m1, m2, m3}
  LeaseTime = 0
  UploadTtl = 2
  Workers = {w1}
  Plans <- PutOrDelete
  Duty <- Writers
  MaxTime = 1
  LastPrepare = 0
  MaxCrashes = 1
  GuardCrashes = FALSE
  Readers = {r1}
  TicketTtl = 1
INVARIANTS PublishedRowInv PublishedObjectInv DownloadMatchesTicket DownloadSurvivesPublish
PROPERTY StaleOnlyAfterPublish
SYMMETRY ReaderSymmetry
CHECK_DEADLOCK FALSE
