SPECIFICATION FairSpec
CONSTANTS
  Account = Account
  b1 = b1
  b2 = b2
  b3 = b3
  s1 = s1
  Spaces = {s1}
  Batches = {b1, b2, b3}
  Home <- MCHome
  Runs = 2
  MaxRetries = 1
  MayBreak <- MCMayBreak
  MayStick = {b3}
INVARIANT GuardedSpaceKept
PROPERTIES OthersRecovered SpacesReclaimed DeletionsRetried
