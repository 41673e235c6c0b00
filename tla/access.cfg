SPECIFICATION Spec
CONSTANTS
  None = None
  Malformed = Malformed
  e1 = e1
  m = m
  Accounts = {a1, a2}
  Spaces = {e1, m, x1, x2}
  EphemeralIds <- MCEphemeralIds
  Mine = m
  Keys = {k1}
  Workers = {w1, w2}
  SessionTtl = 1
  SpaceTtl = 1
  MaxTime = 1
INVARIANTS TypeOK HandlerOwnsSpace OneSpacePerAccount MineIsThere GatewayAgrees AdmittedByBoth
SYMMETRY AccessSymmetry
CHECK_DEADLOCK FALSE
