SPECIFICATION Spec
CONSTANTS
  None = None
  s1 = s1
  Logins = {l1, l2}
  Codes = {c1, c2}
  Subjects = {s1, s2}
  Accounts = {a1, a2}
  Targets = {t1}
  Workers = {w1, w2}
  TypeOf <- MCTypeOf
  LoginTtl = 1
  CodeTtl = 1
  MaxTime = 1
  MaxDeploys = 1
INVARIANTS TypeOK OwnAccount AccountsSeparate OneSessionPerLogin
PROPERTIES CodeMatchesConfig ImplementsLogin
SYMMETRY LoginSymmetry
CHECK_DEADLOCK FALSE
