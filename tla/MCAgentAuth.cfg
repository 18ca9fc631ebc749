SPECIFICATION Spec
CONSTANTS
  a1 = a1
  c1 = c1
  Aids <- MCAids
  Creds = {c1}
  Tokens = {t1, t2, t3}
  Jtis = {j1, j2}
  Reqs = {r1, r2}
  None = None
  AidOf <- MCAidOf
  ACTIVATION_MAX_FAILED_ATTEMPTS = 2
SYMMETRY Symmetry
CHECK_DEADLOCK FALSE
INVARIANTS TypeOK OneLiveTokenPerFamily RefreshTokenSpentOnce OneFamilyPerAssertion LiveTokenUnderActivatedCredential AttemptsOvershootBounded
PROPERTY SettledDownIsFinal
