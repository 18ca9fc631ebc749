SPECIFICATION NonceSpec
CONSTANTS
  Proofs = {p1}
  Reqs = {r1, r2}
  None = None
  SKEW = 3
  WINDOW = 6
  REQUEST_TIMEOUT_SECS = 1
  TICKS = 2
  MaxSecond = 9
SYMMETRY Symmetry
CHECK_DEADLOCK FALSE
INVARIANTS ReplayOnlyOfFutureIat AcceptedAtMostTwice
