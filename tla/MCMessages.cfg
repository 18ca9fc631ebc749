SPECIFICATION Spec
CONSTANTS
  Sends = {m1}
  Reqs = {r1, r2, r3}
  None = None
SYMMETRY Symmetry
CHECK_DEADLOCK FALSE
INVARIANTS DeletionsKeepPeerPayload OrphanOnlyAfterFailure
