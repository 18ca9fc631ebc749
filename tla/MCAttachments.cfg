SPECIFICATION FairSpec
CONSTANTS
  Uploads = {u1}
  Sends = {m1, m2}
  Reqs = {r1, r2, r3}
  None = None
  PURGE_LIMIT = 1
CHECK_DEADLOCK FALSE
INVARIANTS NoDoubleSpend LinkedIsDownloadable
PROPERTIES RetiredIsFinal UnlinkedIsReclaimed DeletedIsPurged
