SPECIFICATION ReaderSpec
CONSTANTS
  Undefined = Undefined
  p = p
  q = q
  d = d
  Msgs = {p, q, d}
  Thread <- MCThread
  Content <- MCContent
  Order <- MCOrder
  Early = {p, q}
  ThreadPage = 2
  Concurrency = 1
  MaxNow = 1
  MaxOps = 3
  MaxFaults = 1
INVARIANTS SettledShowsRoot OneReplyPerShowing
PROPERTY EventuallyWhole
CHECK_DEADLOCK FALSE
