INIT Init
NEXT Next
CONSTANTS
  Undefined = Undefined
  m1 = m1
  t1 = t1
  Msgs = {m1}
  Tabs = {t1}
  Mounts = {i1, i2}
  TabOf <- MCTabOf
  Drafts <- MCDrafts
  Stored <- MCStored
  Content <- MCContent
  Busy <- MCBusy
  MaxEdits = 0
  MaxFaults = 0
INVARIANT NeverTwice
CHECK_DEADLOCK TRUE
