SPECIFICATION Spec
CONSTANTS
  Undefined = Undefined
  m1 = m1
  t1 = t1
  Msgs = {m1}
  Tabs = {t1}
  Mounts = {i1}
  TabOf <- MCTabOf
  Drafts <- MCDrafts
  Stored <- MCStored
  Content <- MCContent
  Busy <- MCBusy
  MaxEdits = 1
  MaxFaults = 1
INVARIANTS StampedMeansAnswered 
 
CHECK_DEADLOCK TRUE
