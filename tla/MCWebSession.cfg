SPECIFICATION Spec
CONSTANTS
  Tabs = {t1, t2}
  Users = {u1}
  MaxSessions = 2
  MaxClicks = 6
  MaxFaults = 1
  Undefined = Undefined
INVARIANTS LiveSessionKept LogoutIsFinal NoPromptAfterSave
PROPERTY LoginSettles
CHECK_DEADLOCK FALSE
