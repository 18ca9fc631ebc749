SPECIFICATION Spec
CONSTANTS
  Tabs = {t1, t2}
  Aids = {a1, a2}
  FirstAid = a1
  PerMinute = 1
  PerDay = 2
  Minute = 1
  Day = 2
  MaxClicks = 3
  MaxFaults = 1
  MaxTime = 2
INVARIANTS OrphansAccounted QuotaInEveryWindow
PROPERTY PairingSettles
CHECK_DEADLOCK FALSE
