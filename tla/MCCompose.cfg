SPECIFICATION ComposeSpec
CONSTANTS
  Undefined = Undefined
  Files = {f1, f2}
  Submits = {s1, s2}
  Slots <- MCSlots
  MaxCount = 1
  MaxEdits = 4
  MaxFaults = 2
INVARIANTS CleanupSparesSent IntentsAccounted
PROPERTIES SubmitEnds
CHECK_DEADLOCK FALSE
