SPECIFICATION Spec
CONSTANTS
  Agents = {a1, a2}
  MaxCreds = 2
  MaxClicks = 3
  MaxFaults = 1
  MaxProcs = 2
  MaxCalls = 2
  Jobs <- MCJobs
INVARIANTS KeysAccounted 
PROPERTY ImplementsToolCall
CHECK_DEADLOCK FALSE
