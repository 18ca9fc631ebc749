SPECIFICATION Spec
CONSTANTS
  Undefined = Undefined
  MaxMsg = 3
  ThreadOf <- MCThreadOf
  Views = {"inbox", "trash", "pending_approval"}
  Landing = {"inbox"}
  Present <- MCPresent
  PerPage = 2
  MaxOps = 2
  MaxFaults = 1
INVARIANTS  FreshReplyResurfaces
 
CHECK_DEADLOCK FALSE
