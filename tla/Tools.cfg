SPECIFICATION MCSpec
CONSTANTS
  None = None
  Nothing = Nothing
  Absent = Absent
  Commands = {1, 2}
  Offset <- MCOffset
  Lateness = 0
  Timeout = 1
  Limit = 1
  Outputs <- MCOutputs
  Rough = {1}
  MaxNow = 2
  can1 = can1
  can2 = can2
  Interfaces <- MCInterfaces
  Tokens = {1, 2}
  Senders = {1, 2}
  Plans = {1, 2}
  Transactions = {1}
  Frames = {1, 2}
  MaxPending = 2
  Capacity = 2
  KeptReplies = 1
  MaxGrants = 2
  Captures <- MCCaptures
  GroupTimeout = 3
  NewHeaders <- MCNewHeaders
  Policies <- MCPolicies
  Destinations <- MCDestinations
  Aux = 2
  Writers = {w1, w2, w3}
  Files = {1, 2}
INVARIANTS ToolsSound NativeSound ReplaySound PublishedIsWhole
CHECK_DEADLOCK FALSE
