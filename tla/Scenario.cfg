SPECIFICATION MCSpec
CONSTANTS
  Plan <- MCPlan
  Roots = 1
  RootTimeout = 2
  Fields = {f1}
  MaxPending = 2
  MaxStep = 3
  Reclaimed <- MCReclaimed
  Retained <- MCRetained
  Dispatch <- MCDispatch
  MaxRows = 2
  MaxSegments = 3
INVARIANTS ScenarioSound RecorderSound
PROPERTY EndsAsPromised
CHECK_DEADLOCK FALSE
