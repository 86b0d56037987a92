\* The two visual links, and the two endpoints that start model processes.
SPECIFICATION MCSpec
CONSTANTS
  EventNames = {"reset", "mission_end"}
  MaxCommands = 3
  MaxConnects = 2
  MaxStep = 1
  LinkEvents = {"start", "pause", "mission_end", "reset_scene"}
  MaxEvents3 = 2
  MaxPlans = 1
  MaxBreaks = 1
  MaxTime = 1
  Clients = {c1, c2}
  Ids = {i1, i2, i3}
  CacheSize = 2
  MaxProcs = 3
  MaxRequests = 4
  Versions = {v1, v2}
  Receipts = {r1}
  MaxChanges = 1
  MaxCommands2 = 2
INVARIANTS VisualSound LinkSound DeploymentSound
PROPERTIES VisualInOrder Converges DeploymentInOrder
CHECK_DEADLOCK FALSE
