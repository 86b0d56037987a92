\* Two sessions that write one path or two, lapse, are cleaned up, reset and
\* retired while their inputs are queued.
SPECIFICATION QueueSpec
CONSTANTS
  Grants = {g1}
  Nonces = {n1, n2}
  Openings = {open}
  Heartbeats = {}
  steer = steer
  gust = gust
  left = left
  right = right
  Steered = {left}
  Inputs = {steer, gust}
  Commands = {command}
  Chunks = {}
  Absent = Absent
  Lease = 1
  Retention = 3
  ChunkTimeout <- MCChunkTimeout
  MaxSessions = 2
  CacheSize = 1
  PendingCap = 1
  LastId = 2
  LastSeq = 2
  MaxNow = 1
  Models = {m}
  ModelOf <- MCModelOf
  Paths = {left, right}
  PathsOf <- MCPathsOf
  TargetOf <- MCTargetOf
  LaneOf <- MCLaneOf
  ControlTimeout = 1
  MaxAhead = 2
  Capacity = 2
  MaxStep = 2
  MaxClears = 1
SYMMETRY Symmetry
INVARIANTS QueueSound AppliedOnce
PROPERTY HandedOver
