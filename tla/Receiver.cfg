\* Two sessions of one nonce or of two, live together or in succession; a cache
\* of two records that retention empties before the leases lapse; and packets
\* of two sessions through the reassembler.
SPECIFICATION MCSpec
CONSTANTS
  Grants = {g1}
  Nonces = {n1, n2}
  Openings = {open}
  Heartbeats = {beat}
  Inputs = {input}
  Commands = {command}
  Chunks = {chunk}
  Absent = Absent
  Lease = 2
  Retention = 1
  ChunkTime = 2
  ChunkTimeout <- MCChunkTimeout
  MaxSessions = 2
  CacheSize = 2
  PendingCap = 1
  LastId = 2
  LastSeq = 2
  MaxNow = 3
  MaxShort = 2
  Sessions = {1, 2}
  RunOf <- MCRunOf
  Sequences = {1}
  Headers = {"h1", "h2"}
  CountOf <- MCCountOf
  Bytes = {"x", "y"}
  Undecodable = {"y"}
  TotalLimit = 3
  Slots = 2
  CacheMessages = 1
  Timeout = 2
  RefusalRetention = 2
  LeaseTime = 2
  InputCapacity = 2
  RunCapacity = 1
  None = None
  MaxTime = 4
SYMMETRY Symmetry
INVARIANTS AdmittedOnce RegistrySound IngressSound
PROPERTIES LapsedStaysLapsed FeedbackStands
CHECK_DEADLOCK FALSE
