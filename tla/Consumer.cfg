SPECIFICATION MCSpec
CONSTANTS
  Threads = {t1, t2}
  RequestIds = {r1, r2}
  PrepareIds = {p1, p2}
  MaxRequests = 1
  MaxResults = 1
  LastRevision = 2
  MaxWork = 2
  MaxMoves = 1
  MaxRestarts = 1
  MaxStep = 1
  Sessions = {s1, s2}
  Groups = {motor, env}
  Motor = motor
  Validity = 1
  Ahead = 1
  MaxSent = 2
  MaxClock = 1
  MaxTarget = 2
  MaxOthers = 1
SYMMETRY Symmetric
INVARIANTS PreparationSound ConsumerSound
CHECK_DEADLOCK FALSE
