\* An opening, a heartbeat and an input that is sent twice, over a network
\* that loses, delays, reorders and repeats.
SPECIFICATION FairSpec
CONSTANTS
  Openings = {open}
  Heartbeats = {beat}
  Inputs = {input}
  Absent = Absent
  Grant = g1
  Nonce = n1
  Tries = 2
  Parts = 2
  Valid = 2
  Attempts <- MCAttempts
  Packets <- MCPackets
  Validity <- MCValidity
  Lease = 2
  AckTimeout = 1
  FeedbackCap = 2
  Capacity = 2
  Retention = 2
  CacheSize = 3
  LastSeq = 3
  LastTx = 5
  SubmitUntil = 0
  MaxNow = 3
INVARIANTS OutcomesAreTrue SourceSound
PROPERTY EveryRequestEnds
