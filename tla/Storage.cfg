\* Two sessions that upload one resource of two chunks, with a crash at any
\* step; and a run that is created twice by one request, started and stopped,
\* whose process may end at any step.
SPECIFICATION MCSpec
CONSTANTS
  s1 = s1
  s2 = s2
  video = video
  Sessions = {s1, s2}
  Resources = {video}
  Absent = Absent
  Parts <- MCParts
  Requests <- MCRequests
  Capacity = 2
  MaxUploads = 1
  MaxObjects = 1
  MaxAborts = 1
  Valid = 1
  Commit = 1
  Pace = 0
  MaxNow = 1
  c1 = c1
  c2 = c2
  c3 = c3
  c4 = c4
  Calls = {c1, c2, c3, c4}
  Request <- MCRequest
  Nobody = Nobody
  MaxRuns = 2
  MaxRequests = 4
  MaxRecords = 7
  Events = 1
INVARIANTS StorageSound RunsSound
PROPERTIES StorageSettles StopPromise
