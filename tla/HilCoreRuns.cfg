\* Every lifecycle command, staged and legacy, against configuration and an ICD
\* transaction, under fair scheduling of the two threads.
CONSTANTS
  Requests = {r1, r2, r3}
  Default = none
  Commands = {"lifecycle", "stage_lifecycle", "configure", "stage_icd", "prepare_model_snapshot"}
  Events = {"RUNNING", "PAUSED", "STOPPED", "RESETTING", "ENDED"}
  Slots = {"gPar"}
  Lookahead = 2
  MaxRevision = 1
  StateValid = {TRUE, FALSE}
  MaxSeq = 2
SPECIFICATION FairSpec
INVARIANT CoreSound
PROPERTIES ImplementsRunBoundary RequestsResolve
