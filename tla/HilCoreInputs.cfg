\* Live inputs, parameter tuning and target-step ICD transactions, across
\* resets.  Two slots write the same field, one is written before the control
\* source and one after it.
CONSTANTS
  Requests = {r1, r2, r3, r4, r5}
  Default = none
  Commands = {"tune", "set_inputs", "stage_icd", "lifecycle", "configure"}
  Events = {"RUNNING", "PAUSED", "STOPPED", "RESETTING"}
  Slots = {"gEnv", "env", "flight"}
  Lookahead = 2
  MaxRevision = 1
  StateValid = {TRUE}
  MaxSeq = 2
SPECIFICATION Spec
SYMMETRY RequestSymmetry
INVARIANTS DeferredTracked LiveInForce StepSeesApplied
