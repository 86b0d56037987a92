----------------------------- MODULE MCScenario -----------------------------
(***************************************************************************)
(* ScenarioRun and EvidenceRecorder side by side for TLC: what drives a    *)
(* run and what keeps the evidence of it.  `about` says which of them a     *)
(* behaviour is about; the other one stands still, and no fairness is      *)
(* asked of it.                                                            *)
(***************************************************************************)
EXTENDS ScenarioRun, EvidenceRecorder

VARIABLE about

Act(step, kind, isNative, timeout) ==
  [step |-> step, kind |-> kind, native |-> isNative, timeout |-> timeout]

\* A native send, a WAIT, a native send at the step the WAIT may hold back,
\* and the explicit end.
MCPlan == << Act(0, "SEND", TRUE, 0), Act(1, "WAIT", FALSE, 1),
             Act(1, "SEND", TRUE, 0), Act(2, "END_CLEANUP", FALSE, 0) >>

\* One stream that is reclaimed, with the feedback of an action, and one that
\* is retained.
MCReclaimed == {"DISPATCH"}
MCRetained == {"SCENARIO"}
MCDispatch == "DISPATCH"

MCInit == ScenarioInit /\ RecorderInit /\ about \in {"scenario", "recorder"}
MCNext ==
  /\ UNCHANGED about
  /\ \/ about = "scenario" /\ ScenarioNext /\ UNCHANGED recorderVars
     \/ about = "recorder" /\ RecorderNext /\ UNCHANGED scenarioVars
\* Nothing ScenarioFairness asks for is possible in a run not started.
Recording(step) == about = "recorder" /\ step
MCFairness ==
  /\ ScenarioFairness
  /\ WF_recorderVars(Recording(Writer)) /\ WF_recorderVars(Recording(Closing))
  /\ SF_recorderVars(Recording(Poll /\ ~PollWaits)) /\ WF_recorderVars(Recording(Poll))
  /\ WF_recorderVars(Recording(Finish)) /\ WF_recorderVars(Recording(Observe(Dispatch)))
MCSpec == MCInit /\ [][MCNext]_<<about, scenarioVars, recorderVars>> /\ MCFairness

\* The run and its recorder keep their order and come to their ends: actions at their
\* steps, a WAIT and a cleanup that end, a seal that is final, a snapshot committed.
EndsAsPromised == BegunOnTime /\ WaitEnds /\ CleanupEnds /\ SealedIsFinal /\ JobEnds
=============================================================================
