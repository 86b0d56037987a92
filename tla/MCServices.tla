--------------------------- MODULE MCServices ---------------------------
(***************************************************************************)
(* The Python services beside the core, side by side for TLC:              *)
(*   "2.0", "3.0"            the visual links: the configured protocol        *)
(*                           version starts one of them (main.py);          *)
(*   "spring", "management"  the two endpoints that start model processes,   *)
(*                           each alone.                                   *)
(***************************************************************************)
EXTENDS VisualBridge, FixedWingLink, Deployment

VARIABLE service

\* The V2.0 bridge starts where the first hello has been acknowledged and the
\* first mission loaded.
FirstMission ==
  /\ core = [life |-> "RUNNING", step |-> 0]
  /\ cache = [life |-> "CONFIGURED", step |-> 0]
  /\ ws = [pc |-> "idle", loads |-> 1, mission |-> None]
  /\ events = <<>>
  /\ queues = [current |-> 1, missions |-> <<1>>, events |-> <<>>, reserved |-> {}]
  /\ connected = TRUE
  /\ session = [pc |-> "wait", connects |-> 1, mission |-> None, missions |-> <<>>, events |-> <<>>,
                before |-> 0, ended |-> FALSE]
  /\ publisher = [pc |-> "off", mission |-> None, step |-> 0]
  /\ owed = <<>>
  /\ peer = [plan |-> None, step |-> 0, events |-> <<>>]

V3(step) == service = "3.0" /\ step
Endpoint(step) == service \in {"spring", "management"} /\ step

\* One version is like another: the release starts at a fixed one.
FirstVersion == CHOOSE v \in Versions : TRUE

MCInit == /\ service \in {"2.0", "3.0", "spring", "management"}
          /\ FirstMission /\ LinkInit /\ RuntimeInit /\ DeploymentInit
          /\ release.version = FirstVersion
          /\ service # "management" => release.verdict = "v2"

\* The last command comes, or the last connection does; both do only when the
\* model has not stepped and no second mission is loaded.
MCNext ==
  /\ UNCHANGED service
  /\ \/ /\ service = "2.0" /\ VisualNext /\ UNCHANGED <<linkVars, runtimeVars, deploymentVars>>
        /\ \/ Len(events') + ws'.loads < MaxCommands \/ session'.connects < MaxConnects
           \/ core'.step = 0 /\ ws'.loads = 1
     \/ service = "3.0" /\ LinkNext /\ UNCHANGED <<visualVars, runtimeVars, deploymentVars>>
     \/ service = "spring" /\ RuntimeNext /\ UNCHANGED <<visualVars, linkVars, deploymentVars>>
     \/ /\ service = "management" /\ ManagementNext /\ UNCHANGED <<visualVars, linkVars>>
        \* One restart leaves a core behind; another file has another version.
        /\ active'.left = active.left \/ active.left = {}
        /\ contract'.path = "other" => contract'.controller # FirstVersion

\* Each link and endpoint goes on when it is the one that runs.
MCFairness ==
  /\ WF_linkVars(V3(WorkerStep)) /\ WF_linkVars(V3(Observe))
  /\ WF_linkVars(V3(ClearMission)) /\ WF_linkVars(V3(PublishState))
  /\ WF_runtimeVars(Endpoint(TakesLock)) /\ WF_runtimeVars(Endpoint(JobStep))

MCSpec == MCInit /\ [][MCNext]_<<visualVars, linkVars, runtimeVars, deploymentVars, service>>
          /\ MCFairness
=============================================================================
