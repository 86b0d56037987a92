------------------------------ MODULE MCStorage ------------------------------
(***************************************************************************)
(* The two stores of the gateway side by side for TLC, so that their states *)
(* add: uploads through the storage thread ("uploads"), and the runs with   *)
(* their execution: "runs" creates, starts and stops one, "repeat" creates  *)
(* it twice by one request and starts it.  The other store stands still,    *)
(* and no fairness is asked of it.                                         *)
(***************************************************************************)
EXTENDS ResourceStorage, RunManagement

CONSTANTS s1, s2, video, c1, c2, c3, c4
VARIABLE about

Chunk(s, res, part) == [sid |-> s, res |-> res, part |-> part]
MCParts == [r \in Resources |-> 2]
MCRequests == {Chunk(s1, video, 1), Chunk(s1, video, 2), Chunk(s2, video, 1)}

\* One run that is created twice by one request, started and stopped.
Cmd(id, cmd, run, rev) == [id |-> id, cmd |-> cmd, run |-> run, rev |-> rev]
MCRequest == [c \in Calls |->
  CASE c \in {c1, c2} -> Cmd(1, "CREATE", 0, 0)
    [] c = c3 -> Cmd(2, "START", 1, 1)
    [] c = c4 -> Cmd(3, "STOP", 1, 2)]

Delivered(c) == c # IF about = "repeat" THEN c4 ELSE c2

MCInit == about \in {"uploads", "runs", "repeat"} /\ Init /\ RunsInit
\* A drain is asked for once something was aborted: there is nothing to drain
\* before.  A caller of the other run is not there.
MCNext ==
  /\ UNCHANGED about
  /\ \/ /\ about = "uploads" /\ Next /\ UNCHANGED runsVars
        /\ drain' => drain \/ aborted > 0
     \/ /\ about # "uploads" /\ RunsNext /\ UNCHANGED vars
        /\ \A c \in Calls : calls'[c] # calls[c] => Delivered(c)

Uploading(step) == about = "uploads" /\ step
Running(step) == about # "uploads" /\ step
\* The end of a stopped execution needs its own thread, and no caller.
MCFairness ==
  /\ WF_vars(Uploading(WorkerStep)) /\ SF_vars(Uploading(ChooseJob)) /\ WF_vars(Uploading(Tick))
  /\ WF_vars(Uploading(\E r \in Requests : Submit(r) \/ SubmitRefused(r)))
  /\ WF_runsVars(Running(ExecutionStep))
MCSpec == MCInit /\ [][MCNext]_<<vars, runsVars, about>> /\ MCFairness
=============================================================================
