----------------------------- MODULE RunBoundary -----------------------------
(***************************************************************************)
(* What c_core/src/main_rt.c promises about a run, without threads, locks   *)
(* or commands: when the model may be stepped, and how a run starts.        *)
(*   - a step is begun only while RUNNING, and the phase cannot change      *)
(*     under it except to ENDED, when the demo mission lands;               *)
(*   - the step counter is rewound only outside a step and outside a run;   *)
(*   - a run starts at step zero, from CONFIGURED, and CONFIGURED is        *)
(*     reached only by configuring a STOPPED model or by a reset.           *)
(***************************************************************************)
EXTENDS Naturals

VARIABLES phase, step, stepping

vars == <<phase, step, stepping>>

Init == phase = "STOPPED" /\ step = 0 /\ stepping = FALSE

Move(from, to) ==
  /\ ~stepping /\ phase \in from /\ phase' = to
  /\ UNCHANGED <<step, stepping>>

Configure == step = 0 /\ Move({"STOPPED"}, "CONFIGURED")
Start     == Move({"CONFIGURED", "PAUSED"}, "RUNNING")
Pause     == Move({"RUNNING"}, "PAUSED")
End       == Move({"RUNNING", "PAUSED", "CONFIGURED"}, "ENDED")
Stop      == Move({"STOPPED", "CONFIGURED", "RUNNING", "PAUSED", "ENDED"}, "STOPPED")
BeginReset == Move({"STOPPED", "CONFIGURED", "RUNNING", "PAUSED", "ENDED"}, "RESETTING")
EndReset  == step = 0 /\ \/ Move({"RESETTING"}, "CONFIGURED")
                         \/ Move({"RESETTING", "FAILED"}, "STOPPED")

\* A generated initial-state setter refuses the state of a stopped model.
Fail == Move({"STOPPED", "RESETTING"}, "FAILED")

Rewind ==
  /\ ~stepping /\ phase \in {"STOPPED", "RESETTING", "FAILED"}
  /\ step' = 0
  /\ UNCHANGED <<phase, stepping>>

BeginStep == /\ ~stepping /\ phase = "RUNNING" /\ stepping' = TRUE
             /\ UNCHANGED <<phase, step>>

Land == /\ stepping /\ phase = "RUNNING" /\ phase' = "ENDED"
        /\ UNCHANGED <<step, stepping>>

EndStep == /\ stepping /\ step' = step + 1 /\ stepping' = FALSE
           /\ UNCHANGED phase

Next == \/ Configure \/ Start \/ Pause \/ End \/ Stop \/ BeginReset \/ EndReset
        \/ Fail \/ Rewind \/ BeginStep \/ Land \/ EndStep

Spec == Init /\ [][Next]_vars
=============================================================================
