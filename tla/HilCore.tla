------------------------------- MODULE HilCore -------------------------------
(***************************************************************************)
(* The real-time core c_core/src/main_rt.c: the 1 ms model thread and the   *)
(* command thread that executes one UDP datagram at a time, at the          *)
(* granularity of their critical sections.                                 *)
(*                                                                         *)
(* Two locks protect the shared state.  command_lock is held by the        *)
(* command thread across the steps of a command and taken by the model     *)
(* thread for one step at a time; model_boundary_lock is held by the model *)
(* thread for the whole of apply_lifecycle_request.  Both are therefore    *)
(* functions of the two program counters (CommandLockHeld, BoundaryHeld).  *)
(*                                                                         *)
(* Data.  A model input snapshot is a function from five Fields to the     *)
(* request that last wrote the field (Default for a contract default), so  *)
(* that a value names the command it came from.  A generation counter is   *)
(* only ever compared with the last applied one, or with zero, and is kept *)
(* as that comparison (fresh, set); neither wraps, since one command moves *)
(* it by one.  A monotonic deadline is kept as "still ahead" (alive).      *)
(*                                                                         *)
(* A definition introduced by "Fault:" is the definition after it with a   *)
(* plausible error in it.  Nothing uses it: put in the place of the right  *)
(* one, it shows which property notices the error.                         *)
(***************************************************************************)
EXTENDS Naturals, FiniteSets

CONSTANTS
  Requests,     \* request_id of the datagrams clients send, each sent once
  Default,      \* the author of every value a command has not written
  Commands,     \* the commands clients send in this instance
  Events,       \* the lifecycle events they ask for
  Slots,        \* the ICD transaction slots they stage into
  Lookahead,    \* ICD_ENVIRONMENT_MAX_LOOKAHEAD_STEPS
  MaxRevision,  \* UINT32_MAX: the last configured_model_revision
  StateValid,   \* whether a state the generated model emits can be valid, or not
  MaxSeq        \* bound on the model step, for finite checking only

AllSlots == {"gEnv", "gFault", "gPar", "env", "fault", "flight", "gFlight"}
AllEvents == {"RUNNING", "PAUSED", "STOPPED", "RESETTING", "ENDED"}
AllCommands == {"tune", "set_inputs", "configure", "prepare_model_snapshot",
                "stage_lifecycle", "lifecycle", "stage_icd"}

ASSUME CoreAssumption ==
  /\ Default \notin Requests
  /\ Commands \subseteq AllCommands
  /\ Events \subseteq AllEvents
  /\ Slots \subseteq AllSlots
  /\ Lookahead \in Nat
  /\ MaxRevision \in Nat
  /\ StateValid \subseteq BOOLEAN
  /\ MaxSeq \in Nat

Values == Requests \cup {Default}
InputFields == {"env", "fault", "motor"}       \* ExtU groups
ParamFields == {"live", "reset"}               \* parameters by class
Fields == InputFields \cup ParamFields
Snapshots == [Fields -> Values]

Lifecycles == {"STOPPED", "CONFIGURED", "RUNNING", "PAUSED", "RESETTING",
               "ENDED", "FAILED"}

\* The fields one slot commits: the contract groups and the three fixed ones.
Writes(s) == CASE s \in {"gEnv", "env"}       -> {"env"}
               [] s \in {"gFault", "fault"}   -> {"fault"}
               [] s = "gPar"                  -> ParamFields
               [] s \in {"flight", "gFlight"} -> {"motor"}

\* Fault: the control source runs after the flight transactions.
RankControlLast ==
  [live |-> 0, gEnv |-> 1, gFault |-> 2, gPar |-> 3, env |-> 4, fault |-> 5,
   flight |-> 6, gFlight |-> 7, control |-> 8, step |-> 9]

\* The phases of an iteration that steps the model, in program order.
Rank == [live |-> 0, gEnv |-> 1, gFault |-> 2, gPar |-> 3, env |-> 4,
         fault |-> 5, control |-> 6, flight |-> 7, gFlight |-> 8, step |-> 9]
RunPhases == {"live", "control", "step"} \cup Slots
NextPhase(p) ==
  CHOOSE q \in RunPhases :
    /\ Rank[p] < Rank[q]
    /\ \A x \in RunPhases : Rank[p] < Rank[x] => Rank[q] <= Rank[x]

ResetPhases == {"reset1", "reset2", "reset3", "reset4"}
RtPhases == {"loop", "check", "apply", "branch"} \cup ResetPhases \cup RunPhases
CmdPhases == {"idle", "queue", "inputs", "tune", "prepare1", "prepare2", "icd"}

Outcomes == {"none", "rejected", "accepted", "queued", "staged", "deferred",
             "completed", "applied", "invalid", "missed"}
Answered == {"applied", "invalid", "missed"}   \* final lifecycle receipts

VARIABLES
  lifecycle,      \* lifecycle
  sequence,       \* sequence: model steps of the current run
  revision,       \* configured_model_revision
  request,        \* lifecycle_request
  pendingLive,    \* pending_live, fresh = generation # applied_live_generation
  pendingReset,   \* pending_reset, set = generation # 0
  resetReceipt,   \* pending_reset_receipt
  active,         \* active_input and active_parameters
  initial,        \* initial_input and initial_parameters
  slot,           \* the one-slot ICD transactions
  stateSeq,       \* state.sequence, the published projection
  haveValid,      \* have_valid_state
  outcome,        \* the last receipt each request was sent
  rpc, taken,     \* model thread: program counter, dequeued request
  cpc, loc,       \* command thread: program counter, locals of the command
  epoch           \* history: number of model re-initialisations

projection == <<stateSeq, haveValid>>
modelVars == <<lifecycle, sequence, revision, projection, epoch>>
snapVars  == <<pendingLive, pendingReset, resetReceipt, active, initial>>
rtVars    == <<rpc, taken>>
cmdVars   == <<cpc, loc>>
vars == <<modelVars, snapVars, request, slot, outcome, rtVars, cmdVars>>

NoRequest == [pending |-> FALSE, id |-> Default, event |-> "STOPPED", target |-> 0]
NoTaken == [id |-> Default, event |-> "STOPPED", target |-> 0, toStopped |-> FALSE]
NoSlot == [state |-> "EMPTY", id |-> Default, target |-> 0, applied |-> 0,
           alive |-> FALSE, epoch |-> 0]
Defaults == [f \in Fields |-> Default]
NoLoc == [id |-> Default, event |-> "STOPPED", target |-> 0, slot |-> "env",
          fields |-> {}, live |-> Defaults, reset |-> Defaults, alive |-> FALSE]

\* Critical sections as functions of the program counters.
CommandLockHeld == cpc \in {"inputs", "tune", "prepare1", "prepare2"}
BoundaryHeld == rpc \in {"check", "apply"} \cup ResetPhases

Init ==
  /\ lifecycle = "STOPPED" /\ sequence = 0 /\ revision = 0
  /\ stateSeq = 0 /\ haveValid = TRUE /\ epoch = 0
  /\ request = NoRequest
  /\ pendingLive = [val |-> Defaults, fresh |-> FALSE]
  /\ pendingReset = [val |-> Defaults, set |-> FALSE]
  /\ resetReceipt = [pending |-> FALSE, id |-> Default]
  /\ active = Defaults /\ initial = Defaults
  /\ slot = [s \in Slots |-> NoSlot]
  /\ outcome = [r \in Requests |-> "none"]
  /\ rpc = "loop" /\ taken = NoTaken
  /\ cpc = "idle" /\ loc = NoLoc

\* populate_state: an invalid generated state leaves the projection alone.
PopulateState(valid, had, seq) ==
  /\ haveValid' = (valid \/ had)
  /\ stateSeq' = IF valid THEN seq ELSE stateSeq

Answer(r, what) == outcome' = [outcome EXCEPT ![r] = what]

-----------------------------------------------------------------------------
(* The model thread: apply_lifecycle_request.                              *)

\* Nothing queued, or its target boundary is still ahead.
LifecycleIdle ==
  /\ rpc = "loop" /\ ~CommandLockHeld
  /\ ~request.pending \/ sequence < request.target
  /\ rpc' = "branch"
  /\ UNCHANGED <<modelVars, snapVars, request, slot, outcome, taken, cmdVars>>

TakeLifecycle ==
  /\ rpc = "loop" /\ ~CommandLockHeld
  /\ request.pending /\ sequence >= request.target
  /\ taken' = [id |-> request.id, event |-> request.event,
               target |-> request.target, toStopped |-> FALSE]
  /\ request' = NoRequest
  /\ rpc' = "check"
  /\ UNCHANGED <<modelVars, snapVars, slot, outcome, cmdVars>>

\* Fault: a missed boundary is dropped without its receipt.
CheckTargetSilent ==
  /\ rpc = "check"
  /\ IF sequence # taken.target THEN rpc' = "branch" /\ taken' = NoTaken
     ELSE rpc' = "apply" /\ UNCHANGED taken
  /\ UNCHANGED <<modelVars, snapVars, request, slot, outcome, cmdVars>>

CheckTarget ==
  /\ rpc = "check"
  /\ IF sequence # taken.target
     THEN /\ Answer(taken.id, "missed")
          /\ rpc' = "branch" /\ taken' = NoTaken
     ELSE /\ rpc' = "apply" /\ UNCHANGED <<outcome, taken>>
  /\ UNCHANGED <<modelVars, snapVars, request, slot, cmdVars>>

\* Fault: start is also taken by a STOPPED model.
AcceptsStartStopped(event) ==
  CASE event = "PAUSED"  -> {"RUNNING"}
    [] event = "RUNNING" -> {"PAUSED", "CONFIGURED", "STOPPED"}
    [] event = "ENDED"   -> {"RUNNING", "PAUSED", "CONFIGURED"}
    [] event \in {"STOPPED", "RESETTING"} -> Lifecycles \ {"RESETTING", "FAILED"}

\* The states in which an event is a valid transition.
Accepts(event) == CASE event = "PAUSED"  -> {"RUNNING"}
                    [] event = "RUNNING" -> {"PAUSED", "CONFIGURED"}
                    [] event = "ENDED"   -> {"RUNNING", "PAUSED", "CONFIGURED"}
                    [] event \in {"STOPPED", "RESETTING"} ->
                         Lifecycles \ {"RESETTING", "FAILED"}

ApplyInvalid ==
  /\ rpc = "apply" /\ lifecycle \notin Accepts(taken.event)
  /\ Answer(taken.id, "invalid")
  /\ rpc' = "branch" /\ taken' = NoTaken
  /\ UNCHANGED <<modelVars, snapVars, request, slot, cmdVars>>

\* PAUSE, START, RESUME, STOP and mission_end: one assignment of lifecycle.
\* STOP also zeroes the motors, and needs command_lock for the arbiter.
ApplyTransition ==
  /\ rpc = "apply" /\ taken.event # "RESETTING"
  /\ lifecycle \in Accepts(taken.event)
  /\ taken.event \in {"STOPPED", "ENDED"} => ~CommandLockHeld
  /\ lifecycle' = taken.event
  /\ active' = IF taken.event = "STOPPED" THEN [active EXCEPT !["motor"] = Default]
               ELSE active
  /\ Answer(taken.id, "applied")
  /\ rpc' = "branch" /\ taken' = NoTaken
  /\ UNCHANGED <<sequence, revision, projection, epoch, pendingLive,
                 pendingReset, resetReceipt, initial, request, slot, cmdVars>>

\* RESET runs under model_boundary_lock only, in four steps.
ResetBegin ==
  /\ rpc = "apply" /\ taken.event = "RESETTING"
  /\ lifecycle \in Accepts("RESETTING")
  /\ taken' = [taken EXCEPT !.toStopped = (lifecycle = "STOPPED")]
  /\ lifecycle' = "RESETTING" /\ haveValid' = FALSE
  /\ rpc' = "reset1"
  /\ UNCHANGED <<sequence, revision, stateSeq, epoch, snapVars,
                 request, slot, outcome, cmdVars>>

ResetActive ==
  /\ rpc = "reset1"
  /\ active' = IF pendingReset.set THEN pendingReset.val ELSE initial
  /\ rpc' = "reset2"
  /\ UNCHANGED <<modelVars, pendingLive, pendingReset, resetReceipt, initial,
                 request, slot, outcome, taken, cmdVars>>

\* Fault: RESET forgets to rewind the step counter.
ResetPendingNoRewind ==
  /\ rpc = "reset2"
  /\ pendingLive' = [val |-> active, fresh |-> TRUE]
  /\ pendingReset' = [pendingReset EXCEPT !.set = FALSE]
  /\ epoch' = epoch + 1 /\ rpc' = "reset3"
  /\ UNCHANGED <<lifecycle, sequence, revision, projection, resetReceipt,
                 active, initial, request, slot, outcome, taken, cmdVars>>

ResetPending ==
  /\ rpc = "reset2"
  /\ pendingLive' = [val |-> active, fresh |-> TRUE]
  /\ pendingReset' = [pendingReset EXCEPT !.set = FALSE]
  /\ sequence' = 0 /\ epoch' = epoch + 1
  /\ rpc' = "reset3"
  /\ UNCHANGED <<lifecycle, revision, projection, resetReceipt, active,
                 initial, request, slot, outcome, taken, cmdVars>>

\* Fault: RESET publishes without refreshing the projection.
ResetLifecycleStaleState(valid) ==
  /\ rpc = "reset3" /\ ~CommandLockHeld
  /\ lifecycle' = IF taken.toStopped THEN "STOPPED" ELSE "CONFIGURED"
  /\ haveValid' = TRUE /\ rpc' = "reset4"
  /\ UNCHANGED <<sequence, revision, stateSeq, epoch, snapVars, request,
                 slot, outcome, taken, cmdVars>>

\* Mission and arbiter are cleared under command_lock before this step.
ResetLifecycle(valid) ==
  /\ rpc = "reset3" /\ ~CommandLockHeld
  /\ lifecycle' = IF taken.toStopped THEN "STOPPED" ELSE "CONFIGURED"
  /\ PopulateState(valid, haveValid, sequence)
  /\ rpc' = "reset4"
  /\ UNCHANGED <<sequence, revision, epoch, snapVars, request, slot, outcome,
                 taken, cmdVars>>

\* send_reset_parameter_completion, then the receipt of RESET itself.
ResetComplete ==
  /\ rpc = "reset4" /\ ~CommandLockHeld
  /\ outcome' = [r \in Requests |->
       IF r = taken.id THEN "applied"
       ELSE IF resetReceipt.pending /\ r = resetReceipt.id THEN "completed"
       ELSE outcome[r]]
  /\ resetReceipt' = [pending |-> FALSE, id |-> Default]
  /\ rpc' = "branch" /\ taken' = NoTaken
  /\ UNCHANGED <<modelVars, pendingLive, pendingReset, active, initial, request,
                 slot, cmdVars>>

-----------------------------------------------------------------------------
(* The model thread: one iteration of the loop.                            *)

\* Not RUNNING: zero_motor_command, and the model is not stepped.
Idle ==
  /\ rpc = "branch" /\ lifecycle # "RUNNING"
  /\ active' = [active EXCEPT !["motor"] = Default]
  /\ rpc' = "loop"
  /\ UNCHANGED <<modelVars, pendingLive, pendingReset, resetReceipt, initial,
                 request, slot, outcome, taken, cmdVars>>

EnterRun ==
  /\ rpc = "branch" /\ lifecycle = "RUNNING"
  /\ rpc' = "live"
  /\ UNCHANGED <<modelVars, snapVars, request, slot, outcome, taken, cmdVars>>

\* apply_live_update
ApplyLive ==
  /\ rpc = "live" /\ ~CommandLockHeld
  /\ active' = IF pendingLive.fresh THEN pendingLive.val ELSE active
  /\ pendingLive' = [pendingLive EXCEPT !.fresh = FALSE]
  /\ rpc' = NextPhase("live")
  /\ UNCHANGED <<modelVars, pendingReset, resetReceipt, initial, request, slot,
                 outcome, taken, cmdVars>>

\* Fault: a transaction past its target step is not rejected.
OverdueNoLate(t) == t.state = "STAGED" /\ ~t.alive

\* A staged transaction is EXPIRED or LATE at this step, or meant for it.
Overdue(t) == t.state = "STAGED" /\ (~t.alive \/ t.target < sequence + 1)
Due(t) == t.state = "STAGED" /\ t.alive /\ t.target = sequence + 1

\* apply_icd_*: a STAGED slot is left alone by the command thread, so the
\* snapshot, the check and the commit of one slot are one step.
ApplySlot(s) ==
  LET t == slot[s]
  IN /\ rpc = s /\ ~CommandLockHeld
     /\ slot' = [slot EXCEPT ![s] =
          IF Overdue(t) THEN [t EXCEPT !.state = "REJECTED"]
          ELSE IF Due(t) THEN [t EXCEPT !.state = "APPLIED", !.applied = sequence + 1,
                                  !.epoch = epoch]
          ELSE t]
     /\ active' = IF Due(t) THEN [f \in Fields |-> IF f \in Writes(s) THEN t.id
                                                ELSE active[f]]
                  ELSE active
     /\ rpc' = NextPhase(s)
     /\ UNCHANGED <<modelVars, pendingLive, pendingReset, resetReceipt, initial,
                    request, outcome, taken, cmdVars>>

\* The control source writes the actuators; a landed demo mission ends the run.
Control ==
  /\ rpc = "control" /\ ~CommandLockHeld
  /\ active' = [active EXCEPT !["motor"] = Default]
  /\ lifecycle' \in {lifecycle, "ENDED"}
  /\ rpc' = NextPhase("control")
  /\ UNCHANGED <<sequence, revision, projection, epoch, pendingLive,
                 pendingReset, resetReceipt, initial, request, slot, outcome,
                 taken, cmdVars>>

\* model_step(), sequence++, populate_state()
ModelStep(valid) ==
  /\ rpc = "step" /\ sequence < MaxSeq
  /\ sequence' = sequence + 1
  /\ PopulateState(valid, haveValid, sequence + 1)
  /\ rpc' = "loop"
  /\ UNCHANGED <<lifecycle, revision, epoch, snapVars, request, slot, outcome,
                 taken, cmdVars>>

\* The finite instance ends where the bound on sequence stops the model thread.
AtBound == rpc = "step" /\ sequence = MaxSeq /\ UNCHANGED vars

RtNext ==
  \/ LifecycleIdle \/ TakeLifecycle \/ CheckTarget \/ ApplyInvalid
  \/ ApplyTransition \/ ResetBegin \/ ResetActive \/ ResetPending
  \/ ResetComplete \/ Idle \/ EnterRun \/ ApplyLive \/ Control
  \/ \E s \in Slots : ApplySlot(s)
  \/ \E valid \in StateValid : ResetLifecycle(valid) \/ ModelStep(valid)

-----------------------------------------------------------------------------
(* The command thread.  A command starts from "idle" with a request not    *)
(* yet used and ends in "idle" with its receipt sent.                      *)

Receive(r, c) == cpc = "idle" /\ c \in Commands /\ outcome[r] = "none"
Finish == cpc' = "idle" /\ loc' = NoLoc

\* start, stop, pause, resume, reset, mission_end: queue_lifecycle reads
\* sequence before queue_lifecycle_at takes the lock.
LegacyLifecycle(r, event) ==
  /\ Receive(r, "lifecycle")
  /\ cpc' = "queue"
  /\ loc' = [NoLoc EXCEPT !.id = r, !.event = event, !.target = sequence]
  /\ UNCHANGED <<modelVars, snapVars, request, slot, outcome, rtVars>>

AdmissibleBoundary(target) ==
  IF lifecycle = "RUNNING" THEN target > sequence /\ target <= sequence + Lookahead
  ELSE target = sequence

\* parse_stage_lifecycle checks under the lock, releases it, and queues.
StageLifecycle(r, event, target) ==
  /\ Receive(r, "stage_lifecycle") /\ event # "ENDED"
  /\ IF request.pending \/ ~AdmissibleBoundary(target)
     THEN /\ Answer(r, "rejected") /\ UNCHANGED cmdVars
     ELSE /\ cpc' = "queue"
          /\ loc' = [NoLoc EXCEPT !.id = r, !.event = event, !.target = target]
          /\ UNCHANGED outcome
  /\ UNCHANGED <<modelVars, snapVars, request, slot, rtVars>>

\* queue_lifecycle_at overwrites whatever is queued.
QueueLifecycle ==
  /\ cpc = "queue"
  /\ request' = [pending |-> TRUE, id |-> loc.id, event |-> loc.event,
                 target |-> loc.target]
  /\ Answer(loc.id, "queued") /\ Finish
  /\ UNCHANGED <<modelVars, snapVars, slot, rtVars>>

\* parse_set_inputs copies pending_live under command_lock ...
SetInputsRead(r, f) ==
  /\ Receive(r, "set_inputs")
  /\ cpc' = "inputs"
  /\ loc' = [NoLoc EXCEPT !.id = r, !.live = [pendingLive.val EXCEPT ![f] = r]]
  /\ UNCHANGED <<modelVars, snapVars, request, slot, outcome, rtVars>>

\* Fault: the generation is not moved by an update.
SetInputsCommitUnnoticed ==
  /\ cpc = "inputs"
  /\ pendingLive' = [pendingLive EXCEPT !.val =
       [f \in Fields |-> IF f \in InputFields THEN loc.live[f] ELSE pendingLive.val[f]]]
  /\ Answer(loc.id, "accepted") /\ Finish
  /\ UNCHANGED <<modelVars, pendingReset, resetReceipt, active, initial, request,
                 slot, rtVars>>

\* ... and replaces its input part, leaving pending_live.parameters.
SetInputsCommit ==
  /\ cpc = "inputs"
  /\ pendingLive' = [val |-> [f \in Fields |-> IF f \in InputFields THEN loc.live[f]
                                               ELSE pendingLive.val[f]],
                     fresh |-> TRUE]
  /\ Answer(loc.id, "accepted") /\ Finish
  /\ UNCHANGED <<modelVars, pendingReset, resetReceipt, active, initial, request,
                 slot, rtVars>>

\* The lifecycles the contract lets a parameter class be tuned in.
AllowedPhases(class) == IF class = "reset" THEN {"PAUSED"} ELSE {"RUNNING", "PAUSED"}

\* reset_snapshot_from_initial, unless a reset snapshot is already pending.
ResetCandidate ==
  IF pendingReset.set THEN pendingReset.val
  ELSE [initial EXCEPT !["live"] = active["live"]]

\* Fault: a second reset-only group is accepted.
ResetOnlyNeverBusy == FALSE

\* One reset-only group may wait for a reset at a time.
ResetOnlyBusy == resetReceipt.pending

TuneRead(r, classes) ==
  /\ Receive(r, "tune")
  /\ IF \/ \E c \in classes : lifecycle \notin AllowedPhases(c)
        \/ "reset" \in classes /\ ResetOnlyBusy
     THEN /\ Answer(r, "rejected") /\ UNCHANGED cmdVars
     ELSE /\ cpc' = "tune"
          /\ loc' = [NoLoc EXCEPT !.id = r, !.fields = classes,
                       !.live = [pendingLive.val EXCEPT !["live"] = r],
                       !.reset = [ResetCandidate EXCEPT !["reset"] = r]]
          /\ UNCHANGED outcome
  /\ UNCHANGED <<modelVars, snapVars, request, slot, rtVars>>

TuneCommit ==
  /\ cpc = "tune"
  /\ pendingLive' = IF "live" \in loc.fields THEN [val |-> loc.live, fresh |-> TRUE]
                    ELSE pendingLive
  /\ IF "reset" \in loc.fields
     THEN /\ pendingReset' = [val |-> loc.reset, set |-> TRUE]
          /\ resetReceipt' = [pending |-> TRUE, id |-> loc.id]
          /\ Answer(loc.id, "deferred")
     ELSE /\ Answer(loc.id, "accepted")
          /\ UNCHANGED <<pendingReset, resetReceipt>>
  /\ Finish
  /\ UNCHANGED <<modelVars, active, initial, request, slot, rtVars>>

\* Fault: the motor group has no default.
ConfiguredWithoutMotor(r) == [f \in Fields \ {"motor"} |-> r]

\* A complete input and parameter snapshot written by r; motor is its safe
\* value (parse_configure refuses any other).
Configured(r) == [f \in Fields |-> IF f = "motor" THEN Default ELSE r]

\* parse_configure, whole: it holds both locks.  "matches" says whether the
\* client's expected step, revision and control source are the actual ones.
Configure(r, matches, setter, valid) ==
  /\ Receive(r, "configure") /\ ~BoundaryHeld
  /\ IF \/ ~matches \/ revision = MaxRevision \/ request.pending
        \/ lifecycle # "STOPPED" \/ sequence # 0
     THEN /\ Answer(r, "rejected")
          /\ UNCHANGED <<modelVars, pendingLive, pendingReset, active, initial>>
     ELSE /\ active' = Configured(r) /\ initial' = Configured(r)
          /\ epoch' = epoch + 1
          /\ IF setter
             THEN /\ revision' = revision + 1 /\ lifecycle' = "CONFIGURED"
                  /\ pendingLive' = [val |-> Configured(r), fresh |-> TRUE]
                  /\ pendingReset' = [pendingReset EXCEPT !.set = FALSE]
                  /\ sequence' = 0 /\ PopulateState(valid, FALSE, 0)
                  /\ Answer(r, "accepted")
             ELSE /\ lifecycle' = "FAILED" /\ haveValid' = FALSE
                  /\ Answer(r, "rejected")
                  /\ UNCHANGED <<revision, sequence, stateSeq,
                                 pendingLive, pendingReset>>
  /\ UNCHANGED <<resetReceipt, request, slot, rtVars, cmdVars>>

\* parse_prepare_model_snapshot holds command_lock only.
PrepareRead(r) ==
  /\ Receive(r, "prepare_model_snapshot")
  /\ IF lifecycle # "STOPPED"
     THEN /\ Answer(r, "rejected") /\ UNCHANGED cmdVars
     ELSE /\ cpc' = "prepare1" /\ loc' = [NoLoc EXCEPT !.id = r]
          /\ UNCHANGED outcome
  /\ UNCHANGED <<modelVars, snapVars, request, slot, rtVars>>

PrepareModel(setter) ==
  /\ cpc = "prepare1"
  /\ active' = [f \in Fields |-> loc.id] /\ initial' = [f \in Fields |-> loc.id]
  /\ haveValid' = FALSE /\ epoch' = epoch + 1
  /\ IF setter
     THEN cpc' = "prepare2" /\ UNCHANGED <<lifecycle, outcome, loc>>
     ELSE lifecycle' = "FAILED" /\ Answer(loc.id, "rejected") /\ Finish
  /\ UNCHANGED <<sequence, revision, stateSeq, pendingLive,
                 pendingReset, resetReceipt, request, slot, rtVars>>

PreparePending(valid) ==
  /\ cpc = "prepare2"
  /\ pendingLive' = [val |-> active, fresh |-> TRUE]
  /\ pendingReset' = [pendingReset EXCEPT !.set = FALSE]
  /\ sequence' = 0 /\ PopulateState(valid, haveValid, 0)
  /\ Answer(loc.id, "accepted") /\ Finish
  /\ UNCHANGED <<lifecycle, revision, epoch, resetReceipt, active, initial,
                 request, slot, rtVars>>

\* parse_stage_icd_*: lifecycle and sequence are read without a lock ...
StageIcdRead(r, s, target) ==
  /\ Receive(r, "stage_icd")
  /\ IF lifecycle # "RUNNING" \/ target <= sequence \/ target > sequence + Lookahead
     THEN /\ Answer(r, "rejected") /\ UNCHANGED cmdVars
     ELSE /\ cpc' = "icd"
          /\ loc' = [NoLoc EXCEPT !.id = r, !.slot = s, !.target = target, !.alive = TRUE]
          /\ UNCHANGED outcome
  /\ UNCHANGED <<modelVars, snapVars, request, slot, rtVars>>

\* ... and only the occupancy of the slot is checked under command_lock.
StageIcdCommit ==
  /\ cpc = "icd"
  /\ IF slot[loc.slot].state = "STAGED"
     THEN Answer(loc.id, "rejected") /\ UNCHANGED slot
     ELSE /\ slot' = [slot EXCEPT ![loc.slot] =
               [state |-> "STAGED", id |-> loc.id, target |-> loc.target,
                applied |-> 0, alive |-> loc.alive, epoch |-> epoch]]
          /\ Answer(loc.id, "staged")
  /\ Finish
  /\ UNCHANGED <<modelVars, snapVars, request, rtVars>>

CmdStart(r) ==
  \/ \E event \in Events : LegacyLifecycle(r, event)
  \/ \E event \in Events, target \in 0 .. MaxSeq : StageLifecycle(r, event, target)
  \/ \E f \in InputFields : SetInputsRead(r, f)
  \/ \E classes \in SUBSET ParamFields \ {{}} : TuneRead(r, classes)
  \/ \E matches, setter \in BOOLEAN, valid \in StateValid :
       Configure(r, matches, setter, valid)
  \/ PrepareRead(r)
  \/ \E s \in Slots, target \in 0 .. MaxSeq : StageIcdRead(r, s, target)

\* The steps that end a command already received.
CmdProgress ==
  \/ QueueLifecycle \/ SetInputsCommit \/ TuneCommit
  \/ \E setter \in BOOLEAN : PrepareModel(setter)
  \/ \E valid \in StateValid : PreparePending(valid)
  \/ StageIcdCommit

\* CLOCK_MONOTONIC passes the deadline_ns of a staged, or being staged,
\* transaction.
DeadlinePasses ==
  /\ \/ /\ cpc = "icd" /\ loc.alive
        /\ loc' = [loc EXCEPT !.alive = FALSE] /\ UNCHANGED slot
     \/ \E s \in Slots :
          /\ slot[s].state = "STAGED" /\ slot[s].alive
          /\ slot' = [slot EXCEPT ![s].alive = FALSE] /\ UNCHANGED loc
  /\ UNCHANGED <<modelVars, snapVars, request, outcome, rtVars, cpc>>

Next ==
  RtNext \/ (\E r \in Requests : CmdStart(r)) \/ CmdProgress \/ DeadlinePasses \/ AtBound

Spec == Init /\ [][Next]_vars

\* The model thread is a SCHED_FIFO loop and neither lock is held for ever;
\* the command thread finishes what it started.  Clients owe nothing.
FairSpec == Spec /\ WF_vars(RtNext) /\ WF_vars(CmdProgress)
-----------------------------------------------------------------------------
(* Properties.                                                             *)

SlotRecords == [state : {"EMPTY", "STAGED", "APPLIED", "REJECTED"}, id : Values,
                target : Nat, applied : Nat, alive : BOOLEAN, epoch : Nat]
RequestRecords == [pending : BOOLEAN, id : Values, event : AllEvents, target : Nat]
TakenRecords == [id : Values, event : AllEvents, target : Nat, toStopped : BOOLEAN]
LocRecords == [id : Values, event : AllEvents, target : Nat, slot : AllSlots,
               fields : SUBSET ParamFields, live : Snapshots, reset : Snapshots,
               alive : BOOLEAN]

\* Every variable has the shape of the C variable it stands for.
TypeOK ==
  /\ lifecycle \in Lifecycles /\ sequence \in Nat /\ revision \in Nat
  /\ stateSeq \in Nat /\ haveValid \in BOOLEAN
  /\ epoch \in Nat
  /\ request \in RequestRecords
  /\ pendingLive \in [val : Snapshots, fresh : BOOLEAN]
  /\ pendingReset \in [val : Snapshots, set : BOOLEAN]
  /\ resetReceipt \in [pending : BOOLEAN, id : Values]
  /\ active \in Snapshots /\ initial \in Snapshots
  /\ slot \in [Slots -> SlotRecords]
  /\ outcome \in [Requests -> Outcomes]
  /\ rpc \in RtPhases /\ taken \in TakenRecords
  /\ cpc \in CmdPhases /\ loc \in LocRecords

\* An iteration that steps the model was authorised by RUNNING, and nothing but
\* the landing of the demo mission moves the lifecycle before the step is done:
\* no command can stop, reset or configure the model under a half-made step.
IterationAuthorised == rpc \in RunPhases => lifecycle \in {"RUNNING", "ENDED"}

\* A run can only be started from model step zero: whichever of RESET,
\* configure and prepare_model_snapshot produced the CONFIGURED boundary, and
\* however they interleaved, sequence was rewound before CONFIGURED was visible.
ConfiguredAtZero == lifecycle = "CONFIGURED" => sequence = 0

\* The published State132 projection is never ahead of the model: a rewind by
\* RESET, configure or prepare_model_snapshot, alone or interleaved, does not
\* leave the previous run's step behind a state still offered as valid.
ProjectionCoherent ==
  haveValid /\ rpc \notin ResetPhases => stateSeq <= sequence

\* What the model is about to step with is exactly what the ICD receipts will
\* say was applied at this step: a slot APPLIED at sequence + 1 in this run is
\* in force unless a later slot of the same iteration wrote the same field (and
\* may have been staged again since).
StepSeesApplied ==
  rpc = "step" =>
    \A s \in Slots : \A f \in Writes(s) :
      LET now(t) == /\ slot[t].state = "APPLIED" /\ slot[t].epoch = epoch
                    /\ slot[t].applied = sequence + 1
      IN now(s) => \/ active[f] = slot[s].id
                   \/ \E t \in Slots : /\ Rank[s] < Rank[t] /\ f \in Writes(t)
                                       /\ now(t) \/ slot[t].state = "STAGED"

\* A reset-only command accepted as "queued for reset" keeps the identity its
\* final receipt needs until that receipt is sent: none is forgotten because
\* another reset-only group took the single slot.
DeferredTracked ==
  \A r \in Requests :
    outcome[r] = "deferred" => resetReceipt.pending /\ resetReceipt.id = r

\* Once the model thread has taken pending_live, every value it holds is in
\* force, except where an ICD transaction has written the field since: an
\* accepted set_inputs or tune is not lost between the two threads.
LiveInForce ==
  /\ ~pendingLive.fresh /\ lifecycle # "FAILED"
  /\ rpc # "reset2" /\ cpc # "prepare2"
  => \A f \in Fields \ {"motor"} :
       \/ active[f] = pendingLive.val[f]
       \/ active[f] \in Requests /\ outcome[active[f]] = "staged"

\* The model thread never waits for ever: the request it dequeued is answered,
\* whatever the command thread does with the locks.
TakenAnswered ==
  \A r \in Requests : taken.id = r ~> outcome[r] \in Answered

\* A staged ICD transaction reaches a terminal result while the model runs: it is
\* applied at its step or rejected as LATE or EXPIRED, never forgotten.  (Only the
\* last step of a finite instance, which is never left, is excepted.)
StagedResolved ==
  \A s \in Slots :
    slot[s].state = "STAGED" /\ sequence < MaxSeq ~>
      slot[s].state # "STAGED" \/ lifecycle # "RUNNING"

\* The inductive strengthening of IterationAuthorised and ConfiguredAtZero: what
\* RESET and prepare_model_snapshot, which exclude each other by no common lock,
\* can assume of the lifecycle while they are half done.
BoundaryInv ==
  /\ IterationAuthorised
  /\ ConfiguredAtZero
  /\ rpc \in {"reset1", "reset2", "reset3"} =>
       /\ lifecycle \in {"RESETTING", "FAILED"}
       /\ lifecycle = "FAILED" => taken.toStopped
  /\ rpc = "reset3" => sequence = 0
  /\ lifecycle = "RESETTING" => rpc \in {"reset1", "reset2", "reset3"}
  /\ cpc \in {"prepare1", "prepare2"} =>
       /\ lifecycle \in {"STOPPED", "RESETTING"}
       /\ lifecycle = "RESETTING" => taken.toStopped

\* The two threads together keep the promise of RunBoundary: the lifecycle and
\* the step counter move as if stepping, resetting and configuring excluded
\* each other.
Boundary == INSTANCE RunBoundary WITH
  phase <- lifecycle, step <- sequence, stepping <- (rpc \in RunPhases)
ImplementsRunBoundary == Boundary!Spec

\* The two threads together: whatever the interleaving, an iteration steps the
\* model only while it is running and a run begins at step zero (BoundaryInv), and
\* what is published is never ahead of the model (ProjectionCoherent).
CoreSound == TypeOK /\ BoundaryInv /\ ProjectionCoherent

\* Under fair scheduling every request that was dequeued is answered, and every
\* staged transaction of a running model is applied or rejected.
RequestsResolve == TakenAnswered /\ StagedResolved
=============================================================================
