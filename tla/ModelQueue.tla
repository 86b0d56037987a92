----------------------------- MODULE ModelQueue ------------------------------
(***************************************************************************)
(* icd_gateway/model_queue.py on top of the session registry: inputs that   *)
(* were admitted wait for the model step they name, one writer per target   *)
(* path.  The registry and the queue are called under one serialised owner  *)
(* (the receiver), so an action is still one call.                         *)
(*                                                                         *)
(* The target step, the paths and the lane of an input are part of its      *)
(* content (TargetOf, PathsOf, LaneOf).  The sources of one run are the      *)
(* grants of one model.                                                    *)
(***************************************************************************)
EXTENDS SessionRegistry

CONSTANTS
  Models, ModelOf,   \* models with a binding map; the model of each grant
  Paths, PathsOf,    \* target paths; those an input writes
  TargetOf,          \* the step an input names
  LaneOf,            \* the lane of a control, "stimulus" for any other input
  ControlTimeout,    \* control_timeout_ms
  MaxAhead,          \* max_ahead_steps
  Capacity,          \* queue_capacity
  MaxStep,           \* max_run_duration_steps
  MaxClears          \* bound on the cleanups of a run, for finite checking only

Lanes == {"flight", "actuator", "stimulus"}

ASSUME QueueAssumption ==
  /\ ModelOf \in [Grants -> Models]
  /\ PathsOf \in [Inputs -> SUBSET Paths]
  /\ TargetOf \in [Inputs -> Nat]
  /\ LaneOf \in [Inputs -> Lanes]
  /\ ControlTimeout \in Nat /\ MaxAhead \in Nat /\ Capacity \in Nat
  /\ MaxStep \in Nat /\ MaxClears \in Nat
  /\ Inputs \cap Commands = {}

VARIABLES
  steps,        \* _steps: the last boundary each model began
  pending,      \* _pending: key -> the queued input
  writers,      \* _writers: model and path -> session and lane
  reservations, \* _reservations: model, step and path -> key
  \* history
  handed,       \* how often each key was handed to the model
  clears        \* cleanups of each run: STOP, RESET, RESUME... applied

queueVars == <<steps, pending, writers, reservations, handed, clears>>
allVars == <<vars, queueVars>>

Targets == Models \X Paths
Places == Models \X (0..MaxStep) \X Paths
Writer == [sid : Ids, lane : Lanes]
Queued == [content : Inputs, model : Models, received : Nat, writer : Writer,
           era : Nat]

\* No entry of a table is taken for a missing one.
ASSUME QueueAbsentAssumption == Absent \notin Keys \cup Writer \cup Queued

\* The state of the queue has its types.
QueueTypeOK ==
  /\ steps \in [Models -> 0..MaxStep]
  /\ pending \in [Keys -> Queued \cup {Absent}]
  /\ writers \in [Targets -> Writer \cup {Absent}]
  /\ reservations \in [Places -> Keys \cup {Absent}]
  /\ handed \in [Keys -> Nat]
  /\ clears \in [Models -> Nat]

QueueInit ==
  /\ Init
  /\ steps = [m \in Models |-> 0]
  /\ pending = [k \in Keys |-> Absent]
  /\ writers = [t \in Targets |-> Absent]
  /\ reservations = [p \in Places |-> Absent]
  /\ handed = [k \in Keys |-> 0]
  /\ clears = [m \in Models |-> 0]

-----------------------------------------------------------------------------
(* _remove and discard_session, as functions of the tables.                *)

PlacesOf(entry) ==
  {<<entry.model, TargetOf[entry.content], p>> : p \in PathsOf[entry.content]}

\* Fault: a removed input keeps its places.
ReservationsKept(table, keys) == table

\* The reservations without those of some queued inputs.
Released(table, keys) ==
  [p \in Places |-> IF \E k \in keys : p \in PlacesOf(pending[k])
                    THEN Absent ELSE table[p]]

Without(table, keys) == [k \in Keys |-> IF k \in keys THEN Absent ELSE table[k]]

QueuedBy(ids) == {k \in Held(pending) : k[1] \in ids}

\* Fault: one session's end frees every path.
DisownsAll(ids) ==
  [t \in Targets |-> IF \E u \in Targets : writers[u] # Absent /\ writers[u].sid \in ids
                     THEN Absent ELSE writers[t]]

\* The writers without those of some sessions.
Disowned(ids) ==
  [t \in Targets |-> IF writers[t] # Absent /\ writers[t].sid \in ids
                     THEN Absent ELSE writers[t]]

\* Fault: the paths are given up, the inputs stay queued.
DiscardWritersOnly(ids) == writers' = Disowned(ids) /\ UNCHANGED <<pending, reservations>>

\* discard_session for each of the sessions.
Discard(ids) ==
  /\ pending' = Without(pending, QueuedBy(ids))
  /\ reservations' = Released(reservations, QueuedBy(ids))
  /\ writers' = Disowned(ids)

\* The sessions the registry no longer knows once it has expired.
Dead == {s \in Ids : LiveSessions[s] = Absent}

-----------------------------------------------------------------------------
\* Every path is free or this writer's, and free at the target step.
Writable(m, entry) ==
  \A p \in PathsOf[entry.content] :
    /\ writers[<<m, p>>] \in {Absent, entry.writer}
    /\ reservations[<<m, TargetOf[entry.content], p>>] = Absent

\* enqueue, called for a running model.  Nothing changes unless every check
\* succeeds; the claim in the registry comes first.
Enqueue(key) ==
  LET m == ModelOf[LiveSessions[key[1]].grant]
      content == records[key].digest
      step == TargetOf[content]
      entry == [content |-> content, model |-> m,
                received |-> records[key].received,
                writer |-> [sid |-> key[1], lane |-> LaneOf[content]],
                era |-> clears[m]] IN
  /\ LiveSessions[key[1]] # Absent
  /\ KeptRecords[key] # Absent
  /\ content \in Inputs
  /\ step <= MaxStep
  /\ step > steps[m] /\ step - steps[m] <= MaxAhead
  /\ LaneOf[content] # "stimulus" => now - records[key].received < ControlTimeout
  /\ Writable(m, entry)
  /\ Cardinality(Held(pending)) < Capacity
  /\ Claim(key)
  /\ pending' = [pending EXCEPT ![key] = entry]
  /\ writers' = [t \in Targets |-> IF t[1] = m /\ t[2] \in PathsOf[content]
                                   THEN entry.writer ELSE writers[t]]
  /\ reservations' = [p \in Places |-> IF p \in PlacesOf(entry)
                                       THEN key ELSE reservations[p]]
  /\ UNCHANGED <<steps, handed, clears>>

\* Fault: the boundary hands over what is due, with nothing dropped first.
DueUnchecked(m, step) ==
  {k \in Held(pending) : pending[k].model = m /\ TargetOf[pending[k].content] = step}

\* Due at this boundary: of a live session, for exactly this step, and a
\* control younger than its timeout.
Due(m, step) ==
  {k \in Held(pending) \ QueuedBy(Dead) :
     /\ pending[k].model = m
     /\ TargetOf[pending[k].content] = step
     /\ pending[k].writer.lane # "stimulus" =>
          now - pending[k].received < ControlTimeout}

\* Fault: one boundary too many.
BoundaryBeyond(m) == steps[m] <= MaxStep

\* Whether the run has a next boundary.
Boundary(m) == steps[m] + 1 <= MaxStep

\* begin_step: the next boundary.  Inputs of dead sessions go first, then all
\* that were due by now leave the queue, handed over or rejected.
BeginStep(m) ==
  LET step == steps[m] + 1
      gone == QueuedBy(Dead) \cup
              {k \in Held(pending) : /\ pending[k].model = m
                                     /\ TargetOf[pending[k].content] <= step} IN
  /\ ~closed
  /\ Boundary(m)
  /\ Expire /\ records' = KeptRecords
  /\ steps' = [steps EXCEPT ![m] = step]
  /\ pending' = Without(pending, gone)
  /\ reservations' = Released(reservations, gone)
  /\ writers' = Disowned(Dead)
  /\ handed' = [k \in Keys |-> IF k \in Due(m, step) THEN handed[k] + 1 ELSE handed[k]]
  /\ UNCHANGED <<now, nextId, closed, told, clears>> /\ UNCHANGED history

\* expire_model_inputs, from the receiver's tick.
ExpireInputs ==
  /\ Refuse
  /\ Discard(Dead)
  /\ UNCHANGED <<steps, handed, clears>>

\* retire: revoke and discard.
Retire(s) ==
  /\ Revoke(s)
  /\ Discard({s})
  /\ UNCHANGED <<steps, handed, clears>>

\* The live sessions of the run that session s belongs to: run_session_ids.
RunSessions(s) ==
  {t \in Held(sessions) : ModelOf[sessions[t].grant] = ModelOf[sessions[s].grant]}

\* A lifecycle command applied for a run: every command but START discards
\* what its sessions queued, RESET and RESUME retire the sessions too, and the
\* queue takes over the step the model reports, which RESET brings back to 0.
Lifecycle(s, action, step) ==
  LET m == ModelOf[sessions[s].grant] IN
  /\ ~closed
  /\ sessions[s] # Absent /\ now < sessions[s].deadline
  /\ clears[m] < MaxClears
  /\ IF action = "RESET" THEN step = 0 ELSE step >= steps[m]
  /\ steps' = [steps EXCEPT ![m] = step]
  /\ IF action \in {"RESET", "RESUME"}
     THEN sessions' = [t \in Ids |-> IF t \in RunSessions(s) THEN Absent ELSE sessions[t]]
     ELSE UNCHANGED sessions
  /\ IF action = "START"
     THEN UNCHANGED <<pending, reservations, writers, clears>>
     ELSE Discard(RunSessions(s)) /\ clears' = [clears EXCEPT ![m] = @ + 1]
  /\ UNCHANGED <<now, opens, records, nextId, closed, told, handed>>
  /\ UNCHANGED history

\* close of the registry closes the queue, which is cleared.
CloseAll ==
  /\ Close
  /\ pending' = [k \in Keys |-> Absent]
  /\ writers' = [t \in Targets |-> Absent]
  /\ reservations' = [p \in Places |-> Absent]
  /\ UNCHANGED <<steps, handed, clears>>

\* The registry's own calls.
RegistryStep ==
  /\ \/ \E g \in Grants : Request(g)
     \/ \E k \in Keys : Feedback(k)
     \/ Refuse
     \/ RefuseClosed
     \/ Tick
  /\ UNCHANGED queueVars

QueueNext ==
  \/ RegistryStep
  \/ \E k \in Keys : Enqueue(k)
  \/ \E m \in Models : BeginStep(m)
  \/ ExpireInputs
  \/ \E s \in Ids : Retire(s)
  \/ \E s \in Ids, a \in {"START", "STOP", "RESET", "RESUME"}, n \in 0..MaxStep : Lifecycle(s, a, n)
  \/ CloseAll

QueueSpec == QueueInit /\ [][QueueNext]_allVars

-----------------------------------------------------------------------------
(* Properties.                                                             *)

\* A place is reserved exactly by the queued input that writes it, whichever
\* of removal, discard and lifecycle cleanup took others away: two inputs
\* queued for one step of a model never write the same path.
ReservedExactly ==
  \A p \in Places, k \in Keys :
    reservations[p] = k <=> pending[k] # Absent /\ p \in PlacesOf(pending[k])

\* Single writer: the paths of every queued input belong to its writer.
WriterHolds ==
  \A k \in Held(pending) : \A p \in PathsOf[pending[k].content] :
    writers[<<pending[k].model, p>>] = pending[k].writer

\* Business is not repeated: an input is handed to the model at a boundary or
\* applied at once by its consumer service, not both, and neither twice.
AppliedOnce ==
  \A k \in Keys : handed[k] + (IF answered[k] = "applied" THEN 1 ELSE 0) <= 1

\* The model is handed only what may act at that very boundary: inputs of
\* sessions whose lease is in force, and no control older than its timeout.
HandedInForce ==
  [][\A k \in Keys : handed'[k] # handed[k] =>
       /\ sessions[k[1]] # Absent /\ now < sessions[k[1]].deadline
       /\ TargetOf[pending[k].content] = steps'[pending[k].model]
       /\ pending[k].writer.lane # "stimulus" =>
            now < pending[k].received + ControlTimeout]_allVars

\* A stop, a reset or a resume leaves nothing behind: what was queued before
\* it is never handed over after it, though the cleanup itself only knows the
\* sessions still registered.
NothingSurvivesCleanup ==
  [][\A k \in Keys : handed'[k] # handed[k] =>
       pending[k].era = clears[pending[k].model]]_allVars

\* Places and owners agree with the queue, by whichever way an input leaves it.
QueueSound == QueueTypeOK /\ ReservedExactly /\ WriterHolds

\* What a boundary hands to the model was neither outlived nor cleaned up while it
\* waited.
HandedOver == HandedInForce /\ NothingSurvivesCleanup
=============================================================================
