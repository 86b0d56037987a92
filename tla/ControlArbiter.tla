------------------------------ MODULE ControlArbiter ------------------------------
(***************************************************************************)
(* Who controls the model: the arbiter of the C core (control_arbiter.c), the   *)
(* command thread that selects a source and submits commands, the model thread   *)
(* that asks the arbiter in every step (main_rt.c), and the senders: the          *)
(* management WebSocket, which waits for a receipt (core_request), and the        *)
(* flight controllers, which do not (core_send, px4_hil_service.py,              *)
(* virtual_quad_fc.py).                                                        *)
(*                                                                         *)
(* command_lock makes each call one step; the model thread takes it twice, once  *)
(* to read the source and once for the values.  Datagrams are delivered in order *)
(* or lost; one is on its way at a time.                                       *)
(*                                                                         *)
(* A definition introduced by "Fault:" is the definition after it with a   *)
(* plausible error in it; nothing uses it.                                 *)
(***************************************************************************)
EXTENDS Naturals

CONSTANTS
  Timeout,       \* EXTERNAL_CONTROL_TIMEOUT_NS in ticks
  MaxTime3, MaxSelections

ASSUME ArbiterAssumption == {Timeout, MaxTime3, MaxSelections} \subseteq Nat

VARIABLES
  coreTime,
  inbox,      \* the command on its way to the core
  arbiter,    \* ControlArbiter, and how often a source was selected
  model       \* the model thread

arbiterVars == <<coreTime, inbox, arbiter, model>>

Times == 1..MaxTime3
External == {"px4_sitl", "physical_uut"}
Sources == External \cup {"none", "demo_mission"}

\* A command is known by its source, the selection it was submitted under and the
\* time.  Safe stands for the safe values.
Commands == [source : Sources, selection : 0..MaxSelections, at : 0..MaxTime3]
Safe == [source |-> "none", selection |-> 0, at |-> 0]
Mission == [Safe EXCEPT !.source = "demo_mission"]

Empty == [source |-> "none", identified |-> FALSE]

ArbiterTypeOK ==
  /\ coreTime \in Times
  /\ inbox \in [source : External \cup {"none"}, identified : BOOLEAN]
  /\ arbiter \in [source : Sources, selections : 0..MaxSelections, command : Commands]
  /\ model \in [pc : {"idle", "read"}, source : Sources, applied : Commands]
  /\ arbiter.command # Safe => arbiter.command.source = arbiter.source
                               /\ arbiter.command.selection = arbiter.selections

ArbiterInit ==
  /\ coreTime = 1
  /\ inbox = Empty
  /\ arbiter = [source |-> "none", selections |-> 0, command |-> Safe]
  /\ model = [pc |-> "idle", source |-> "none", applied |-> Safe]

Elapses ==
  /\ coreTime < MaxTime3
  /\ coreTime' = coreTime + 1
  /\ UNCHANGED <<inbox, arbiter, model>>

\* An actuator_command of the WebSocket.
RequestCommand(source) ==
  /\ inbox = Empty
  /\ inbox' = [source |-> source, identified |-> TRUE]
  /\ UNCHANGED <<coreTime, arbiter, model>>

\* An accepted frame of a flight controller, without a request_id.
ForwardFrame(source) ==
  /\ inbox = Empty
  /\ inbox' = [source |-> source, identified |-> FALSE]
  /\ UNCHANGED <<coreTime, arbiter, model>>

\* control_arbiter_select.
Selected(source) == [arbiter EXCEPT !.source = source, !.selections = @ + 1, !.command = Safe]

\* parse_select_control_source.
SelectSource(source) ==
  /\ arbiter.selections < MaxSelections
  /\ arbiter' = Selected(source)
  /\ UNCHANGED <<coreTime, inbox, model>>

\* control_arbiter_clear: stop, reset and a new configuration.
ClearSource ==
  /\ arbiter.source # "none"
  /\ arbiter' = [arbiter EXCEPT !.source = "none", !.command = Safe]
  /\ UNCHANGED <<coreTime, inbox, model>>

\* Fault: the source of a command is not compared with the selected one.
SubmittedAnyway == [arbiter EXCEPT !.command = [source |-> inbox.source, selection |-> arbiter.selections, at |-> coreTime]]

\* control_arbiter_submit: a source that is not active is refused.
Submitted ==
  IF inbox.source = arbiter.source
  THEN [arbiter EXCEPT !.command = [source |-> inbox.source, selection |-> arbiter.selections, at |-> coreTime]]
  ELSE arbiter

\* parse_command: without a request_id a command is refused before it is looked at.
\* parse_actuator_command submits the others.
ParseCommand ==
  /\ inbox # Empty
  /\ inbox' = Empty
  /\ arbiter' = IF inbox.identified THEN Submitted ELSE arbiter
  /\ UNCHANGED <<coreTime, model>>

\* The model thread reads the source and lets the lock go.
ReadSource ==
  /\ model.pc = "idle"
  /\ model' = [model EXCEPT !.pc = "read", !.source = arbiter.source]
  /\ UNCHANGED <<coreTime, inbox, arbiter>>

\* Fault: the age of the command is not looked at.
GotAlways == arbiter.command

\* control_arbiter_get: without a command, or with one older than the timeout, the
\* safe values.
Got == IF arbiter.command # Safe /\ coreTime - arbiter.command.at <= Timeout THEN arbiter.command ELSE Safe

\* The values of the source read before are written to the model.
WriteActuators ==
  /\ model.pc = "read"
  /\ model' = [pc |-> "idle", source |-> "none",
               applied |-> IF model.source = "demo_mission" THEN Mission ELSE Got]
  /\ UNCHANGED <<coreTime, inbox, arbiter>>

ArbiterNext ==
  \/ Elapses
  \/ \E source \in External : RequestCommand(source) \/ ForwardFrame(source)
  \/ \E source \in Sources \ {"none"} : SelectSource(source)
  \/ ClearSource \/ ParseCommand \/ ReadSource \/ WriteActuators

ArbiterSpec == ArbiterInit /\ [][ArbiterNext]_arbiterVars

-----------------------------------------------------------------------------

\* An external value written to the model was submitted by the source that is
\* selected, since it was selected, and within the timeout, although the source may
\* change between the two looks of a step.
AppliedIsCurrent ==
  [][(model.pc = "read" /\ model'.pc = "idle" /\ model'.applied.source \in External) =>
        /\ model'.applied.source = arbiter.source
        /\ model'.applied.selection = arbiter.selections
        /\ coreTime - model'.applied.at <= Timeout]_arbiterVars
=============================================================================
