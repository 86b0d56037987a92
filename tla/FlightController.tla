------------------------------ MODULE FlightController ------------------------------
(***************************************************************************)
(* The virtual flight controller (virtual_quad_fc.py): a thread at a fixed rate  *)
(* that turns sensor states of the core into actuator frames, the adapter that   *)
(* orders and checks the frames, and the commands of the management WebSocket.   *)
(* What becomes of a forwarded frame in the core is in ControlArbiter.           *)
(*                                                                         *)
(* The controller object is shared without a lock: the thread reads it in       *)
(* several places of a step, commands write it in between.  A step that already *)
(* holds the object a reload replaces commutes with the reload, so Swap waits   *)
(* for it.  Positions, gains and mixers are left out: what is kept of a command *)
(* is whether it is armed.                                                  *)
(*                                                                         *)
(* A definition introduced by "Fault:" is the definition after it with a   *)
(* plausible error in it; nothing uses it.                                 *)
(***************************************************************************)
EXTENDS Naturals, Sequences, SequencesExt, FiniteSets

CONSTANTS
  Sensors,       \* sensors the estimate needs
  Limit,         \* age limit of each, in ticks of 100 ms
  Delay,         \* fixed_delay_ms in ticks
  FaultNames,    \* faults the operator injects
  MaxNow, MaxSteps, MaxReloads, MaxFaults

ASSUME FlightAssumption ==
  /\ Limit \in [Sensors -> Nat]
  /\ \A n \in {Delay, MaxNow, MaxSteps, MaxReloads, MaxFaults} : n \in Nat
  /\ FaultNames \subseteq {"blind", "loss", "delay", "duplicate", "out_of_order", "rollback", "invalid"}

VARIABLES
  now,
  service,    \* what the commands set: _scenario, _faults, the contract's generation
  control,    \* the controller object
  thread,     \* the flight controller's thread, in the middle of a step
  pipe,       \* sequence, last dispatched frame and delayed frames of the service
  adapter     \* the last frame accepted

flightVars == <<now, service, control, thread, pipe, adapter>>

Never == 0
Clock == 1..MaxNow

\* A frame: its numbers, whether it arms, the contract its channel names belong to,
\* whether the values are in range.
Frames == [seq : 0..MaxSteps, time : 0..MaxSteps, armed : BOOLEAN,
           names : 0..MaxReloads, ok : BOOLEAN]
NoFrame == [seq |-> 0, time |-> 0, armed |-> FALSE, names |-> 0, ok |-> FALSE]

FlightTypeOK ==
  /\ now \in Clock
  /\ service \in [scenario : {"stopped", "idle", "flying"}, faults : SUBSET FaultNames,
                  contract : 0..MaxReloads, injected : 0..MaxFaults, blind : 0..MaxNow]
  /\ control \in [scenario : {"stopped", "idle", "flying", "target"}, target : BOOLEAN,
                  seen : [Sensors -> 0..MaxNow]]
  /\ thread \in [pc : {"idle", "pending", "init", "demand", "frame", "send"}, then : {"idle", "pending"},
                 steps : 0..MaxSteps, armed : BOOLEAN, out : Seq(Frames)]
  /\ pipe \in [seq : 0..MaxSteps, last : Frames, delayed : Seq([frame : Frames, due : Nat]),
               reload : BOOLEAN]
  /\ adapter \in [frame : Frames, contract : 0..MaxReloads]
  /\ adapter.contract = service.contract + (IF pipe.reload THEN 1 ELSE 0)
  /\ pipe.reload => service.scenario = "stopped"

\* A controller of the contract, whose rotors or axes have been checked.
NewController == [scenario |-> "stopped", target |-> FALSE, seen |-> [s \in Sensors |-> Never]]

FlightInit ==
  /\ now = 1
  /\ service = [scenario |-> "stopped", faults |-> {}, contract |-> 0, injected |-> 0, blind |-> Never]
  /\ control = NewController
  /\ thread = [pc |-> "idle", then |-> "idle", steps |-> 0, armed |-> FALSE, out |-> <<>>]
  /\ pipe = [seq |-> 0, last |-> NoFrame, delayed |-> <<>>, reload |-> FALSE]
  /\ adapter = [frame |-> NoFrame, contract |-> 0]

Tick ==
  /\ now < MaxNow
  /\ now' = now + 1
  /\ UNCHANGED <<service, control, thread, pipe, adapter>>

-----------------------------------------------------------------------------
(* The thread of the flight controller.                                    *)

\* The thread with frames to send; after the last it goes on with then.
Sending(out, then, thr) ==
  IF out = <<>> THEN [thr EXCEPT !.pc = then, !.then = "idle", !.out = <<>>]
  ELSE [thr EXCEPT !.pc = "send", !.then = then, !.out = out]

\* The sensor socket, the sensors of a fresh state, and the delayed frames that
\* are due.  Under a sensor or model fault no sensor is ingested.
Sense ==
  /\ thread.pc = "idle" /\ thread.steps < MaxSteps
  /\ \E published \in SUBSET Sensors :
       control' = [control EXCEPT !.seen =
         [s \in Sensors |-> IF s \in published /\ "blind" \notin service.faults THEN now ELSE @[s]]]
  /\ LET due == SelectSeq(pipe.delayed, LAMBDA d : d.due <= now) IN
       thread' = Sending([i \in 1..Len(due) |-> due[i].frame], "pending", [thread EXCEPT !.steps = @ + 1])
  /\ pipe' = [pipe EXCEPT !.delayed = SelectSeq(@, LAMBDA d : d.due > now)]
  /\ UNCHANGED <<now, service, adapter>>

\* _try_initialize_pending_scenario reads the scenario and passes it on.
Pending ==
  /\ thread.pc = "pending"
  /\ thread' = [thread EXCEPT !.pc = IF ~control.target /\ control.scenario = "flying"
                                     THEN "init" ELSE "demand"]
  /\ UNCHANGED <<now, service, control, pipe, adapter>>

Estimated == \A s \in Sensors : control.seen[s] # Never

\* start_scenario of the controller: a target as soon as there is a position.
Initialise ==
  /\ thread.pc = "init"
  /\ control' = [control EXCEPT !.scenario = "flying", !.target = Estimated]
  /\ thread' = [thread EXCEPT !.pc = "demand"]
  /\ UNCHANGED <<now, service, pipe, adapter>>

\* Fault: an estimate is good once it has been made.
ReadyOnceSeen == Estimated

\* ready.
Ready == Estimated /\ \A s \in Sensors : now - control.seen[s] <= Limit[s]

\* Not flying, without a target or without fresh sensors a command is the safe one.
Flies == control.target /\ control.scenario \in {"flying", "target"} /\ Ready

\* command: a landing that is reached ends the scenario.
Demand ==
  /\ thread.pc = "demand"
  /\ \/ /\ Flies
        /\ \/ /\ thread' = [thread EXCEPT !.pc = "frame", !.armed = TRUE]
              /\ UNCHANGED control
           \/ /\ thread' = [thread EXCEPT !.pc = "frame", !.armed = FALSE]
              /\ control' = [control EXCEPT !.target = FALSE, !.scenario = "idle"]
     \/ /\ ~Flies
        /\ thread' = [thread EXCEPT !.pc = "frame", !.armed = FALSE]
        /\ UNCHANGED control
  /\ UNCHANGED <<now, service, pipe, adapter>>

OneShots == {"duplicate", "out_of_order", "rollback", "invalid"}

\* _command_frame and _dispatch: the next number, the channels of the adapter's
\* contract, the faults injected once, and the delay.
Dispatch ==
  /\ thread.pc = "frame"
  /\ LET seq == pipe.seq + 1
         plain == [seq |-> seq, time |-> thread.steps, armed |-> thread.armed,
                   names |-> adapter.contract, ok |-> TRUE]
         again == IF "duplicate" \in service.faults /\ pipe.last # NoFrame THEN <<pipe.last>> ELSE <<>>
         stale == IF "out_of_order" \in service.faults /\ pipe.last # NoFrame
                  THEN <<[pipe.last EXCEPT !.seq = IF seq > 2 THEN seq - 2 ELSE 0]>> ELSE <<>>
     IN \E time \in IF "rollback" \in service.faults THEN 0..(thread.steps - 1) ELSE {thread.steps} :
          LET frame == [plain EXCEPT !.time = time, !.ok = "invalid" \notin service.faults]
              delays == "delay" \in service.faults IN
          /\ thread' = Sending(again \o stale \o (IF delays THEN <<>> ELSE <<frame>>), "idle",
                               [thread EXCEPT !.armed = FALSE])
          /\ pipe' = [pipe EXCEPT !.seq = seq, !.last = frame,
                                  !.delayed = IF delays THEN Append(@, [frame |-> frame, due |-> now + Delay]) ELSE @]
  /\ service' = [service EXCEPT !.faults = @ \ OneShots]
  /\ UNCHANGED <<now, control, adapter>>

\* Fault: the timestamp is not compared.
InOrderBySequence(frame) == frame.seq > adapter.frame.seq

InOrder(frame) == frame.seq > adapter.frame.seq /\ frame.time > adapter.frame.time

\* submit_actuator_frame: names and values of the contract, both numbers increasing.
Accepts(frame) == frame.ok /\ frame.names = adapter.contract /\ InOrder(frame)

\* _send_frame: lost by injection, refused, or accepted and sent to the core.
SendFrame ==
  /\ thread.pc = "send" /\ thread.out # <<>>
  /\ LET frame == Head(thread.out) IN
     \/ /\ "loss" \in service.faults \/ ~Accepts(frame)
        /\ UNCHANGED adapter
     \/ /\ Accepts(frame)
        /\ adapter' = [adapter EXCEPT !.frame = frame]
  /\ thread' = Sending(Tail(thread.out), thread.then, thread)
  /\ UNCHANGED <<now, service, control, pipe>>

-----------------------------------------------------------------------------
(* Commands of the WebSocket: one at a time.                               *)

\* start_scenario of the service.
StartScenario(scenario) ==
  /\ ~pipe.reload /\ scenario \in {"idle", "flying"}
  /\ service' = [service EXCEPT !.scenario = scenario]
  /\ control' = [control EXCEPT !.scenario = scenario,
                                !.target = scenario = "flying" /\ Estimated]
  /\ UNCHANGED <<now, thread, pipe, adapter>>

StopScenario ==
  /\ ~pipe.reload
  /\ service' = [service EXCEPT !.scenario = "stopped"]
  /\ control' = [control EXCEPT !.scenario = "stopped", !.target = FALSE]
  /\ UNCHANGED <<now, thread, pipe, adapter>>

\* A fixed wing refuses to hover; the target stays.
RefuseScenario ==
  /\ ~pipe.reload
  /\ service' = [service EXCEPT !.scenario = "stopped"]
  /\ control' = [control EXCEPT !.scenario = "stopped"]
  /\ UNCHANGED <<now, thread, pipe, adapter>>

\* The controller with a target or a route.
Aimed == [control EXCEPT !.scenario = "target", !.target = TRUE]

\* set_target and load_route of the service.
SetTarget ==
  /\ ~pipe.reload
  /\ service' = [service EXCEPT !.scenario = "flying"]
  /\ control' = Aimed
  /\ UNCHANGED <<now, thread, pipe, adapter>>

\* inject_fault: one more fault, or clear.
InjectFault ==
  /\ ~pipe.reload /\ service.injected < MaxFaults
  /\ \E faults \in {{}} \cup {service.faults \cup {f} : f \in FaultNames} :
       service' = [service EXCEPT !.faults = faults, !.injected = @ + 1,
                                  !.blind = IF "blind" \notin faults THEN Never
                                            ELSE IF @ = Never THEN now ELSE @]
  /\ UNCHANGED <<now, control, thread, pipe, adapter>>

\* reload_contract is refused unless the scenario is stopped.
MayReload == service.scenario = "stopped"

\* reload_contract gives the adapter the new channels first.
Configure ==
  /\ ~pipe.reload /\ MayReload /\ service.contract < MaxReloads
  /\ adapter' = [adapter EXCEPT !.contract = service.contract + 1]
  /\ pipe' = [pipe EXCEPT !.reload = TRUE]
  /\ UNCHANGED <<now, service, control, thread>>

\* Then the controller is replaced and the numbers start again; the adapter keeps
\* the last numbers it accepted.
Swap ==
  /\ pipe.reload /\ thread.pc \notin {"init", "demand"}
  /\ control' = NewController
  /\ service' = [service EXCEPT !.contract = @ + 1]
  /\ pipe' = [seq |-> 0, last |-> NoFrame, delayed |-> <<>>, reload |-> FALSE]
  /\ UNCHANGED <<now, thread, adapter>>

\* activate_deployed_contract: stop_scenario, then reload_contract.
Deployed ==
  /\ ~pipe.reload /\ service.contract < MaxReloads
  /\ service' = [service EXCEPT !.scenario = "stopped"]
  /\ control' = [control EXCEPT !.scenario = "stopped", !.target = FALSE]
  /\ adapter' = [adapter EXCEPT !.contract = service.contract + 1]
  /\ pipe' = [pipe EXCEPT !.reload = TRUE]
  /\ UNCHANGED <<now, thread>>

-----------------------------------------------------------------------------

ThreadStep == Sense \/ Pending \/ Initialise \/ Demand \/ Dispatch \/ SendFrame

FlightNext ==
  \/ Tick \/ ThreadStep
  \/ \E scenario \in {"idle", "flying"} : StartScenario(scenario)
  \/ StopScenario \/ RefuseScenario \/ SetTarget \/ InjectFault \/ Configure \/ Swap \/ Deployed

FlightSpec == FlightInit /\ [][FlightNext]_flightVars

-----------------------------------------------------------------------------

\* Whatever is duplicated, delayed, reordered or set back, the frames forwarded
\* to the core go forward in time and are never sent twice.
ForwardedInOrder ==
  [][adapter'.frame # adapter.frame => /\ adapter'.frame.time > adapter.frame.time
                                       /\ adapter'.frame.ok]_flightVars

Longest == CHOOSE n \in {Limit[s] : s \in Sensors} : \A s \in Sensors : Limit[s] <= n

\* While the sensors have been invalid for longer than the longest age limit no
\* command arms, whatever the operator starts or reloads meanwhile.
BlindIsSafe ==
  [][thread'.armed /\ ~thread.armed => service.blind = Never \/ now - service.blind <= Longest]_flightVars
=============================================================================
