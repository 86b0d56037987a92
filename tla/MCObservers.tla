----------------------------- MODULE MCObservers -----------------------------
(***************************************************************************)
(* What is computed from the model's time and status, side by side for TLC: *)
(*   "controller"  the virtual flight controller service, its frames;        *)
(*   "arbiter"     the arbiter of the core, which may receive the frames in  *)
(*                 any order;                                              *)
(*   "assertions"  a WAIT for two samples in a row and an ASSERT, begun      *)
(*                 apart or together;                                      *)
(*   "clock"       Status, step floor and control lease of a source;         *)
(*   "timetable"   three events from all shapes, compiled and iterated.      *)
(***************************************************************************)
EXTENDS FlightController, ControlArbiter, StatusAssertions, SourceClock, Timetable

CONSTANTS imu, gps, wait, assert
VARIABLE about

MCLimit == (imu :> 0) @@ (gps :> 1)

MCSpecs == {assert, wait}
MCHandles == {{assert}, {wait}, {assert, wait}}
MCModeOf == assert :> "ASSERT" @@ wait :> "WAIT"
MCCountOf == [s \in MCSpecs |-> IF s = wait THEN 2 ELSE 1]
MCTimeoutOf == [s \in MCSpecs |-> 2]

PlainEvent(type) == [type |-> type, targets |-> {}, link |-> 1]
SendTo(t) == [type |-> "SEND", targets |-> t, link |-> 1]
StartEvery(period, count, t) ==
  [type |-> "PERIODIC_START", targets |-> t, link |-> 1, sender |-> 1,
   period |-> period, count |-> count]
StopOn(link) == [type |-> "PERIODIC_STOP", targets |-> {}, link |-> link, sender |-> 1]
WaveFrom(period, duration, kind, from, to, steps, phase, offset) ==
  [type |-> "WAVEFORM", targets |-> {"x"}, link |-> 1, period |-> period, duration |-> duration,
   wave |-> [kind |-> kind, from |-> from, to |-> to, steps |-> steps,
             phase |-> phase, offset |-> offset, amplitude |-> 1]]
WaveOf(period, duration, kind, from, to, steps) ==
  WaveFrom(period, duration, kind, from, to, steps, 0, 0)
\* A sine and a chirp whose crest is the upper limit, and two with ends in range
\* whose crest is not.
Waves ==
  {WaveOf(2, 3, "RAMP", 0, 4, 2), WaveOf(2, 2, "STEP", 1, 9, 1),
   WaveFrom(2, 3, "SINE", 2, 0, 1, 6, -2), WaveFrom(2, 2, "CHIRP", 1, 2, 3, 8, -2),
   WaveOf(1, 4, "SINE", 3, 0, 1), WaveOf(1, 4, "CHIRP", 2, 4, 4)}
AnyShape ==
  {PlainEvent("WAIT"), PlainEvent("END_CLEANUP"), SendTo({"x"}), SendTo({"x", "y"}),
   StartEvery(1, 3, {"x"}), StartEvery(2, 2, {"y"}), StopOn(1), StopOn(2),
   WaveOf(2, 3, "RAMP", 0, 4, 2)}
MCShapes == <<AnyShape, AnyShape \cup Waves, {PlainEvent("END_CLEANUP"), StopOn(1), SendTo({"x"})}>>
MCWindows == {<<0, 9>>, <<2, 3>>}

MCInit ==
  /\ about \in {"controller", "arbiter", "assertions", "clock", "timetable"}
  /\ FlightInit /\ ArbiterInit /\ AssertionInit /\ ClockInit /\ TimetableInit
  /\ about # "clock" => sentBefore = 0
  /\ about # "assertions" => latest = None

Rest(part) ==
  /\ part # "controller" => UNCHANGED flightVars
  /\ part # "arbiter" => UNCHANGED arbiterVars
  /\ part # "assertions" => UNCHANGED assertionVars
  /\ part # "clock" => UNCHANGED clockVars
  /\ part # "timetable" => UNCHANGED timetableVars

MCNext ==
  /\ UNCHANGED about
  /\ \/ about = "controller" /\ FlightNext
     \/ about = "arbiter" /\ ArbiterNext
     \/ about = "assertions" /\ AssertionNext
     \/ about = "clock" /\ ClockNext
     \/ about = "timetable" /\ TimetableNext
  /\ Rest(about)

MCSpec ==
  MCInit /\ [][MCNext]_<<flightVars, arbiterVars, assertionVars, clockVars, timetableVars, about>>

\* Nothing moves the motors without authority, from the sensors to the model: frames
\* go forward in time, a blind controller does not arm, the arbiter applies only
\* the selected source in time, and a source sends only under its approval.
ControlSafe ==
  /\ [](FlightTypeOK /\ ArbiterTypeOK)
  /\ ForwardedInOrder /\ BlindIsSafe
  /\ AppliedIsCurrent /\ TransmitNotRevoked
=============================================================================
