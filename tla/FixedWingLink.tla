------------------------------ MODULE FixedWingLink ------------------------------
(***************************************************************************)
(* The fixed-wing visual link, protocol V3.0: the C core's client              *)
(* (fixed_wing_v3_tcp.c), whose worker sends what the model thread leaves in a  *)
(* box behind a lock, and the Python server that keeps the latest state         *)
(* (fixed_wing_v3_bridge.py).                                               *)
(*                                                                         *)
(* The server reads one connection to its end before it accepts the next, so    *)
(* what the worker writes is one stream with an end between connections; what   *)
(* the server replies on a connection the worker has left is lost.              *)
(*                                                                         *)
(* A state is its run (the resets of the model before it) and its time in it.   *)
(* Payloads that a validator refuses whatever the order of frames are left out. *)
(*                                                                         *)
(* A definition introduced by "Fault:" is the definition after it with a   *)
(* plausible error in it; nothing uses it.                                 *)
(***************************************************************************)
EXTENDS Naturals, Sequences

CONSTANTS
  LinkEvents,   \* lifecycle events that happen
  MaxEvents3,   \* events sent
  MaxPlans,     \* missions loaded
  MaxBreaks,    \* connections lost without a refusal
  MaxTime

ASSUME LinkAssumption ==
  /\ LinkEvents \subseteq {"start", "pause", "resume", "mission_end", "reset_scene"}
  /\ \A n \in {MaxEvents3, MaxPlans, MaxBreaks, MaxTime} : n \in Nat

VARIABLES
  plant,        \* the model: run, time, and the reset whose mission is not cleared yet
  box,          \* the client struct behind its lock
  raised,       \* events given to fixed_wing_v3_tcp_send_event, in order
  worker,       \* the thread that owns the connection
  stream,       \* frames written and not read, connections ended in between
  replies,      \* replies not read on the worker's connection
  server,       \* the FixedWingV3Session
  latest        \* the LatestFixedWingState

linkVars == <<plant, box, raised, worker, stream, replies, server, latest>>

NoMission == 0
NoEvent == 0
StreamRoom == 2   \* frames written and not read while a state is sent
Plans == 1..MaxPlans
Stamp(run, time) == [run |-> run, time |-> time]
Stamps == [run : 0..MaxEvents3, time : 0..MaxTime]

Frames == [type : {"hello", "event", "plan", "state", "end"}, event : 0..MaxEvents3,
           mission : 0..MaxPlans, stamp : Stamps]
Frame(type, event, mission, stamp) ==
  [type |-> type, event |-> event, mission |-> mission, stamp |-> stamp]
Nothing == Stamp(0, 0)

LinkTypeOK ==
  /\ plant \in [at : Stamps, clear : BOOLEAN]
  /\ box \in [state : Stamps, valid : BOOLEAN, mission : 0..MaxPlans, loaded : 0..MaxPlans,
              generation : Nat, event : 0..MaxEvents3]
  /\ raised \in Seq([event : LinkEvents, mission : 0..MaxPlans]) /\ Len(raised) <= MaxEvents3
  /\ worker \in [pc : {"off", "hello", "loop", "event", "mission", "plan", "state"}, event : 0..MaxEvents3,
                 mission : 0..MaxPlans, generation : Nat, sent : Nat, valid : BOOLEAN,
                 state : Stamps, breaks : 0..MaxBreaks]
  /\ (worker.pc = "event") = (worker.event # NoEvent)
  /\ worker.pc \in {"plan", "state"} => worker.mission # NoMission
  /\ stream \in Seq(Frames)
  /\ replies \in Seq({"ack", "error"})
  /\ server \in [phase : {"closed", "hello", "mission_plan", "state"}, mission : 0..MaxPlans,
                 known : BOOLEAN, time : 0..MaxTime]
  /\ latest \in [valid : BOOLEAN, state : Stamps, mission : 0..MaxPlans, paused : BOOLEAN,
                 events : Seq(1..MaxEvents3)]

LinkInit ==
  /\ plant = [at |-> Nothing, clear |-> FALSE]
  /\ box = [state |-> Nothing, valid |-> FALSE, mission |-> NoMission, loaded |-> 0,
            generation |-> 0, event |-> NoEvent]
  /\ raised = <<>>
  /\ worker = [pc |-> "off", event |-> NoEvent, mission |-> NoMission, generation |-> 0, sent |-> 0,
               valid |-> FALSE, state |-> Nothing, breaks |-> 0]
  /\ stream = <<>> /\ replies = <<>>
  /\ server = [phase |-> "closed", mission |-> NoMission, known |-> FALSE, time |-> 0]
  /\ latest = [valid |-> FALSE, state |-> Nothing, mission |-> NoMission, paused |-> FALSE,
               events |-> <<>>]

-----------------------------------------------------------------------------
(* The threads of the core.                                                *)

PlantSteps ==
  /\ ~plant.clear /\ plant.at.time < MaxTime
  /\ plant' = [plant EXCEPT !.at.time = @ + 1]
  /\ UNCHANGED <<box, raised, worker, stream, replies, server, latest>>

\* fixed_wing_v3_tcp_publish_state, every SEND_INTERVAL steps.
PublishState ==
  /\ ~plant.clear
  /\ box' = [box EXCEPT !.state = plant.at, !.valid = TRUE]
  /\ UNCHANGED <<plant, raised, worker, stream, replies, server, latest>>

\* fixed_wing_v3_tcp_set_mission, of an accepted load_mission: the command thread.
SetMission ==
  /\ box.loaded < MaxPlans
  /\ box' = [box EXCEPT !.mission = box.loaded + 1, !.loaded = @ + 1, !.generation = @ + 1]
  /\ UNCHANGED <<plant, raised, worker, stream, replies, server, latest>>

\* fixed_wing_v3_tcp_send_event: one place, the last event in it.
SendEvent(event) == /\ raised' = Append(raised, [event |-> event, mission |-> box.mission])
                    /\ box' = [box EXCEPT !.event = Len(raised) + 1]

\* apply_lifecycle_request: an event that does not reset.
Lifecycle(event) ==
  /\ event # "reset_scene" /\ ~plant.clear /\ Len(raised) < MaxEvents3
  /\ SendEvent(event)
  /\ UNCHANGED <<plant, worker, stream, replies, server, latest>>

\* The reset: the model starts over, then the event, then, in a call of its own,
\* the mission.
Reset ==
  /\ "reset_scene" \in LinkEvents /\ ~plant.clear /\ Len(raised) < MaxEvents3
  /\ plant' = [at |-> Stamp(plant.at.run + 1, 0), clear |-> TRUE]
  /\ SendEvent("reset_scene")
  /\ UNCHANGED <<worker, stream, replies, server, latest>>

Cleared == [box EXCEPT !.mission = NoMission, !.generation = @ + 1]

\* fixed_wing_v3_tcp_clear_mission.
ClearMission ==
  /\ plant.clear
  /\ plant' = [plant EXCEPT !.clear = FALSE]
  /\ box' = Cleared
  /\ UNCHANGED <<raised, worker, stream, replies, server, latest>>

-----------------------------------------------------------------------------
(* The worker of the client.                                               *)

\* Fault: a reconnection takes the plan for sent.
KeepsSent == worker.sent

\* sent_generation belongs to a connection.
SentAtConnect == 0

\* connect_server and the hello.
ConnectServer ==
  /\ worker.pc = "off"
  /\ worker' = [worker EXCEPT !.pc = "hello"]
  /\ stream' = Append(stream, Frame("hello", NoEvent, NoMission, Nothing))
  /\ replies' = <<>>
  /\ UNCHANGED <<plant, box, raised, server, latest>>

\* The connection is closed; what the worker holds is forgotten.
LeavesWith(breaks) ==
  [worker EXCEPT !.pc = "off", !.event = NoEvent, !.mission = NoMission, !.generation = 0,
                 !.valid = FALSE, !.state = Nothing, !.sent = SentAtConnect, !.breaks = breaks]

Awaiting == worker.pc \in {"hello", "event", "plan"}
AfterAck == CASE worker.pc = "hello" -> "loop" [] worker.pc = "event" -> "mission" [] worker.pc = "plan" -> "state"

\* send_low_rate: the next reply, whatever it answers, has to be the acknowledgement.
ReadReply ==
  /\ Awaiting /\ replies # <<>>
  /\ IF Head(replies) = "ack"
     THEN /\ worker' = [worker EXCEPT !.pc = AfterAck, !.event = NoEvent,
                                      !.sent = IF worker.pc = "plan" THEN worker.generation ELSE @]
          /\ stream' = stream
     ELSE /\ worker' = LeavesWith(worker.breaks)
          /\ stream' = Append(stream, Frame("end", NoEvent, NoMission, Nothing))
  /\ replies' = Tail(replies)
  /\ UNCHANGED <<plant, box, raised, server, latest>>

\* No reply within a second, or a broken connection: the frames on their way may
\* be lost with it.
Break ==
  /\ worker.pc # "off" /\ worker.breaks < MaxBreaks
  /\ worker' = LeavesWith(worker.breaks + 1)
  /\ \E kept \in 0..Len(stream) :
       stream' = Append(SubSeq(stream, 1, kept), Frame("end", NoEvent, NoMission, Nothing))
  /\ replies' = <<>>
  /\ UNCHANGED <<plant, box, raised, server, latest>>

\* Fault: the event stays pending until the server has acknowledged it.
TakenLater == box

\* The event is taken out of the box before it is sent.
Taken == [box EXCEPT !.event = NoEvent]

\* One iteration of the loop: a copy of the box, and the event goes first.
Snapshot ==
  /\ worker.pc = "loop"
  /\ worker' = [worker EXCEPT !.pc = IF box.event # NoEvent THEN "event" ELSE "mission",
                              !.event = box.event, !.mission = box.mission,
                              !.generation = box.generation, !.valid = box.valid, !.state = box.state]
  /\ stream' = IF box.event = NoEvent THEN stream
               ELSE Append(stream, Frame("event", box.event, raised[box.event].mission, Nothing))
  /\ box' = Taken
  /\ UNCHANGED <<plant, raised, replies, server, latest>>

\* Fault: the iteration without a mission goes on.
SendMissionAnyway ==
  /\ worker.pc = "mission"
  /\ worker' = [worker EXCEPT !.pc = IF worker.generation # worker.sent THEN "plan" ELSE "state"]
  /\ stream' = IF worker'.pc = "plan" THEN Append(stream, Frame("plan", NoEvent, worker.mission, Nothing))
               ELSE stream
  /\ UNCHANGED <<plant, box, raised, replies, server, latest>>

\* Without a mission the iteration ends; a mission of another generation is sent.
SendMission ==
  /\ worker.pc = "mission"
  /\ worker' = [worker EXCEPT !.pc = IF worker.mission = NoMission THEN "loop"
                                     ELSE IF worker.generation # worker.sent THEN "plan" ELSE "state"]
  /\ stream' = IF worker'.pc = "plan" THEN Append(stream, Frame("plan", NoEvent, worker.mission, Nothing))
               ELSE stream
  /\ UNCHANGED <<plant, box, raised, replies, server, latest>>

\* state_message of the copy, then consume_server_error: a refusal that is already
\* there is taken away.
SendsState ==
  /\ worker.pc = "state"
  /\ worker.valid => Len(stream) < StreamRoom
  /\ worker' = [worker EXCEPT !.pc = "loop", !.mission = NoMission, !.generation = 0,
                              !.valid = FALSE, !.state = Nothing]
  /\ stream' = IF worker.valid
               THEN Append(stream, Frame("state", NoEvent, worker.mission, worker.state)) ELSE stream
  /\ replies' = IF replies # <<>> THEN Tail(replies) ELSE replies
  /\ UNCHANGED <<plant, box, raised, server, latest>>

-----------------------------------------------------------------------------
(* The server.  Leave is what a reply does when the worker has gone.        *)

Closed == [phase |-> "closed", mission |-> NoMission, known |-> FALSE, time |-> 0]
Ended == \E i \in 2..Len(stream) : stream[i].type \in {"end", "hello"}
Reply(answer) == replies' = IF Ended \/ worker.pc = "off" THEN replies ELSE Append(replies, answer)

\* accept and _hello.  After the end of a connection the server waits for the next.
TakeHello(f) ==
  /\ f.type = "hello"
  /\ server' = [Closed EXCEPT !.phase = "mission_plan"]
  /\ Reply("ack")
  /\ UNCHANGED latest

TakeEnd(f) ==
  /\ f.type = "end"
  /\ server' = Closed
  /\ UNCHANGED <<replies, latest>>

\* _mission_plan and set_mission.
TakePlan(f) ==
  /\ f.type = "plan" /\ server.phase \in {"mission_plan", "state"}
  /\ server' = [server EXCEPT !.phase = "state", !.mission = f.mission]
  /\ latest' = [latest EXCEPT !.mission = f.mission]
  /\ Reply("ack")

\* A frame of an earlier phase, an event the server does not know, an end of another
\* mission, a state of another mission.
Refused(f) ==
  \/ f.type \in {"event", "state"} /\ server.phase # "state"
  \/ f.type = "event" /\ raised[f.event].event = "start"
  \/ f.type = "event" /\ raised[f.event].event = "mission_end" /\ f.mission # server.mission
  \/ f.type = "state" /\ f.mission # server.mission

Refuse(f) ==
  /\ Refused(f)
  /\ Reply("error")
  /\ UNCHANGED <<server, latest>>

\* Latest state wins: a state older than one this session has shown is dropped.
InTime(f) == ~server.known \/ f.stamp.time >= server.time

\* _vehicle_state and replace.
TakeState(f) ==
  /\ f.type = "state" /\ ~Refused(f)
  /\ IF InTime(f)
     THEN /\ server' = [server EXCEPT !.known = TRUE, !.time = f.stamp.time]
          /\ latest' = [latest EXCEPT !.valid = TRUE, !.state = f.stamp]
     ELSE UNCHANGED <<server, latest>>
  /\ UNCHANGED replies

SceneReset == [server EXCEPT !.phase = "mission_plan", !.mission = NoMission, !.known = FALSE, !.time = 0]

\* _event and LatestFixedWingState.event.
TakeEvent(f) ==
  /\ f.type = "event" /\ ~Refused(f)
  /\ LET event == raised[f.event].event
         told == [latest EXCEPT !.events = Append(@, f.event)] IN
     /\ server' = IF event = "reset_scene" THEN SceneReset ELSE server
     /\ latest' = CASE event = "pause" -> [told EXCEPT !.paused = TRUE]
                    [] event = "resume" -> [told EXCEPT !.paused = FALSE]
                    [] event = "reset_scene" ->
                         [told EXCEPT !.valid = FALSE, !.state = Nothing, !.mission = NoMission,
                                      !.paused = FALSE]
                    [] OTHER -> told
  /\ Reply("ack")

\* recv_frame and observe.
Observe ==
  /\ stream # <<>>
  /\ LET f == Head(stream) IN
       TakeHello(f) \/ TakeEnd(f) \/ TakePlan(f) \/ Refuse(f) \/ TakeState(f) \/ TakeEvent(f)
  /\ stream' = Tail(stream)
  /\ UNCHANGED <<plant, box, raised, worker>>

-----------------------------------------------------------------------------

WorkerStep == ConnectServer \/ ReadReply \/ Snapshot \/ SendMission \/ SendsState

LinkNext ==
  \/ PlantSteps \/ PublishState \/ SetMission \/ Reset \/ ClearMission
  \/ \E event \in LinkEvents : Lifecycle(event)
  \/ WorkerStep \/ Break \/ Observe

LinkFairness == /\ WF_linkVars(WorkerStep) /\ WF_linkVars(Observe)
                /\ WF_linkVars(ClearMission) /\ WF_linkVars(PublishState)

-----------------------------------------------------------------------------

\* The server applies an event of the core at most once, and in order: a lost
\* acknowledgement is not repeated over.
AppliedInOrder ==
  \A i, j \in 1..Len(latest.events) : i < j => latest.events[i] < latest.events[j]

\* The worker is not left behind with a plan for sent that the server does not
\* have, once what it wrote is read.
PlanKnown ==
  (/\ worker.pc \in {"mission", "state", "loop"} /\ stream = <<>> /\ replies = <<>>
   /\ worker.sent # 0 /\ worker.sent = box.generation)
     => server.mission = box.mission \/ plant.clear

\* With nothing left to happen the server shows the mission and the state of the
\* core, unless it keeps a later time of an earlier run.
Converges ==
  <>[](box.mission # NoMission) =>
    <>[](\/ latest.mission = box.mission /\ latest.state = plant.at
         \/ server.known /\ server.time > plant.at.time)

LinkSpec == LinkInit /\ [][LinkNext]_linkVars
FairLinkSpec == LinkSpec /\ LinkFairness

\* Over reconnections and lost acknowledgements the server applies events once and
\* in order, and the worker is not left with a plan the server does not have.
LinkSound == LinkTypeOK /\ AppliedInOrder /\ PlanKnown
=============================================================================
