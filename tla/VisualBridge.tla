------------------------------ MODULE VisualBridge ------------------------------
(***************************************************************************)
(* The link to the UE4 visual system, protocol V2.0: the bridge thread and its *)
(* state publisher (bridge_tcp_client.py), the state cache the UDP forwarder    *)
(* fills (state_cache.py, udp_forwarder.py), and the management WebSocket's     *)
(* lifecycle and mission commands (ws_server.py), which ask the C core first    *)
(* and tell the bridge what was accepted.                                      *)
(*                                                                         *)
(* The three run in threads of their own.  _queue_lock makes a queue operation  *)
(* one step; a request to the core, a frame and its acknowledgement are steps   *)
(* others come between.  seq is allocated under one lock and sent under         *)
(* another: owed holds the senders that have a number and have not sent yet, in *)
(* the order of their numbers.                                             *)
(*                                                                         *)
(* The WebSocket loop serves one command at a time.  publisher.join(1.0) is     *)
(* taken to succeed: a publisher told to stop has at most one frame left, and   *)
(* a blocked frame holds _send_lock, so no plan overtakes it.                  *)
(*                                                                         *)
(* StateCache.reset_for_new_run, which lets an earlier step in again, is left  *)
(* out: only a START or STOP of the Spring service calls it (model_runtime.py), *)
(* and config.yaml sets spring_ws.allow_commands to false.                     *)
(*                                                                         *)
(* A definition introduced by "Fault:" is the definition after it with a   *)
(* plausible error in it; nothing uses it.                                 *)
(***************************************************************************)
EXTENDS Naturals, Sequences, SequencesExt

CONSTANTS
  EventNames,   \* lifecycle events the WebSocket is asked for
  MaxCommands,  \* commands, loads and events together
  MaxConnects,
  MaxStep

ASSUME VisualAssumption ==
  /\ EventNames \subseteq {"pause", "resume", "reset", "mission_end"}
  /\ MaxCommands \in Nat /\ MaxConnects \in Nat /\ MaxStep \in Nat

VARIABLES
  core,         \* lifecycle and sequence of the model
  cache,        \* the latest state received
  ws,           \* the command the WebSocket serves
  events,       \* lifecycle events asked of the core, in order
  queues,       \* all _queue_lock protects
  connected,    \* the flag the threads share
  session,      \* the bridge thread
  publisher,    \* the state publisher of the session
  owed,         \* senders with a number they have not sent
  peer          \* what the UE4 side has received

visualVars == <<core, cache, ws, events, queues, connected, session, publisher, owed, peer>>

\* Missions are numbered in the order they are first loaded.
Missions == 1..MaxCommands
None == 0
Lives == {"CONFIGURED", "RUNNING", "PAUSED", "ENDED"}
EventIds == 1..MaxCommands
Sessions == {"idle", "wait", "plan", "loop", "drain", "event", "closing", "done"}

VisualTypeOK ==
  /\ core \in [life : Lives, step : 0..MaxStep]
  /\ cache \in [life : Lives, step : 0..MaxStep]
  /\ ws \in [pc : {"idle", "request", "resolve", "forward"}, loads : 0..MaxCommands,
             mission : Missions \cup {None}]
  /\ events \in Seq([event : EventNames, mission : Missions \cup {None}, reservedIn : 0..MaxConnects,
                     core : {"asked", "applied", "refused", "untold"}])
  /\ Len(events) + ws.loads <= MaxCommands
  /\ queues \in [current : Missions \cup {None}, missions : Seq(Missions), events : Seq(EventIds),
                 reserved : SUBSET EventIds]
  /\ IsInjective(queues.events)
  /\ connected \in BOOLEAN
  /\ session \in [pc : Sessions, connects : 0..MaxConnects, mission : Missions \cup {None},
                  missions : Seq(Missions), events : Seq(EventIds), before : 0..MaxStep,
                  ended : BOOLEAN]
  /\ publisher \in [pc : {"off", "run", "built"}, mission : Missions \cup {None},
                    step : 0..MaxStep]
  /\ owed \in Seq({"session", "publisher"}) /\ Len(owed) <= 2
  /\ peer \in [plan : Missions \cup {None}, step : 0..MaxStep, events : Seq(EventIds)]

VisualInit ==
  /\ core = [life |-> "RUNNING", step |-> 0]
  /\ cache = [step |-> 0, life |-> "CONFIGURED"]
  /\ ws = [pc |-> "idle", loads |-> 0, mission |-> None]
  /\ events = <<>>
  /\ queues = [current |-> None, missions |-> <<>>, events |-> <<>>, reserved |-> {}]
  /\ connected = FALSE
  /\ session = [pc |-> "idle", connects |-> 0, mission |-> None, missions |-> <<>>, events |-> <<>>,
                before |-> 0, ended |-> FALSE]
  /\ publisher = [pc |-> "off", mission |-> None, step |-> 0]
  /\ owed = <<>>
  /\ peer = [plan |-> None, step |-> 0, events |-> <<>>]

-----------------------------------------------------------------------------
(* The core and the state cache.                                           *)

Applies(event) == CASE event = "pause" -> core.life = "RUNNING"
                    [] event = "resume" -> core.life \in {"PAUSED", "CONFIGURED"}
                    [] event = "mission_end" -> core.life \in {"RUNNING", "PAUSED", "CONFIGURED"}
                    [] event = "reset" -> TRUE

Applied(event) == CASE event = "pause" -> [core EXCEPT !.life = "PAUSED"]
                    [] event = "resume" -> [core EXCEPT !.life = "RUNNING"]
                    [] event = "mission_end" -> [core EXCEPT !.life = "ENDED"]
                    [] event = "reset" -> [life |-> "CONFIGURED", step |-> 0]

\* A step of the model, which may be the one the demo mission lands in.
CoreSteps ==
  /\ core.life = "RUNNING" /\ core.step < MaxStep
  /\ \E life \in {"RUNNING", "ENDED"} : core' = [life |-> life, step |-> core.step + 1]
  /\ UNCHANGED <<cache, ws, events, queues, connected, session, publisher, owed, peer>>

\* Fault: a state of an earlier step replaces the one in the cache.
CacheAcceptsAny == cache' = core

\* update: a state of an earlier step is refused.
CacheUpdate ==
  /\ core.step >= cache.step
  /\ cache' = core

\* recv_worker: a datagram of the core reaches the cache, others are lost.
StateArrives ==
  /\ CacheUpdate
  /\ UNCHANGED <<core, ws, events, queues, connected, session, publisher, owed, peer>>

-----------------------------------------------------------------------------
(* Commands of the WebSocket.                                              *)

Newest == Len(events)

\* reserve_simulation_event, when the bridge is connected.
Reserve(id) == IF connected THEN [queues EXCEPT !.reserved = @ \cup {id}] ELSE queues

\* _handle_core_command up to the request: the event is reserved first.
Ask(event, mission) ==
  /\ ws.pc = "idle" /\ Newest + ws.loads < MaxCommands
  /\ mission # None => event = "mission_end" /\ mission <= ws.loads
  /\ events' = Append(events, [event |-> event, mission |-> mission, core |-> "asked",
                               reservedIn |-> IF connected THEN session.connects ELSE 0])
  /\ queues' = Reserve(Newest + 1)
  /\ ws' = [ws EXCEPT !.pc = "request"]
  /\ UNCHANGED <<core, cache, connected, session, publisher, owed, peer>>

\* core_request: the core applies the command, or refuses it, or never gets it; a
\* receipt that does not come in two seconds is answered as a refusal, whatever
\* the core did.
CoreAnswers ==
  /\ ws.pc = "request"
  /\ LET event == events[Newest].event IN
     \/ /\ Applies(event)
        /\ core' = Applied(event)
        /\ \E told \in {"applied", "untold"} : events' = [events EXCEPT ![Newest].core = told]
     \/ /\ core' = core
        /\ events' = [events EXCEPT ![Newest].core = "refused"]
  /\ ws' = [ws EXCEPT !.pc = "resolve"]
  /\ UNCHANGED <<cache, queues, connected, session, publisher, owed, peer>>

\* Fault: an event whose receipt did not come is queued like an accepted one.
ResolvedAnyway(id) ==
  [queues EXCEPT !.reserved = @ \ {id},
                 !.events = IF events[id].core # "refused" THEN Append(@, id) ELSE @]

\* resolve_simulation_event: the reservation becomes a queued event, or is cancelled.
Resolved(id) ==
  [queues EXCEPT !.reserved = @ \ {id},
                 !.events = IF events[id].core = "applied" THEN Append(@, id) ELSE @]

\* _handle_core_command after the receipt.
Resolve ==
  /\ ws.pc = "resolve"
  /\ queues' = IF Newest \in queues.reserved THEN Resolved(Newest) ELSE queues
  /\ ws' = [ws EXCEPT !.pc = "idle"]
  /\ UNCHANGED <<core, cache, events, connected, session, publisher, owed, peer>>

\* _handle_load_mission: the core accepts the route, and only a connected bridge
\* is told of it.
Load(mission) ==
  /\ ws.pc = "idle" /\ Newest + ws.loads < MaxCommands /\ mission <= ws.loads + 1
  /\ connected
  /\ ws' = [pc |-> "forward", loads |-> ws.loads + 1, mission |-> mission]
  /\ UNCHANGED <<core, cache, events, queues, connected, session, publisher, owed, peer>>

\* send_mission_plan: by now the bridge may have disconnected.
Forward ==
  /\ ws.pc = "forward"
  /\ queues' = [queues EXCEPT !.current = ws.mission, !.missions = Append(@, ws.mission)]
  /\ ws' = [ws EXCEPT !.pc = "idle", !.mission = None]
  /\ UNCHANGED <<core, cache, events, connected, session, publisher, owed, peer>>

-----------------------------------------------------------------------------
(* The bridge thread.                                                      *)

\* _run: a connection, on which the hello is acknowledged or not; the session
\* numbers its frames from one.
Connect ==
  /\ session.pc = "idle" /\ session.connects < MaxConnects
  /\ peer' = [peer EXCEPT !.plan = None]
  /\ \/ /\ session' = [session EXCEPT !.pc = "wait", !.connects = @ + 1]
        /\ connected' = TRUE
     \/ /\ session' = [session EXCEPT !.connects = @ + 1]
        /\ UNCHANGED connected
  /\ UNCHANGED <<core, cache, ws, events, queues, publisher, owed>>

\* _snapshot_pending_mission: the newest mission, and the step the cache is at.
AwaitMission ==
  /\ session.pc = "wait" /\ queues.current # None
  /\ session' = [session EXCEPT !.pc = "plan", !.mission = queues.current, !.before = cache.step]
  /\ UNCHANGED <<core, cache, ws, events, queues, connected, publisher, owed, peer>>

\* The server reports an error, or closes, before there is a mission.
AwaitEnds ==
  /\ session.pc = "wait"
  /\ session' = [session EXCEPT !.pc = "closing"]
  /\ UNCHANGED <<core, cache, ws, events, queues, connected, publisher, owed, peer>>

\* start_publisher.
Publishing(mission) == [publisher EXCEPT !.pc = "run", !.mission = mission]

Planned(mission) == [peer EXCEPT !.plan = mission]

\* _discard_queued_mission: s without the copies of x.
Without(s, x) ==
  LET upTo[n \in 0..Len(s)] ==
        IF n = 0 THEN <<>> ELSE IF s[n] = x THEN upTo[n - 1] ELSE Append(upTo[n - 1], s[n])
  IN  upTo[Len(s)]

\* _build_and_send_mission_plan of the first plan: acknowledged, its copies leave
\* the queue (_discard_queued_mission) and the states begin; otherwise the
\* session ends, whether the server got the plan or not.
FirstPlan ==
  /\ session.pc = "plan"
  /\ \/ /\ peer' = Planned(session.mission)
        /\ queues' = [queues EXCEPT !.missions = Without(@, session.mission)]
        /\ publisher' = Publishing(session.mission)
        /\ session' = [session EXCEPT !.pc = "loop"]
     \/ /\ \E got \in BOOLEAN : peer' = IF got THEN Planned(session.mission) ELSE peer
        /\ session' = [session EXCEPT !.pc = "closing"]
        /\ UNCHANGED <<queues, publisher>>
  /\ UNCHANGED <<core, cache, ws, events, connected, owed>>

\* The loop of _run_connected_session: it ends on an error of the server, when
\* the link is down, or drains both queues at once (_drain_queues).
Drain ==
  /\ session.pc = "loop"
  /\ connected
  /\ session' = [session EXCEPT !.pc = "drain", !.missions = queues.missions, !.events = queues.events]
  /\ queues' = [queues EXCEPT !.missions = <<>>, !.events = <<>>]
  /\ UNCHANGED <<core, cache, ws, events, connected, publisher, owed, peer>>

LoopEnds ==
  /\ session.pc = "loop"
  /\ session' = [session EXCEPT !.pc = "closing"]
  /\ UNCHANGED <<core, cache, ws, events, queues, connected, publisher, owed, peer>>

\* Fault: the plan is sent while the publisher may still send.
MayPlanAtOnce == TRUE

\* The publisher has been joined.
MayPlan == publisher.pc = "off"

\* The plan of a drained mission.  When it fails, the rest of what was drained
\* goes with the session.
NextPlan ==
  /\ session.pc = "drain" /\ session.missions # <<>>
  /\ MayPlan
  /\ LET mission == Head(session.missions) IN
     \/ /\ peer' = Planned(mission)
        /\ publisher' = Publishing(mission)
        /\ session' = [session EXCEPT !.mission = mission, !.missions = Tail(@)]
     \/ /\ \E got \in BOOLEAN : peer' = IF got THEN Planned(mission) ELSE peer
        /\ session' = [session EXCEPT !.pc = "closing", !.missions = <<>>, !.events = <<>>]
        /\ UNCHANGED publisher
  /\ UNCHANGED <<core, cache, ws, events, queues, connected, owed>>

\* _simulation_event_message takes the number of the next event.
BuildEvent ==
  /\ session.pc = "drain" /\ session.missions = <<>> /\ session.events # <<>>
  /\ session' = [session EXCEPT !.pc = "event"]
  /\ owed' = Append(owed, "session")
  /\ UNCHANGED <<core, cache, ws, events, queues, connected, publisher, peer>>

\* _finish_mission: the mission the event names, or the session's.
Finished(mission) == IF queues.current = mission THEN [queues EXCEPT !.current = None] ELSE queues

\* The event is acknowledged.  A mission_end ends the bridge; events behind it are
\* dropped.
EventAcked ==
  /\ session.pc = "event"
  /\ LET id == Head(session.events)
         end == events[id].event = "mission_end"
         mission == IF events[id].mission # None THEN events[id].mission ELSE session.mission IN
     /\ peer' = [peer EXCEPT !.events = Append(@, id)]
     /\ queues' = IF end THEN Finished(mission) ELSE queues
     /\ session' = IF end THEN [session EXCEPT !.pc = "closing", !.events = <<>>, !.ended = TRUE]
                   ELSE [session EXCEPT !.pc = "drain", !.events = Tail(@)]
  /\ owed' = Without(owed, "session")
  /\ UNCHANGED <<core, cache, ws, events, connected, publisher>>

\* Fault: the event is put back as well as the list it heads.
RequeueTwice == [queues EXCEPT !.events = <<Head(session.events)>> \o session.events \o @]

\* Fault: the event that was not acknowledged is not sent again.
RequeueRest == [queues EXCEPT !.events = Tail(session.events) \o @]

\* Fault: events that were not acknowledged go behind those queued since.
RequeueLast == [queues EXCEPT !.events = @ \o session.events]

\* _requeue_events: they go before those queued since.
Requeue == [queues EXCEPT !.events = session.events \o @]

\* No acknowledgement of the event: the session ends and it is sent again, even
\* when the server got it.
EventFails ==
  /\ session.pc = "event"
  /\ \E got \in BOOLEAN :
       peer' = IF got THEN [peer EXCEPT !.events = Append(@, Head(session.events))] ELSE peer
  /\ queues' = Requeue
  /\ session' = [session EXCEPT !.pc = "closing", !.events = <<>>]
  /\ owed' = Without(owed, "session")
  /\ UNCHANGED <<core, cache, ws, events, connected, publisher>>

Names(id, mission) == events[id].event = "mission_end" /\ events[id].mission \in {None, mission}

\* Fault: an end the core has applied and the WebSocket has not resolved is not seen.
EndPendingQueued(mission) == \E id \in ToSet(queues.events) : Names(id, mission)

\* _finish_mission_if_no_queued_end: an end is queued, or reserved.
EndPending(mission) == \E id \in ToSet(queues.events) \cup queues.reserved : Names(id, mission)

\* The end of an iteration: the mission is over when the model has ended after
\* the plan was made and no end is on its way.
CheckEnded ==
  /\ session.pc = "drain" /\ session.missions = <<>> /\ session.events = <<>>
  /\ LET over == /\ cache.life = "ENDED" /\ cache.step > session.before
                 /\ ~EndPending(session.mission) IN
     /\ queues' = IF over THEN Finished(session.mission) ELSE queues
     /\ session' = IF over THEN [session EXCEPT !.pc = "closing", !.ended = TRUE]
                   ELSE [session EXCEPT !.pc = "loop"]
  /\ UNCHANGED <<core, cache, ws, events, connected, publisher, owed, peer>>

\* The finally blocks: the publisher is stopped and joined, the link is down.
\* A finished mission ends the bridge thread for good.
Close ==
  /\ session.pc = "closing" /\ publisher.pc = "off"
  /\ connected' = FALSE
  /\ session' = [session EXCEPT !.pc = IF session.ended THEN "done" ELSE "idle", !.mission = None, !.before = 0]
  /\ UNCHANGED <<core, cache, ws, events, queues, publisher, owed, peer>>

-----------------------------------------------------------------------------
(* The publisher.                                                          *)

\* publisher_stop: a plan is to be sent, or the session is over.
ToldToStop == \/ session.pc = "closing"
              \/ session.pc = "drain" /\ session.missions # <<>>

\* get_vehicle_state_v2 and the number.  A state older than half a second is
\* withheld, so a publisher need never send.
BuildState ==
  /\ publisher.pc = "run" /\ ~ToldToStop
  /\ publisher' = [publisher EXCEPT !.pc = "built", !.step = cache.step]
  /\ owed' = Append(owed, "publisher")
  /\ UNCHANGED <<core, cache, ws, events, queues, connected, session, peer>>

SendState ==
  /\ publisher.pc = "built"
  /\ peer' = [peer EXCEPT !.step = publisher.step]
  /\ publisher' = [publisher EXCEPT !.pc = "run", !.step = 0]
  /\ owed' = Without(owed, "publisher")
  /\ UNCHANGED <<core, cache, ws, events, queues, connected, session>>

\* publish: an error of the socket takes the link down.
SendStateFails ==
  /\ publisher.pc = "built"
  /\ publisher' = [publisher EXCEPT !.pc = "off", !.step = 0, !.mission = None]
  /\ connected' = FALSE
  /\ owed' = Without(owed, "publisher")
  /\ UNCHANGED <<core, cache, ws, events, queues, session, peer>>

PublisherExits ==
  /\ publisher.pc = "run" /\ ToldToStop
  /\ publisher' = [publisher EXCEPT !.pc = "off", !.mission = None]
  /\ UNCHANGED <<core, cache, ws, events, queues, connected, session, owed, peer>>

-----------------------------------------------------------------------------

SessionStep == \/ Connect \/ AwaitMission \/ FirstPlan \/ Drain \/ NextPlan
               \/ BuildEvent \/ EventAcked \/ EventFails \/ CheckEnded \/ Close

PublisherStep == SendState \/ SendStateFails \/ PublisherExits

WsStep == CoreAnswers \/ Resolve \/ Forward

VisualNext ==
  \/ SessionStep \/ LoopEnds \/ AwaitEnds
  \/ PublisherStep \/ BuildState
  \/ WsStep
  \/ \E event \in EventNames, mission \in Missions \cup {None} : Ask(event, mission)
  \/ \E mission \in Missions : Load(mission)
  \/ CoreSteps \/ StateArrives

-----------------------------------------------------------------------------

\* What the server is shown belongs to the plan it has, in this connection:
\* a new plan waits for the publisher of the old one to be gone.
StatesFollowPlan == [][SendState => peer.plan = publisher.mission]_visualVars

\* The states shown never go back in time, over reconnections and over a reset of
\* the model.
NeverBackwards == [][peer'.step >= peer.step]_visualVars

\* The server is told only of events the core applied.
OnlyApplied == \A i \in 1..Len(peer.events) : events[peer.events[i]].core = "applied"

\* The server first hears of events in the order the core applied them, whatever
\* is sent twice.
EventsInOrder ==
  \A i, j \in 1..Len(peer.events) :
    (i < j /\ \A k \in 1..(j - 1) : peer.events[k] # peer.events[j]) => peer.events[i] < peer.events[j]

\* A session that finishes because the model ended leaves no mission_end of this
\* connection behind: neither queued, nor applied and not yet resolved.
EndNotOvertaken ==
  [][(session.pc = "drain" /\ session'.ended) =>
       \A id \in 1..Len(events) :
         (/\ Names(id, session.mission) /\ events[id].reservedIn = session.connects
          /\ events[id].core = "applied") => id \in ToSet(peer.events)]_visualVars

\* Drained behind a plan or behind a mission_end: lost when the plan fails, dropped
\* when the end is acknowledged.
AtRisk(id) ==
  /\ id \in ToSet(session.events)
  /\ \/ session.missions # <<>>
     \/ \E i, j \in 1..Len(session.events) :
          i < j /\ session.events[j] = id /\ events[session.events[i]].event = "mission_end"

Held(id) == id \in ToSet(queues.events) \cup ToSet(session.events)

\* An event the bridge has taken over stays with it until the server has received
\* it, over as many sessions as it takes; only one at risk is lost.
EventKept ==
  [][\A id \in 1..Len(events) :
       Held(id) /\ ~(id \in ToSet(queues'.events) \cup ToSet(session'.events))
         => id \in ToSet(peer'.events) \/ AtRisk(id)]_visualVars

VisualSpec == VisualInit /\ [][VisualNext]_visualVars

\* The server hears only of events the core applied, in their order.
VisualSound == VisualTypeOK /\ OnlyApplied /\ EventsInOrder

\* Plans, states and events leave by three paths of one connection and do not
\* overtake or lose each other, over reconnections and resets.
VisualInOrder == StatesFollowPlan /\ NeverBackwards /\ EndNotOvertaken /\ EventKept
=============================================================================
