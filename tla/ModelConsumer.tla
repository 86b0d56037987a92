--------------------------- MODULE ModelConsumer ---------------------------
(***************************************************************************)
(* The gateway's services that act on the core while a run is going on:    *)
(* one consumer of model inputs (BindingModelConsumerService over          *)
(* ContractModelBridge for every group, or the ID7, ID10 or ID11 service   *)
(* over QuadrotorEnvironmentBridge for one), ModelLifecycleService over    *)
(* CcoreLifecycleBackend, ModelStatusService over CcoreStatusBackend.  The *)
(* gateway serves one request at a time; each step below is one UDP        *)
(* exchange with the core, which may get no reply.                         *)
(*                                                                         *)
(* The core keeps one staged transaction per binding group and one         *)
(* lifecycle request, and turns them into effects on its model thread at   *)
(* the step they name.  HilCore models how; here its commands are atomic.  *)
(* A stage command may be lost or arrive after the gateway gave it up.     *)
(*                                                                         *)
(* One run with one model; every session has the roles it needs.  Values   *)
(* are named by the request they come from.  Gateway and core read the     *)
(* same monotonic clock.  "Fault:" definitions are used by nothing.        *)
(***************************************************************************)
EXTENDS Naturals, FiniteSets, Sequences

CONSTANTS
  Sessions, Groups,
  Motor,        \* the flight_control group
  Validity,     \* valid_for_ms, in ticks of the clock
  Ahead,        \* ICD_ENVIRONMENT_MAX_LOOKAHEAD_STEPS, max_ahead_steps
  MaxSent, MaxClock, MaxTarget, MaxOthers  \* bounds, for finite checking

ASSUME ConsumerAssumption ==
  /\ Motor \in Groups
  /\ Validity \in Nat \ {0}
  /\ {Ahead, MaxSent, MaxClock, MaxTarget, MaxOthers} \subseteq Nat

LifecycleActions == {"START", "PAUSE", "RESUME", "STOP", "RESET"}
MachineStates == {"CONFIGURED", "RUNNING", "PAUSED", "STOPPED"}
Nobody == "nobody"

VARIABLES
  machine,      \* lifecycle, sequence and control source of the core
  staged,       \* icd_binding_groups
  transition,   \* lifecycle_request
  wire,         \* stage commands on their way to the core
  clock,
  installed,    \* the groups of the consumer the gateway was started with
  live,         \* sessions of the run in the registry
  flightOwner,  \* _flight_owner
  task,         \* the request the gateway serves
  sent,         \* history: the requests so far, with what they were told
  took,         \* history: the effects of each request on the core
  floor,        \* ModelStatusService._floors, by session
  others        \* moves of other clients so far

consumerVars == <<machine, staged, transition, wire, clock, installed, live, flightOwner,
                  task, sent, took, floor, others>>

Empty == [state |-> "EMPTY", id |-> 0, target |-> 0, deadline |-> 0]
NoTransition == [id |-> 0, action |-> "STOP", target |-> 0]
Fresh == [life |-> "CONFIGURED", step |-> 0, source |-> "NONE"]
NoTask == [pc |-> "idle", id |-> 0, deadline |-> 0, context |-> Fresh, reply |-> "none",
           shown |-> Fresh]

\* The gateway may be started beside a model that already runs.
ConsumerInit ==
  /\ machine \in {Fresh, [Fresh EXCEPT !.life = "RUNNING", !.step = 1]}
  /\ staged = [g \in Groups |-> Empty] /\ transition = NoTransition
  /\ wire = {} /\ clock = 0
  /\ installed \in {Groups} \cup {{g} : g \in Groups}
  /\ live = Sessions /\ flightOwner = Nobody
  /\ task = NoTask /\ sent = <<>> /\ took = <<>>
  /\ floor = [s \in Sessions |-> 0] /\ others = 0

-----------------------------------------------------------------------------
(* The core *)

\* The receipt the gateway gets if it still waits for request id.
Reply(id, r, m) == task' = IF task.id = id /\ task.pc \in {"await", "lawait"}
                             THEN [task EXCEPT !.reply = r, !.shown = m] ELSE task

\* parse_stage_icd_group
Stageable(d) ==
  /\ machine.life = "RUNNING" /\ d.deadline > clock
  /\ d.target > machine.step /\ d.target <= machine.step + Ahead
  /\ staged[d.what].state # "STAGED"
ArriveStage ==
  \E d \in wire :
    /\ d.what \in Groups /\ wire' = wire \ {d}
    /\ IF Stageable(d)
         THEN /\ staged' = [staged EXCEPT ![d.what] =
                   [state |-> "STAGED", id |-> d.id, target |-> d.target,
                    deadline |-> d.deadline]]
              /\ Reply(d.id, "staged", machine)
         ELSE UNCHANGED staged /\ Reply(d.id, "refused", machine)
    /\ UNCHANGED <<machine, transition, clock, live, flightOwner, sent, took, floor,
                   others>>

\* parse_stage_lifecycle: the receipt comes from the model thread.
InReach(target) == IF machine.life = "RUNNING"
                     THEN target > machine.step /\ target <= machine.step + Ahead
                   ELSE target = machine.step
ArriveLifecycle ==
  \E d \in wire :
    /\ d.what \in LifecycleActions /\ wire' = wire \ {d}
    /\ IF transition.id = 0 /\ InReach(d.target)
         THEN /\ transition' = [id |-> d.id, action |-> d.what, target |-> d.target]
              /\ UNCHANGED task
         ELSE UNCHANGED transition /\ Reply(d.id, "refused", machine)
    /\ UNCHANGED <<machine, staged, clock, live, flightOwner, sent, took, floor, others>>

LoseCommand ==
  /\ \E d \in wire : wire' = wire \ {d}
  /\ UNCHANGED <<machine, staged, transition, clock, live, flightOwner, task, sent,
                 took, floor, others>>

\* apply_lifecycle_request, ahead of every step.  RUNNING and PAUSED leave the
\* control source alone; STOP and RESET clear it.
Enters == [START |-> "RUNNING", PAUSE |-> "PAUSED", RESUME |-> "RUNNING",
           STOP |-> "STOPPED", RESET |-> "CONFIGURED"]
Possible(action, life) ==
  CASE action = "PAUSE" -> life = "RUNNING"
    [] action \in {"START", "RESUME"} -> life \in {"CONFIGURED", "PAUSED"}
    [] OTHER -> TRUE
After(action, m) ==
  CASE action = "STOP" -> [m EXCEPT !.life = "STOPPED", !.source = "NONE"]
    [] action = "RESET" -> [life |-> IF m.life = "STOPPED" THEN "STOPPED" ELSE "CONFIGURED",
                            step |-> 0, source |-> "NONE"]
    [] OTHER -> [m EXCEPT !.life = Enters[action]]

TransitionDue == transition.id # 0 /\ machine.step >= transition.target
Effect(id, at) == [took EXCEPT ![id] = [count |-> @.count + 1, at |-> at]]
ApplyTransition ==
  /\ TransitionDue /\ transition' = NoTransition
  /\ \/ /\ machine.step = transition.target /\ Possible(transition.action, machine.life)
        /\ machine' = After(transition.action, machine)
        /\ took' = Effect(transition.id, transition.target)
        /\ Reply(transition.id, "applied", machine')
     \/ /\ machine.step # transition.target \/ ~Possible(transition.action, machine.life)
        /\ Reply(transition.id, "refused", machine)
        /\ UNCHANGED <<machine, took>>
  /\ UNCHANGED <<staged, wire, clock, live, flightOwner, sent, floor, others>>

\* apply_icd_binding_group for every group, then the model step.
ModelStep ==
  LET next == machine.step + 1
      over(t) == t.state = "STAGED" /\ (t.deadline <= clock \/ t.target < next)
      due(t) == t.state = "STAGED" /\ ~over(t) /\ t.target = next
      hit == {staged[g].id : g \in {h \in Groups : due(staged[h])}} IN
  /\ machine.life = "RUNNING" /\ ~TransitionDue /\ next <= MaxTarget
  /\ machine' = [machine EXCEPT !.step = next]
  /\ staged' = [g \in Groups |->
       [staged[g] EXCEPT !.state = IF over(staged[g]) THEN "REJECTED"
                                   ELSE IF due(staged[g]) THEN "APPLIED" ELSE @]]
  /\ took' = [id \in DOMAIN took |->
       IF id \in hit THEN [count |-> took[id].count + 1, at |-> next] ELSE took[id]]
  /\ UNCHANGED <<transition, wire, clock, live, flightOwner, task, sent, floor, others>>

\* Other clients: a lifecycle command of the old interface, a control source.
OtherClient ==
  /\ others < MaxOthers /\ others' = others + 1
  /\ \/ /\ transition.id = 0
        /\ \E action \in LifecycleActions :
             /\ Possible(action, machine.life)
             /\ machine' = After(action, machine)
     \/ machine.source = "NONE" /\ machine' = [machine EXCEPT !.source = "DEMO_MISSION"]
  /\ UNCHANGED <<staged, transition, wire, clock, live, flightOwner, task, sent, took,
                 floor>>

Tick == /\ clock < MaxClock /\ clock' = clock + 1
        /\ UNCHANGED <<machine, staged, transition, wire, live, flightOwner, task, sent,
                       took, floor, others>>

-----------------------------------------------------------------------------
(* The gateway *)

coreVars == <<machine, staged, transition, clock, took, others>>
Request == sent[task.id]
\* Fault: the attempt is not over with its answer.
AnswerAndStay(what) == /\ sent' = [sent EXCEPT ![task.id].told = what]
                       /\ UNCHANGED task
Answer(what) == /\ sent' = [sent EXCEPT ![task.id].told = what]
                /\ task' = NoTask
Goes(pc) == task' = [task EXCEPT !.pc = pc] /\ UNCHANGED sent
\* One exchange: the reply is taken, or none comes in time.
Asks(step) == /\ step \/ Answer("FAILED")
              /\ UNCHANGED <<coreVars, live, flightOwner, wire, floor>>

\* A request of a live session was admitted; it is attempted once.
Admit(s, what, target, told) ==
  /\ task.pc = "idle" /\ s \in live /\ Len(sent) < MaxSent
  /\ sent' = Append(sent, [by |-> s, what |-> what, target |-> target, told |-> told])
  /\ took' = Append(took, [count |-> 0, at |-> 0])
  /\ UNCHANGED <<machine, staged, transition, clock, others, live, wire>>

\* Fault: the lane is not looked at.
BusyNever(s) == FALSE
\* Another live session owns the motor lane; an owner that is gone is
\* forgotten.
Owner == IF flightOwner \in live THEN flightOwner ELSE Nobody
Busy(s) == Owner \notin {Nobody, s}

\* supports: of the dedicated services only that of the group takes it.
Supports(g) == g \in installed

\* A request that no other session's lane is in the way of goes to the bridge.
Begins(s, g, target) ==
  /\ Admit(s, g, target, "none")
  /\ task' = [NoTask EXCEPT !.pc = "stage", !.id = Len(sent) + 1,
                            !.deadline = clock + Validity]
TakeInput(s, g, target) ==
  g # Motor /\ Supports(g) /\ Begins(s, g, target) /\ UNCHANGED <<flightOwner, floor>>
TakeMotor(s, target) ==
  /\ Supports(Motor) /\ flightOwner' = Owner /\ UNCHANGED floor
  /\ \/ ~Busy(s) /\ Begins(s, Motor, target)
     \/ Busy(s) /\ Admit(s, Motor, target, "REFUSED") /\ UNCHANGED task

\* TARGET_MISSING, before the lane or the core is looked at.
RefuseInput(s, g, target) ==
  /\ ~Supports(g) /\ Admit(s, g, target, "REFUSED")
  /\ UNCHANGED <<flightOwner, task, floor>>

SendStage ==
  /\ task.pc \in {"stage", "lstage"}
  /\ wire' = wire \cup {[id |-> task.id, what |-> Request.what,
                         target |-> Request.target, deadline |-> task.deadline]}
  /\ Goes(IF task.pc = "stage" THEN "await" ELSE "lawait")
  /\ UNCHANGED <<coreVars, live, flightOwner, floor>>

AwaitStage ==
  /\ task.pc = "await"
  /\ \/ task.reply = "refused" /\ Answer("REFUSED")
     \/ task.reply = "staged" /\ Goes("poll")
     \/ task.reply = "none" /\ Answer("FAILED")
  /\ UNCHANGED <<coreVars, live, flightOwner, wire, floor>>

\* Fault: a staged transaction is evidence enough.
ConfirmsStaged(t) == t.id = task.id /\ t.state # "REJECTED" /\ t.target = Request.target
\* get_icd_group_result names the transaction of this stage id, as applied.
ConfirmsInput(t) == t.id = task.id /\ t.state = "APPLIED" /\ t.target = Request.target
StillStaged(t) == t.id = task.id /\ t.state = "STAGED"
\* One poll: while the transaction is staged the loop goes round.
PollResult ==
  /\ task.pc = "poll"
  /\ \/ clock >= task.deadline /\ Answer("EXPIRED")
     \/ /\ clock < task.deadline
        /\ \/ ConfirmsInput(staged[Request.what]) /\ Goes("record")
           \/ /\ ~ConfirmsInput(staged[Request.what])
              /\ ~StillStaged(staged[Request.what]) /\ Answer("FAILED")
           \/ Answer("FAILED") \* no reply
  /\ UNCHANGED <<coreVars, live, flightOwner, wire, floor>>

\* The registry records the reply, or refuses: the session's lease has ended,
\* or there is no room for evidence.  Only then is the lane owned.
RecordInput ==
  /\ task.pc = "record"
  /\ \/ /\ Request.by \in live /\ Answer("APPLIED")
        /\ flightOwner' = IF Request.what = Motor THEN Request.by ELSE flightOwner
     \/ Answer("FAILED") /\ UNCHANGED flightOwner
  /\ UNCHANGED <<coreVars, live, wire, floor>>

\* A session is closed or its lease ends; not inside a lifecycle operation,
\* which checks the sessions of the run before and after.
EndSession(s) ==
  /\ s \in live /\ live' = live \ {s} /\ task.pc = "idle"
  /\ UNCHANGED <<coreVars, flightOwner, task, sent, wire, floor>>

-----------------------------------------------------------------------------
(* ModelLifecycleService.respond *)

TakeLifecycle(s, action, target) ==
  /\ Admit(s, action, target, "none")
  /\ task' = [NoTask EXCEPT !.pc = "lread", !.id = Len(sent) + 1]
  /\ UNCHANGED <<flightOwner, floor>>

\* read_context; SemanticGuards.lifecycle with the state the request expects.
Expected == [START |-> {"CONFIGURED"}, PAUSE |-> {"RUNNING"}, RESUME |-> {"PAUSED"},
             STOP |-> {"CONFIGURED", "RUNNING", "PAUSED"}, RESET |-> {"PAUSED", "STOPPED"}]
Allowed(r, m) == /\ m.life \in Expected[r.what]
                 /\ IF m.life = "RUNNING"
                      THEN r.target > m.step /\ r.target <= m.step + Ahead
                    ELSE r.target = m.step
ReadLifecycle ==
  /\ task.pc = "lread"
  /\ Asks(IF Allowed(Request, machine)
               THEN /\ task' = [task EXCEPT !.pc = "lbefore", !.context = machine]
                    /\ UNCHANGED sent
             ELSE Answer("REFUSED"))

\* apply_lifecycle: the status once more, then stage_lifecycle.
Unmoved == /\ machine.life = task.context.life /\ machine.source = task.context.source
           /\ IF machine.life = "RUNNING" THEN machine.step < Request.target
              ELSE machine.step = task.context.step
RecheckLifecycle ==
  /\ task.pc = "lbefore"
  /\ Asks(IF Unmoved THEN Goes("lstage") ELSE Answer("REFUSED"))

\* Fault: any receipt of the model thread will do.
ReceiptAny(r, m) == task.reply # "none"
\* The receipt names the next state and the boundary of the request; that of a
\* RESET names step zero.
ReceiptConfirms(r, m) == /\ task.reply = "applied"
                         /\ m.life = Enters[r.what] /\ m.step = r.target
AwaitLifecycle ==
  /\ task.pc = "lawait"
  /\ \/ ReceiptConfirms(Request, task.shown) /\ Goes("lsample")
     \/ /\ ~ReceiptConfirms(Request, task.shown)
        /\ Answer(IF task.reply = "refused" THEN "REFUSED" ELSE "FAILED")
  /\ UNCHANGED <<coreVars, live, flightOwner, wire, floor>>

\* The receipt: START and RESUME repeat the context, the others are sampled.
Receives ==
  IF Request.what \in {"START", "RESUME"}
    THEN [task.context EXCEPT !.life = "RUNNING", !.step = Request.target] ELSE machine
Shows(r, m) ==
  /\ m.life = Enters[r.what]
  /\ m.step = IF r.what = "RESET" THEN 0 ELSE r.target
  /\ r.what # "START" => m.source = "NONE"
\* RESET and RESUME retire the run with all its sessions.
Retires(r) == r.what \in {"RESET", "RESUME"}
CompleteLifecycle ==
  /\ task.pc = "lsample"
  /\ \/ /\ Shows(Request, Receives) /\ Answer("APPLIED")
        /\ live' = IF Retires(Request) THEN {} ELSE live
     \/ Answer("FAILED") /\ UNCHANGED live
  /\ UNCHANGED <<coreVars, flightOwner, wire, floor>>

-----------------------------------------------------------------------------
(* ModelStatusService.respond: one read, refused below the session's floor *)

\* Fault: the floor is not compared.
NotBelowAny(s) == TRUE
NotBelow(s) == machine.step >= floor[s]
Status(s) ==
  /\ Admit(s, "STATUS", machine.step, IF NotBelow(s) THEN "APPLIED" ELSE "REFUSED")
  /\ floor' = [floor EXCEPT ![s] = IF NotBelow(s) THEN machine.step ELSE @]
  /\ UNCHANGED <<task, flightOwner>>

-----------------------------------------------------------------------------
CoreMoves == ArriveStage \/ ArriveLifecycle \/ LoseCommand \/ ApplyTransition \/ ModelStep
             \/ OtherClient \/ Tick
GatewayMoves ==
  \/ \E s \in Sessions, n \in 0 .. MaxTarget :
       \/ n > 0 /\ TakeMotor(s, n)
       \/ \E g \in Groups : n > 0 /\ (TakeInput(s, g, n) \/ RefuseInput(s, g, n))
       \/ \E action \in LifecycleActions : TakeLifecycle(s, action, n)
  \/ SendStage \/ AwaitStage \/ PollResult \/ RecordInput
  \/ ReadLifecycle \/ RecheckLifecycle \/ AwaitLifecycle \/ CompleteLifecycle
  \/ \E s \in Sessions : Status(s) \/ EndSession(s)

ConsumerNext == (CoreMoves \/ GatewayMoves) /\ UNCHANGED installed
ConsumerSpec == ConsumerInit /\ [][ConsumerNext]_consumerVars

-----------------------------------------------------------------------------
(* Properties *)

\* Types; a request is told about once the gateway is through with it, and the
\* core holds no transaction of a request that was never sent.
ConsumerTypeOK ==
  /\ machine.life \in MachineStates /\ machine.step \in 0 .. MaxTarget
  /\ task.pc \in {"idle", "stage", "await", "poll", "record", "lread", "lbefore",
                  "lstage", "lawait", "lsample"}
  /\ \A id \in DOMAIN sent : sent[id].told = "none" <=> task.id = id
  /\ DOMAIN took = DOMAIN sent /\ live \subseteq Sessions
  /\ \A g \in Groups : staged[g].id \in 0 .. Len(sent)

\* QuadrotorEnvironmentBridge, CcoreLifecycleBackend: what the gateway tells of
\* a request is what the core did with it.  APPLIED: exactly one effect, an
\* input's at the step it asked for.  REFUSED: no effect, ever; although the
\* gateway asks by polling, commands may arrive late and other clients reset
\* the core.  (FAILED and EXPIRED leave it open.)
ToldIsTrue ==
  \A id \in DOMAIN sent : sent[id].what # "STATUS" =>
    /\ sent[id].told = "APPLIED" =>
         took[id].count = 1 /\ took[id].at = sent[id].target
    /\ sent[id].told = "REFUSED" => took[id].count = 0

\* BindingModelConsumerService.respond: once a session was told that its motor
\* command is applied, and as long as it lives, no command that another
\* session sends after it reaches the motors.
LaneIsOwned ==
  \A i, j \in DOMAIN sent :
    ( /\ i < j /\ {sent[i].what, sent[j].what} = {Motor}
      /\ sent[i].told = "APPLIED" /\ sent[i].by \in live /\ sent[j].by # sent[i].by )
    => took[j].count = 0

\* ModelStatusService: the model step one session is shown never goes back,
\* although other clients reset the core between its reads.
StatusMonotone ==
  \A i, j \in DOMAIN sent :
    ( /\ i < j /\ sent[i].by = sent[j].by
      /\ \A k \in {i, j} : sent[k].what = "STATUS" /\ sent[k].told = "APPLIED" )
    => sent[i].target <= sent[j].target

\* FlightModelConsumerService: "Exactly one live Controller SID may drive the
\* C motor lane."
OneDriver ==
  Cardinality({sent[id].by : id \in {k \in DOMAIN sent :
                 sent[k].what = Motor /\ took[k].count > 0}} \cap live) <= 1

\* What the gateway tells is what the core did, nobody drives another session's
\* lane, and a shown status does not go back: for a core others move meanwhile.
ConsumerSound == ConsumerTypeOK /\ ToldIsTrue /\ LaneIsOwned /\ StatusMonotone
=============================================================================
