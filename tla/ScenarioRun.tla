------------------------------ MODULE ScenarioRun ------------------------------
(***************************************************************************)
(* One run of a compiled scenario: ScenarioExecution (scenario_execution.py)  *)
(* calling OriginalScenarioDriver (scenario_driver.py), which owns the native  *)
(* sends (native_scenario_actions.py) and the runtime services.               *)
(*                                                                         *)
(* The owner of the execution calls start, advance and stop one after the     *)
(* other with steps that never decrease; a call is a sequence of steps, one   *)
(* for each call it makes of the driver.  The driver's calls answer as the    *)
(* session, the target and the services please.                            *)
(*                                                                         *)
(* An owner is an action of the plan, or a root assertion.  A native owner    *)
(* may hold a local resource (a prepared CAN group, a group pending in the    *)
(* dispatcher) until it is reclaimed.  Errors are not told apart.            *)
(*                                                                         *)
(* A definition introduced by "Fault:" is the definition after it with a   *)
(* plausible error in it; nothing uses it.                                 *)
(***************************************************************************)
EXTENDS Naturals, Sequences, FiniteSets

CONSTANTS
  Plan,         \* actions in order: [step, kind, native, timeout]
  Roots,        \* number of root assertions
  RootTimeout,
  Fields,       \* CLEANUP_FIELDS
  MaxPending,
  MaxStep       \* MAX_STEP, the last model step there is

ASSUME ScenarioAssumption ==
  /\ Len(Plan) \in Nat \ {0}
  /\ \A i \in 1..Len(Plan) : /\ Plan[i].step \in Nat /\ Plan[i].native \in BOOLEAN
                             /\ Plan[i].kind \in {"SEND", "WAIT", "ASSERT", "END_CLEANUP"}
                             /\ Plan[i].timeout \in Nat
                             /\ \A j \in 1..i : Plan[j].step <= Plan[i].step
                             /\ Plan[i].kind = "END_CLEANUP" => i = Len(Plan)
  /\ Roots \in Nat /\ Roots <= MaxPending
  /\ \A n \in {RootTimeout, MaxPending, MaxStep} : n \in Nat

VARIABLES
  exec,         \* fields of the ScenarioExecution
  log,          \* its records: whose, and what happened
  driver,       \* fields of the driver, the _Entry of the cleanup among them
  results,      \* terminal result the driver keeps for each owner
  native,       \* native entry of each owner: result, and whether it holds something
  call          \* the call in progress

scenarioVars == <<exec, log, driver, results, native, call>>

Actions == 1..Len(Plan)
Owners == 1..(Len(Plan) + Roots)
Timed(o) == o > Len(Plan) \/ Plan[o].kind \in {"WAIT", "ASSERT"}
TimeoutOf(o) == IF o > Len(Plan) THEN RootTimeout ELSE Plan[o].timeout
Never == MaxStep + 1
States == {"READY", "RUNNING", "WAITING", "CLEANUP_PENDING", "FAILED", "LOCAL_STOPPED"}
Run == Len(Plan) + Roots + 1           \* names the run in its records
Cleanup == Len(Plan) + Roots + 2

\* The records of the whole run are reserved before it starts.
RecordBudget == 2 * (Len(Plan) + Roots) + 3 + Cardinality(Fields)

\* The execution, the driver and the native entries have their types, and no
\* more actions are pending than the limit.
ScenarioTypeOK ==
  /\ exec \in [state : States, failed : BOOLEAN, next : 1..(Len(Plan) + 1), wait : Owners \cup {0},
               pending : Seq(Owners), deadline : [Owners -> Nat], ended : BOOLEAN,
               cleanup : BOOLEAN, fields : SUBSET Fields]
  /\ Len(exec.pending) <= MaxPending
  /\ log \in Seq([who : Owners \cup {Run, Cleanup},
                  what : {"STARTED", "COMPLETE", "FAILED", "REQUESTED", "PROGRESS", "LOCAL_CANCELLED"}])
  /\ driver \in [ready : BOOLEAN, closing : BOOLEAN, attempted : SUBSET Owners,
                 beginError : BOOLEAN, localError : BOOLEAN, late : BOOLEAN,
                 remote : {"none", "COMPLETE", "FAILED"}, fields : SUBSET Fields,
                 result : {"none", "COMPLETE", "FAILED"}]
  /\ results \in [Owners -> {"none", "COMPLETE", "FAILED"}]
  /\ native \in [Owners -> [result : {"none", "PENDING", "COMPLETE", "FAILED"}, held : BOOLEAN]]
  /\ call \in [stage : {"idle", "roots", "poll", "begin", "fail", "cleanup"},
               step : 0..MaxStep, todo : Seq(Owners)]

ScenarioInit ==
  /\ exec = [state |-> "READY", failed |-> FALSE, next |-> 1, wait |-> 0, pending |-> <<>>,
             deadline |-> [o \in Owners |-> Never], ended |-> FALSE, cleanup |-> FALSE, fields |-> {}]
  /\ log = <<>>
  /\ driver = [ready |-> FALSE, closing |-> FALSE, attempted |-> {}, beginError |-> FALSE,
               localError |-> FALSE, late |-> FALSE, remote |-> "none", fields |-> {}, result |-> "none"]
  /\ results = [o \in Owners |-> "none"]
  /\ native = [o \in Owners |-> [result |-> "none", held |-> FALSE]]
  /\ call = [stage |-> "idle", step |-> 0, todo |-> <<>>]

-----------------------------------------------------------------------------
(* Records and stages.                                                     *)

Row(who, what) == [who |-> who, what |-> what]
Record(who, what) == log' = Append(log, Row(who, what))
Stage(stage) == call' = [call EXCEPT !.stage = stage]
PollAll(pending) == call' = [call EXCEPT !.stage = "poll", !.todo = pending]
DriverOnly == <<driver, results, native>>

-----------------------------------------------------------------------------
(* The calls of the owner.                                                 *)

\* start: preflight of the driver, the services and the native actions; it
\* may be refused, and nothing has happened then.
Start(step) ==
  /\ call.stage = "idle" /\ exec.state = "READY"
  /\ Plan[1].step >= step
  /\ step + RootTimeout <= MaxStep
  /\ ~driver.ready
  /\ driver' = [driver EXCEPT !.ready = TRUE]
  /\ exec' = [exec EXCEPT !.state = "RUNNING"]
  /\ call' = [stage |-> "roots", step |-> step,
              todo |-> [i \in 1..Roots |-> Len(Plan) + i]]
  /\ UNCHANGED <<log, results, native>>

\* advance: the cleanup is polled, or the pending actions are.
Advance(step) ==
  /\ call.stage = "idle" /\ exec.state # "READY" /\ step >= call.step
  /\ call' = [step |-> step,
              stage |-> IF exec.state = "CLEANUP_PENDING" THEN "cleanup"
                        ELSE IF exec.state \in {"RUNNING", "WAITING"} THEN "poll" ELSE "idle",
              todo |-> IF exec.state \in {"RUNNING", "WAITING"} THEN exec.pending ELSE <<>>]
  /\ UNCHANGED <<exec, log, DriverOnly>>

-----------------------------------------------------------------------------
(* The native actions.                                                     *)

NativeOwners == {o \in Actions : Plan[o].native}
Entered == {o \in NativeOwners : native[o].result # "none"}

\* Fault: the group of an action that has its result is not reclaimed.
StoppedUnreclaimed(o) ==
  [result |-> IF native[o].result = "PENDING" THEN "FAILED" ELSE native[o].result,
   held |-> native[o].held /\ native[o].result # "PENDING"]

\* stop, of one entry: reclaim its group or cancel it, and end it.
Stopped(o) ==
  [result |-> IF native[o].result = "PENDING" THEN "FAILED" ELSE native[o].result,
   held |-> FALSE]

\* The loop of stop, in the order of the entries: one whose group cannot be
\* given back ends it with an error, which the driver remembers.
StopNative(stopped) ==
  \E last \in Entered \cup {0, Run} :
    /\ last \in Entered => native[last].held
    /\ last = 0 => Entered = {}
    /\ native' = [o \in Owners |-> IF o \in Entered /\ o < last THEN Stopped(o) ELSE native[o]]
    /\ stopped = (last \notin Entered)

\* begin: refused before anything is allocated, or an entry, failed at once or not.
EnterNative(o) ==
  \E result \in {"PENDING", "FAILED", "COMPLETE"}, held \in BOOLEAN :
    /\ result = "PENDING" => held
    /\ result = "COMPLETE" => ~held               \* PERIODIC_STOP
    /\ native' = [native EXCEPT ![o] = [result |-> result, held |-> held]]

\* poll: the reply is awaited, or ends the action; reclaiming its group may
\* fail, and the action has failed then.
PollNative(o, answer) ==
  IF native[o].result # "PENDING"
  THEN answer = native[o].result /\ UNCHANGED native
  ELSE \/ answer = "PENDING" /\ UNCHANGED native
       \/ /\ answer \in {"COMPLETE", "FAILED"}
          /\ native' = [native EXCEPT ![o] = [result |-> answer, held |-> FALSE]]
       \/ answer = "FAILED" /\ native' = [native EXCEPT ![o].result = "FAILED"]

-----------------------------------------------------------------------------
(* Beginning what is due.                                                  *)

InRange(o) == Timed(o) => call.step + TimeoutOf(o) <= MaxStep

\* Fault: the limit is checked after the append.
RoomForOneMore(o) == Len(exec.pending) <= MaxPending /\ InRange(o)

\* The in-flight limit, and the deadline of an assertion must be a step.
Room(o) == Len(exec.pending) < MaxPending /\ InRange(o)

\* begin or begin_assertions of the driver: the entry is attempted, then
\* allocated; an identity lost in between refuses what is already allocated.
DriverBegins(o, begun) ==
  /\ driver.ready /\ ~driver.closing /\ o \notin driver.attempted
  /\ \/ ~begun /\ UNCHANGED DriverOnly
     \/ /\ driver' = [driver EXCEPT !.attempted = @ \cup {o}]
        /\ UNCHANGED results
        /\ IF o \in NativeOwners THEN EnterNative(o) \/ (~begun /\ UNCHANGED native)
                                 ELSE UNCHANGED native

\* _begin
Begin(o, rest) ==
  \/ /\ Room(o)
     /\ DriverBegins(o, TRUE)
     /\ Record(o, "STARTED")
     /\ exec' = [exec EXCEPT !.pending = Append(@, o),
                             !.deadline[o] = IF Timed(o) THEN call.step + TimeoutOf(o) ELSE Never,
                             !.next = IF o \in Actions THEN @ + 1 ELSE @,
                             !.wait = IF o \in Actions /\ Plan[o].kind = "WAIT" THEN o ELSE @,
                             !.state = IF o \in Actions /\ Plan[o].kind = "WAIT" THEN "WAITING" ELSE @]
     /\ call' = [call EXCEPT !.todo = rest]
  \/ /\ Room(o)
     /\ DriverBegins(o, FALSE)
     /\ Record(o, "FAILED") /\ Stage("fail")
     /\ UNCHANGED exec
  \/ /\ ~Room(o) /\ Stage("fail")
     /\ UNCHANGED <<exec, log, DriverOnly>>

BeginRoot ==
  /\ call.stage = "roots" /\ call.todo # <<>>
  /\ Begin(Head(call.todo), Tail(call.todo))

RootsBegun ==
  /\ call.stage = "roots" /\ call.todo = <<>>
  /\ PollAll(exec.pending)
  /\ UNCHANGED <<exec, log, DriverOnly>>

Due == /\ exec.wait = 0 /\ ~exec.ended
       /\ exec.next <= Len(Plan) /\ Plan[exec.next].step <= call.step

\* Fault: an action whose step has passed is begun late.
MissedNever == FALSE

Missed == Plan[exec.next].step # call.step

BeginDue ==
  /\ call.stage = "begin" /\ Due /\ ~Missed /\ Plan[exec.next].kind # "END_CLEANUP"
  /\ Begin(exec.next, <<>>)

EndPlan ==
  /\ call.stage = "begin" /\ Due /\ ~Missed /\ Plan[exec.next].kind = "END_CLEANUP"
  /\ exec' = [exec EXCEPT !.ended = TRUE, !.next = @ + 1]
  /\ Record(exec.next, "REQUESTED")
  /\ UNCHANGED <<DriverOnly, call>>

MissDue ==
  /\ call.stage = "begin" /\ Due /\ Missed /\ Stage("fail")
  /\ UNCHANGED <<exec, log, DriverOnly>>

-----------------------------------------------------------------------------
(* Polling what is pending.                                                *)

Without(o) == SelectSeq(exec.pending, LAMBDA p : p # o)

\* Fault: an action that failed stays pending.
PollFailedKept(o) ==
  /\ Record(o, "FAILED") /\ Stage("fail")
  /\ UNCHANGED exec

PollFailed(o) ==
  /\ Record(o, "FAILED") /\ Stage("fail")
  /\ exec' = [exec EXCEPT !.pending = Without(o)]

\* Fault: an assertion may be answered after its deadline.
ExpiredNever(o) == FALSE

Expired(o) == call.step >= exec.deadline[o]

\* poll of the driver: the result it kept, or an answer of the owner.
DriverPolls(o, answer) ==
  IF results[o] # "none" THEN answer = results[o] /\ UNCHANGED DriverOnly
  ELSE /\ IF o \in NativeOwners THEN PollNative(o, answer) ELSE UNCHANGED native
       /\ results' = [results EXCEPT ![o] = IF answer = "PENDING" THEN @ ELSE answer]
       /\ UNCHANGED driver

PollPending ==
  /\ call.stage = "poll" /\ call.todo # <<>>
  /\ LET o == Head(call.todo) IN
     /\ ~Expired(o)
     /\ DriverPolls(o, "PENDING")
     /\ call' = [call EXCEPT !.todo = Tail(@)]
  /\ UNCHANGED <<exec, log>>

PollComplete ==
  /\ call.stage = "poll" /\ call.todo # <<>>
  /\ LET o == Head(call.todo) IN
     /\ ~Expired(o)
     /\ DriverPolls(o, "COMPLETE")
     /\ Record(o, "COMPLETE")
     /\ exec' = [exec EXCEPT !.pending = Without(o), !.wait = IF @ = o THEN 0 ELSE @,
                             !.state = IF exec.wait = o THEN "RUNNING" ELSE @]
     /\ call' = [call EXCEPT !.todo = Tail(@)]

\* A deadline reached, a poll that raises, or a failed result.
PollFails ==
  /\ call.stage = "poll" /\ call.todo # <<>>
  /\ LET o == Head(call.todo) IN
     /\ PollFailed(o)
     /\ \/ UNCHANGED DriverOnly
        \/ ~Expired(o) /\ DriverPolls(o, "FAILED")

Polled ==
  /\ call.stage = "poll" /\ call.todo = <<>>
  /\ Stage("begin")
  /\ UNCHANGED <<exec, log, DriverOnly>>

-----------------------------------------------------------------------------
(* The cleanup.                                                            *)

\* begin_cleanup of the driver: deadline, local stop and the remote cleanup,
\* each of which may fail without ending the call.
BeginCleanup ==
  \E localError, beginError, stopped \in BOOLEAN :
    /\ driver' = [driver EXCEPT !.closing = TRUE, !.localError = localError, !.beginError = beginError]
    /\ StopNative(stopped)
    /\ UNCHANGED results

\* _request_cleanup
RequestCleanup(failed, rows) ==
  /\ BeginCleanup
  /\ exec' = [exec EXCEPT !.state = "CLEANUP_PENDING", !.cleanup = TRUE, !.failed = failed]
  /\ log' = log \o rows \o <<Row(Cleanup, "REQUESTED")>>
  /\ Stage("idle")

\* _fail
Fail ==
  /\ call.stage = "fail" /\ ~exec.cleanup
  /\ RequestCleanup(TRUE, <<Row(Run, "FAILED")>>)

\* The plan is over and nothing is pending, or the owner stops the run.
PlanOver ==
  /\ call.stage = "begin" /\ exec.wait = 0 /\ ~Due /\ (exec.ended \/ exec.next > Len(Plan))
  /\ exec.pending = <<>> /\ ~exec.cleanup
  /\ RequestCleanup(exec.failed, <<>>)

Return ==
  /\ call.stage = "begin" /\ ~Due
  /\ exec.wait # 0 \/ exec.pending # <<>> \/ ~(exec.ended \/ exec.next > Len(Plan))
  /\ Stage("idle")
  /\ UNCHANGED <<exec, log, DriverOnly>>

Stop ==
  /\ call.stage = "idle" /\ exec.state \in {"RUNNING", "WAITING"} /\ ~exec.cleanup
  /\ RequestCleanup(exec.failed, <<>>)

\* Fault: what is held locally does not keep the cleanup pending.
LocalLeftForgotten(stopped) == FALSE

\* Local ownership that could not be given back.
LocalLeft(stopped) == ~stopped \/ \E o \in NativeOwners : native'[o].held

\* Fault: local ownership is awaited without a deadline.
CleanupResultUntimed(remote, fields, stopped) ==
  IF remote = "COMPLETE" /\ fields # Fields THEN "FAILED"
  ELSE IF remote = "FAILED" \/ driver.localError THEN "FAILED"
  ELSE IF LocalLeft(stopped) THEN "PENDING"
  ELSE remote

\* The result of a cleanup whose services answered remote.
CleanupResult(remote, fields, stopped) ==
  IF remote = "COMPLETE" /\ fields # Fields THEN "FAILED"
  ELSE IF remote = "FAILED" \/ driver.localError THEN "FAILED"
  ELSE IF LocalLeft(stopped) THEN (IF driver.late THEN "FAILED" ELSE "PENDING")
  ELSE remote

\* poll_cleanup of the driver: the local stop again, then the services.
PollsCleanup(result) ==
  \E stopped \in BOOLEAN :
    /\ StopNative(stopped)
    /\ UNCHANGED results
    /\ \/ /\ driver.beginError /\ result = "FAILED"
          /\ driver' = [driver EXCEPT !.result = "FAILED"]
       \/ \* the services raise, or the answer is not theirs
          /\ ~driver.beginError /\ driver.remote = "none" /\ result = "FAILED"
          /\ driver' = [driver EXCEPT !.result = "FAILED"]
       \/ /\ ~driver.beginError
          /\ \E remote \in {"PENDING", "COMPLETE", "FAILED"}, fields \in SUBSET Fields :
               /\ driver.remote # "none" => remote = driver.remote /\ fields = {}
               /\ result = CleanupResult(remote, driver.fields \cup fields, stopped)
               /\ driver' = [driver EXCEPT !.fields = @ \cup fields,
                                           !.remote = IF remote = "PENDING" THEN @ ELSE remote,
                                           !.result = IF result = "PENDING" THEN @ ELSE result]

\* Fault: every poll that is pending is recorded.
ProgressAlways(fields) == <<Row(Cleanup, "PROGRESS")>>

\* Progress is recorded when an operation was completed.
Progress(fields) == IF fields \subseteq exec.fields THEN <<>> ELSE <<Row(Cleanup, "PROGRESS")>>

CleanupContinues ==
  /\ call.stage = "cleanup"
  /\ PollsCleanup("PENDING")
  /\ log' = log \o Progress(driver'.fields)
  /\ exec' = [exec EXCEPT !.fields = driver'.fields]
  /\ Stage("idle")

CleanupFails ==
  /\ call.stage = "cleanup"
  /\ PollsCleanup("FAILED")
  /\ Record(Cleanup, "FAILED")
  /\ exec' = [exec EXCEPT !.fields = driver'.fields, !.failed = TRUE, !.state = "FAILED"]
  /\ Stage("idle")

CleanupCompletes ==
  /\ call.stage = "cleanup"
  /\ PollsCleanup("COMPLETE")
  /\ log' = log \o [i \in 1..Len(exec.pending) |-> Row(exec.pending[i], "LOCAL_CANCELLED")]
                \o <<Row(Cleanup, "COMPLETE")>>
  /\ exec' = [exec EXCEPT !.fields = driver'.fields, !.pending = <<>>, !.wait = 0,
                          !.state = IF exec.failed THEN "FAILED" ELSE "LOCAL_STOPPED"]
  /\ Stage("idle")

-----------------------------------------------------------------------------

\* The validity of the cleanup elapses.
CleanupLate ==
  /\ driver.closing /\ ~driver.localError /\ ~driver.late
  /\ driver' = [driver EXCEPT !.late = TRUE]
  /\ UNCHANGED <<exec, log, results, native, call>>

Working ==
  \/ BeginRoot \/ RootsBegun \/ BeginDue \/ EndPlan \/ MissDue
  \/ PollPending \/ PollComplete \/ PollFails \/ Polled
  \/ Fail \/ PlanOver \/ Return
  \/ CleanupContinues \/ CleanupFails \/ CleanupCompletes

ScenarioNext ==
  \/ \E step \in 0..MaxStep : Start(step) \/ Advance(step)
  \/ Stop \/ Working \/ CleanupLate

ScenarioSpec == ScenarioInit /\ [][ScenarioNext]_scenarioVars

\* A call that was made goes on, time passes, the owner keeps advancing to
\* later steps, and the services end their cleanup.
ScenarioFairness ==
  /\ WF_scenarioVars(Working) /\ WF_scenarioVars(CleanupLate)
  /\ SF_scenarioVars(\E step \in 0..MaxStep : (step > call.step \/ step = MaxStep) /\ Advance(step))
  /\ SF_scenarioVars((CleanupContinues \/ CleanupFails \/ CleanupCompletes) /\ driver'.remote # "none")
ScenarioFairSpec == ScenarioSpec /\ ScenarioFairness

-----------------------------------------------------------------------------
(* Properties.                                                             *)

\* The records reserved before the run starts are enough for all of it, so that
\* no old result has to be evicted (the budget of __init__).
RecordsFit == Len(log) <= RecordBudget

Rows(o, what) == {i \in DOMAIN log : log[i].who = o /\ log[i].what \in what}
Endings == {"COMPLETE", "FAILED", "LOCAL_CANCELLED"}

\* An action ends at most once, also when it failed while the cleanup was still
\* to cancel what is pending; and once the cleanup is complete every action that
\* was started has ended.
OneEnding ==
  /\ \A o \in Owners : Cardinality(Rows(o, Endings)) <= 1 /\ Cardinality(Rows(o, {"STARTED"})) <= 1
  /\ Rows(Cleanup, {"COMPLETE"}) # {} =>
       \A o \in Owners : Rows(o, {"STARTED"}) # {} => Rows(o, Endings) # {}

\* An action is begun at its own step, after all before it were begun and after
\* every WAIT before it was met.
BegunOnTime ==
  [][ \A o \in Actions :
        Rows(o, {"STARTED"})' # Rows(o, {"STARTED"}) =>
          /\ call.step = Plan[o].step
          /\ \A p \in 1..(o - 1) :
               /\ Rows(p, {"STARTED"}) # {}
               /\ Plan[p].kind = "WAIT" => Rows(p, {"COMPLETE"}) # {}
    ]_log

\* A run ends as stopped only when nothing failed, all the operations of the
\* cleanup are done, and no group is held by a native action, even by one that
\* the execution never got a handle of.
StoppedIsClean ==
  exec.state = "LOCAL_STOPPED" =>
    /\ ~exec.failed /\ driver.fields = Fields /\ exec.pending = <<>>
    /\ \A o \in Owners : Rows(o, {"FAILED"}) = {}
    /\ \A o \in NativeOwners : ~native[o].held /\ native[o].result # "PENDING"

\* A WAIT never blocks the plan for ever: it has a deadline in model steps.
WaitEnds == exec.state = "WAITING" ~> exec.state # "WAITING"

\* A cleanup ends when the services end theirs, also when a local group cannot
\* be given back.
CleanupEnds == exec.state = "CLEANUP_PENDING" ~> exec.state \in {"FAILED", "LOCAL_STOPPED"}

\* A run keeps account of its actions, whatever is refused, fails or is stopped
\* half way: its records fit, each action has one ending, and stopped is clean.
ScenarioSound == ScenarioTypeOK /\ RecordsFit /\ OneEnding /\ StoppedIsClean
=============================================================================
