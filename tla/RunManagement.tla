----------------------------- MODULE RunManagement -----------------------------
(***************************************************************************)
(* Management of simulator runs: run_service.py (one thread of             *)
(* management_http.py per call), run_store.py (the registry, persisted     *)
(* under its lock) and run_executor.py (the worker of the one active       *)
(* execution, with the formal backend and the HIL it drives).              *)
(*                                                                         *)
(* A step is a section under a lock, or what a thread does between two.    *)
(* The optimistic retry of _transition is one step: a run changes too      *)
(* rarely for it to fail four times.  Calls that only read (GET, records)  *)
(* are left out, and so are the contents of runs and facts: a fact is its  *)
(* reason.                                                                 *)
(*                                                                         *)
(* A definition introduced by "Fault:" is the definition after it with a   *)
(* plausible error in it; nothing uses it.                                 *)
(***************************************************************************)
EXTENDS Naturals, Sequences, FiniteSets

CONSTANTS
  Calls,          \* deliveries of management requests, each handled once
  Request,        \* of each call: [id, cmd, run, rev]
  Nobody,
  MaxRuns, MaxRequests, MaxRecords,   \* bounds of the store
  Events          \* SEND events of the scenario

Commands == {"CREATE", "START", "STOP"}

ASSUME ManagementAssumption ==
  /\ \A c \in Calls : /\ Request[c].cmd \in Commands
                      /\ Request[c].run \in Nat /\ Request[c].rev \in Nat
  /\ \A n \in {MaxRuns, MaxRequests, MaxRecords} : n \in Nat \ {0}
  /\ Events \in Nat /\ Nobody \notin Calls

VARIABLES
  \* the store, all of it on disk
  runs,           \* sequence of runs: state and revision
  facts,          \* of each run, the reasons of its records in order
  answers,        \* of each request id, the request and its response
  \* memory of the process
  reserved,       \* records reserved for each run
  operations,     \* _active_operations: the START call of each run
  active,         \* the executor's _active
  registered,     \* the operations in the backend's _active
  worker,         \* what its thread does, and the reporter's state
  calls,          \* where each handler is, and what it holds
  \* the target
  hil

runStoreVars == <<runs, facts, answers>>
runsVars == <<runs, facts, answers, reserved, operations, active, registered, worker, calls, hil>>

Ids == {Request[c].id : c \in Calls}
Terminal == {"COMPLETED", "FAILED"}
InExecution == {"WAITING", "RUNNING", "STOPPING"}
RunStates == {"READY"} \cup InExecution \cup Terminal
Reasons == {"START_QUEUED", "HIL_START_APPLIED", "TX", "APPLIED", "STOP_REQUESTED",
            "HIL_STOP_APPLIED", "REJECTED", "EXECUTION_FAILED",
            "EXECUTION_INCOMPLETE", "RECOVERY_INCOMPLETE"}
Results == {"EXECUTION_FAILED", "EXECUTION_INCOMPLETE", "RECOVERY_INCOMPLETE"}
CallStages == {"new", "begin", "reserve", "queue", "track", "note", "submit",
               "find", "stop", "noteStop", "signal", "backend",
               "fail", "noteFail", "remember", "done"}
Replies == {"none", "created", "queued", "rejected", "error", "lost"}
StoredAnswers == [cmd : Commands, run : Nat, rev : Nat, reply : Replies]
Executions == [op : Calls, stop : BOOLEAN]

ASSUME NobodyAssumption == Nobody \notin StoredAnswers \cup Executions

WorkerStages == {"none", "enter", "opened", "configured", "started", "noteStarted",
                 "loop", "stop", "stopped", "compensate", "complete", "noteComplete",
                 "leave", "report", "noteFailed", "free"}

\* The store, the threads and the target have their types.
RunsTypeOK ==
  /\ runs \in Seq([state : RunStates, rev : Nat]) /\ Len(runs) <= MaxRuns
  /\ facts \in Seq(Seq(Reasons)) /\ Len(facts) = Len(runs)
  /\ \A r \in DOMAIN runs : Len(facts[r]) <= MaxRecords
  /\ answers \in [Ids -> {Nobody} \cup StoredAnswers]
  /\ Cardinality({i \in Ids : answers[i] # Nobody}) <= MaxRequests
  /\ reserved \in [1..MaxRuns -> Nat]
  /\ operations \in [1..MaxRuns -> Calls \cup {Nobody}]
  /\ active \in {Nobody} \cup Executions /\ registered \subseteq Calls
  /\ worker \in [stage : WorkerStages, reporter : {"WAITING", "RUNNING", "COMPLETED", "FAILED"},
                 sent : 0..Events, started : BOOLEAN]
  /\ calls \in [Calls -> [stage : CallStages, held : Calls \cup {Nobody}, reply : Replies]]
  /\ hil \in [state : {"CONFIGURED", "RUNNING", "STOPPED"}, run : 0..MaxRuns]

NoWorker == [stage |-> "none", reporter |-> "WAITING", sent |-> 0, started |-> FALSE]

RunsInit ==
  /\ runs = <<>> /\ facts = <<>>
  /\ answers = [i \in Ids |-> Nobody]
  /\ reserved = [r \in 1..MaxRuns |-> 0]
  /\ operations = [r \in 1..MaxRuns |-> Nobody]
  /\ active = Nobody /\ registered = {} /\ worker = NoWorker
  /\ calls = [c \in Calls |-> [stage |-> "new", held |-> Nobody, reply |-> "none"]]
  /\ hil = [state |-> "CONFIGURED", run |-> 0]

-----------------------------------------------------------------------------
(* The store.                                                              *)

State(r) == runs[r].state

\* _transition, then replace_run.
Transition(r, state) == runs' = [runs EXCEPT ![r] = [state |-> state, rev |-> @.rev + 1]]

\* Fault: nothing is dropped.
KeptAll(list) == list

\* append_record drops the oldest record when there are too many.
Kept(list) ==
  SubSeq(list, (IF Len(list) > MaxRecords THEN Len(list) - MaxRecords ELSE 0) + 1, Len(list))
Noted(r, reason) == [facts EXCEPT ![r] = Kept(Append(@, reason))]
Unreserved(r) == [reserved EXCEPT ![r] = IF @ > 0 THEN @ - 1 ELSE 0]

Note(r, reason) ==
  /\ facts' = Noted(r, reason)
  /\ reserved' = Unreserved(r)

\* The last facts of a run, and release_reserved_records.
NoteResult(r, reasons) ==
  /\ facts' = [facts EXCEPT ![r] = Kept(@ \o reasons)]
  /\ reserved' = [reserved EXCEPT ![r] = 0]

-----------------------------------------------------------------------------
(* The handlers.                                                           *)

At(c, stage) == calls[c].stage = stage
RunOf(c) == Request[c].run
Go(c, stage) == calls' = [calls EXCEPT ![c].stage = stage]
Reply(c, stage, reply) == calls' = [calls EXCEPT ![c].stage = stage, ![c].reply = reply]
Reject(c) == Reply(c, "remember", "rejected")
CallOnly == UNCHANGED runStoreVars /\ UNCHANGED <<reserved, operations, active, registered, worker, hil>>

Stored(c, reply) ==
  [cmd |-> Request[c].cmd, run |-> Request[c].run, rev |-> Request[c].rev, reply |-> reply]
SameRequest(c) ==
  \E reply \in Replies : answers[Request[c].id] = Stored(c, reply)

\* handle: the response of an earlier call with this id, if there is one.
Replay(c) ==
  LET old == answers[Request[c].id] IN
  /\ At(c, "new")
  /\ \/ old = Nobody /\ Go(c, "begin")
     \/ old # Nobody /\ SameRequest(c) /\ Reply(c, "done", old.reply)
     \/ old # Nobody /\ ~SameRequest(c) /\ Reply(c, "done", "rejected")
  /\ CallOnly

\* Fault: a run that has not started does not count.
CreatableBesideReady ==
  /\ \A r \in DOMAIN runs : State(r) \notin InExecution
  /\ Len(runs) < MaxRuns

Creatable ==
  /\ \A r \in DOMAIN runs : State(r) \in Terminal
  /\ Len(runs) < MaxRuns

Create(c) ==
  /\ At(c, "begin") /\ Request[c].cmd = "CREATE"
  /\ IF Creatable
     THEN /\ runs' = Append(runs, [state |-> "READY", rev |-> 1])
          /\ facts' = Append(facts, <<>>)
          /\ Reply(c, "remember", "created")
     ELSE Reject(c) /\ UNCHANGED <<runs, facts>>
  /\ UNCHANGED <<answers, reserved, operations, active, registered, worker, hil>>

\* The revision and the state the request relies on.
Current(c, states) ==
  /\ RunOf(c) \in DOMAIN runs
  /\ runs[RunOf(c)].rev = Request[c].rev
  /\ State(RunOf(c)) \in states

CheckStart(c) ==
  /\ At(c, "begin") /\ Request[c].cmd = "START"
  /\ IF Current(c, {"READY"}) THEN Go(c, "reserve") ELSE Reject(c)
  /\ CallOnly

Needed == 5 + 2 * Events

Reserve(c) ==
  LET r == RunOf(c) IN
  /\ At(c, "reserve")
  /\ IF Len(facts[r]) + reserved[r] + Needed <= MaxRecords
     THEN reserved' = [reserved EXCEPT ![r] = @ + Needed] /\ Go(c, "queue")
     ELSE Reject(c) /\ UNCHANGED reserved
  /\ UNCHANGED <<runs, facts, answers, operations, active, registered, worker, hil>>

\* Of two calls that saw the run READY, one finds it so here.
QueueRun(c) ==
  LET r == RunOf(c) IN
  /\ At(c, "queue")
  /\ IF State(r) = "READY"
     THEN Transition(r, "WAITING") /\ Go(c, "track")
     ELSE Reject(c) /\ UNCHANGED runs
  /\ UNCHANGED <<facts, answers, reserved, operations, active, registered, worker, hil>>

Track(c) ==
  /\ At(c, "track")
  /\ operations' = [operations EXCEPT ![RunOf(c)] = c]
  /\ Go(c, "note")
  /\ UNCHANGED runStoreVars /\ UNCHANGED <<reserved, active, registered, worker, hil>>

NoteQueued(c) ==
  /\ At(c, "note")
  /\ Note(RunOf(c), "START_QUEUED")
  /\ Go(c, "submit")
  /\ UNCHANGED <<runs, answers, operations, active, registered, worker, hil>>

\* submit: one execution at a time, the one before is over when its thread is.
SubmitStart(c) ==
  /\ At(c, "submit")
  /\ IF active = Nobody
     THEN /\ active' = [op |-> c, stop |-> FALSE] /\ registered' = registered \cup {c}
          /\ worker' = [NoWorker EXCEPT !.stage = "enter"]
          /\ Reply(c, "remember", "queued")
     ELSE Go(c, "fail") /\ UNCHANGED <<active, registered, worker>>
  /\ UNCHANGED runStoreVars /\ UNCHANGED <<reserved, operations, hil>>

CheckStop(c) ==
  /\ At(c, "begin") /\ Request[c].cmd = "STOP"
  /\ IF Current(c, {"WAITING", "RUNNING"}) THEN Go(c, "find") ELSE Reject(c)
  /\ CallOnly

FindOperation(c) ==
  /\ At(c, "find")
  /\ IF operations[RunOf(c)] # Nobody
     THEN calls' = [calls EXCEPT ![c].stage = "stop", ![c].held = operations[RunOf(c)]]
     ELSE Reject(c)
  /\ CallOnly

\* Fault: the request is not recorded.
StopRunUnnoted(c) ==
  LET r == RunOf(c) IN
  /\ At(c, "stop")
  /\ IF State(r) \in {"WAITING", "RUNNING"}
     THEN Transition(r, "STOPPING") /\ Go(c, "signal")
     ELSE Reject(c) /\ UNCHANGED runs
  /\ UNCHANGED <<facts, answers, reserved, operations, active, registered, worker, hil>>

StopRun(c) ==
  LET r == RunOf(c) IN
  /\ At(c, "stop")
  /\ IF State(r) \in {"WAITING", "RUNNING"}
     THEN Transition(r, "STOPPING") /\ Go(c, "noteStop")
     ELSE Reject(c) /\ UNCHANGED runs
  /\ UNCHANGED <<facts, answers, reserved, operations, active, registered, worker, hil>>

NoteStop(c) ==
  /\ At(c, "noteStop")
  /\ Note(RunOf(c), "STOP_REQUESTED")
  /\ Go(c, "signal")
  /\ UNCHANGED <<runs, answers, operations, active, registered, worker, hil>>

\* RunExecutor.request_stop, then the backend's: the execution may end between.
Signal(c) ==
  /\ At(c, "signal")
  /\ IF active # Nobody /\ active.op = calls[c].held
     THEN active' = [active EXCEPT !.stop = TRUE] /\ Go(c, "backend")
     ELSE Go(c, "fail") /\ UNCHANGED active
  /\ UNCHANGED runStoreVars /\ UNCHANGED <<reserved, operations, registered, worker, hil>>

SignalBackend(c) ==
  /\ At(c, "backend")
  /\ IF calls[c].held \in registered
     THEN Reply(c, "remember", "queued")
     ELSE Go(c, "fail")
  /\ CallOnly

\* Fault: a run that has ended may fail again.
FailableAlways == RunStates

Failable == InExecution

\* _backend_failure.
FailRun(c) ==
  LET r == RunOf(c) IN
  /\ At(c, "fail")
  /\ IF State(r) \in Failable
     THEN /\ Transition(r, "FAILED")
          /\ operations' = [operations EXCEPT ![r] = Nobody]
          /\ Go(c, "noteFail")
     ELSE Reject(c) /\ UNCHANGED <<runs, operations>>
  /\ UNCHANGED <<facts, answers, reserved, active, registered, worker, hil>>

NoteFail(c) ==
  /\ At(c, "noteFail")
  /\ NoteResult(RunOf(c), <<"REJECTED", "EXECUTION_FAILED">>)
  /\ Reject(c)
  /\ UNCHANGED <<runs, answers, operations, active, registered, worker, hil>>

\* Fault: the last response is the one kept.
AnsweredBy(c) == [new |-> TRUE, reply |-> calls[c].reply]

\* What remember returns and whether it is new: the first response stands.
Answered(c) ==
  LET old == answers[Request[c].id] IN
  CASE old = Nobody /\ Cardinality({i \in Ids : answers[i] # Nobody}) < MaxRequests ->
         [new |-> TRUE, reply |-> calls[c].reply]
    [] old # Nobody /\ SameRequest(c) -> [new |-> FALSE, reply |-> old.reply]
    [] OTHER -> [new |-> FALSE, reply |-> "error"]

Remember(c) ==
  LET a == Answered(c) IN
  /\ At(c, "remember")
  /\ answers' = IF a.new
                THEN [answers EXCEPT ![Request[c].id] = Stored(c, a.reply)]
                ELSE answers
  /\ Reply(c, "done", a.reply)
  /\ UNCHANGED <<runs, facts, reserved, operations, active, registered, worker, hil>>

Handle(c) ==
  \/ Replay(c) \/ Create(c)
  \/ CheckStart(c) \/ Reserve(c) \/ QueueRun(c) \/ Track(c) \/ NoteQueued(c) \/ SubmitStart(c)
  \/ CheckStop(c) \/ FindOperation(c) \/ StopRun(c) \/ NoteStop(c)
  \/ Signal(c) \/ SignalBackend(c)
  \/ FailRun(c) \/ NoteFail(c) \/ Remember(c)

-----------------------------------------------------------------------------
(* The worker: FormalHILExecutionBackend.execute.                          *)

On(stage) == worker.stage = stage
Work(stage) == worker' = [worker EXCEPT !.stage = stage]
Run == RunOf(active.op)
ExecutionOnly == UNCHANGED runStoreVars /\ UNCHANGED <<reserved, operations, active, registered, calls, hil>>
\* Where an exception leads: a started target is stopped first.
Unwound == IF worker.started THEN "compensate" ELSE "leave"

\* Opening the session and configuring the run: a STOP before either ends it.
Prepare(stage, next) ==
  /\ On(stage)
  /\ \/ active.stop /\ Work("complete")
     \/ ~active.stop /\ (Work(next) \/ Work(Unwound))
  /\ ExecutionOnly

OpenStore == Prepare("enter", "opened")
Configure == Prepare("opened", "configured")

StopBeforeStart ==
  /\ On("configured") /\ active.stop
  /\ Work("complete")
  /\ ExecutionOnly

\* The receipt of START arrives, or is lost after START was applied.
Start ==
  /\ On("configured") /\ ~active.stop
  /\ hil.state = "CONFIGURED"
  /\ hil' = [state |-> "RUNNING", run |-> Run]
  /\ \/ worker' = [worker EXCEPT !.stage = "started", !.started = TRUE]
     \/ Work(Unwound)
  /\ UNCHANGED runStoreVars /\ UNCHANGED <<reserved, operations, active, registered, calls>>

StartRefused ==
  /\ On("configured") /\ ~active.stop
  /\ Work(Unwound)
  /\ ExecutionOnly

\* reporter.running, unless a STOP came first.
ReportRunning ==
  /\ On("started")
  /\ worker' = [worker EXCEPT !.reporter = "RUNNING",
       !.stage = IF State(Run) = "WAITING" THEN "noteStarted" ELSE "loop"]
  /\ IF State(Run) = "WAITING" THEN Transition(Run, "RUNNING") ELSE UNCHANGED runs
  /\ UNCHANGED <<facts, answers, reserved, operations, active, registered, calls, hil>>

NoteStarted ==
  /\ On("noteStarted")
  /\ Note(Run, "HIL_START_APPLIED")
  /\ Work("loop")
  /\ UNCHANGED <<runs, answers, operations, active, registered, calls, hil>>

\* The next event reaches its step and is applied; a STOP is looked for between two
\* polls and not between events.
SendEvent ==
  /\ On("loop")
  /\ hil.state = "RUNNING" /\ worker.sent < Events
  /\ facts' = [facts EXCEPT ![Run] = Kept(@ \o <<"TX", "APPLIED">>)]
  /\ reserved' = [reserved EXCEPT ![Run] = IF @ > 2 THEN @ - 2 ELSE 0]
  /\ worker' = [worker EXCEPT !.sent = @ + 1]
  /\ UNCHANGED <<runs, answers, operations, active, registered, calls, hil>>

\* A status that is not RUNNING, an event refused or late, a lost answer.
LoopFails ==
  /\ On("loop")
  /\ Work("compensate")
  /\ ExecutionOnly

\* Fault: a STOP only ends the execution here.
SeeStopLocally ==
  /\ On("loop") /\ active.stop
  /\ Work("complete")
  /\ ExecutionOnly

SeeStop ==
  /\ On("loop") /\ active.stop
  /\ Work("stop")
  /\ ExecutionOnly

\* _stop_hil: the STOP is applied and told.
StopHil ==
  /\ On("stop")
  /\ hil.state = "RUNNING"
  /\ hil' = [hil EXCEPT !.state = "STOPPED"]
  /\ Note(Run, "HIL_STOP_APPLIED")
  /\ Work("stopped")
  /\ UNCHANGED <<runs, answers, operations, active, registered, calls>>

\* Or something goes wrong before it is told.
StopHilFails ==
  /\ On("stop")
  /\ \/ UNCHANGED hil
     \/ hil.state = "RUNNING" /\ hil' = [hil EXCEPT !.state = "STOPPED"]
  /\ Work("compensate")
  /\ UNCHANGED runStoreVars /\ UNCHANGED <<reserved, operations, active, registered, calls>>

\* The status says stopped, by nobody's control, at the step asked for.
Confirmed == hil.state = "STOPPED"

Confirm ==
  /\ On("stopped")
  /\ \/ Confirmed /\ Work("complete")
     \/ Work("compensate")
  /\ ExecutionOnly

\* The compensating STOP after a failure, whose own failure is ignored.
Compensate ==
  /\ On("compensate")
  /\ \/ /\ hil.state = "RUNNING"
        /\ hil' = [hil EXCEPT !.state = "STOPPED"]
        /\ Note(Run, "HIL_STOP_APPLIED")
     \/ UNCHANGED <<hil, facts, reserved>>
  /\ Work("leave")
  /\ UNCHANGED <<runs, answers, operations, active, registered, calls>>

\* reporter.completed, only INCOMPLETE here.
Complete ==
  /\ On("complete")
  /\ worker' = [worker EXCEPT !.reporter = "COMPLETED",
       !.stage = IF State(Run) \in InExecution THEN "noteComplete" ELSE "leave"]
  /\ IF State(Run) \in InExecution
     THEN /\ Transition(Run, "COMPLETED")
          /\ operations' = [operations EXCEPT ![Run] = Nobody]
     ELSE UNCHANGED <<runs, operations>>
  /\ UNCHANGED <<facts, answers, reserved, active, registered, calls, hil>>

NoteComplete ==
  /\ On("noteComplete")
  /\ NoteResult(Run, <<"EXECUTION_INCOMPLETE">>)
  /\ Work("leave")
  /\ UNCHANGED <<runs, answers, operations, active, registered, calls, hil>>

\* Fault: the executor is left active unless the execution failed.
LeaveUnfreed ==
  /\ On("leave")
  /\ registered' = registered \ {active.op}
  /\ Work(IF worker.reporter \in Terminal THEN "none" ELSE "report")
  /\ UNCHANGED runStoreVars /\ UNCHANGED <<reserved, operations, active, calls, hil>>

\* finally: the backend forgets the operation and closes the session.  A return or an
\* error before there is a session comes past it, and the operation stays registered.
Leave ==
  /\ On("leave")
  /\ \/ registered' = registered \ {active.op}
     \/ ~worker.started /\ UNCHANGED registered
  /\ Work(IF worker.reporter \in Terminal THEN "free" ELSE "report")
  /\ UNCHANGED runStoreVars /\ UNCHANGED <<reserved, operations, active, calls, hil>>

\* reporter.failed.
ReportFailed ==
  /\ On("report")
  /\ worker' = [worker EXCEPT !.reporter = "FAILED",
       !.stage = IF State(Run) \in Failable THEN "noteFailed" ELSE "free"]
  /\ IF State(Run) \in Failable
     THEN /\ Transition(Run, "FAILED")
          /\ operations' = [operations EXCEPT ![Run] = Nobody]
     ELSE UNCHANGED <<runs, operations>>
  /\ UNCHANGED <<facts, answers, reserved, active, registered, calls, hil>>

NoteFailed ==
  /\ On("noteFailed")
  /\ NoteResult(Run, <<"REJECTED", "EXECUTION_FAILED">>)
  /\ Work("free")
  /\ UNCHANGED <<runs, answers, operations, active, registered, calls, hil>>

Free ==
  /\ On("free")
  /\ active' = Nobody /\ worker' = NoWorker
  /\ UNCHANGED runStoreVars /\ UNCHANGED <<reserved, operations, registered, calls, hil>>

ExecutionStep ==
  \/ OpenStore \/ Configure \/ StopBeforeStart \/ Start \/ StartRefused
  \/ ReportRunning \/ NoteStarted \/ SendEvent \/ LoopFails \/ SeeStop
  \/ StopHil \/ StopHilFails \/ Confirm \/ Compensate
  \/ Complete \/ NoteComplete \/ Leave \/ ReportFailed \/ NoteFailed \/ Free

-----------------------------------------------------------------------------
(* The target, and the end of the process.                                 *)

\* The model stops by itself, or another operator stops it.
HilStops ==
  /\ hil.state = "RUNNING"
  /\ hil' = [hil EXCEPT !.state = "STOPPED"]
  /\ UNCHANGED runStoreVars /\ UNCHANGED <<reserved, operations, active, registered, worker, calls>>

\* It is prepared for the next run, between two executions.
HilPrepared ==
  /\ active = Nobody
  /\ hil.state = "STOPPED"
  /\ hil' = [state |-> "CONFIGURED", run |-> 0]
  /\ UNCHANGED runStoreVars /\ UNCHANGED <<reserved, operations, active, registered, worker, calls>>

\* Fault: a run in execution is left as it was.
RecoveredAsIs(r) == runs[r]

\* _recover_unfinished_locked.
Recovered(r) ==
  IF State(r) \in InExecution
  THEN [state |-> "COMPLETED", rev |-> runs[r].rev + 1] ELSE runs[r]
RecoveredFacts(r) ==
  IF State(r) \in InExecution THEN Kept(Append(facts[r], "RECOVERY_INCOMPLETE")) ELSE facts[r]

\* The process ends and starts again on its file.  Every change of the store
\* replaces the file whole before its lock is left, so what is loaded is the
\* store as the last section left it; a file that cannot be written or read,
\* or is not what was written, is not modelled.
RestartProcess ==
  /\ runs' = [r \in DOMAIN runs |-> Recovered(r)]
  /\ facts' = [r \in DOMAIN runs |-> RecoveredFacts(r)]
  /\ reserved' = [r \in 1..MaxRuns |-> 0]
  /\ operations' = [r \in 1..MaxRuns |-> Nobody]
  /\ active' = Nobody /\ registered' = {} /\ worker' = NoWorker
  /\ calls' = [c \in Calls |->
       IF calls[c].stage \in {"new", "done"} THEN calls[c]
       ELSE [stage |-> "done", held |-> Nobody, reply |-> "lost"]]
  /\ UNCHANGED <<answers, hil>>

RunsNext ==
  (\E c \in Calls : Handle(c)) \/ ExecutionStep \/ HilStops \/ HilPrepared \/ RestartProcess

RunsSpec == RunsInit /\ [][RunsNext]_runsVars

\* Every thread goes on.
RunsFairSpec == RunsSpec /\ WF_runsVars(ExecutionStep) /\ \A c \in Calls : WF_runsVars(Handle(c))

-----------------------------------------------------------------------------
(* Properties.                                                             *)

Has(r, reason) == \E i \in DOMAIN facts[r] : facts[r][i] = reason

\* One run at a time is not over.
OneRunAtATime ==
  Cardinality({r \in DOMAIN runs : State(r) \notin Terminal}) <= 1

\* A run gets at most one result, whoever ends it: its worker, a call that
\* fails, or the restart.
ResultOnce ==
  \A r \in DOMAIN runs :
    Cardinality({i \in DOMAIN facts[r] : facts[r][i] \in Results}) <= 1

\* A run in execution is somebody's: its worker's, or that of the call which
\* queued it and still has to submit it or fail it.
NobodyForgotten ==
  \A r \in DOMAIN runs : State(r) \in InExecution =>
    \/ active # Nobody /\ Run = r
    \/ \E c \in Calls : /\ RunOf(c) = r
                        /\ calls[c].stage \in {"track", "note", "submit", "fail"}

\* When a run is completed as stopped, the caller's request is recorded before
\* the stop of the target.
StopInOrder ==
  [][\A r \in DOMAIN runs : facts'[r] # facts[r] /\ Has(r, "EXECUTION_INCOMPLETE")' =>
       \A i \in DOMAIN facts'[r] : facts'[r][i] = "HIL_STOP_APPLIED" =>
         \E j \in 1..(i - 1) : facts'[r][j] = "STOP_REQUESTED"]_runsVars

\* A run its worker completed has left no model running.
CompletedIsStopped ==
  \A r \in DOMAIN runs :
    Has(r, "EXECUTION_INCOMPLETE") => ~(hil.state = "RUNNING" /\ hil.run = r)

\* Calls that repeat a request are given the same answer, across a restart too.
AnswersStand ==
  \A c, d \in Calls :
    Request[c] = Request[d] /\ calls[c].reply \notin {"none", "lost", "error"}
      /\ calls[d].reply \notin {"none", "lost", "error"}
      /\ At(c, "done") /\ At(d, "done")
    => calls[c].reply = calls[d].reply

\* A stop the executor has taken ends the execution.
StopEnds == active # Nobody /\ active.stop ~> active = Nobody

\* The store, the calls and the worker agree on every run, for concurrent callers
\* and over restarts: one is under way, it is somebody's, it ends once and
\* with the model stopped, and repeated requests get one answer.
RunsSound ==
  /\ RunsTypeOK
  /\ OneRunAtATime /\ NobodyForgotten
  /\ ResultOnce /\ CompletedIsStopped
  /\ AnswersStand

\* A stop is recorded before it takes effect, and takes effect.
StopPromise == StopInOrder /\ StopEnds
=============================================================================
