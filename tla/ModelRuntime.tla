------------------------------ MODULE ModelRuntime ------------------------------
(***************************************************************************)
(* The lifecycle of the model process for the Spring endpoint: WebSocket         *)
(* connections that accept START and STOP (spring_ws_server.py), the executor      *)
(* that carries them out one at a time (model_runtime.py), the processes of the    *)
(* C core, and the state cache the executor waits for (state_cache.py).           *)
(*                                                                         *)
(* handle_command is one step of the event loop; the receipt then waits for room  *)
(* in the connection's queue, and only when it is queued is the action submitted. *)
(* Of the executable, the mission file and the settings only their presence is    *)
(* kept; the execution mode is development.                                    *)
(*                                                                         *)
(* A definition introduced by "Fault:" is the definition after it with a   *)
(* plausible error in it; nothing uses it.                                 *)
(***************************************************************************)
EXTENDS Naturals, Sequences, FiniteSets, SequencesExt

CONSTANTS
  Clients,       \* WebSocket connections
  Ids,           \* request ids of COMMAND messages
  CacheSize,     \* request_cache_size
  MaxProcs,      \* core processes ever started
  MaxRequests    \* COMMANDs ever received

ASSUME RuntimeAssumption == CacheSize \in Nat \ {0} /\ MaxProcs \in Nat /\ MaxRequests \in Nat

VARIABLES
  procs,      \* the core processes
  samples,    \* the state cache: whose sample it holds, and whether it is a new one
  runtime,    \* _state, _process and whether an executable is known
  job,        \* the operation that holds _operation_lock
  submitted,  \* actions in the executor that wait for the lock
  clients,    \* the action whose receipt a connection is queueing
  requests    \* _requests: what was answered, oldest first, and how many came

runtimeVars == <<procs, samples, runtime, job, submitted, clients, requests>>

Actions == {"START", "STOP"}
NoProc == 0
Procs == 1..MaxProcs

\* A datagram port has one owner: the process that bound it first.
Live == {p \in Procs : procs[p] \in {"starting", "new", "configured", "running"}}
Bound == {p \in Procs : procs[p] \in {"new", "configured", "running"}}
Unborn == {p \in Procs : procs[p] = "unborn"}

RuntimeTypeOK ==
  /\ procs \in [Procs -> {"unborn", "starting", "new", "configured", "running", "gone"}]
  /\ samples \in [of : Procs \cup {NoProc}, fresh : BOOLEAN]
  /\ runtime \in [state : {"STOPPED", "STARTING", "RUNNING", "STOPPING"},
                  proc : Procs \cup {NoProc}, executable : BOOLEAN]
  /\ job \in {"none", "launch", "ready", "status", "start", "samples", "stop", "cleanup"}
  /\ submitted \in Seq(Actions)
  /\ clients \in [Clients -> Actions \cup {"none"}]
  /\ requests.known \in Seq([id : Ids, action : Actions, accepted : BOOLEAN])
  /\ Len(requests.known) <= CacheSize
  /\ IsInjective([i \in 1..Len(requests.known) |-> requests.known[i].id])
  /\ Cardinality(Bound) <= 1

RuntimeInit ==
  /\ procs = [p \in Procs |-> "unborn"]
  /\ samples = [of |-> NoProc, fresh |-> FALSE]
  /\ runtime = [state |-> "STOPPED", proc |-> NoProc, executable |-> TRUE]
  /\ job = "none"
  /\ submitted = <<>>
  /\ clients = [c \in Clients |-> "none"]
  /\ requests = [known |-> <<>>, seen |-> 0]

-----------------------------------------------------------------------------
(* The core processes and the samples they publish.                        *)

\* A core binds its command port, or ends when another has it.
Binds(p) ==
  /\ procs[p] = "starting"
  /\ procs' = [procs EXCEPT ![p] = IF Bound = {} THEN "new" ELSE "gone"]
  /\ UNCHANGED <<samples, runtime, job, submitted, clients, requests>>

\* The gateway configures the core.
Configures(p) ==
  /\ procs[p] = "new"
  /\ procs' = [procs EXCEPT ![p] = "configured"]
  /\ UNCHANGED <<samples, runtime, job, submitted, clients, requests>>

Exits(p) ==
  /\ p \in Live
  /\ procs' = [procs EXCEPT ![p] = "gone"]
  /\ UNCHANGED <<samples, runtime, job, submitted, clients, requests>>

\* update: a sample of the core that owns the port.
Publishes(p) ==
  /\ p \in Bound
  /\ samples' = [of |-> p, fresh |-> TRUE]
  /\ UNCHANGED <<procs, runtime, job, submitted, clients, requests>>

\* is_stale: nothing came for state_max_age_s.
Ages ==
  /\ samples.of # NoProc
  /\ samples' = [of |-> NoProc, fresh |-> FALSE]
  /\ UNCHANGED <<procs, runtime, job, submitted, clients, requests>>

ResetForNewRun == samples' = [of |-> NoProc, fresh |-> FALSE]

-----------------------------------------------------------------------------
(* Commands.                                                               *)

Known(id) == {i \in 1..Len(requests.known) : requests.known[i].id = id}

\* Fault: a STOP during a START is accepted.
StopWhileStarting(action) ==
  IF action = "START" THEN runtime.state = "STOPPED" /\ runtime.executable
  ELSE runtime.state \in {"STARTING", "RUNNING"}

\* request.
MayAccept(action) ==
  IF action = "START" THEN runtime.state = "STOPPED" /\ runtime.executable ELSE runtime.state = "RUNNING"

\* The oldest answer is forgotten when there are more than request_cache_size.
Remember(entry) ==
  LET all == Append(requests.known, entry) IN IF Len(all) > CacheSize THEN Tail(all) ELSE all

\* Fault: an answer is not looked up.
AnsweredNever(id) == FALSE

Answered(id) == Known(id) # {}

\* handle_command: a known request_id gets its answer again, or a conflict, and
\* nothing is done; otherwise the action is decided and remembered.
HandleCommand(c, id, action) ==
  /\ clients[c] = "none" /\ requests.seen < MaxRequests
  /\ IF Answered(id)
     THEN /\ requests' = [requests EXCEPT !.seen = @ + 1]
          /\ UNCHANGED <<runtime, clients>>
     ELSE LET accepted == MayAccept(action) IN
          /\ requests' = [requests EXCEPT !.seen = @ + 1,
                            !.known = Remember([id |-> id, action |-> action, accepted |-> accepted])]
          /\ runtime' = IF accepted
                        THEN [runtime EXCEPT !.state = IF action = "START" THEN "STARTING" ELSE "STOPPING"]
                        ELSE runtime
          /\ clients' = [clients EXCEPT ![c] = IF accepted THEN action ELSE "none"]
  /\ UNCHANGED <<procs, samples, job, submitted>>

\* _put_control has room: the action goes to the executor.
Submits(c) ==
  /\ clients[c] # "none"
  /\ submitted' = Append(submitted, clients[c])
  /\ clients' = [clients EXCEPT ![c] = "none"]
  /\ UNCHANGED <<procs, samples, runtime, job, requests>>

\* _put_control gives up after send_timeout_s and the connection ends: the action
\* that was accepted is never executed.
ReceiptTimesOut(c) ==
  /\ clients[c] # "none"
  /\ clients' = [clients EXCEPT ![c] = "none"]
  /\ UNCHANGED <<procs, samples, runtime, job, submitted, requests>>

-----------------------------------------------------------------------------
(* execute, in a thread of the executor.                                   *)

\* One of the waiting threads gets _operation_lock.
TakesLock ==
  /\ job = "none"
  /\ \E i \in 1..Len(submitted) :
       /\ job' = (IF submitted[i] = "START" THEN "launch" ELSE "stop")
       /\ submitted' = RemoveAt(submitted, i)
  /\ UNCHANGED <<procs, samples, runtime, clients, requests>>

\* Fault: an error leaves the state as it is.
FailsSilently == job' = "cleanup" /\ UNCHANGED runtime

\* An error in _start or _stop: the state first, then the process.
Fails == job' = "cleanup" /\ runtime' = [runtime EXCEPT !.state = "STOPPED"]

\* _start: the cache is reset and the executable started.
Launches ==
  /\ job = "launch"
  /\ ResetForNewRun
  /\ \/ \E p \in Unborn :
          /\ \A q \in Unborn : p <= q
          /\ procs' = [procs EXCEPT ![p] = "starting"]
          /\ runtime' = [runtime EXCEPT !.proc = p]
          /\ job' = "ready"
     \/ Fails /\ UNCHANGED procs
  /\ UNCHANGED <<submitted, clients, requests>>

\* _wait_for_core_ready: a fresh sample, the end of the process or the timeout.
WaitsReady ==
  /\ job = "ready"
  /\ \/ samples.of # NoProc /\ job' = "status" /\ UNCHANGED runtime
     \/ Fails
  /\ UNCHANGED <<procs, samples, submitted, clients, requests>>

\* Fault: the state of the core is not looked at.
ConfiguredAnyway == Bound # {}

\* get_hil_status says CONFIGURED without a control source.
SaysConfigured == \E p \in Bound : procs[p] = "configured"

ChecksStatus ==
  /\ job = "status"
  /\ \/ SaysConfigured /\ job' = "start" /\ UNCHANGED runtime
     \/ Fails
  /\ UNCHANGED <<procs, samples, submitted, clients, requests>>

\* select_control_source, load_mission and start reach the core that answers; after
\* three unanswered attempts or a refusal the start has failed.
StartsCore ==
  /\ job = "start"
  /\ \/ \E p \in Bound :
          /\ procs' = [procs EXCEPT ![p] = "running"]
          /\ samples' = [samples EXCEPT !.fresh = FALSE]
          /\ job' = "samples"
          /\ UNCHANGED runtime
     \/ Fails /\ UNCHANGED <<procs, samples>>
  /\ UNCHANGED <<submitted, clients, requests>>

\* _wait_for_fresh_samples: new samples, the end of the process or the timeout.
WaitsSamples ==
  /\ job = "samples"
  /\ \/ /\ samples.of # NoProc /\ samples.fresh
        /\ runtime' = [runtime EXCEPT !.state = "RUNNING"]
        /\ job' = "none"
     \/ Fails
  /\ UNCHANGED <<procs, samples, submitted, clients, requests>>

\* _stop: terminate and wait, or kill; without a live process it is an error.
Stops ==
  /\ job = "stop"
  /\ IF runtime.proc \in Live
     THEN /\ procs' = [procs EXCEPT ![runtime.proc] = "gone"]
          /\ ResetForNewRun
          /\ runtime' = [runtime EXCEPT !.state = "STOPPED", !.proc = NoProc]
          /\ job' = "none"
     ELSE Fails /\ UNCHANGED <<procs, samples>>
  /\ UNCHANGED <<submitted, clients, requests>>

\* Fault: the process of a failed start goes on.
CleanedNothing == procs

\* What is left when the process the runtime knows of is terminated.
Cleaned == IF runtime.proc = NoProc THEN procs ELSE [procs EXCEPT ![runtime.proc] = "gone"]

\* _cleanup_process.
CleanupProcess ==
  /\ job = "cleanup"
  /\ runtime' = [runtime EXCEPT !.proc = NoProc]
  /\ procs' = Cleaned
  /\ ResetForNewRun
  /\ job' = "none"
  /\ UNCHANGED <<submitted, clients, requests>>

-----------------------------------------------------------------------------

JobStep == Launches \/ WaitsReady \/ ChecksStatus \/ StartsCore \/ WaitsSamples \/ Stops \/ CleanupProcess

CoreStep == \E p \in Procs : Binds(p) \/ Configures(p) \/ Exits(p)

RuntimeNext ==
  \/ CoreStep \/ (\E p \in Procs : Publishes(p)) \/ Ages
  \/ \E c \in Clients : \/ \E id \in Ids, action \in Actions : HandleCommand(c, id, action)
                        \/ Submits(c) \/ ReceiptTimesOut(c)
  \/ TakesLock \/ JobStep

\* Threads of the executor run, and every wait in an operation has a timeout.
RuntimeFairness == WF_runtimeVars(TakesLock) /\ WF_runtimeVars(JobStep)

RuntimeSpec == RuntimeInit /\ [][RuntimeNext]_runtimeVars /\ RuntimeFairness

-----------------------------------------------------------------------------

\* At most one process of the model is alive.
OneModelProcess == Cardinality(Live) <= 1

\* An accepted action is the only one there is until it has been carried out, over
\* all connections and threads: a STOP never meets a START.
OneOperation ==
  /\ Cardinality({c \in Clients : clients[c] # "none"}) + Len(submitted)
       + (IF job \in {"none", "cleanup"} THEN 0 ELSE 1) <= 1
  /\ job \in {"launch", "ready", "status", "start", "samples"} => runtime.state = "STARTING"
  /\ job = "stop" => runtime.state = "STOPPING"

\* No START makes a core run that has not been configured.
ConfiguredFirst == [][\A p \in Procs : procs[p] \in {"starting", "new"} => procs'[p] # "running"]_runtimeVars

\* An action that is carried out leaves the model RUNNING or STOPPED, so that the
\* next command can be accepted.
Settles == job \in {"launch", "stop"} ~> runtime.state \in {"RUNNING", "STOPPED"}
=============================================================================
