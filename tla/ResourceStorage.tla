---------------------------- MODULE ResourceStorage ----------------------------
(***************************************************************************)
(* Uploads of resources in chunks: icd_gateway/resource_worker.py (one       *)
(* storage thread and its queue), resources.py (the files) and what          *)
(* receiver.py and session.py do with a chunk on the owner's thread.         *)
(*                                                                         *)
(* The owner's steps are its sections under the condition variable, the      *)
(* worker's what it does between two of them: the sessions may die, the       *)
(* service may close and time may pass between any two.  Leases are the       *)
(* registry's (SessionRegistry); here a session just ends.                   *)
(*                                                                         *)
(* Data.  A chunk is its session, its resource and its part; equal parts of  *)
(* one resource have equal bytes.  That a hash, the content or a file        *)
(* operation is bad is a choice.  Byte bounds are left out, counts kept.     *)
(*                                                                         *)
(* A definition introduced by "Fault:" is the definition after it with a   *)
(* plausible error in it; nothing uses it.                                 *)
(***************************************************************************)
EXTENDS Naturals, Sequences, FiniteSets

CONSTANTS
  Sessions, Resources,
  Parts,          \* chunks of each resource; the last one is final
  Requests,       \* records of a session sid, a resource res and a part
  Absent,
  Capacity,       \* jobs of the worker, 64
  MaxUploads, MaxObjects, MaxAborts,   \* bounds of the store
  Valid,          \* valid_for_ms of a chunk
  Commit,         \* resource_commit_timeout_ms of a final one
  Pace,           \* time the budget gives one chunk
  MaxNow          \* bound on the clock, for finite checking only

ASSUME StorageAssumption ==
  /\ Parts \in [Resources -> Nat \ {0}]
  /\ \A r \in Requests :
       r.sid \in Sessions /\ r.res \in Resources /\ r.part \in 1..Parts[r.res]
  /\ \A n \in {Capacity, MaxUploads, MaxObjects, MaxAborts, Valid, Commit} :
       n \in Nat \ {0}
  /\ Pace \in Nat /\ MaxNow \in Nat

VARIABLES
  now,
  \* the owner: registry and receiver
  up,          \* the process runs
  live,        \* session_ids of the registry
  ids,         \* sessions ever opened
  taken,       \* when each request was admitted: received_ns
  owed,        \* resource_deadline_ns: until when its result is awaited
  told,        \* the feedback its source has been given
  offering,    \* the request whose submission found the worker available
  \* shared under the condition
  jobs, queue, due, results, wlive, dirty, closing, fatal, drain,
  nextDue,     \* _budget._next_ns
  \* the worker's thread
  thread,
  \* the store and its files
  uploads, aborted, objects, lockFile, leftover

ownerVars == <<up, live, ids, taken, owed, told, offering>>
sharedVars == <<jobs, queue, due, results, wlive, dirty, closing, fatal, drain, nextDue>>
storeVars == <<uploads, aborted, objects, lockFile, leftover>>
vars == <<now, ownerVars, sharedVars, thread, storeVars>>

\* Stages of _process, and of the other things the thread does.
Stages == {"idle", "look", "store", "publish", "judge", "late", "report",
           "abort", "drain", "stopping", "stopped"}
Errors == {"OK", "STATE", "STALE", "EXPIRED", "TIMEOUT", "FAILED"}
Answers == {"none", "received", "failed", "committed", "rejected"}
Upload == [sid : Sessions, parts : Nat]
IdleWorker == [stage |-> "idle", job |-> Absent, error |-> "OK"]

\* What is missing is taken for nothing else.
ASSUME AbsentAssumption == Absent \notin Nat \cup Requests \cup Errors \cup Upload

\* The state of receiver, worker and store has its types.
TypeOK ==
  /\ now \in Nat /\ up \in BOOLEAN
  /\ live \subseteq Sessions /\ ids \subseteq Sessions
  /\ taken \in [Requests -> Nat \cup {Absent}]
  /\ owed \in [Requests -> Nat \cup {Absent}]
  /\ told \in [Requests -> Answers]
  /\ offering \in Requests \cup {Absent}
  /\ jobs \in SUBSET Requests /\ queue \in Seq(Requests)
  /\ due \in [Requests -> Nat]
  /\ results \in [Requests -> Errors \cup {Absent}]
  /\ wlive \subseteq Sessions /\ dirty \subseteq Sessions
  /\ closing \in BOOLEAN /\ fatal \in BOOLEAN
  /\ drain \in BOOLEAN /\ nextDue \in Nat
  /\ thread \in [stage : Stages, job : Requests \cup Sessions \cup {Absent}, error : Errors]
  /\ uploads \in [Resources -> Upload \cup {Absent}]
  /\ aborted \in 0..MaxAborts
  /\ objects \subseteq Resources /\ lockFile \in BOOLEAN /\ leftover \subseteq Resources

Init ==
  /\ now = 0 /\ up = TRUE /\ live = {} /\ ids = {}
  /\ taken = [r \in Requests |-> Absent] /\ owed = [r \in Requests |-> Absent]
  /\ told = [r \in Requests |-> "none"]
  /\ offering = Absent
  /\ jobs = {} /\ queue = <<>> /\ due = [r \in Requests |-> 0]
  /\ results = [r \in Requests |-> Absent]
  /\ wlive = {} /\ dirty = {} /\ closing = FALSE /\ fatal = FALSE
  /\ drain = FALSE /\ nextDue = 0
  /\ thread = IdleWorker
  /\ uploads = [s \in Resources |-> Absent] /\ aborted = 0
  /\ objects = {} /\ lockFile = TRUE /\ leftover = {}

-----------------------------------------------------------------------------
(* The owner's thread.                                                     *)

Open == up /\ ~closing
Idle == offering = Absent
Final(r) == r.part = Parts[r.res]
\* The thread has ended: it is not alive.
Stopped == thread.stage = "stopped"
Available == ~Stopped /\ ~closing /\ ~fatal

OpenSession(s) ==
  /\ Open /\ Idle
  /\ s \notin ids
  /\ ids' = ids \cup {s} /\ live' = live \cup {s}
  /\ UNCHANGED <<now, up, taken, owed, told, offering>>
  /\ UNCHANGED sharedVars /\ UNCHANGED thread /\ UNCHANGED storeVars

\* expire or revoke: the worker is told at once, by cancel_session.
EndSession(s) ==
  /\ Open /\ Idle
  /\ s \in live
  /\ live' = live \ {s} /\ wlive' = wlive \ {s}
  /\ UNCHANGED <<now, up, ids, taken, owed, told, offering>>
  /\ UNCHANGED <<jobs, queue, due, results, dirty, closing, fatal, drain, nextDue>>
  /\ UNCHANGED thread /\ UNCHANGED storeVars

\* tick: the worker learns of new sessions.
Synchronize ==
  /\ Open /\ Idle /\ Available
  /\ wlive' = live
  /\ UNCHANGED <<now, jobs, queue, due, results, dirty, closing, fatal, drain, nextDue>>
  /\ UNCHANGED ownerVars /\ UNCHANGED thread /\ UNCHANGED storeVars

Tell(r, answer) == told' = [told EXCEPT ![r] = answer]

\* receive of a chunk: it is admitted, and submit finds the worker available
\* or not.
Receive(r) ==
  /\ Open /\ Idle
  /\ r.sid \in live
  /\ taken[r] = Absent
  /\ taken' = [taken EXCEPT ![r] = now]
  /\ IF Available
     THEN offering' = r /\ UNCHANGED told
     ELSE Tell(r, "failed") /\ UNCHANGED offering
  /\ UNCHANGED <<now, up, live, ids, owed>>
  /\ UNCHANGED sharedVars /\ UNCHANGED thread /\ UNCHANGED storeVars

\* Fault: a full worker takes another job.
HasRoomBeyond == Cardinality(jobs) <= Capacity

HasRoom == Cardinality(jobs) < Capacity

\* ResourceBudget.preview.
DueAt == (IF now > nextDue THEN now ELSE nextDue) + Pace

\* resource_deadline_ns: how long a result of the request is worth having.
Deadline(r) == taken[r] + (IF Final(r) THEN Commit ELSE Valid)

\* The rest of submit, under the condition.
Submit(r) ==
  /\ Open /\ offering = r
  /\ HasRoom
  /\ DueAt < taken[r] + Valid
  /\ now < Deadline(r)
  /\ owed' = [owed EXCEPT ![r] = Deadline(r)]
  /\ Tell(r, "received")
  /\ jobs' = jobs \cup {r} /\ queue' = Append(queue, r)
  /\ due' = [due EXCEPT ![r] = DueAt] /\ nextDue' = DueAt
  /\ wlive' = live
  /\ offering' = Absent
  /\ UNCHANGED <<now, up, live, ids, taken>>
  /\ UNCHANGED <<results, dirty, closing, fatal, drain>>
  /\ UNCHANGED thread /\ UNCHANGED storeVars

\* No room, or no time: RECEIVED and FAILED at once.
SubmitRefused(r) ==
  /\ Open /\ offering = r
  /\ ~(HasRoom /\ DueAt < taken[r] + Valid /\ now < Deadline(r))
  /\ Tell(r, "failed")
  /\ offering' = Absent
  /\ UNCHANGED <<now, up, live, ids, taken, owed>>
  /\ UNCHANGED sharedVars /\ UNCHANGED thread /\ UNCHANGED storeVars

\* Fault: a good result needs time to spare.
FinishableEarly(r) ==
  /\ r.sid \in live /\ owed[r] # Absent
  /\ results[r] = "OK" => now + 1 < owed[r]

\* Fault: a good result is told whenever it comes.
FinishableLate(r) == r.sid \in live /\ owed[r] # Absent

\* finish_resource_response accepts the result.
Finishable(r) ==
  /\ r.sid \in live /\ owed[r] # Absent
  /\ results[r] = "OK" => now < owed[r]

\* resource_feedback, for one of the results there are, whenever the receiver
\* has room for one more completion record.
Deliver(r) ==
  /\ Open /\ Idle
  /\ r \in jobs /\ results[r] # Absent
  /\ jobs' = jobs \ {r} /\ results' = [results EXCEPT ![r] = Absent]
  /\ \/ /\ Finishable(r)
        /\ Tell(r, IF results[r] = "OK" THEN "committed" ELSE "rejected")
        /\ owed' = [owed EXCEPT ![r] = Absent]
     \/ ~Finishable(r) /\ UNCHANGED <<told, owed>>
  /\ UNCHANGED <<now, up, live, ids, taken, offering>>
  /\ UNCHANGED <<queue, due, wlive, dirty, closing, fatal, drain, nextDue>>
  /\ UNCHANGED thread /\ UNCHANGED storeVars

\* drain_abort_records: the command stays when its caller stops waiting.
AskDrain ==
  /\ Idle /\ Available /\ ~drain
  /\ drain' = TRUE
  /\ UNCHANGED <<now, jobs, queue, due, results, wlive, dirty, closing, fatal, nextDue>>
  /\ UNCHANGED ownerVars /\ UNCHANGED thread /\ UNCHANGED storeVars

\* Receiver.close: the registry forgets everything, the worker is asked to end.
\* A join that times out leaves it at that, and close may be called again.
Close ==
  /\ Open /\ Idle
  /\ live' = {} /\ owed' = [r \in Requests |-> Absent]
  /\ closing' = TRUE /\ wlive' = {}
  /\ UNCHANGED <<now, up, ids, taken, told, offering>>
  /\ UNCHANGED <<jobs, queue, due, results, dirty, fatal, drain, nextDue>>
  /\ UNCHANGED thread /\ UNCHANGED storeVars

-----------------------------------------------------------------------------
(* The worker's thread: _run chooses what to do.                           *)

Move(stage) == thread' = [thread EXCEPT !.stage = stage]
Err(stage, error) == thread' = [thread EXCEPT !.stage = stage, !.error = error]
WorkerOnly == UNCHANGED now /\ UNCHANGED ownerVars
AtRest == up /\ thread.stage = "idle"

\* Uploads of sessions that have ended go first.
ChooseAbort(s) ==
  /\ AtRest
  /\ s \in dirty \ wlive
  /\ thread' = [stage |-> "abort", job |-> s, error |-> "OK"]
  /\ WorkerOnly /\ UNCHANGED sharedVars /\ UNCHANGED storeVars

ChooseDrain ==
  /\ AtRest
  /\ dirty \subseteq wlive
  /\ drain
  /\ Move("drain")
  /\ WorkerOnly /\ UNCHANGED sharedVars /\ UNCHANGED storeVars

\* The oldest job, once the budget lets it start or its session is gone.
ChooseJob ==
  /\ AtRest
  /\ dirty \subseteq wlive
  /\ ~drain
  /\ queue # <<>>
  /\ \/ now >= due[Head(queue)]
     \/ closing
     \/ Head(queue).sid \notin wlive
  /\ queue' = Tail(queue)
  /\ thread' = [stage |-> "look", job |-> Head(queue), error |-> "OK"]
  /\ UNCHANGED <<jobs, due, results, wlive, dirty, closing, fatal, drain, nextDue>>
  /\ WorkerOnly /\ UNCHANGED storeVars

ChooseEnd ==
  /\ AtRest
  /\ dirty \subseteq wlive
  /\ ~drain
  /\ queue = <<>> /\ closing
  /\ Move("stopping")
  /\ WorkerOnly /\ UNCHANGED sharedVars /\ UNCHANGED storeVars

Without(set) == [s \in Resources |-> IF s \in set THEN Absent ELSE uploads[s]]
Held == {s \in Resources : uploads[s] # Absent}
HeldBy(s) == {q \in Held : uploads[q].sid = s}

AbortSession ==
  /\ up /\ thread.stage = "abort"
  /\ uploads' = Without(HeldBy(thread.job))
  /\ aborted' = aborted + Cardinality(HeldBy(thread.job))
  /\ dirty' = dirty \ {thread.job}
  /\ thread' = IdleWorker
  /\ UNCHANGED <<jobs, queue, due, results, wlive, closing, fatal, drain, nextDue>>
  /\ UNCHANGED <<objects, lockFile, leftover>>
  /\ WorkerOnly

DrainAborted ==
  /\ up /\ thread.stage = "drain"
  /\ aborted' = 0 /\ drain' = FALSE
  /\ thread' = IdleWorker
  /\ UNCHANGED <<jobs, queue, due, results, wlive, dirty, closing, fatal, nextDue>>
  /\ UNCHANGED <<uploads, objects, lockFile, leftover>>
  /\ WorkerOnly

-----------------------------------------------------------------------------
(* _process.                                                               *)

Cancelled(r) == r.sid \notin wlive \/ closing
Cause == IF closing THEN "STATE" ELSE "STALE"

\* Whether the job may still start.
Look ==
  LET r == thread.job IN
  /\ up /\ thread.stage = "look"
  /\ \/ Cancelled(r) /\ Err("judge", Cause)
     \/ ~Cancelled(r) /\ now >= taken[r] + Valid /\ Err("judge", "EXPIRED")
     \/ ~Cancelled(r) /\ now < taken[r] + Valid /\ Move("store")
  /\ WorkerOnly /\ UNCHANGED sharedVars /\ UNCHANGED storeVars

\* Fault: the chunk after the last one is taken for one there already.
HasPartBeyond(r) ==
  \/ r.res \in objects
  \/ uploads[r.res] # Absent /\ uploads[r.res].sid = r.sid /\ r.part <= uploads[r.res].parts + 1

\* accept has the chunk already, of an object or of the upload in progress.
HasPart(r) ==
  \/ r.res \in objects
  \/ uploads[r.res] # Absent /\ uploads[r.res].sid = r.sid /\ r.part <= uploads[r.res].parts

\* It is the next chunk of this session's upload.
Continues(r) ==
  uploads[r.res] # Absent /\ uploads[r.res].sid = r.sid /\ r.part = uploads[r.res].parts + 1

\* Fault: one abort record too many is promised.
StartsUnreserved(r) ==
  /\ uploads[r.res] = Absent /\ r.part = 1
  /\ Cardinality(Held) < MaxUploads
  /\ Cardinality(Held) + Cardinality(objects) < MaxObjects
  /\ Cardinality(Held) + aborted <= MaxAborts

\* It is the first one of an upload, which has room.
Starts(r) ==
  /\ uploads[r.res] = Absent /\ r.part = 1
  /\ Cardinality(Held) < MaxUploads
  /\ Cardinality(Held) + Cardinality(objects) < MaxObjects
  /\ Cardinality(Held) + aborted < MaxAborts

AtStore(r) == up /\ thread.stage = "store" /\ r = thread.job

StoreKnown(r) ==
  /\ AtStore(r)
  /\ HasPart(r)
  /\ Err("judge", "OK")
  /\ WorkerOnly /\ UNCHANGED sharedVars /\ UNCHANGED storeVars

\* Refused before anything is written: out of order, another session's, no
\* room, or a file that cannot be read.
StoreRefused(r) ==
  /\ AtStore(r)
  /\ Err("judge", "FAILED")
  /\ WorkerOnly /\ UNCHANGED sharedVars /\ UNCHANGED storeVars

Written(r) == uploads' = [uploads EXCEPT ![r.res] = [sid |-> r.sid, parts |-> r.part]]

\* The bytes are in the staging file and synced.
StoreWritten(r) ==
  /\ AtStore(r)
  /\ r.res \notin objects
  /\ Continues(r) \/ Starts(r)
  /\ Written(r)
  /\ IF Final(r) THEN Move("publish") ELSE Err("judge", "OK")
  /\ UNCHANGED <<aborted, objects, lockFile, leftover>>
  /\ WorkerOnly /\ UNCHANGED sharedVars

\* Writing fails after the upload was touched: it is removed.
StoreSpoilt(r) ==
  /\ AtStore(r)
  /\ r.res \notin objects
  /\ Continues(r) \/ Starts(r)
  /\ uploads' = Without({r.res})
  /\ aborted' = aborted + 1
  /\ Err("judge", "FAILED")
  /\ UNCHANGED <<objects, lockFile, leftover>>
  /\ WorkerOnly /\ UNCHANGED sharedVars

\* The whole is what it should be and is renamed into place.
Publish ==
  LET r == thread.job IN
  /\ up /\ thread.stage = "publish"
  /\ objects' = objects \cup {r.res}
  /\ uploads' = Without({r.res})
  /\ Err("judge", "OK")
  /\ UNCHANGED <<aborted, lockFile, leftover>>
  /\ WorkerOnly /\ UNCHANGED sharedVars

\* Its hash, content or metadata is bad.
PublishFails ==
  LET r == thread.job IN
  /\ up /\ thread.stage = "publish"
  /\ uploads' = Without({r.res})
  /\ aborted' = aborted + 1
  /\ Err("judge", "FAILED")
  /\ UNCHANGED <<objects, lockFile, leftover>>
  /\ WorkerOnly /\ UNCHANGED sharedVars

\* What has become of the session and of the deadline meanwhile.
Verdict(r, error) ==
  CASE Cancelled(r) -> Cause
    [] ~Cancelled(r) /\ now >= Deadline(r) -> "TIMEOUT"
    [] OTHER -> error

Judge ==
  LET r == thread.job
      error == Verdict(r, thread.error) IN
  /\ up /\ thread.stage = "judge"
  /\ Err(IF error \in {"EXPIRED", "TIMEOUT"} THEN "late" ELSE "report", error)
  /\ WorkerOnly /\ UNCHANGED sharedVars /\ UNCHANGED storeVars

\* abort_resource, which leaves another session's upload alone.
AbortLate ==
  LET r == thread.job
      mine == uploads[r.res] # Absent /\ uploads[r.res].sid = r.sid IN
  /\ up /\ thread.stage = "late"
  /\ uploads' = IF mine THEN Without({r.res}) ELSE uploads
  /\ aborted' = IF mine THEN aborted + 1 ELSE aborted
  /\ Move("report")
  /\ UNCHANGED <<objects, lockFile, leftover>>
  /\ WorkerOnly /\ UNCHANGED sharedVars

\* Fault: the sessions with uploads are not read again.
DirtyStays == dirty

\* _upload_sessions, as the store has it now.
DirtyNow == {uploads[s].sid : s \in Held}

Report ==
  /\ up /\ thread.stage = "report"
  /\ results' = [results EXCEPT ![thread.job] = thread.error]
  /\ dirty' = DirtyNow
  /\ thread' = IdleWorker
  /\ UNCHANGED <<jobs, queue, due, wlive, closing, fatal, drain, nextDue>>
  /\ WorkerOnly /\ UNCHANGED storeVars

-----------------------------------------------------------------------------
(* The end of the thread.                                                  *)

\* A cleanup raises: every job without a result is given this error.
Fail ==
  /\ up /\ thread.stage \in {"abort", "late", "store", "publish"}
  /\ fatal' = TRUE
  /\ queue' = <<>>
  /\ results' = [r \in Requests |->
       IF r \in jobs /\ results[r] = Absent THEN "FAILED" ELSE results[r]]
  /\ Err("stopping", "FAILED")
  /\ UNCHANGED <<jobs, due, wlive, dirty, closing, drain, nextDue>>
  /\ WorkerOnly /\ UNCHANGED storeVars

\* Fault: the lock goes even when an upload cannot be removed.
CloseStoreUnlocks ==
  /\ lockFile' = FALSE
  /\ \E removed \in SUBSET Held : uploads' = Without(removed)

\* store.close: the uploads are removed one by one and then the lock, until
\* a removal fails, the lock's own included.
CloseStore ==
  \/ uploads' = Without(Held) /\ lockFile' = FALSE
  \/ /\ \E removed \in SUBSET Held : uploads' = Without(removed)
     /\ UNCHANGED lockFile

Stop ==
  /\ up /\ thread.stage = "stopping"
  /\ CloseStore
  /\ aborted' = 0
  /\ thread' = [IdleWorker EXCEPT !.stage = "stopped"]
  /\ UNCHANGED sharedVars
  /\ UNCHANGED <<objects, leftover>>
  /\ WorkerOnly

-----------------------------------------------------------------------------
(* Crash and restart of the process.                                       *)

\* Files stay: objects, staging directories, and the lock unless it was
\* removed.  What was told stays told.
Crash ==
  /\ up
  /\ up' = FALSE
  /\ leftover' = leftover \cup Held
  /\ live' = {} /\ owed' = [r \in Requests |-> Absent]
  /\ offering' = Absent
  /\ jobs' = {} /\ queue' = <<>> /\ results' = [r \in Requests |-> Absent]
  /\ due' = [r \in Requests |-> 0]
  /\ wlive' = {} /\ dirty' = {} /\ closing' = FALSE /\ fatal' = FALSE
  /\ drain' = FALSE /\ nextDue' = 0
  /\ thread' = IdleWorker
  /\ uploads' = [s \in Resources |-> Absent] /\ aborted' = 0
  /\ UNCHANGED <<now, ids, taken, told, objects, lockFile>>

\* Fault: a stale lock is taken over.
OpenableLocked == leftover = {}

\* ResourceStore.__init__ refuses a root with a lock or with staging in it.
Openable == ~lockFile /\ leftover = {}

Restart ==
  /\ ~up
  /\ Openable
  /\ up' = TRUE /\ lockFile' = TRUE
  /\ UNCHANGED <<now, live, ids, taken, owed, told, offering>>
  /\ UNCHANGED sharedVars /\ UNCHANGED thread
  /\ UNCHANGED <<uploads, aborted, objects, leftover>>

\* "Explicit recovery" by hand: what is not published is removed.
Recover ==
  /\ ~up
  /\ ~Openable
  /\ leftover' = {} /\ lockFile' = FALSE
  /\ UNCHANGED now /\ UNCHANGED ownerVars /\ UNCHANGED sharedVars /\ UNCHANGED thread
  /\ UNCHANGED <<uploads, aborted, objects>>

Tick ==
  /\ now < MaxNow
  /\ now' = now + 1
  /\ UNCHANGED ownerVars /\ UNCHANGED sharedVars /\ UNCHANGED thread
  /\ UNCHANGED storeVars

WorkerStep ==
  \/ \E s \in Sessions : ChooseAbort(s)
  \/ ChooseDrain \/ ChooseJob \/ ChooseEnd
  \/ AbortSession \/ DrainAborted \/ Look
  \/ \E r \in Requests : StoreKnown(r) \/ StoreRefused(r) \/ StoreWritten(r) \/ StoreSpoilt(r)
  \/ Publish \/ PublishFails \/ Judge \/ AbortLate \/ Report
  \/ Fail \/ Stop

OwnerStep ==
  \/ \E s \in Sessions : OpenSession(s) \/ EndSession(s)
  \/ Synchronize
  \/ \E r \in Requests : Receive(r) \/ Submit(r) \/ SubmitRefused(r) \/ Deliver(r)
  \/ AskDrain \/ Close

Next == OwnerStep \/ WorkerStep \/ Crash \/ Restart \/ Recover \/ Tick

Spec == Init /\ [][Next]_vars
\* The thread runs, the clock moves and a submission is finished.  A caller of
\* drain_abort_records waits for its result before it asks again, and the
\* thread does not: it comes to the queue between two commands.
FairSpec == Spec /\ WF_vars(WorkerStep) /\ SF_vars(ChooseJob) /\ WF_vars(Tick)
                 /\ WF_vars(\E r \in Requests : Submit(r) \/ SubmitRefused(r))

-----------------------------------------------------------------------------
(* Properties.                                                             *)

\* A source that was told its last chunk is committed finds the resource
\* published, also after a crash.
CommittedIsPublished ==
  \A r \in Requests : told[r] = "committed" /\ Final(r) => r.res \in objects

\* Success is told in time only, and to a session that is still there.
CommitInTime ==
  [][\A r \in Requests :
       told'[r] = "committed" /\ told[r] # "committed" =>
         now < Deadline(r) /\ r.sid \in live]_vars

\* While the registry owes a source its result in time, the worker has the
\* job: nobody waits for a result that nobody produces.
OwedIsWorked ==
  \A r \in Requests :
    owed[r] # Absent /\ now < owed[r] /\ r.sid \in live => r \in jobs

\* Every upload whose session may end is known to the worker as one to abort,
\* as soon as it is at rest.
UploadsAreWatched ==
  thread.stage = "idle" => \A s \in Held : uploads[s].sid \in dirty

\* Every upload in progress has an abort record reserved: ending them all
\* never exceeds the bound.
AbortsFit == Cardinality(Held) + aborted <= MaxAborts

\* The jobs keep to the capacity, and every one of them is queued, at work or
\* finished, unless the thread has failed.
JobsAccounted ==
  /\ Cardinality(jobs) <= Capacity
  /\ \A r \in jobs :
       \/ results[r] # Absent
       \/ \E i \in DOMAIN queue : queue[i] = r
       \/ thread.job = r
       \/ fatal

\* What is left in the staging area keeps the lock: no store is opened over
\* the remains of another one.
RemainsAreLocked == leftover # {} \/ Held # {} => lockFile

\* Nothing is left to the worker: no upload of a session that has ended, and
\* no job without a result.
Settled ==
  /\ \A s \in ids \ live : HeldBy(s) = {}
  /\ \A r \in jobs : results[r] # Absent

\* Uploads outlive their session, and jobs wait, only as long as the worker
\* needs to come to them, unless its thread has failed.
AlwaysSettles == []<>(Settled \/ fatal)

\* Owner, worker and disk agree, also after a crash and with every file operation
\* failing or not: what was told committed is there, what is owed is worked on, what
\* may end is watched and has a place for its end, and remains keep the lock.
StorageSound ==
  /\ TypeOK
  /\ CommittedIsPublished /\ OwedIsWorked
  /\ UploadsAreWatched /\ AbortsFit /\ JobsAccounted
  /\ RemainsAreLocked

\* Success is told in time or not at all, and everything settles.
StorageSettles == CommitInTime /\ AlwaysSettles
=============================================================================
