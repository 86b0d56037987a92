--------------------------- MODULE SessionRegistry ---------------------------
(***************************************************************************)
(* icd_gateway/session.py: the receiver's sessions, its duplicate cache and *)
(* the feedback it keeps for retries.  Callers serialise access, so one     *)
(* call is one action; time passes between calls (Tick) and every call      *)
(* first drops what has expired by then, which LiveSessions, KeptRecords    *)
(* and KeptOpens give.                                                     *)
(*                                                                         *)
(* Data.  A message is its session, its sequence and its content: equal     *)
(* content is equal digest.  The feedback of a request is its stages,       *)
(* without their text.  A source grant stands for its identity and its      *)
(* links; roles and model are checks of the contract that change no state.  *)
(*                                                                         *)
(* A definition introduced by "Fault:" is the definition after it with a   *)
(* plausible error in it.  Nothing uses it: put in the place of the right  *)
(* one, it shows which property notices the error.                         *)
(***************************************************************************)
EXTENDS Naturals, FiniteSets

CONSTANTS
  Grants, Nonces,   \* source grants; the nonces their openings carry
  Openings,         \* contents of SessionOpen, id 1
  Heartbeats,       \* of Heartbeat, id 2
  Inputs,           \* of requests a consumer service completes, ids 3, 7, 10, 11...
  Commands,         \* of LifecycleCommand, id 4
  Chunks,           \* of ResourceChunk, id 34
  Absent,           \* no such session, record, opening or key
  Lease,            \* session_lease_ms
  Retention,        \* duplicate_retention_ms
  ChunkTimeout,     \* resource_commit_timeout_ms or valid_for_ms of each chunk
  MaxSessions,      \* deployment session bound
  CacheSize,        \* duplicate_cache_messages
  PendingCap,       \* pending resource feedback, 64
  LastId,           \* last session id, 0xffffffff
  LastSeq,          \* last request sequence, 0xffffffff
  MaxNow            \* bound on the receiver's clock, for finite checking only

Contents == Openings \cup Heartbeats \cup Inputs \cup Commands \cup Chunks
Ids == 1..LastId
Keys == Ids \X (1..LastSeq)

ASSUME RegistryAssumption ==
  /\ Lease \in Nat \ {0} /\ Retention \in Nat \ {0}
  /\ ChunkTimeout \in [Chunks -> Nat \ {0}]
  /\ MaxSessions \in Nat \ {0} /\ CacheSize \in Nat \ {0} /\ PendingCap \in Nat
  /\ LastId \in Nat \ {0} /\ LastSeq \in Nat \ {0} /\ MaxNow \in Nat

\* Feedback of a request: RECEIVED; RECEIVED then FAILED; RECEIVED then
\* APPLIED; RECEIVED then a ResourceAck with or without an error.
Answers == {"none", "received", "failed", "applied", "committed", "rejected"}

VARIABLES
  now,         \* monotonic time of the calls
  sessions,    \* _sessions: id -> session
  opens,       \* _opens: grant and nonce -> opening
  records,     \* _records: session and sequence -> record
  nextId,      \* _next_id
  closed,      \* _closed
  told,        \* the request and the feedback the last accept replayed
  \* history
  arrivals,    \* admissions so far: the insertion order of _records
  admissions,  \* how often each key was admitted as fresh
  answered     \* the last feedback kept for each key

vars == <<now, sessions, opens, records, nextId, closed, told, arrivals,
          admissions, answered>>
history == <<arrivals, admissions, answered>>

Session == [grant : Grants, nonce : Nonces, deadline : Nat, lastRx : Nat]
Opening == [digest : Openings, sid : Ids, deadline : Nat]
Record == [digest : Contents, deadline : Nat, received : Nat, answer : Answers,
           queued : BOOLEAN, pendingUntil : Nat, stamp : Nat]
Replay == [key : Keys, answer : Answers]

\* No entry of a table is taken for a missing one.
ASSUME AbsentAssumption == Absent \notin Session \cup Opening \cup Record \cup Replay

\* The state of the registry has its types.
TypeOK ==
  /\ now \in Nat /\ nextId \in 1..(LastId + 1) /\ closed \in BOOLEAN
  /\ sessions \in [Ids -> Session \cup {Absent}]
  /\ opens \in [Grants \X Nonces -> Opening \cup {Absent}]
  /\ records \in [Keys -> Record \cup {Absent}]
  /\ told \in Replay \cup {Absent}
  /\ arrivals \in Nat
  /\ admissions \in [Keys -> Nat]
  /\ answered \in [Keys -> Answers]

Init ==
  /\ now = 0 /\ nextId = 1 /\ closed = FALSE
  /\ sessions = [s \in Ids |-> Absent]
  /\ opens = [o \in Grants \X Nonces |-> Absent]
  /\ records = [k \in Keys |-> Absent]
  /\ told = Absent
  /\ arrivals = 0
  /\ admissions = [k \in Keys |-> 0]
  /\ answered = [k \in Keys |-> "none"]

-----------------------------------------------------------------------------
(* expire: what is left of each table at this time.                        *)

\* Fault: a lease is still good at its deadline.
LeaseGoodAtDeadline ==
  [s \in Ids |-> IF sessions[s] # Absent /\ now <= sessions[s].deadline
                 THEN sessions[s] ELSE Absent]

LiveSessions ==
  [s \in Ids |-> IF sessions[s] # Absent /\ now < sessions[s].deadline
                 THEN sessions[s] ELSE Absent]

\* Fault: the deadline of pending resource feedback is forgotten.
KeptUntilRetention(r) == r.deadline

KeptUntil(r) == IF r.pendingUntil > r.deadline THEN r.pendingUntil ELSE r.deadline

KeptRecords ==
  [k \in Keys |-> IF records[k] # Absent /\ now < KeptUntil(records[k])
                  THEN records[k] ELSE Absent]

KeptOpens ==
  [o \in Grants \X Nonces |-> IF opens[o] # Absent /\ now < opens[o].deadline
                              THEN opens[o] ELSE Absent]

Expire == sessions' = LiveSessions /\ opens' = KeptOpens

Held(table) == {i \in DOMAIN table : table[i] # Absent}
Pending(table) == {k \in Held(table) : table[k].pendingUntil # 0}

\* Fault: the oldest record makes room, awaited or not.
OldestOfAll(table) ==
  CHOOSE k \in Held(table) : \A j \in Held(table) : table[k].stamp <= table[j].stamp

\* The record that makes room: the oldest without pending resource feedback.
Oldest(table) ==
  CHOOSE k \in Held(table) \ Pending(table) :
    \A j \in Held(table) \ Pending(table) : table[k].stamp <= table[j].stamp

\* Fault: one record too many.
FullBeyond(table) == Cardinality(Held(table)) > CacheSize

Full(table) == Cardinality(Held(table)) >= CacheSize

\* Whether one more record can be remembered.
Room(table) == Full(table) => Held(table) \ Pending(table) # {}

\* _remember: the table with a new record, and without the evicted one.
Remembered(table, key, content) ==
  [k \in Keys |->
    IF k = key
    THEN [digest |-> content, deadline |-> now + Retention, received |-> now,
          answer |-> "none", queued |-> FALSE, pendingUntil |-> 0,
          stamp |-> arrivals]
    ELSE IF Full(table) /\ k = Oldest(table) THEN Absent ELSE table[k]]

\* Counts a fresh admission, on which the caller performs the request.
Admitted(key) ==
  /\ told' = Absent
  /\ admissions' = [admissions EXCEPT ![key] = @ + 1]
  /\ arrivals' = arrivals + 1
  /\ UNCHANGED answered

-----------------------------------------------------------------------------
(* accept of SessionOpen: _opening with allocate.                          *)

\* The same opening again: its session is named again, with its feedback.
OpenAgain(g, n, content) ==
  LET entry == KeptOpens[<<g, n>>]
      record == KeptRecords[<<entry.sid, 1>>] IN
  /\ ~closed
  /\ entry # Absent
  /\ entry.digest = content
  /\ LiveSessions[entry.sid] # Absent
  /\ record # Absent
  /\ record.answer # "none"
  /\ Expire /\ records' = KeptRecords
  /\ told' = [key |-> <<entry.sid, 1>>, answer |-> record.answer]
  /\ UNCHANGED <<now, nextId, closed>> /\ UNCHANGED history

\* Fault: an active session does not keep its nonce.
NonceFreeOnceForgotten(g, n) ==
  /\ KeptOpens[<<g, n>>] = Absent
  /\ Cardinality(Held(LiveSessions)) < MaxSessions
  /\ nextId <= LastId
  /\ Room(KeptRecords)

\* Fault: the session counter wraps.
AllocatableBeyond(g, n) ==
  /\ KeptOpens[<<g, n>>] = Absent
  /\ \A s \in Held(LiveSessions) :
       ~(LiveSessions[s].grant = g /\ LiveSessions[s].nonce = n)
  /\ Cardinality(Held(LiveSessions)) < MaxSessions
  /\ Room(KeptRecords)

\* An opening that may be given a session.
Allocatable(g, n) ==
  /\ KeptOpens[<<g, n>>] = Absent
  /\ \A s \in Held(LiveSessions) :
       ~(LiveSessions[s].grant = g /\ LiveSessions[s].nonce = n)
  /\ Cardinality(Held(LiveSessions)) < MaxSessions
  /\ nextId <= LastId
  /\ Room(KeptRecords)

\* The openings with a new one; beyond the cache size the oldest goes.
OpensWith(key, entry) ==
  LET all == [KeptOpens EXCEPT ![key] = entry]
      oldest == CHOOSE o \in Held(all) :
                  \A p \in Held(all) : all[o].sid <= all[p].sid IN
  IF Cardinality(Held(all)) > CacheSize
  THEN [all EXCEPT ![oldest] = Absent]
  ELSE all

Open(g, n, content) ==
  /\ ~closed
  /\ Allocatable(g, n)
  /\ sessions' = [LiveSessions EXCEPT ![nextId] =
       [grant |-> g, nonce |-> n, deadline |-> now + Lease, lastRx |-> 1]]
  /\ opens' = OpensWith(<<g, n>>, [digest |-> content, sid |-> nextId,
                                   deadline |-> now + Retention])
  /\ records' = Remembered(KeptRecords, <<nextId, 1>>, content)
  /\ nextId' = nextId + 1
  /\ Admitted(<<nextId, 1>>)
  /\ UNCHANGED <<now, closed>>

-----------------------------------------------------------------------------
(* accept of the other requests.                                           *)

\* preauthorize: the session is live and belongs to the sender's grant.
Authorized(g, s) == LiveSessions[s] # Absent /\ LiveSessions[s].grant = g

\* A retry of the same content: the feedback it already has.
AcceptAgain(g, key, content) ==
  LET record == KeptRecords[key] IN
  /\ ~closed
  /\ Authorized(g, key[1])
  /\ record # Absent
  /\ record.digest = content
  /\ record.answer # "none"
  /\ Expire /\ records' = KeptRecords
  /\ told' = [key |-> key, answer |-> record.answer]
  /\ UNCHANGED <<now, nextId, closed>> /\ UNCHANGED history

\* Fault: what the cache has forgotten is fresh.
ForgottenIsFresh(key) == KeptRecords[key] = Absent

\* Fault: duplicates are not looked up, and the last sequence counts as fresh.
FreshFromLast(key) == key[2] >= LiveSessions[key[1]].lastRx

\* The sequence is beyond every one admitted before it.
IsFresh(key) ==
  /\ KeptRecords[key] = Absent
  /\ key[2] > LiveSessions[key[1]].lastRx

\* The lease after a request: a heartbeat renews it.
RenewedLease(s, content) ==
  IF content \in Heartbeats THEN now + Lease ELSE LiveSessions[s].deadline

Accept(g, key, content) ==
  /\ ~closed
  /\ Authorized(g, key[1])
  /\ IsFresh(key)
  /\ Room(KeptRecords)
  /\ records' = Remembered(KeptRecords, key, content)
  /\ sessions' = [LiveSessions EXCEPT
       ![key[1]].lastRx = key[2],
       ![key[1]].deadline = RenewedLease(key[1], content)]
  /\ opens' = KeptOpens
  /\ Admitted(key)
  /\ UNCHANGED <<now, nextId, closed>>

\* Any call that is refused, and the periodic maintenance: both only expire.
Refuse ==
  /\ ~closed
  /\ Expire /\ records' = KeptRecords
  /\ told' = Absent
  /\ UNCHANGED <<now, nextId, closed>> /\ UNCHANGED history

-----------------------------------------------------------------------------
(* Feedback.  Every service hands back the original message, so the record *)
(* has its content.                                                        *)

\* What the record holds from now on, and what the sender may be told.
Keep(table, key, record) ==
  /\ records' = [table EXCEPT ![key] = record]
  /\ answered' = [answered EXCEPT ![key] = record.answer]
  /\ UNCHANGED <<now, nextId, closed, told, arrivals, admissions>>

\* Fault: feedback can be recorded over feedback.
AnswerableAgain(record) == record.answer \in {"none", "received"}

\* No feedback yet: it is immutable.
Answerable(record) == record.answer = "none"

\* record_response: the receiver's own stages.  The record of an opening is
\* found through the opening; no other request needs a live session.
RecordResponse(key, answer) ==
  LET record == KeptRecords[key] IN
  /\ ~closed
  /\ record # Absent
  /\ key[2] = 1 => \E o \in Held(KeptOpens) : KeptOpens[o].sid = key[1]
  /\ Answerable(record)
  /\ Expire
  /\ Keep(KeptRecords, key, [record EXCEPT !.answer = answer])

\* Fault: an admission can be used although a queue has it.
UsableTwice(record) == record.answer \notin {"failed", "applied"}

\* The admission a service or a queue may still use: _admitted_record.
Usable(record) == ~record.queued /\ record.answer \notin {"failed", "applied"}

\* _record_configuration_response and its siblings: a consumer service
\* completes an input.  The checks observe what is expired and drop nothing.
RecordApplied(key) ==
  LET record == records[key] IN
  /\ ~closed
  /\ sessions[key[1]] # Absent /\ now < sessions[key[1]].deadline
  /\ record # Absent /\ now < KeptUntil(record)
  /\ record.digest \in Inputs
  /\ Usable(record) /\ Answerable(record)
  /\ Keep(records, key, [record EXCEPT !.answer = "applied",
                                       !.deadline = now + Retention])
  /\ UNCHANGED <<sessions, opens>>

\* _record_lifecycle_response: the command may have retired its own session.
RecordLifecycle(key, answer) ==
  LET record == records[key] IN
  /\ ~closed
  /\ record # Absent
  /\ record.digest \in Commands
  /\ Answerable(record)
  /\ Keep(records, key, [record EXCEPT !.answer = answer,
                                       !.deadline = now + Retention])
  /\ UNCHANGED <<sessions, opens>>

\* claim_admitted: the request enters a queue.
Claim(key) ==
  LET record == KeptRecords[key] IN
  /\ ~closed
  /\ LiveSessions[key[1]] # Absent
  /\ record # Absent /\ Usable(record)
  /\ Expire
  /\ records' = [KeptRecords EXCEPT ![key].queued = TRUE]
  /\ UNCHANGED <<now, nextId, closed, told>> /\ UNCHANGED history

\* defer_resource_response: RECEIVED now, the result of storage later.
Defer(key) ==
  LET record == KeptRecords[key]
      deadline == record.received + ChunkTimeout[record.digest] IN
  /\ ~closed
  /\ LiveSessions[key[1]] # Absent
  /\ record # Absent /\ record.digest \in Chunks
  /\ record.queued /\ Answerable(record)
  /\ Cardinality(Pending(KeptRecords)) < PendingCap
  /\ now < deadline
  /\ Expire
  /\ Keep(KeptRecords, key, [record EXCEPT !.answer = "received",
                                           !.pendingUntil = deadline])

\* The result is awaited, and a good one comes before the deadline.
Timely(record, answer) ==
  /\ record.pendingUntil # 0
  /\ answer = "committed" => now < record.pendingUntil

\* finish_resource_response: the ResourceAck is added to the feedback.
Finish(key, answer) ==
  LET record == KeptRecords[key] IN
  /\ ~closed
  /\ LiveSessions[key[1]] # Absent
  /\ record # Absent
  /\ Timely(record, answer)
  /\ Expire
  /\ Keep(KeptRecords, key, [record EXCEPT !.answer = answer,
                                           !.pendingUntil = 0,
                                           !.deadline = now + Retention])

-----------------------------------------------------------------------------
\* revoke: the session ends; its records stay for retries of the others.
Revoke(s) ==
  /\ ~closed
  /\ sessions[s] # Absent
  /\ sessions' = [sessions EXCEPT ![s] = Absent]
  /\ UNCHANGED <<now, opens, records, nextId, closed, told>>
  /\ UNCHANGED history

\* close, once; every later call is refused.
Close ==
  /\ ~closed
  /\ closed' = TRUE
  /\ sessions' = [s \in Ids |-> Absent]
  /\ opens' = [o \in Grants \X Nonces |-> Absent]
  /\ records' = [k \in Keys |-> Absent]
  /\ UNCHANGED <<now, nextId, told>> /\ UNCHANGED history

RefuseClosed == closed /\ UNCHANGED vars

\* Time between two calls.
Tick ==
  /\ now < MaxNow
  /\ now' = now + 1
  /\ UNCHANGED <<sessions, opens, records, nextId, closed, told>>
  /\ UNCHANGED history

Feedback(key) ==
  \/ \E a \in {"received", "failed"} : RecordResponse(key, a)
  \/ RecordApplied(key)
  \/ \E a \in {"applied", "failed"} : RecordLifecycle(key, a)
  \/ Defer(key)
  \/ \E a \in {"committed", "rejected"} : Finish(key, a)

Request(g) ==
  \/ \E n \in Nonces, c \in Openings : OpenAgain(g, n, c) \/ Open(g, n, c)
  \/ \E k \in Keys, c \in Contents \ Openings : AcceptAgain(g, k, c) \/ Accept(g, k, c)

Next ==
  \/ \E g \in Grants : Request(g)
  \/ \E k \in Keys : Feedback(k)
  \/ \E k \in Keys : Claim(k)
  \/ Refuse
  \/ \E s \in Ids : Revoke(s)
  \/ Close
  \/ RefuseClosed
  \/ Tick

Spec == Init /\ [][Next]_vars

-----------------------------------------------------------------------------
(* Properties.                                                             *)

\* A request is handed out as fresh at most once, whatever is evicted,
\* expired, revoked or opened again in between: its business is done once.
AdmittedOnce == \A k \in Keys : admissions[k] <= 1

\* One nonce names one live session of a grant, also when the opening that
\* named it has left the retry table.
NonceNamesOne ==
  \A s, t \in Held(sessions) :
    sessions[s].grant = sessions[t].grant /\ sessions[s].nonce = sessions[t].nonce
      => s = t

\* What a retry was told stands: the feedback kept for that very request is
\* still the one replayed, or that one with the result of storage added.
ToldStands ==
  told # Absent =>
    \/ answered[told.key] = told.answer
    \/ told.answer = "received" /\ answered[told.key] \in {"committed", "rejected"}

\* What a sender may have been told is never contradicted: feedback is only
\* added to a request that has none, or a storage result to a deferred chunk.
AnswersStand ==
  [][\A k \in Keys :
       answered[k] # answered'[k] =>
         \/ answered[k] = "none"
         \/ /\ answered[k] = "received" /\ records[k].pendingUntil # 0
            /\ answered'[k] \in {"committed", "rejected"}]_vars

\* Feedback that storage still owes is not evicted: until its deadline the
\* record stays, unless the registry is closed.
PendingStays ==
  [][\A k \in Pending(records) :
       now < records[k].pendingUntil => records'[k] # Absent \/ closed']_vars

\* A lease that has run out is not revived: neither a heartbeat nor any other
\* request is admitted to a session at or after its deadline.
LapsedStaysLapsed ==
  [][\A s \in Held(sessions) :
       now >= sessions[s].deadline =>
         /\ sessions'[s] \in {sessions[s], Absent}
         /\ \A q \in 1..LastSeq : admissions'[<<s, q>>] = admissions[<<s, q>>]]_vars

\* The tables keep to their bounds, whichever of them an opening fills.
Bounded ==
  /\ Cardinality(Held(sessions)) <= MaxSessions
  /\ Cardinality(Held(records)) <= CacheSize
  /\ Cardinality(Held(opens)) <= CacheSize
  /\ Cardinality(Pending(records)) <= PendingCap

\* The tables agree with each other, whatever was evicted, expired or retried: a
\* nonce names one session, what a retry was told is what is on record, and no
\* table is beyond its bound.
RegistrySound == TypeOK /\ NonceNamesOne /\ ToldStands /\ Bounded

\* Feedback is never contradicted, and what storage still owes a sender is not
\* given up to make room.
FeedbackStands == AnswersStand /\ PendingStays
=============================================================================
