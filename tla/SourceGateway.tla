----------------------------- MODULE SourceGateway -----------------------------
(***************************************************************************)
(* A source and the UDP gateway that serves it: SourceDispatcher's requests *)
(* reach icd_gateway/receiver.py, whose registry is SessionRegistry, whose   *)
(* status service answers heartbeats and whose configuration service        *)
(* applies inputs.  One grant, one nonce, one session.                      *)
(*                                                                         *)
(* receive is one call at a time.  It reads the clock again after the       *)
(* backends it calls, so a request is busy between its admission, its        *)
(* effect and its feedback while time passes and the source goes on.  The   *)
(* clock of both is the host's monotonic one.                               *)
(*                                                                         *)
(* The feedback the registry keeps for an opening is the grant and for a    *)
(* heartbeat the status: both are its "received".                          *)
(***************************************************************************)
EXTENDS SourceDispatcher

CONSTANTS
  Grant, Nonce,   \* the source's grant, the nonce of its opening
  Retention,      \* duplicate_retention_ms
  CacheSize,      \* duplicate_cache_messages
  LastTx          \* last feedback number, 0xffffffff

ASSUME GatewayAssumption ==
  /\ Retention \in Nat \ {0} /\ CacheSize \in Nat \ {0} /\ LastTx \in Nat
  /\ \A c \in Stimuli : Validity[c] <= Retention

VARIABLES
  sessions, opens, records, nextId, closed, told, arrivals, admissions, answered,
  lastTx,    \* last_tx of the session
  busy,      \* the request receive is working on
  applied    \* history: how often the backend took each input

R == INSTANCE SessionRegistry WITH
       Grants <- {Grant}, Nonces <- {Nonce}, Commands <- {}, Chunks <- {},
       ChunkTimeout <- <<>>, MaxSessions <- 1, PendingCap <- 0, LastId <- 1

registryVars == <<sessions, opens, records, nextId, closed, told, arrivals,
                  admissions, answered>>
gatewayVars == <<lastTx, busy, applied>>
vars == <<now, requests, feedback, sourceVars, registryVars, gatewayVars>>

Idle == busy = Absent
AtOpening == busy = [seq |-> 1, effected |-> FALSE]
AtService == ~Idle /\ ~AtOpening
Key(seq) == <<1, seq>>

\* No entry of a table and no request at work is taken for a missing one.
ASSUME MissingAssumption ==
  R!AbsentAssumption /\ Absent \notin [seq : Seqs, effected : BOOLEAN]

\* The state of the source, of the registry and of the receiver has its types.
TypeOK ==
  /\ SourceTypeOK
  /\ R!TypeOK
  /\ lastTx \in 0..LastTx
  /\ busy \in [seq : Seqs, effected : BOOLEAN] \cup {Absent}
  /\ applied \in [Seqs -> Nat]

Init ==
  /\ SourceInit
  /\ R!Init
  /\ lastTx = 0 /\ busy = Absent
  /\ applied = [s \in Seqs |-> 0]

-----------------------------------------------------------------------------
(* The source, while the receiver is where it is.                          *)

Source == SourceStep /\ UNCHANGED registryVars /\ UNCHANGED gatewayVars

Fair == PollStep /\ UNCHANGED registryVars /\ UNCHANGED gatewayVars

-----------------------------------------------------------------------------
(* receive: a datagram group is complete.                                  *)

\* Replies of these stages leave with the next numbers.
Sends(seq, stages) ==
  LET n == Cardinality(DOMAIN stages) IN
  /\ lastTx + n <= LastTx
  /\ lastTx' = lastTx + n
  /\ feedback' = feedback \cup
       {[number |-> lastTx + i, seq |-> seq, stage |-> stages[i]] : i \in DOMAIN stages}

\* The receiver alone has moved.
ReceiverOnly == UNCHANGED sourceVars /\ UNCHANGED requests

\* An opening that is given its session.
AcceptOpening(q) ==
  /\ Idle
  /\ q.content \in Openings
  /\ R!Open(Grant, Nonce, q.content)
  /\ busy' = [seq |-> 1, effected |-> FALSE]
  /\ ReceiverOnly /\ UNCHANGED <<feedback, lastTx, applied>>

\* _opened, in the same call.
AnswerOpening ==
  /\ AtOpening
  /\ R!RecordResponse(Key(1), "received")
  /\ Sends(1, <<"opened">>)
  /\ busy' = Absent
  /\ ReceiverOnly /\ UNCHANGED applied

\* A request that is handed to its service.
Admit(q) ==
  /\ Idle
  /\ q.content \notin Openings
  /\ R!Accept(Grant, Key(q.seq), q.content)
  /\ busy' = [seq |-> q.seq, effected |-> FALSE]
  /\ ReceiverOnly /\ UNCHANGED <<feedback, lastTx, applied>>

\* A request of the live session that accept refuses: too old to be fresh and
\* no longer remembered, not answered, or without room.  It is told so.
RefuseRequest(q) ==
  LET record == R!KeptRecords[Key(q.seq)] IN
  /\ Idle
  /\ q.content \notin Openings
  /\ R!Authorized(Grant, 1)
  /\ record # Absent => record.answer = "none"
  /\ record = Absent => ~R!IsFresh(Key(q.seq)) \/ ~R!Room(R!KeptRecords)
  /\ R!Refuse
  /\ Sends(q.seq, <<"refused">>)
  /\ ReceiverOnly /\ UNCHANGED <<busy, applied>>

\* tick, a datagram that is dropped, and a retry that is answered with the
\* replies the request had before: those are in feedback and may arrive again
\* as they are, so that what is left of each is that the expired is forgotten.
Maintain ==
  /\ Idle
  /\ R!Refuse
  /\ ReceiverOnly /\ UNCHANGED feedback /\ UNCHANGED gatewayVars

-----------------------------------------------------------------------------
(* The services, each at the time it reads next.                           *)

Content == records[Key(busy.seq)].digest

\* observe_admitted: the session lives and the request is remembered.
Observed ==
  /\ R!LiveSessions[1] # Absent
  /\ R!KeptRecords[Key(busy.seq)] # Absent

\* StatusService.respond.
AnswerHeartbeat ==
  /\ AtService
  /\ Observed /\ Content \in Heartbeats
  /\ R!RecordResponse(Key(busy.seq), "received")
  /\ Sends(busy.seq, <<"status">>)
  /\ busy' = Absent
  /\ ReceiverOnly /\ UNCHANGED applied

\* _admitted: it is also within its validity.
InForce ==
  /\ Observed
  /\ now < records[Key(busy.seq)].received + Validity[Content]

\* ConfigurationService.respond up to the end of apply_configuration.
ApplyInput ==
  /\ AtService /\ ~busy.effected
  /\ InForce /\ Content \in Inputs
  /\ lastTx + 2 <= LastTx
  /\ applied' = [applied EXCEPT ![busy.seq] = @ + 1]
  /\ busy' = [busy EXCEPT !.effected = TRUE]
  /\ ReceiverOnly /\ UNCHANGED <<now, feedback, lastTx>> /\ UNCHANGED registryVars

\* Fault: the input is acknowledged although the backend has not taken it.
CompletableEarly == InForce

\* The readback proves the effect.
Completable == busy.effected /\ InForce

CompleteInput ==
  /\ AtService
  /\ Completable
  /\ R!RecordApplied(Key(busy.seq))
  /\ Sends(busy.seq, <<"received", "applied">>)
  /\ busy' = Absent
  /\ ReceiverOnly /\ UNCHANGED applied

\* The service raises, before the effect or after it.
FailRequest ==
  /\ AtService
  /\ Observed
  /\ R!RecordResponse(Key(busy.seq), "failed")
  /\ Sends(busy.seq, <<"received", "failed">>)
  /\ busy' = Absent
  /\ ReceiverOnly /\ UNCHANGED applied

\* The session has lapsed meanwhile, or its numbers are used up: nothing is
\* recorded or sent.
Escape ==
  /\ AtService
  /\ ~Observed \/ lastTx + 2 > LastTx
  /\ busy' = Absent
  /\ ReceiverOnly /\ UNCHANGED <<now, feedback, lastTx, applied>>
  /\ UNCHANGED registryVars

\* An opening is answered at the time of its admission.
Time ==
  /\ ~AtOpening
  /\ Tick
  /\ UNCHANGED registryVars /\ UNCHANGED gatewayVars

Next ==
  \/ Source
  \/ \E q \in requests :
       AcceptOpening(q) \/ Admit(q) \/ RefuseRequest(q)
  \/ AnswerOpening \/ AnswerHeartbeat
  \/ ApplyInput \/ CompleteInput \/ FailRequest \/ Escape
  \/ Maintain
  \/ Time

Spec == Init /\ [][Next]_vars
FairSpec == Spec /\ WF_vars(Fair) /\ WF_vars(Time)

-----------------------------------------------------------------------------
(* Properties.                                                             *)

\* COMPLETE is the truth: an input whose request the source counts as complete
\* was taken by the backend, whatever was lost, repeated or late.
CompleteIsApplied ==
  \A q \in requests :
    q.content \in Inputs /\ ended[q.seq] = "complete" => applied[q.seq] = 1

\* Retries and late copies of a request do not repeat its business.
AppliedOnce == \A s \in Seqs : applied[s] <= 1

\* A request the source was told is refused as stale was not applied: while
\* the source still believes an answer, the receiver remembers the request.
RefusedIsNotApplied == \A s \in Seqs : ended[s] = "refused" => applied[s] = 0

\* While the source counts itself live, so does the receiver: both count the
\* lease on their own, and the source from before its request left.
LeaseConservative ==
  source.state = "LIVE" /\ ~LeaseOver => sessions[1] # Absent /\ now < sessions[1].deadline

\* The records reserved for a request at its submission suffice for every
\* packet it may still send, every reply it may still take, and its end.
ReservationSuffices ==
  \A s \in Flying :
    LET p == pending[s] IN
    p.reserved >= 1 + Packets[p.content] * (Attempts[p.content] - p.attempt)
                    + (IF p.attempt = 0 THEN 0 ELSE Packets[p.content] - p.index)
                    + (FeedbackCap - p.replies)

\* Requests are first sent in the order of their sequences, which is the only
\* order the receiver takes them in, however their retries interleave.
FirstSendsInOrder ==
  \A s, t \in Flying : s < t /\ pending[t].sentOnce => pending[s].sentOnce

\* Every request of a source that is polled ends, also with all its datagrams
\* lost: whenever submission pauses, as it does here for good, none is left.
EveryRequestEnds == []<>(Flying = {})

\* What a source counts is the truth at the receiver: complete means applied,
\* refused means not applied, and nothing is applied twice, over a network that
\* loses, delays, reorders and repeats.
OutcomesAreTrue == CompleteIsApplied /\ RefusedIsNotApplied /\ AppliedOnce

\* The source never trusts its lease longer than the receiver does, has a record
\* for everything that may still happen, and sends in the order the receiver asks.
SourceSound ==
  TypeOK /\ LeaseConservative /\ ReservationSuffices /\ FirstSendsInOrder
=============================================================================
