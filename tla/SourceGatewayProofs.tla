-------------------------- MODULE SourceGatewayProofs --------------------------
(***************************************************************************)
(* What holds between a source and the gateway that serves it, whatever the *)
(* network loses, delays, reorders and repeats, for all contents, leases,   *)
(* time-outs, validities, numbers of attempts and packets, and bounds.      *)
(* The registry in it is SessionRegistry with one grant, one nonce and one  *)
(* session: its own invariant is taken from SessionRegistryProofs.          *)
(***************************************************************************)
EXTENDS SourceGateway, FiniteSetTheorems, TLAPS

RP == INSTANCE SessionRegistryProofs WITH
        Grants <- {Grant}, Nonces <- {Nonce}, Commands <- {}, Chunks <- {},
        ChunkTimeout <- <<>>, MaxSessions <- 1, PendingCap <- 0, LastId <- 1

-----------------------------------------------------------------------------
(* The source.  Sequences are given out in order, a request in flight has    *)
(* no end yet, and what was sent under its sequence is its content.         *)

RequestInv ==
  /\ source.opened <= now
  /\ \A q \in requests :
       /\ q.seq < source.next
       /\ q.seq = 1 <=> q.content \in Openings
       /\ q.seq = 1 => source.state # "NEW"
       /\ pending[q.seq] # Absent =>
            pending[q.seq].sentOnce /\ q.content = pending[q.seq].content
  /\ \A q, r \in requests : q.seq = r.seq /\ q.seq # 1 => q = r
  /\ \A s \in Seqs :
       /\ pending[s] # Absent => s # 1 /\ s < source.next /\ ended[s] = "none"
       /\ ended[s] # "none" => s < source.next

\* A request in flight: its attempts and packets are counted, and it has an
\* acknowledgement to wait for whenever it has been sent to its last packet.
Counted(p) ==
  /\ p.attempt <= Attempts[p.content] /\ p.index <= Packets[p.content]
  /\ p.replies < FeedbackCap
  /\ p.attempt = 0 <=> p.index = 0
  /\ p.attempt = 0 <=> p.started = Absent
  /\ p.deadline = Absent => p.index < Packets[p.content]
  /\ p.deadline # Absent => p.index = Packets[p.content] /\ p.attempt # 0
  /\ p.sentOnce => p.attempt # 0
  /\ p.started # Absent => p.started <= now

FlightInv == (\A s \in Flying : Counted(pending[s])) /\ ReservationSuffices /\ FirstSendsInOrder

-----------------------------------------------------------------------------
(* The receiver.  Whatever it has admitted was requested, and the request it *)
(* works on is on record, without an answer.                                *)

At(s) == busy # Absent /\ busy.seq = s

AdmittedInv ==
  /\ ~closed
  /\ \A s \in Seqs : admissions[Key(s)] # 0 => \E q \in requests : q.seq = s
  /\ \A s \in Seqs : records[Key(s)] # Absent =>
       [seq |-> s, content |-> records[Key(s)].digest] \in requests
  /\ busy # Absent =>
       /\ records[Key(busy.seq)] # Absent /\ records[Key(busy.seq)].answer = "none"
       /\ busy.effected => busy.seq # 1 /\ lastTx + 2 <= LastTx
  /\ \A s \in Seqs :
       /\ At(s) /\ busy.effected => applied[s] = 1
       /\ At(s) /\ ~busy.effected => applied[s] = 0
       /\ applied[s] <= 1
       /\ applied[s] # 0 => admissions[Key(s)] # 0

-----------------------------------------------------------------------------
(* The lease.  The receiver's session lasts at least to the time d, or that  *)
(* time is past.                                                           *)

Backed(d) == now >= d \/ (sessions[1] # Absent /\ sessions[1].deadline >= d)

LeaseInv ==
  /\ source.state = "LIVE" => Backed(source.deadline)
  /\ nextId # 1 => source.state # "NEW" /\ Backed(source.opened + Lease)
  /\ sessions[1] # Absent => sessions[1].deadline <= now + Lease
  /\ \A s \in Flying :
       records[Key(s)] # Absent /\ pending[s].content \in Heartbeats
         => Backed(pending[s].started + Lease)

-----------------------------------------------------------------------------
(* Replies tell the truth.                                                 *)

TrueReply(r) ==
  /\ r.stage = "opened" => r.seq = 1 /\ nextId # 1
  /\ r.stage = "status" =>
       /\ \E q \in requests : q.seq = r.seq /\ q.content \in Heartbeats
       /\ pending[r.seq] # Absent => Backed(pending[r.seq].started + Lease)
  /\ r.stage = "applied" => applied[r.seq] = 1
  /\ \E q \in requests : q.seq = r.seq

ReplyInv == (\A r \in feedback : TrueReply(r)) /\ CompleteIsApplied

-----------------------------------------------------------------------------
(* Refusals.  As long as nothing is evicted from the duplicate cache, what   *)
(* is forgotten of a request is so old that the source takes no reply to it. *)

\* The validity of a request in flight is over.
Overdue(s) == pending[s] # Absent => now >= pending[s].started + Validity[pending[s].content]

\* It is not being applied, and it is not admitted any more.
NeverApplied(s) ==
  /\ applied[s] = 0 /\ ~At(s)
  /\ \/ admissions[Key(s)] # 0
     \/ nextId # 1 /\ (sessions[1] # Absent => sessions[1].lastRx >= s)

\* What is left of the work on a request that was given up after its effect:
\* its session or its record is not found any more.
GivenUp(s) ==
  \/ sessions[1] = Absent \/ now >= sessions[1].deadline
  \/ now >= R!KeptUntil(records[Key(s)])

MemoryInv ==
  /\ \A s \in Seqs :
       records[Key(s)] # Absent =>
         /\ records[Key(s)].received <= now
         /\ records[Key(s)].deadline >= records[Key(s)].received + Retention
         /\ pending[s] # Absent => pending[s].started <= records[Key(s)].received
         /\ records[Key(s)].answer = "none" /\ applied[s] # 0 /\ ~At(s) => GivenUp(s)
  /\ \A s \in Seqs : admissions[Key(s)] # 0 /\ records[Key(s)] = Absent => Overdue(s)

RefusalInv ==
  /\ \A r \in feedback : r.stage = "refused" => NeverApplied(r.seq) \/ Overdue(r.seq)
  /\ \A s \in Seqs : ended[s] = "refused" => NeverApplied(s)

-----------------------------------------------------------------------------
(* The registry of this source.                                            *)

LEMMA RegistryAssumed == RP!RegistryAssumption /\ RP!AbsentAssumption
<1>1. <<>> \in [{} -> Nat \ {0}]
  OBVIOUS
<1>2. RP!RegistryAssumption
  BY SourceAssumption, GatewayAssumption, <1>1 DEF RP!RegistryAssumption
<1>3. RP!AbsentAssumption
  BY MissingAssumption
     DEF R!AbsentAssumption, RP!AbsentAssumption, R!Session, RP!Session, R!Opening, RP!Opening,
         R!Record, RP!Record, R!Replay, RP!Replay, R!Contents, RP!Contents, R!Keys, RP!Keys,
         R!Ids, RP!Ids, R!Answers, RP!Answers
<1> QED
  BY <1>2, <1>3

\* The two names of the registry are one.
LEMMA SameTables ==
  /\ R!LiveSessions = RP!LiveSessions /\ R!KeptRecords = RP!KeptRecords
  /\ R!KeptOpens = RP!KeptOpens /\ R!Ids = RP!Ids /\ R!Keys = RP!Keys
  /\ R!Session = RP!Session /\ R!Record = RP!Record /\ R!Contents = RP!Contents
  /\ \A r : R!KeptUntil(r) = RP!KeptUntil(r)
BY DEF R!LiveSessions, RP!LiveSessions, R!KeptRecords, RP!KeptRecords, R!KeptOpens,
       RP!KeptOpens, R!Ids, RP!Ids, R!Keys, RP!Keys, R!KeptUntil, RP!KeptUntil,
       R!Session, RP!Session, R!Record, RP!Record, R!Contents, RP!Contents, R!Answers, RP!Answers

LEMMA SameSizes ==
  \A S : R!Cardinality(S) = Cardinality(S) /\ RP!Cardinality(S) = Cardinality(S)
<1>1. ASSUME NEW S PROVE R!Cardinality(S) = Cardinality(S)
  BY DEF R!Cardinality, Cardinality
<1>2. ASSUME NEW S PROVE RP!Cardinality(S) = Cardinality(S)
  BY DEF RP!Cardinality, Cardinality
<1> QED
  BY <1>1, <1>2

LEMMA SameRoom ==
  /\ \A t : R!Full(t) <=> RP!Full(t)
  /\ \A t : R!Room(t) <=> RP!Room(t)
  /\ \A t, k, c : R!Remembered(t, k, c) = RP!Remembered(t, k, c)
  /\ \A k : R!Admitted(k) <=> RP!Admitted(k)
  /\ \A k, e : R!OpensWith(k, e) = RP!OpensWith(k, e)
<1>1. \A t : R!Held(t) = RP!Held(t) /\ R!Pending(t) = RP!Pending(t)
  BY DEF R!Held, RP!Held, R!Pending, RP!Pending
<1>2. \A t : R!Full(t) <=> RP!Full(t)
  BY SameSizes DEF R!Full, RP!Full, R!Held, RP!Held
<1>3. \A t : R!Room(t) <=> RP!Room(t)
  BY <1>1, <1>2 DEF R!Room, RP!Room
<1>4. ASSUME NEW t PROVE R!Oldest(t) = RP!Oldest(t)
  BY DEF R!Oldest, RP!Oldest, R!Held, RP!Held, R!Pending, RP!Pending
<1>5. \A k : R!Admitted(k) <=> RP!Admitted(k)
  BY DEF R!Admitted, RP!Admitted
<1>6. ASSUME NEW t, NEW k, NEW c PROVE R!Remembered(t, k, c) = RP!Remembered(t, k, c)
  BY <1>2, <1>4, SameTables DEF R!Remembered, RP!Remembered
<1>7. ASSUME NEW k, NEW e PROVE R!OpensWith(k, e) = RP!OpensWith(k, e)
  <2> DEFINE all == [RP!KeptOpens EXCEPT ![k] = e]
  <2>1. R!Held(all) = RP!Held(all)
    BY DEF R!Held, RP!Held
  <2>2. (R!Cardinality(R!Held(all)) > CacheSize) <=> (RP!Cardinality(RP!Held(all)) > CacheSize)
    BY <2>1, SameSizes
  <2>3. (CHOOSE o \in R!Held(all) : \A p \in R!Held(all) : all[o].sid <= all[p].sid)
        = (CHOOSE o \in RP!Held(all) : \A p \in RP!Held(all) : all[o].sid <= all[p].sid)
    BY <2>1
  <2> DEFINE first == CHOOSE o \in R!Held(all) : \A p \in R!Held(all) : all[o].sid <= all[p].sid
             last == CHOOSE o \in RP!Held(all) : \A p \in RP!Held(all) : all[o].sid <= all[p].sid
  <2>4. R!OpensWith(k, e) = IF R!Cardinality(R!Held(all)) > CacheSize
                            THEN [all EXCEPT ![first] = Absent] ELSE all
    BY SameTables DEF R!OpensWith
  <2>5. RP!OpensWith(k, e) = IF RP!Cardinality(RP!Held(all)) > CacheSize
                             THEN [all EXCEPT ![last] = Absent] ELSE all
    BY DEF RP!OpensWith
  <2>6. first = last
    BY <2>3
  <2> HIDE DEF all, first, last
  <2> QED
    BY <2>2, <2>4, <2>5, <2>6
<1> QED
  BY <1>2, <1>3, <1>5, <1>6, <1>7

LEMMA SameCalls ==
  /\ \A g, n, c : R!Open(g, n, c) <=> RP!Open(g, n, c)
  /\ \A g, k, c : R!Accept(g, k, c) <=> RP!Accept(g, k, c)
  /\ R!Refuse <=> RP!Refuse
  /\ \A k, a : R!RecordResponse(k, a) <=> RP!RecordResponse(k, a)
  /\ \A k : R!RecordApplied(k) <=> RP!RecordApplied(k)
<1> USE SameTables, SameRoom
<1>0. \A t : R!Held(t) = RP!Held(t)
  BY DEF R!Held, RP!Held
<1>a. ASSUME NEW g, NEW n PROVE R!Allocatable(g, n) <=> RP!Allocatable(g, n)
  BY SameSizes DEF R!Allocatable, RP!Allocatable, R!Held, RP!Held
<1>b. \A g, s : R!Authorized(g, s) <=> RP!Authorized(g, s)
  BY DEF R!Authorized, RP!Authorized
<1>c. \A k : R!IsFresh(k) <=> RP!IsFresh(k)
  BY DEF R!IsFresh, RP!IsFresh
<1>d. \A s, c : R!RenewedLease(s, c) = RP!RenewedLease(s, c)
  BY DEF R!RenewedLease, RP!RenewedLease
<1>1. /\ \A g, n : R!Allocatable(g, n) <=> RP!Allocatable(g, n)
      /\ \A g, s : R!Authorized(g, s) <=> RP!Authorized(g, s)
      /\ \A k : R!IsFresh(k) <=> RP!IsFresh(k)
      /\ \A s, c : R!RenewedLease(s, c) = RP!RenewedLease(s, c)
  BY <1>a, <1>b, <1>c, <1>d
<1>2. /\ R!Expire <=> RP!Expire
      /\ \A t, k, r : R!Keep(t, k, r) <=> RP!Keep(t, k, r)
      /\ \A r : R!Answerable(r) <=> RP!Answerable(r)
      /\ \A r : R!Usable(r) <=> RP!Usable(r)
  BY DEF R!Expire, RP!Expire, R!Keep, RP!Keep, R!Answerable, RP!Answerable, R!Usable, RP!Usable
<1>3. \A g, n, c : R!Open(g, n, c) <=> RP!Open(g, n, c)
  BY <1>1 DEF R!Open, RP!Open
<1>4. \A g, k, c : R!Accept(g, k, c) <=> RP!Accept(g, k, c)
  BY <1>1 DEF R!Accept, RP!Accept
<1>5. R!Refuse <=> RP!Refuse
  BY <1>2 DEF R!Refuse, RP!Refuse, R!history, RP!history
<1>6. \A k, a : R!RecordResponse(k, a) <=> RP!RecordResponse(k, a)
  BY <1>2 DEF R!RecordResponse, RP!RecordResponse, R!Held, RP!Held
<1>7. \A k : R!RecordApplied(k) <=> RP!RecordApplied(k)
  BY <1>2 DEF R!RecordApplied, RP!RecordApplied
<1> QED
  BY <1>3, <1>4, <1>5, <1>6, <1>7

-----------------------------------------------------------------------------
(* What the parts leave to each other.                                     *)

LEMMA SourceKeeps == SourceStep => UNCHANGED <<now, feedback>>
<1> SUFFICES ASSUME SourceStep PROVE UNCHANGED <<now, feedback>>
  OBVIOUS
<1>1. CASE PollStep
  BY <1>1 DEF PollStep, Poll, LeaseEnds, Receive, NoHeartbeat, HeartbeatMissed, HeartbeatDue,
              Skip, GiveUp, Transmit, HeartbeatLate, PollDone, Visit
<1> QED
  BY <1>1 DEF SourceStep, OpenSession, Opened, OpenFails, Abandon, Attach, EnableHeartbeat,
              Detach, Submit, Cancel

LEMMA KeyFacts ==
  /\ 1 \in Seqs /\ Seqs \subseteq Nat /\ RP!Ids = {1}
  /\ RP!Keys = {Key(s) : s \in Seqs}
  /\ \A s \in Seqs : Key(s) \in RP!Keys
  /\ \A s, t \in Seqs : Key(s) = Key(t) => s = t
  /\ \A s : Key(s)[1] = 1 /\ Key(s)[2] = s
<1>1. 1 \in Seqs /\ Seqs \subseteq Nat /\ RP!Ids = {1}
  BY SourceAssumption DEF Seqs, RP!Ids
<1>2. RP!Keys = {1} \X Seqs
  BY <1>1 DEF RP!Keys, Seqs
<1>3. RP!Keys = {Key(s) : s \in Seqs}
  <2>1. \A k \in {1} \X Seqs : k = <<1, k[2]>> /\ k[2] \in Seqs
    OBVIOUS
  <2> QED
    BY <1>2, <2>1 DEF Key
<1>4. \A s, t \in Seqs : Key(s) = Key(t) => s = t
  BY DEF Key
<1>5. \A s : Key(s)[1] = 1 /\ Key(s)[2] = s
  BY DEF Key
<1> QED
  BY <1>1, <1>3, <1>4, <1>5

\* A step is a call of the registry, time, or nothing to it.
LEMMA RegistryMoves ==
  ASSUME requests \subseteq Request, busy # Absent => busy.seq \in Seqs, [Next]_vars
  PROVE  [RP!Next]_(RP!vars)
<1> USE SameCalls, KeyFacts
<1>1. CASE Source
  BY <1>1, SourceKeeps DEF Source, registryVars, RP!vars
<1>2. ASSUME NEW q \in requests, AcceptOpening(q) PROVE RP!Next
  BY <1>2 DEF AcceptOpening, RP!Next, RP!Request
<1>3. ASSUME NEW q \in requests, Admit(q) PROVE RP!Next
  <2>1. Key(q.seq) \in RP!Keys /\ q.content \in RP!Contents \ Openings
    BY <1>3 DEF Admit, Request, RP!Contents, Stimuli
  <2>2. RP!Accept(Grant, Key(q.seq), q.content)
    BY <1>3 DEF Admit
  <2> QED
    BY <2>1, <2>2 DEF RP!Next, RP!Request
<1>4. ASSUME NEW q \in requests, RefuseRequest(q) PROVE RP!Next
  BY <1>4 DEF RefuseRequest, RP!Next
<1>5. CASE Maintain
  BY <1>5 DEF Maintain, RP!Next
<1>6. ASSUME NEW s \in Seqs, NEW a \in {"received", "failed"}, R!RecordResponse(Key(s), a)
      PROVE  RP!Next
  <2>1. RP!RecordResponse(Key(s), a)
    BY <1>6
  <2>2. RP!Feedback(Key(s))
    BY <2>1 DEF RP!Feedback
  <2> QED
    BY <2>2 DEF RP!Next
<1>7. CASE AnswerOpening
  BY <1>6, <1>7 DEF AnswerOpening
<1>8. CASE AnswerHeartbeat \/ FailRequest
  BY <1>6, <1>8 DEF AnswerHeartbeat, FailRequest, AtService, Idle
<1>9. CASE CompleteInput
  <2>1. RP!RecordApplied(Key(busy.seq)) /\ busy.seq \in Seqs
    BY <1>9 DEF CompleteInput, AtService, Idle
  <2>2. RP!Feedback(Key(busy.seq))
    BY <2>1 DEF RP!Feedback
  <2> QED
    BY <2>1, <2>2 DEF RP!Next
<1>10. CASE ApplyInput \/ Escape
  BY <1>10 DEF ApplyInput, Escape, registryVars, RP!vars
<1>11. CASE Time
  BY <1>11 DEF Time, Tick, registryVars, RP!Next, RP!Tick, RP!history
<1>12. CASE UNCHANGED vars
  BY <1>12 DEF vars, registryVars, RP!vars
<1> QED
  BY <1>1, <1>2, <1>3, <1>4, <1>5, <1>7, <1>8, <1>9, <1>10, <1>11, <1>12 DEF Next

-----------------------------------------------------------------------------
(* The source: types.                                                      *)

LEMMA Constants ==
  /\ \A c \in Stimuli : /\ Attempts[c] \in Nat \ {0} /\ Packets[c] \in Nat \ {0}
                        /\ Validity[c] \in Nat \ {0} /\ Needed(c) - 1 \in Nat
                        /\ Needed(c) - 1 = 1 + Packets[c] * Attempts[c] + FeedbackCap
  /\ Lease \in Nat \ {0} /\ AckTimeout \in Nat \ {0} /\ FeedbackCap \in Nat \ {0}
  /\ Retention \in Nat \ {0} /\ LastSeq \in Nat \ {0} /\ LastTx \in Nat
  /\ Absent \notin InFlight /\ Absent \notin Nat
<1>1. ASSUME NEW c \in Stimuli
      PROVE  /\ Attempts[c] \in Nat \ {0} /\ Packets[c] \in Nat \ {0}
             /\ Validity[c] \in Nat \ {0}
  BY SourceAssumption
<1>2. FeedbackCap \in Nat \ {0}
  BY SourceAssumption
<1>3. ASSUME NEW c \in Stimuli
      PROVE  /\ Needed(c) - 1 \in Nat
             /\ Needed(c) - 1 = 1 + Packets[c] * Attempts[c] + FeedbackCap
  <2>1. Packets[c] * Attempts[c] \in Nat
    BY <1>1
  <2> QED
    BY <1>2, <2>1 DEF Needed
<1> QED
  BY <1>1, <1>2, <1>3, SourceAssumption, GatewayAssumption, KindsAssumption

LEMMA FlightFacts ==
  ASSUME SourceTypeOK, NEW s \in Seqs, pending[s] # Absent
  PROVE  /\ pending[s] \in InFlight /\ s \in Flying /\ pending[s].content \in Stimuli
         /\ pending[s].attempt \in Nat /\ pending[s].index \in Nat
         /\ pending[s].replies \in Nat /\ pending[s].reserved \in Nat
         /\ pending[s].sentOnce \in BOOLEAN
         /\ pending[s].started \in Nat \cup {Absent}
         /\ pending[s].deadline \in Nat \cup {Absent}
<1>1. pending[s] \in InFlight
  BY DEF SourceTypeOK
<1> QED
  BY <1>1 DEF InFlight, Flying

LEMMA FinishedType ==
  ASSUME SourceTypeOK, NEW set, NEW kind \in Ends, Finished(set, kind)
  PROVE  /\ pending' \in [Seqs -> InFlight \cup {Absent}]
         /\ ended' \in [Seqs -> Ends \cup {"none"}]
BY DEF SourceTypeOK, Finished

LEMMA StayType ==
  ASSUME SourceTypeOK, NEW s \in Seqs, NEW p \in InFlight, Stay(s, p)
  PROVE  /\ pending' \in [Seqs -> InFlight \cup {Absent}]
         /\ ended' \in [Seqs -> Ends \cup {"none"}]
BY DEF SourceTypeOK, Stay

\* The pass visits a request of it, the lowest.
LEMMA VisitedIsOne ==
  ASSUME SourceTypeOK, round # {}
  PROVE  Visited \in round /\ Visited \in Seqs
<1>1. round \subseteq Seqs /\ round \subseteq Nat
  BY KeyFacts DEF SourceTypeOK
<1> DEFINE id == [i \in round |-> i]
<1>2. \A i \in round : id[i] \in Nat /\ id[i] = i
  BY <1>1
<1>3. \E i \in round : \A j \in round : id[i] <= id[j]
  BY <1>2, RegistryAssumed, RP!LeastExists
<1>4. \E i \in round : \A j \in round : i <= j
  BY <1>2, <1>3
<1> QED
  BY <1>1, <1>4 DEF Visited

\* The records that a request in flight may still need, and that it may take
\* another reply.
LEMMA ReservedFacts ==
  ASSUME SourceTypeOK, FlightInv, NEW s \in Flying
  PROVE  LET p == pending[s] IN
         /\ p.reserved >= 1 + Packets[p.content] * (Attempts[p.content] - p.attempt)
               + (IF p.attempt = 0 THEN 0 ELSE Packets[p.content] - p.index)
               + (FeedbackCap - p.replies)
         /\ Packets[p.content] * (Attempts[p.content] - p.attempt) \in Nat
         /\ Attempts[p.content] - p.attempt \in Nat
         /\ Packets[p.content] - p.index \in Nat /\ FeedbackCap - p.replies \in Nat \ {0}
         /\ p.reserved - 1 \in Nat
<1> DEFINE p == pending[s]
           c == p.content
<1>0. s \in Seqs /\ pending[s] # Absent
  BY DEF Flying
<1>1. /\ c \in Stimuli /\ p.attempt \in Nat /\ p.index \in Nat /\ p.replies \in Nat
      /\ p.reserved \in Nat /\ Packets[c] \in Nat /\ Attempts[c] \in Nat /\ FeedbackCap \in Nat
  BY <1>0, FlightFacts, Constants
<1>2. /\ p.reserved >= 1 + Packets[c] * (Attempts[c] - p.attempt)
               + (IF p.attempt = 0 THEN 0 ELSE Packets[c] - p.index)
               + (FeedbackCap - p.replies)
      /\ p.attempt <= Attempts[c] /\ p.index <= Packets[c] /\ p.replies < FeedbackCap
  BY DEF FlightInv, ReservationSuffices, Counted
<1> DEFINE left == Attempts[c] - p.attempt
<1>3. left \in Nat /\ Packets[c] - p.index \in Nat /\ FeedbackCap - p.replies \in Nat \ {0}
  BY <1>1, <1>2
<1>4. Packets[c] * left \in Nat
  BY <1>1, <1>3
<1> DEFINE cost == Packets[c] * left
           part == IF p.attempt = 0 THEN 0 ELSE Packets[c] - p.index
<1>5. part \in Nat
  BY <1>3
<1>6. p.reserved >= 1 + cost + part + (FeedbackCap - p.replies) /\ cost \in Nat
  BY <1>2, <1>4
<1> HIDE DEF cost, part
<1>7. p.reserved - 1 \in Nat
  BY <1>1, <1>3, <1>5, <1>6
<1> QED
  BY <1>2, <1>3, <1>4, <1>7

-----------------------------------------------------------------------------
(* The source: what a step does to the requests in flight.                 *)

\* Requests in flight end, with nothing known of them.
Abandons(set) ==
  set \subseteq Flying /\ Finished(set, "open") /\ UNCHANGED requests

\* A reply in time ends its request.
Settles(r) ==
  /\ Awaited(r) /\ ~Late(pending[r.seq]) /\ Terminal(r.stage)
  /\ Finished({r.seq}, EndOf(r.stage)) /\ UNCHANGED requests

\* A reply in time is counted.
Counts(r) ==
  LET p == pending[r.seq] IN
  /\ Awaited(r) /\ p.replies + 1 < FeedbackCap
  /\ Stay(r.seq, Recorded([p EXCEPT !.replies = @ + 1], 1)) /\ UNCHANGED requests

\* A packet of a request leaves, or its request ends with it.
Sending(s) == s \in Seqs /\ Ready(s) /\ ~Exhausted(pending[s])
SentWith(s) ==
  requests' = IF PacketSent(pending[s]).sentOnce
              THEN requests \cup {[seq |-> s, content |-> pending[s].content]} ELSE requests

Sends1(s) == Sending(s) /\ Stay(s, PacketSent(pending[s])) /\ SentWith(s)
SendsLast(s) == Sending(s) /\ Finished({s}, "open") /\ SentWith(s)

Shape ==
  \/ UNCHANGED <<pending, ended, requests>> /\ source'.next = source.next
  \/ \E c \in Openings : OpenSession(c)
  \/ (\E set \in SUBSET Flying : Abandons(set)) /\ source'.next = source.next
  \/ \E r \in feedback : (Settles(r) \/ Counts(r)) /\ source'.next = source.next
  \/ (\E c \in Stimuli : Submitted(c)) /\ UNCHANGED requests
  \/ (\E s \in Seqs : Sends1(s) \/ SendsLast(s)) /\ source'.next = source.next

LEMMA ReceiveShape ==
  ASSUME SourceTypeOK, NEW r \in feedback, Receive(r)
  PROVE  Shape
<1> DEFINE s == r.seq
           p == pending[s]
<1>1. s \in Seqs /\ s \in Flying /\ Awaited(r)
  BY DEF Receive, SourceTypeOK, Reply, Awaited, Flying
<1>2. requests' = requests
  BY DEF Receive
<1>3. source'.next = source.next
  BY DEF Receive, Received, LapseOfAll, SourceTypeOK
<1>4. ASSUME NEW set \in SUBSET Flying, Finished(set, "open") PROVE Shape
  <2>1. Abandons(set)
    BY <1>2, <1>4 DEF Abandons
  <2> QED
    BY <1>3, <2>1 DEF Shape
<1>5. CASE LapseOfAll \/ Finished({s}, "open")
  BY <1>1, <1>4, <1>5 DEF LapseOfAll
<1>6. CASE ~Late(p) /\ Terminal(r.stage) /\ Finished({s}, EndOf(r.stage))
  <2>1. Settles(r)
    BY <1>1, <1>2, <1>6 DEF Settles
  <2> QED
    BY <1>3, <2>1 DEF Shape
<1>7. CASE p.replies + 1 < FeedbackCap /\ Stay(s, Recorded([p EXCEPT !.replies = @ + 1], 1))
  <2>1. Counts(r)
    BY <1>1, <1>2, <1>7 DEF Counts
  <2> QED
    BY <1>3, <2>1 DEF Shape
<1>8. Received(s, p, r.stage)
  BY DEF Receive
<1> QED
  BY <1>5, <1>6, <1>7, <1>8 DEF Received, Answered

LEMMA SourceShape ==
  ASSUME SourceTypeOK, SourceStep
  PROVE  Shape
<1>1. CASE \E c \in Openings : OpenSession(c)
  BY <1>1 DEF Shape
<1>2. CASE \E r \in feedback : Opened(r)
  BY <1>2 DEF Shape, Opened, SourceTypeOK
<1>3. CASE OpenFails \/ Abandon
  BY <1>3 DEF Shape, OpenFails, Abandon, SourceTypeOK
<1>4. CASE Attach \/ EnableHeartbeat \/ Poll \/ NoHeartbeat \/ HeartbeatMissed \/ Skip \/ PollDone
  BY <1>4 DEF Shape, Attach, EnableHeartbeat, Poll, NoHeartbeat, HeartbeatMissed, Skip, PollDone,
              Visit
<1>5. ASSUME NEW set \in SUBSET Flying, Finished(set, "open"), UNCHANGED <<requests, source>>
      PROVE  Shape
  BY <1>5 DEF Shape, Abandons
<1>6. CASE LeaseEnds \/ Detach
  BY <1>5, <1>6 DEF LeaseEnds, LapseOfAll, Detach
<1>7. ASSUME NEW s \in Seqs, Cancel(s) PROVE Shape
  BY <1>5, <1>7 DEF Cancel, Flying
<1>8. CASE GiveUp
  <2>1. Visited \in Seqs
    BY <1>8, VisitedIsOne DEF GiveUp, Visit
  <2>2. {Visited} \in SUBSET Flying
    BY <1>8, <2>1 DEF GiveUp, Ready, Flying
  <2> QED
    BY <1>5, <1>8, <2>2 DEF GiveUp, Visit
<1>9. ASSUME NEW c \in Inputs, Submit(c) PROVE Shape
  BY <1>9 DEF Submit, Shape, Stimuli
<1>10. ASSUME NEW c \in Heartbeats, HeartbeatDue(c) PROVE Shape
  BY <1>10 DEF HeartbeatDue, Shape, Stimuli
<1>11. ASSUME NEW r \in feedback, Receive(r) PROVE Shape
  BY <1>11, ReceiveShape
<1>12. CASE Transmit
  <2>1. Visited \in Seqs /\ source' = source
    BY <1>12, VisitedIsOne DEF Transmit, Visit
  <2>2. Sends1(Visited)
    BY <1>12, <2>1 DEF Transmit, Sends1, Sending, SentWith
  <2> QED
    BY <2>1, <2>2 DEF Shape
<1>13. CASE HeartbeatLate
  <2>1. Visited \in Seqs /\ source' = source /\ Finished({Visited}, "open")
    BY <1>13, VisitedIsOne DEF HeartbeatLate
  <2>2. CASE UNCHANGED requests
    BY <1>5, <1>13, <2>1, <2>2 DEF HeartbeatLate, Flying
  <2>3. CASE Ready(Visited) /\ ~Exhausted(pending[Visited]) /\ SentWith(Visited)
    <3>1. SendsLast(Visited)
      BY <2>1, <2>3 DEF SendsLast, Sending
    <3> QED
      BY <2>1, <3>1 DEF Shape
  <2> QED
    BY <1>13, <2>2, <2>3 DEF HeartbeatLate, SentWith
<1> QED
  BY <1>1, <1>2, <1>3, <1>4, <1>6, <1>7, <1>8, <1>9, <1>10, <1>11, <1>12, <1>13
     DEF SourceStep, PollStep

\* What a step does to the grant.
GrantMoves ==
  \/ source.state = "NEW" /\ source'.state = "OPENING" /\ source'.opened = now
  \/ /\ source'.opened = source.opened
     /\ source'.state = "NEW" <=> source.state = "NEW"
     /\ source'.state = "LIVE" =>
          \/ source.state = "LIVE" /\ source'.deadline = source.deadline
          \/ \E r \in feedback : r.stage = "opened" /\ source'.deadline = source.opened + Lease
          \/ \E r \in feedback : /\ Awaited(r) /\ r.stage = "status"
                                 /\ source'.deadline = pending[r.seq].started + Lease

SourceRecord == [state : {"NEW", "OPENING", "LIVE", "FAILED", "ABANDONED"},
                 deadline : Nat, opened : Nat, next : 2..(LastSeq + 1)]

LEMMA GrantStep ==
  ASSUME SourceTypeOK, FlightInv, SourceStep
  PROVE  source' \in SourceRecord /\ GrantMoves
<1>0. source \in SourceRecord /\ now \in Nat /\ Lease \in Nat
  BY Constants DEF SourceTypeOK, SourceRecord
<1>1. ASSUME UNCHANGED source PROVE source' \in SourceRecord /\ GrantMoves
  BY <1>0, <1>1 DEF GrantMoves
<1>2. ASSUME NEW c \in Openings, OpenSession(c) PROVE source' \in SourceRecord /\ GrantMoves
  BY <1>0, <1>2 DEF OpenSession, GrantMoves, SourceRecord
<1>3. ASSUME NEW r \in feedback, Opened(r) PROVE source' \in SourceRecord /\ GrantMoves
  <2>1. source' = [source EXCEPT !.state = "LIVE", !.deadline = source.opened + Lease]
        /\ r.stage = "opened" /\ source.state = "OPENING"
    BY <1>3 DEF Opened, LeaseFromOpening
  <2>2. source.opened + Lease \in Nat
    BY <1>0 DEF SourceRecord
  <2>3. /\ source'.opened = source.opened /\ source'.state = "LIVE"
        /\ source'.deadline = source.opened + Lease
    BY <1>0, <2>1 DEF SourceRecord
  <2> QED
    BY <1>0, <2>1, <2>2, <2>3 DEF GrantMoves, SourceRecord
<1>4. CASE OpenFails \/ Abandon
  <2>1. /\ source'.opened = source.opened /\ source'.state # "NEW" /\ source'.state # "LIVE"
        /\ source.state # "NEW"
    <3>1. CASE OpenFails
      BY <1>0, <3>1 DEF OpenFails, SourceRecord
    <3>2. CASE Abandon
      BY <1>0, <3>2 DEF Abandon, SourceRecord
    <3> QED
      BY <1>4, <3>1, <3>2
  <2>2. source' \in SourceRecord
    <3>1. CASE OpenFails
      BY <1>0, <3>1 DEF OpenFails, SourceRecord
    <3>2. CASE Abandon
      BY <1>0, <3>2 DEF Abandon, SourceRecord
    <3> QED
      BY <1>4, <3>1, <3>2
  <2> QED
    BY <2>1, <2>2 DEF GrantMoves
<1>5. ASSUME NEW c \in Stimuli, Submitted(c) PROVE source' \in SourceRecord /\ GrantMoves
  <2>1. LastSeq \in Nat /\ source.next \in Nat /\ source.next <= LastSeq /\ source.next >= 2
    BY <1>0, <1>5, Constants DEF Submitted, Submittable, SourceRecord
  <2>2. source' = [source EXCEPT !.next = @ + 1] /\ source.next + 1 \in 2..(LastSeq + 1)
    BY <1>5, <2>1 DEF Submitted
  <2> QED
    BY <1>0, <2>2 DEF GrantMoves, SourceRecord
<1>6. ASSUME NEW r \in feedback, Receive(r) PROVE source' \in SourceRecord /\ GrantMoves
  <2> DEFINE p == pending[r.seq]
  <2>1. Received(r.seq, p, r.stage) /\ Awaited(r)
    BY <1>6 DEF Receive
  <2>2. CASE UNCHANGED source
    BY <1>1, <2>2
  <2>3. CASE source' = [source EXCEPT !.deadline = Renewed(p, r.stage)]
    <3>1. r.seq \in Flying /\ p.sentOnce /\ r.seq \in Seqs /\ pending[r.seq] # Absent
      BY <2>1 DEF Awaited, Flying, SourceTypeOK, Reply
    <3>2. p.started \in Nat
      BY <3>1, FlightFacts DEF FlightInv, Counted
    <3>3. Renewed(p, r.stage) \in Nat
      BY <1>0, <3>2 DEF Renewed, SourceRecord
    <3>4. \/ Renewed(p, r.stage) = source.deadline
          \/ r.stage = "status" /\ Renewed(p, r.stage) = p.started + Lease
      BY Zenon DEF Renewed
    <3> QED
      BY <1>0, <2>1, <2>3, <3>3, <3>4 DEF GrantMoves, SourceRecord
  <2> QED
    BY <2>1, <2>2, <2>3 DEF Received
<1>7. CASE PollStep
  <2>1. \/ \E r \in feedback : Receive(r)
        \/ \E c \in Heartbeats : HeartbeatDue(c)
        \/ UNCHANGED source
    BY <1>7 DEF PollStep, Poll, LeaseEnds, NoHeartbeat, HeartbeatMissed, Skip, GiveUp,
                Transmit, HeartbeatLate, PollDone, Visit
  <2> QED
    BY <1>1, <1>5, <1>6, <2>1 DEF HeartbeatDue, Stimuli
<1>8. CASE Attach \/ EnableHeartbeat \/ Detach \/ \E s \in Seqs : Cancel(s)
  BY <1>1, <1>8 DEF Attach, EnableHeartbeat, Detach, Cancel
<1>9. CASE \E c \in Inputs : Submit(c)
  BY <1>5, <1>9 DEF Submit, Stimuli
<1> QED
  BY <1>2, <1>3, <1>4, <1>7, <1>8, <1>9 DEF SourceStep

\* Packets and replies keep a request in flight what it is.
LEMMA PacketFacts ==
  ASSUME SourceTypeOK, FlightInv, NEW s \in Seqs, Sending(s)
  PROVE  LET p == pending[s] IN
         /\ pending[s] # Absent
         /\ PacketSent(p) \in InFlight /\ PacketSent(p).content = p.content
         /\ PacketSent(p).started \in Nat /\ PacketSent(p).started <= now
         /\ p.started # Absent => PacketSent(p).started = p.started
         /\ p.sentOnce => PacketSent(p).sentOnce
         /\ PacketSent(p).replies = p.replies
         /\ PacketSent(p).reserved = p.reserved - 1
         /\ \/ /\ PacketSent(p).attempt = p.attempt + 1 /\ PacketSent(p).index = 1
               /\ p.attempt < Attempts[p.content]
               /\ p.attempt = 0 \/ p.index = Packets[p.content]
            \/ /\ PacketSent(p).attempt = p.attempt /\ PacketSent(p).index = p.index + 1
               /\ p.index < Packets[p.content] /\ p.attempt # 0
         /\ PacketSent(p).deadline = Absent => PacketSent(p).index # Packets[p.content]
         /\ PacketSent(p).deadline # Absent => PacketSent(p).index = Packets[p.content]
<1> DEFINE p == pending[s]
           q == PacketSent(p)
           index == IF p.deadline # Absent THEN 0 ELSE p.index
           whole == index + 1 = Packets[p.content]
<1>1. /\ pending[s] # Absent /\ p \in InFlight /\ s \in Flying /\ p.content \in Stimuli
      /\ p.attempt \in Nat /\ p.index \in Nat /\ p.reserved \in Nat /\ p.sentOnce \in BOOLEAN
      /\ p.started \in Nat \cup {Absent} /\ p.deadline \in Nat \cup {Absent} /\ now \in Nat
  BY FlightFacts DEF Sending, Ready, SourceTypeOK
<1>2. Counted(p) /\ p.reserved - 1 \in Nat
  BY <1>1, ReservedFacts DEF FlightInv
<1>3. /\ Attempts[p.content] \in Nat \ {0} /\ Packets[p.content] \in Nat \ {0}
      /\ AckTimeout \in Nat /\ Absent \notin Nat
  BY <1>1, Constants
<1>4. index \in Nat /\ now + AckTimeout \in Nat
  BY <1>1, <1>3
<1>5. q = [p EXCEPT !.attempt = IF index = 0 THEN p.attempt + 1 ELSE p.attempt,
                    !.index = index + 1,
                    !.started = IF p.started = Absent THEN now ELSE p.started,
                    !.deadline = IF whole THEN now + AckTimeout ELSE Absent,
                    !.sentOnce = p.sentOnce \/ whole,
                    !.reserved = p.reserved - 1]
  BY DEF PacketSent
<1>6. /\ q.content = p.content /\ q.replies = p.replies
      /\ q.attempt = IF index = 0 THEN p.attempt + 1 ELSE p.attempt
      /\ q.index = index + 1
      /\ q.started = IF p.started = Absent THEN now ELSE p.started
      /\ q.deadline = IF whole THEN now + AckTimeout ELSE Absent
      /\ q.sentOnce = (p.sentOnce \/ whole)
      /\ q.reserved = p.reserved - 1
  BY <1>1, <1>5 DEF InFlight
<1>7. q \in InFlight
  <2>1. /\ (IF index = 0 THEN p.attempt + 1 ELSE p.attempt) \in Nat /\ index + 1 \in Nat
        /\ (IF p.started = Absent THEN now ELSE p.started) \in Nat \cup {Absent}
        /\ (IF whole THEN now + AckTimeout ELSE Absent) \in Nat \cup {Absent}
        /\ (p.sentOnce \/ whole) \in BOOLEAN
    BY <1>1, <1>4
  <2> HIDE DEF index, whole, q, p
  <2> QED
    BY <1>1, <1>2, <1>5, <2>1 DEF InFlight
<1>8. q.started \in Nat /\ q.started <= now /\ (p.started # Absent => q.started = p.started)
  BY <1>1, <1>2, <1>6 DEF Counted
<1>9. p.deadline # Absent => p.attempt < Attempts[p.content]
  BY <1>1, <1>3 DEF Sending, Exhausted
<1>10. \/ /\ q.attempt = p.attempt + 1 /\ q.index = 1
          /\ p.attempt < Attempts[p.content]
          /\ p.attempt = 0 \/ p.index = Packets[p.content]
       \/ /\ q.attempt = p.attempt /\ q.index = p.index + 1
          /\ p.index < Packets[p.content] /\ p.attempt # 0
  BY <1>1, <1>2, <1>3, <1>6, <1>9 DEF Counted
<1>11. /\ q.deadline = Absent => q.index # Packets[p.content]
       /\ q.deadline # Absent => q.index = Packets[p.content]
  BY <1>3, <1>4, <1>6
<1>12. p.sentOnce => q.sentOnce
  BY <1>6
<1> HIDE DEF p, q
<1> QED
  BY <1>1, <1>6, <1>7, <1>8, <1>10, <1>11, <1>12 DEF p, q

\* The tables of requests keep their types, and requests what they are.
LEMMA ShapeType ==
  ASSUME SourceTypeOK, FlightInv, Shape
  PROVE  /\ pending' \in [Seqs -> InFlight \cup {Absent}]
         /\ ended' \in [Seqs -> Ends \cup {"none"}]
         /\ requests' \subseteq Request
<1>0. /\ pending \in [Seqs -> InFlight \cup {Absent}]
      /\ ended \in [Seqs -> Ends \cup {"none"}] /\ requests \subseteq Request
  BY DEF SourceTypeOK
<1>1. CASE UNCHANGED <<pending, ended, requests>>
  BY <1>0, <1>1
<1>2. ASSUME NEW c \in Openings, OpenSession(c) PROVE requests' \subseteq Request
  BY <1>0, <1>2, KeyFacts DEF OpenSession, Request
<1>3. CASE \E c \in Openings : OpenSession(c)
  BY <1>0, <1>2, <1>3 DEF OpenSession
<1>4. ASSUME NEW set \in SUBSET Flying, Abandons(set)
      PROVE  /\ pending' \in [Seqs -> InFlight \cup {Absent}]
             /\ ended' \in [Seqs -> Ends \cup {"none"}] /\ requests' \subseteq Request
  BY <1>0, <1>4, FinishedType DEF Abandons, Ends
<1>5. ASSUME NEW r \in feedback, Settles(r)
      PROVE  /\ pending' \in [Seqs -> InFlight \cup {Absent}]
             /\ ended' \in [Seqs -> Ends \cup {"none"}] /\ requests' \subseteq Request
  <2>1. EndOf(r.stage) \in Ends
    BY DEF EndOf, Ends
  <2> QED
    BY <1>0, <1>5, <2>1, FinishedType DEF Settles
<1>6. ASSUME NEW r \in feedback, Counts(r)
      PROVE  /\ pending' \in [Seqs -> InFlight \cup {Absent}]
             /\ ended' \in [Seqs -> Ends \cup {"none"}] /\ requests' \subseteq Request
  <2> DEFINE p == pending[r.seq]
             q == Recorded([p EXCEPT !.replies = @ + 1], 1)
  <2>1. r.seq \in Seqs /\ r.seq \in Flying /\ pending[r.seq] # Absent
    BY <1>6 DEF Counts, Awaited, SourceTypeOK, Reply, Flying
  <2>2. p \in InFlight /\ p.replies + 1 \in Nat /\ p.reserved - 1 \in Nat
    BY <2>1, FlightFacts, ReservedFacts
  <2>3. q \in InFlight
    BY <2>2 DEF Recorded, InFlight
  <2> QED
    BY <1>0, <1>6, <2>1, <2>3, StayType DEF Counts
<1>7. ASSUME NEW c \in Stimuli, Submitted(c)
      PROVE  /\ pending' \in [Seqs -> InFlight \cup {Absent}]
             /\ ended' \in [Seqs -> Ends \cup {"none"}]
  <2>1. source.next \in Seqs
    BY <1>7, Constants DEF Submitted, Submittable, SourceTypeOK, Seqs
  <2>2. [content |-> c, attempt |-> 0, index |-> 0, sentOnce |-> FALSE,
         started |-> Absent, deadline |-> Absent,
         replies |-> 0, reserved |-> Needed(c) - 1] \in InFlight
    BY Constants DEF InFlight
  <2> QED
    BY <1>7, <2>1, <2>2, StayType DEF Submitted
<1>8. ASSUME NEW s \in Seqs, Sending(s), SentWith(s) PROVE requests' \subseteq Request
  <2>1. pending[s].content \in Stimuli
    BY <1>8, FlightFacts DEF Sending, Ready
  <2> QED
    BY <1>0, <1>8, <2>1 DEF SentWith, Request
<1>9. ASSUME NEW s \in Seqs, Sends1(s) \/ SendsLast(s)
      PROVE  /\ pending' \in [Seqs -> InFlight \cup {Absent}]
             /\ ended' \in [Seqs -> Ends \cup {"none"}]
  <2>1. CASE Sends1(s)
    <3>1. PacketSent(pending[s]) \in InFlight
      BY <2>1, PacketFacts DEF Sends1
    <3> QED
      BY <2>1, <3>1, StayType DEF Sends1
  <2>2. CASE SendsLast(s)
    BY <2>2, FinishedType DEF SendsLast, Ends
  <2> QED
    BY <1>9, <2>1, <2>2
<1>10. CASE \E s \in Seqs : Sends1(s) \/ SendsLast(s)
  BY <1>8, <1>9, <1>10 DEF Sends1, SendsLast
<1>11. CASE (\E c \in Stimuli : Submitted(c)) /\ UNCHANGED requests
  BY <1>0, <1>7, <1>11
<1> QED
  BY <1>1, <1>3, <1>4, <1>5, <1>6, <1>10, <1>11 DEF Shape

\* The rest of the source keeps its types.
LEMMA SourceTypeStep ==
  ASSUME SourceTypeOK, FlightInv, SourceStep
  PROVE  SourceTypeOK'
<1>1. /\ pending' \in [Seqs -> InFlight \cup {Absent}]
      /\ ended' \in [Seqs -> Ends \cup {"none"}]
      /\ requests' \subseteq Request
  BY ShapeType, SourceShape
<1>2. source' \in SourceRecord
  BY GrantStep
<1>3. now' \in Nat /\ feedback' \subseteq Reply
  BY SourceKeeps DEF SourceTypeOK
<1>4. attached' \in BOOLEAN /\ beating' \in BOOLEAN
  BY DEF SourceTypeOK, SourceStep, PollStep, OpenSession, Opened, OpenFails, Abandon, Attach,
         EnableHeartbeat, Detach, Submit, Cancel, Poll, LeaseEnds, Receive, NoHeartbeat,
         HeartbeatMissed, HeartbeatDue, Skip, GiveUp, Transmit, HeartbeatLate, PollDone, Visit
<1>5. pc' \in {"idle", "receive", "transmit"}
  BY DEF SourceTypeOK, SourceStep, PollStep, OpenSession, Opened, OpenFails, Abandon, Attach,
         EnableHeartbeat, Detach, Submit, Cancel, Poll, LeaseEnds, LapseOfAll, Receive, Received,
         NoHeartbeat, StartRound, Return,
         HeartbeatMissed, HeartbeatDue, Skip, GiveUp, Transmit, HeartbeatLate, PollDone, Visit
<1>6. round' \in SUBSET Seqs
  BY DEF SourceTypeOK, SourceStep, PollStep, OpenSession, Opened, OpenFails, Abandon, Attach,
         EnableHeartbeat, Detach, Submit, Cancel, Poll, LeaseEnds, LapseOfAll, Receive, Received,
         NoHeartbeat, StartRound, Return,
         HeartbeatMissed, HeartbeatDue, Skip, GiveUp, Transmit, HeartbeatLate, PollDone, Visit
<1>7. highwater' \in Nat /\ seen' \in SUBSET Nat
  <2>1. \A r \in feedback : r.number \in Nat
    BY DEF SourceTypeOK, Reply
  <2> QED
    BY <2>1 DEF SourceTypeOK, SourceStep, PollStep, OpenSession, Opened, OpenFails, Abandon, Attach,
         EnableHeartbeat, Detach, Submit, Cancel, Poll, LeaseEnds, Receive, NoHeartbeat,
         HeartbeatMissed, HeartbeatDue, Skip, GiveUp, Transmit, HeartbeatLate, PollDone, Visit
<1> QED
  BY <1>1, <1>2, <1>3, <1>4, <1>5, <1>6, <1>7 DEF SourceTypeOK, SourceRecord

-----------------------------------------------------------------------------
(* The source: requests and their sequences.                               *)

LEMMA RequestStep ==
  ASSUME SourceTypeOK, FlightInv, RequestInv, SourceStep
  PROVE  RequestInv'
<1> USE KeyFacts
<1>0. /\ source.next \in Nat /\ source.next >= 2 /\ source.next <= LastSeq + 1
      /\ now \in Nat /\ source.opened \in Nat /\ LastSeq \in Nat
      /\ \A q \in requests : q.seq \in Seqs /\ q.seq \in Nat
      /\ Seqs = 1..LastSeq
      /\ \A r \in feedback : r.seq \in Seqs
  BY Constants DEF SourceTypeOK, Seqs, Request, Reply
<1>1. source'.opened <= now' /\ now' = now
  BY <1>0, GrantStep, SourceKeeps DEF GrantMoves, RequestInv
<1>2. source'.state = "NEW" => source.state = "NEW"
  BY GrantStep DEF GrantMoves
<1> DEFINE Of(q) == /\ q.seq < source'.next
                    /\ q.seq = 1 <=> q.content \in Openings
                    /\ q.seq = 1 => source'.state # "NEW"
                    /\ pending'[q.seq] # Absent =>
                         pending'[q.seq].sentOnce /\ q.content = pending'[q.seq].content
           Unique == \A q, r \in requests' : q.seq = r.seq /\ q.seq # 1 => q = r
           Ends1(s) == /\ pending'[s] # Absent => s # 1 /\ s < source'.next /\ ended'[s] = "none"
                       /\ ended'[s] # "none" => s < source'.next
<1>3. SUFFICES (\A q \in requests' : Of(q)) /\ Unique /\ \A s \in Seqs : Ends1(s)
  BY <1>1 DEF RequestInv
<1>4. CASE UNCHANGED <<pending, ended, requests>> /\ source'.next = source.next
  BY <1>2, <1>4 DEF RequestInv
<1>5. ASSUME NEW c \in Openings, OpenSession(c)
      PROVE  (\A q \in requests' : Of(q)) /\ Unique /\ \A s \in Seqs : Ends1(s)
  <2>1. /\ requests' = requests \cup {[seq |-> 1, content |-> c]}
        /\ pending' = pending /\ ended' = ended /\ source'.next = source.next
        /\ source'.state = "OPENING"
    BY <1>5 DEF OpenSession, SourceTypeOK
  <2>2. pending[1] = Absent
    BY DEF RequestInv
  <2> QED
    BY <1>0, <2>1, <2>2 DEF RequestInv
<1>6. ASSUME NEW set \in SUBSET Flying, NEW kind, Finished(set, kind), UNCHANGED requests,
             source'.next = source.next
      PROVE  (\A q \in requests' : Of(q)) /\ Unique /\ \A s \in Seqs : Ends1(s)
  <2>1. \A s \in Seqs : /\ pending'[s] # Absent => pending'[s] = pending[s] /\ ended'[s] = ended[s]
                        /\ ended'[s] # "none" => s \in Flying \/ ended[s] # "none"
    BY <1>6 DEF Finished
  <2>2. \A s \in Flying : s \in Seqs /\ s < source.next
    BY DEF Flying, RequestInv
  <2> QED
    BY <1>0, <1>2, <1>6, <2>1, <2>2 DEF RequestInv
<1>7. ASSUME NEW r \in feedback, Counts(r), source'.next = source.next
      PROVE  (\A q \in requests' : Of(q)) /\ Unique /\ \A s \in Seqs : Ends1(s)
  <2> DEFINE p == pending[r.seq]
             n == Recorded([p EXCEPT !.replies = @ + 1], 1)
  <2>1. r.seq \in Seqs /\ p # Absent /\ p \in InFlight
    BY <1>0, <1>7, FlightFacts DEF Counts, Awaited
  <2>2. n.content = p.content /\ n.sentOnce = p.sentOnce
    BY <2>1 DEF Recorded, InFlight
  <2>3. pending' = [pending EXCEPT ![r.seq] = n] /\ ended' = ended /\ requests' = requests
    BY <1>7 DEF Counts, Stay
  <2>4. \A s \in Seqs : pending'[s] = IF s = r.seq THEN n ELSE pending[s]
    BY <2>1, <2>3 DEF SourceTypeOK
  <2> HIDE DEF n
  <2> QED
    BY <1>0, <1>2, <1>7, <2>1, <2>2, <2>3, <2>4 DEF RequestInv
<1>8. ASSUME NEW c \in Stimuli, Submitted(c), UNCHANGED requests
      PROVE  (\A q \in requests' : Of(q)) /\ Unique /\ \A s \in Seqs : Ends1(s)
  <2>1. PICK p : Stay(source.next, p)
    BY <1>8 DEF Submitted
  <2>2. source'.next = source.next + 1 /\ source.next <= LastSeq
    BY <1>0, <1>8 DEF Submitted, Submittable, SourceTypeOK
  <2>3. source.next \in Seqs
    BY <1>0, <2>2
  <2>4. \A s \in Seqs : /\ s # source.next => pending'[s] = pending[s]
                        /\ ended'[s] = ended[s]
    BY <2>1, <2>3 DEF Stay, SourceTypeOK
  <2>5. ended[source.next] = "none"
    BY <1>0, <2>3 DEF RequestInv
  <2> QED
    BY <1>0, <1>2, <1>8, <2>2, <2>3, <2>4, <2>5 DEF RequestInv
<1>9. ASSUME NEW s \in Seqs, Sends1(s) \/ SendsLast(s), source'.next = source.next
      PROVE  (\A q \in requests' : Of(q)) /\ Unique /\ \A t \in Seqs : Ends1(t)
  <2> DEFINE p == pending[s]
             n == PacketSent(p)
             q0 == [seq |-> s, content |-> p.content]
  <2>1. /\ p # Absent /\ n.content = p.content /\ (p.sentOnce => n.sentOnce)
        /\ p.content \in Stimuli
    BY <1>9, PacketFacts, FlightFacts DEF Sends1, SendsLast
  <2>2. requests' = IF n.sentOnce THEN requests \cup {q0} ELSE requests
    BY <1>9 DEF Sends1, SendsLast, SentWith
  <2>3. \A t \in Seqs : /\ t # s => pending'[t] = pending[t] /\ ended'[t] = ended[t]
                        /\ pending'[s] # Absent => pending'[s] = n /\ ended'[s] = ended[s]
    BY <1>9 DEF Sends1, SendsLast, Stay, Finished, SourceTypeOK
  <2>4. s # 1 /\ s < source.next /\ ended[s] = "none"
    BY <2>1 DEF RequestInv
  <2>5. p.content \notin Openings
    BY <2>1, KindsAssumption
  <2>6. \A q \in requests : q.seq = s => q = q0
    <3>1. \A q \in requests : q = [seq |-> q.seq, content |-> q.content]
      BY DEF SourceTypeOK, Request
    <3> QED
      BY <2>1, <3>1 DEF RequestInv
  <2> HIDE DEF n
  <2>7. \A q \in requests' : Of(q)
    <3>1. ASSUME NEW q \in requests PROVE Of(q)
      BY <1>0, <1>2, <1>9, <2>1, <2>3, <2>4, <3>1 DEF RequestInv
    <3>2. n.sentOnce => Of(q0)
      BY <1>9, <2>1, <2>3, <2>4, <2>5
    <3> QED
      BY <2>2, <3>1, <3>2
  <2>8. Unique
    BY <2>2, <2>6 DEF RequestInv
  <2>9. \A t \in Seqs : Ends1(t)
    BY <1>0, <1>9, <2>3, <2>4 DEF RequestInv
  <2> QED
    BY <2>7, <2>8, <2>9
<1>10. Shape
  BY SourceShape
<1>11. ASSUME NEW r \in feedback, Settles(r), source'.next = source.next
       PROVE  (\A q \in requests' : Of(q)) /\ Unique /\ \A s \in Seqs : Ends1(s)
  <2>1. {r.seq} \in SUBSET Flying
    BY <1>0, <1>11 DEF Settles, Awaited, Flying
  <2> QED
    BY <1>6, <1>11, <2>1 DEF Settles
<1> HIDE DEF Of, Unique, Ends1
<1> QED
  BY <1>4, <1>5, <1>6, <1>7, <1>8, <1>9, <1>10, <1>11 DEF Shape, Abandons

-----------------------------------------------------------------------------
(* The source: what is reserved suffices, and first transmissions are in     *)
(* the order of the sequences.                                             *)

Reserved(p) ==
  p.reserved >= 1 + Packets[p.content] * (Attempts[p.content] - p.attempt)
                  + (IF p.attempt = 0 THEN 0 ELSE Packets[p.content] - p.index)
                  + (FeedbackCap - p.replies)

\* One more attempt costs the packets of an attempt.
LEMMA OneAttempt ==
  ASSUME NEW a \in Nat, NEW b \in Nat, NEW k \in Nat, k < a
  PROVE  b * (a - k) = b * (a - (k + 1)) + b
<1>1. PICK n \in Nat : n = a - (k + 1) /\ a - k = n + 1
  <2>1. a - (k + 1) \in Nat /\ a - k = (a - (k + 1)) + 1
    OBVIOUS
  <2> QED
    BY <2>1
<1>2. b * (n + 1) = b * n + b
  OBVIOUS
<1> QED
  BY <1>1, <1>2

LEMMA PacketKeeps ==
  ASSUME SourceTypeOK, FlightInv, NEW s \in Seqs, Sending(s)
  PROVE  Counted(PacketSent(pending[s])) /\ Reserved(PacketSent(pending[s]))
<1> DEFINE p == pending[s]
           q == PacketSent(p)
           b == Packets[p.content]
           a == Attempts[p.content]
<1>1. /\ p # Absent /\ p \in InFlight /\ q \in InFlight /\ s \in Flying /\ q.content = p.content
      /\ p.attempt \in Nat /\ p.index \in Nat /\ p.replies \in Nat /\ p.reserved \in Nat
      /\ p.content \in Stimuli
  BY PacketFacts, FlightFacts DEF Sending, Ready
<1>2. a \in Nat \ {0} /\ b \in Nat \ {0} /\ FeedbackCap \in Nat \ {0} /\ Absent \notin Nat
  BY <1>1, Constants
<1>3. Counted(p) /\ Reserved(p)
  BY <1>1 DEF FlightInv, ReservationSuffices, Reserved
<1>4. q.attempt \in Nat /\ q.index \in Nat /\ q.replies = p.replies /\ q.reserved = p.reserved - 1
  BY <1>1, PacketFacts DEF InFlight
<1>5. \/ /\ q.attempt = p.attempt + 1 /\ q.index = 1
         /\ p.attempt < a
         /\ p.attempt = 0 \/ p.index = b
      \/ /\ q.attempt = p.attempt /\ q.index = p.index + 1
         /\ p.index < b /\ p.attempt # 0
  BY PacketFacts
<1>6. /\ q.started \in Nat /\ q.started <= now
      /\ q.deadline = Absent => q.index # b
      /\ q.deadline # Absent => q.index = b
  BY PacketFacts
<1> HIDE DEF q
<1>7. Counted(q)
  BY <1>1, <1>2, <1>3, <1>4, <1>5, <1>6 DEF Counted
<1>8. Reserved(q)
  <2>0. /\ p.reserved >= 1 + b * (a - p.attempt)
               + (IF p.attempt = 0 THEN 0 ELSE b - p.index) + (FeedbackCap - p.replies)
        /\ p.index <= b
    BY <1>3 DEF Reserved, Counted
  <2>1. CASE q.attempt = p.attempt + 1 /\ q.index = 1 /\ p.attempt < a
             /\ (p.attempt = 0 \/ p.index = b)
    <3> DEFINE rest == b * (a - (p.attempt + 1))
    <3>1. b * (a - p.attempt) = rest + b
      BY <1>1, <1>2, <2>1, OneAttempt
    <3>2. rest \in Nat
      <4>1. a - (p.attempt + 1) \in Nat
        BY <1>1, <1>2, <2>1
      <4> QED
        BY <1>2, <4>1
    <3> HIDE DEF rest
    <3>3. (IF p.attempt = 0 THEN 0 ELSE b - p.index) = 0
      BY <1>1, <1>2, <2>1
    <3>4. p.reserved >= 1 + rest + b + (FeedbackCap - p.replies)
      BY <1>1, <1>2, <2>0, <3>1, <3>2, <3>3
    <3>5. q.reserved >= 1 + rest + (b - 1) + (FeedbackCap - q.replies)
      BY <1>1, <1>2, <1>4, <3>2, <3>4
    <3>6. q.attempt # 0 /\ b * (a - q.attempt) = rest
      BY <1>1, <2>1 DEF rest
    <3> QED
      BY <1>1, <2>1, <3>5, <3>6 DEF Reserved
  <2>2. CASE q.attempt = p.attempt /\ q.index = p.index + 1 /\ p.index < b /\ p.attempt # 0
    <3> DEFINE rest == b * (a - p.attempt)
    <3>1. rest \in Nat
      <4>1. a - p.attempt \in Nat
        BY <1>1, <1>2, <1>3 DEF Counted
      <4> QED
        BY <1>2, <4>1
    <3>2. p.reserved >= 1 + rest + (b - p.index) + (FeedbackCap - p.replies)
      BY <2>0, <2>2
    <3> HIDE DEF rest
    <3>3. q.reserved >= 1 + rest + (b - q.index) + (FeedbackCap - q.replies)
      BY <1>1, <1>2, <1>4, <2>2, <3>1, <3>2
    <3>4. q.attempt # 0 /\ b * (a - q.attempt) = rest
      BY <2>2 DEF rest
    <3> QED
      BY <1>1, <3>3, <3>4 DEF Reserved
  <2> QED
    BY <1>5, <2>1, <2>2
<1> QED
  BY <1>7, <1>8 DEF q

LEMMA FlightStep ==
  ASSUME SourceTypeOK, FlightInv, RequestInv, SourceStep
  PROVE  FlightInv'
<1> DEFINE Good(s) == Counted(pending[s])' /\ Reserved(pending[s])'
           Order == \A s, t \in Flying' : s < t /\ pending'[t].sentOnce => pending'[s].sentOnce
<1>0. /\ now' = now
      /\ \A s \in Flying' : s \in Seqs /\ pending'[s] # Absent
      /\ \A s \in Flying : s \in Seqs /\ pending[s] # Absent /\ s < source.next /\ s \in Nat
      /\ \A s \in Seqs : s \in Flying <=> pending[s] # Absent
  BY SourceKeeps, KeyFacts DEF Flying, RequestInv
<1>1. SUFFICES (\A s \in Flying' : Good(s)) /\ Order
  BY DEF FlightInv, ReservationSuffices, FirstSendsInOrder, Reserved
<1>2. \A s \in Flying : Counted(pending[s]) /\ Reserved(pending[s])
  BY DEF FlightInv, ReservationSuffices, Reserved
<1>3. \A s, t \in Flying : s < t /\ pending[t].sentOnce => pending[s].sentOnce
  BY DEF FlightInv, FirstSendsInOrder
<1>4. ASSUME \A s \in Flying' : s \in Flying /\ pending'[s] = pending[s]
      PROVE  (\A s \in Flying' : Good(s)) /\ Order
  <2>1. ASSUME NEW s \in Flying' PROVE Good(s)
    <3>1. s \in Flying /\ pending'[s] = pending[s]
      BY <1>4
    <3> QED
      BY <1>0, <1>2, <3>1 DEF Counted, Reserved
  <2>2. Order
    BY <1>3, <1>4
  <2> QED
    BY <2>1, <2>2
<1>5. ASSUME NEW set, NEW kind, Finished(set, kind)
      PROVE  (\A s \in Flying' : Good(s)) /\ Order
  BY <1>0, <1>4, <1>5 DEF Finished
<1>6. ASSUME NEW t \in Seqs, NEW n \in InFlight, Stay(t, n), Counted(n), Reserved(n),
             \A s \in Flying : (s < t /\ n.sentOnce => pending[s].sentOnce)
                               /\ (t < s /\ pending[s].sentOnce => n.sentOnce)
      PROVE  (\A s \in Flying' : Good(s)) /\ Order
  <2>1. \A s \in Seqs : pending'[s] = IF s = t THEN n ELSE pending[s]
    BY <1>6 DEF Stay, SourceTypeOK
  <2>2. \A s \in Flying' : s # t => s \in Flying /\ pending'[s] = pending[s]
    BY <1>0, <2>1
  <2>3. ASSUME NEW s \in Flying' PROVE Good(s)
    <3>1. CASE s = t
      BY <1>0, <1>6, <2>1, <3>1 DEF Counted, Reserved
    <3>2. CASE s # t
      BY <1>0, <1>2, <2>2, <3>2 DEF Counted, Reserved
    <3> QED
      BY <3>1, <3>2
  <2>4. t \in Nat
    BY KeyFacts
  <2>5. Order
    <3> SUFFICES ASSUME NEW s \in Flying', NEW u \in Flying', s < u, pending'[u].sentOnce
                 PROVE  pending'[s].sentOnce
      OBVIOUS
    <3>1. CASE s = t
      BY <1>0, <1>6, <2>1, <2>2, <2>4, <3>1
    <3>2. CASE s # t /\ u = t
      BY <1>0, <1>6, <2>1, <2>2, <2>4, <3>2
    <3>3. CASE s # t /\ u # t
      BY <1>0, <1>3, <2>2, <3>3
    <3> QED
      BY <3>1, <3>2, <3>3
  <2> QED
    BY <2>3, <2>5
<1>7. CASE UNCHANGED pending
  BY <1>4, <1>7 DEF Flying
<1>8. ASSUME NEW r \in feedback, Counts(r) PROVE (\A s \in Flying' : Good(s)) /\ Order
  <2> DEFINE p == pending[r.seq]
             n == Recorded([p EXCEPT !.replies = @ + 1], 1)
             rest == Packets[p.content] * (Attempts[p.content] - p.attempt)
             part == IF p.attempt = 0 THEN 0 ELSE Packets[p.content] - p.index
  <2>1. r.seq \in Seqs /\ r.seq \in Flying /\ p # Absent /\ p.sentOnce
    BY <1>8 DEF Counts, Awaited, SourceTypeOK, Reply, Flying
  <2>2. /\ p \in InFlight /\ p.replies \in Nat /\ p.reserved \in Nat /\ FeedbackCap \in Nat
        /\ Packets[p.content] \in Nat
    BY <2>1, FlightFacts, Constants
  <2>3. /\ p.reserved >= 1 + rest + part + (FeedbackCap - p.replies) /\ rest \in Nat
        /\ part \in Nat /\ p.reserved - 1 \in Nat
    BY <2>1, ReservedFacts
  <2>4. n \in InFlight
    <3>1. p.replies + 1 \in Nat
      BY <2>2
    <3> HIDE DEF p
    <3> QED
      BY <2>2, <2>3, <3>1 DEF Recorded, InFlight
  <2>5. /\ n.content = p.content /\ n.attempt = p.attempt /\ n.index = p.index
        /\ n.sentOnce = p.sentOnce /\ n.started = p.started /\ n.deadline = p.deadline
        /\ n.replies = p.replies + 1 /\ n.reserved = p.reserved - 1
    BY <2>2 DEF Recorded, InFlight
  <2> HIDE DEF n, rest, part
  <2>6. n.reserved >= 1 + rest + part + (FeedbackCap - n.replies)
    BY <2>2, <2>3, <2>5
  <2>7. Reserved(n)
    BY <2>5, <2>6 DEF Reserved, rest, part
  <2>8. n.replies < FeedbackCap
    BY <1>8, <2>5 DEF Counts
  <2>9. Counted(n)
    BY <1>2, <2>1, <2>5, <2>8 DEF Counted
  <2>10. Stay(r.seq, n)
    BY <1>8 DEF Counts, n
  <2> QED
    BY <1>3, <1>6, <2>1, <2>4, <2>5, <2>7, <2>9, <2>10
<1>9. ASSUME NEW c \in Stimuli, Submitted(c) PROVE (\A s \in Flying' : Good(s)) /\ Order
  <2> DEFINE n == [content |-> c, attempt |-> 0, index |-> 0, sentOnce |-> FALSE,
                   started |-> Absent, deadline |-> Absent,
                   replies |-> 0, reserved |-> Needed(c) - 1]
  <2>1. source.next \in Seqs /\ source.next \in Nat
    BY <1>9, Constants DEF Submitted, Submittable, SourceTypeOK, Seqs
  <2>2. /\ Packets[c] \in Nat \ {0} /\ Attempts[c] \in Nat \ {0} /\ FeedbackCap \in Nat \ {0}
        /\ Needed(c) - 1 \in Nat /\ Needed(c) - 1 = 1 + Packets[c] * Attempts[c] + FeedbackCap
        /\ Packets[c] * Attempts[c] \in Nat
    BY Constants
  <2>3. n \in InFlight
    BY <2>2 DEF InFlight
  <2>4. Counted(n)
    BY <2>2 DEF Counted
  <2>5. Reserved(n)
    BY <2>2 DEF Reserved
  <2>6. Stay(source.next, n)
    BY <1>9 DEF Submitted
  <2> HIDE DEF n
  <2>7. n.sentOnce = FALSE
    BY DEF n
  <2> QED
    BY <1>0, <1>6, <2>1, <2>3, <2>4, <2>5, <2>6, <2>7
<1>10. ASSUME NEW s \in Seqs, Sends1(s) PROVE (\A t \in Flying' : Good(t)) /\ Order
  <2> DEFINE n == PacketSent(pending[s])
  <2>1. /\ n \in InFlight /\ Counted(n) /\ Reserved(n) /\ Stay(s, n) /\ s \in Flying
        /\ pending[s].sentOnce => n.sentOnce
    BY <1>0, <1>10, PacketFacts, PacketKeeps DEF Sends1
  <2>2. pending[s].sentOnce \/ ~\E t \in Flying : t < s /\ ~pending[t].sentOnce
    BY <1>10 DEF Sends1, Sending, Ready, Blocked
  <2> HIDE DEF n
  <2>3. ASSUME NEW t \in Flying, t < s, n.sentOnce PROVE pending[t].sentOnce
    BY <1>3, <2>1, <2>2, <2>3
  <2>4. ASSUME NEW t \in Flying, s < t, pending[t].sentOnce PROVE n.sentOnce
    BY <1>3, <2>1, <2>4
  <2> QED
    BY <1>6, <2>1, <2>3, <2>4
<1>11. Shape
  BY SourceShape
<1> HIDE DEF Good, Order
<1> QED
  BY <1>5, <1>7, <1>8, <1>9, <1>10, <1>11
     DEF Shape, OpenSession, Abandons, Settles, SendsLast

-----------------------------------------------------------------------------
(* The receiver: what a call of the registry does to the session and to the  *)
(* record of a request.                                                    *)

RecordForgets(s) ==
  \/ records'[Key(s)] = records[Key(s)]
  \/ records'[Key(s)] = Absent /\ now >= R!KeptUntil(records[Key(s)])

SessionForgets ==
  \/ sessions'[1] = sessions[1]
  \/ sessions'[1] = Absent /\ now >= sessions[1].deadline

LEMMA TableFacts ==
  ASSUME RP!TypeOK
  PROVE  /\ now \in Nat /\ nextId \in {1, 2}
         /\ sessions \in [{1} -> RP!Session \cup {Absent}]
         /\ records \in [RP!Keys -> RP!Record \cup {Absent}]
         /\ admissions \in [RP!Keys -> Nat]
         /\ Absent \notin RP!Session /\ Absent \notin RP!Record
         /\ sessions[1] # Absent =>
              /\ sessions[1] \in RP!Session /\ sessions[1].deadline \in Nat
              /\ sessions[1].lastRx \in Nat /\ sessions[1].grant = Grant
         /\ \A s \in Seqs :
              /\ admissions[Key(s)] \in Nat
              /\ records[Key(s)] # Absent =>
                   /\ records[Key(s)] \in RP!Record
                   /\ records[Key(s)].deadline \in Nat /\ records[Key(s)].received \in Nat
                   /\ R!KeptUntil(records[Key(s)]) \in Nat
                   /\ R!KeptUntil(records[Key(s)]) >= records[Key(s)].deadline
<1>1. /\ now \in Nat /\ nextId \in 1..2 /\ sessions \in [{1} -> RP!Session \cup {Absent}]
      /\ records \in [RP!Keys -> RP!Record \cup {Absent}] /\ admissions \in [RP!Keys -> Nat]
  BY KeyFacts DEF RP!TypeOK
<1>2. Absent \notin RP!Session /\ Absent \notin RP!Record
  BY RegistryAssumed DEF RP!AbsentAssumption
<1>3. sessions[1] # Absent =>
        /\ sessions[1] \in RP!Session /\ sessions[1].deadline \in Nat
        /\ sessions[1].lastRx \in Nat /\ sessions[1].grant = Grant
  BY <1>1 DEF RP!Session
<1>4. ASSUME NEW s \in Seqs, records[Key(s)] # Absent
      PROVE  /\ records[Key(s)] \in RP!Record
             /\ records[Key(s)].deadline \in Nat /\ records[Key(s)].received \in Nat
             /\ R!KeptUntil(records[Key(s)]) \in Nat
             /\ R!KeptUntil(records[Key(s)]) >= records[Key(s)].deadline
  <2>1. records[Key(s)] \in RP!Record
    BY <1>1, <1>4, KeyFacts
  <2>2. /\ records[Key(s)].deadline \in Nat /\ records[Key(s)].received \in Nat
        /\ records[Key(s)].pendingUntil \in Nat
    BY <2>1 DEF RP!Record
  <2> QED
    BY <2>1, <2>2 DEF R!KeptUntil
<1>5. \A s \in Seqs : admissions[Key(s)] \in Nat
  BY <1>1, KeyFacts
<1>6. nextId \in {1, 2}
  BY <1>1
<1> QED
  BY <1>1, <1>2, <1>3, <1>4, <1>5, <1>6

LEMMA LiveFacts ==
  ASSUME RP!TypeOK
  PROVE  /\ R!LiveSessions \in [{1} -> RP!Session \cup {Absent}]
         /\ R!KeptRecords \in [RP!Keys -> RP!Record \cup {Absent}]
         /\ \/ R!LiveSessions[1] = sessions[1]
            \/ R!LiveSessions[1] = Absent /\ now >= sessions[1].deadline
         /\ R!LiveSessions[1] # Absent => now < sessions[1].deadline
         /\ \A s \in Seqs :
              /\ \/ R!KeptRecords[Key(s)] = records[Key(s)]
                 \/ /\ R!KeptRecords[Key(s)] = Absent
                    /\ now >= R!KeptUntil(records[Key(s)])
              /\ R!KeptRecords[Key(s)] # Absent => now < R!KeptUntil(records[Key(s)])
<1>1. R!LiveSessions[1] = IF sessions[1] # Absent /\ now < sessions[1].deadline
                          THEN sessions[1] ELSE Absent
  BY SameTables, KeyFacts DEF R!LiveSessions
<1>2. \A s \in Seqs : R!KeptRecords[Key(s)] =
        IF records[Key(s)] # Absent /\ now < R!KeptUntil(records[Key(s)])
        THEN records[Key(s)] ELSE Absent
  BY SameTables, KeyFacts DEF R!KeptRecords
<1>3. /\ R!LiveSessions \in [{1} -> RP!Session \cup {Absent}]
      /\ R!KeptRecords \in [RP!Keys -> RP!Record \cup {Absent}]
  BY SameTables, TableFacts, KeyFacts DEF R!LiveSessions, R!KeptRecords
<1> QED
  BY <1>1, <1>2, <1>3, TableFacts

\* Nothing but what has expired is dropped.
Drops == SessionForgets /\ \A s \in Seqs : RecordForgets(s)

LEMMA RefuseEffect ==
  ASSUME RP!TypeOK, R!Refuse
  PROVE  Drops /\ UNCHANGED <<now, nextId, closed, admissions>>
BY LiveFacts DEF R!Refuse, R!Expire, R!history, Drops, SessionForgets, RecordForgets

\* An answer is put on record.
Answers1(s) ==
  /\ SessionForgets /\ \A t \in Seqs : t # s => RecordForgets(t)
  /\ records[Key(s)] # Absent /\ records'[Key(s)] # Absent
  /\ records'[Key(s)].digest = records[Key(s)].digest
  /\ records'[Key(s)].received = records[Key(s)].received
  /\ records'[Key(s)].deadline = records[Key(s)].deadline
     \/ records'[Key(s)].deadline = now + Retention
  /\ records'[Key(s)].answer # "none"
  /\ UNCHANGED <<now, nextId, closed, admissions>>

LEMMA AnswerEffect ==
  ASSUME RP!TypeOK, NEW s \in Seqs,
         \/ \E a \in {"received", "failed"} : R!RecordResponse(Key(s), a)
         \/ R!RecordApplied(Key(s))
  PROVE  Answers1(s)
<1> USE DEF Answers1, SessionForgets, RecordForgets
<1>1. ASSUME NEW a \in {"received", "failed"}, R!RecordResponse(Key(s), a) PROVE Answers1(s)
  <2> DEFINE old == R!KeptRecords[Key(s)]
             new == [old EXCEPT !.answer = a]
  <2>1. /\ old # Absent /\ sessions' = R!LiveSessions
        /\ records' = [R!KeptRecords EXCEPT ![Key(s)] = new]
        /\ UNCHANGED <<now, nextId, closed, admissions>>
    BY <1>1 DEF R!RecordResponse, R!Expire, R!Keep
  <2>2. old = records[Key(s)] /\ old \in RP!Record
    BY <2>1, LiveFacts, TableFacts
  <2>3. /\ new # Absent /\ new.digest = old.digest /\ new.received = old.received
        /\ new.deadline = old.deadline /\ new.answer # "none"
    <3>1. new \in RP!Record
      BY <2>2 DEF RP!Record, RP!Answers
    <3> QED
      BY <2>2, <3>1, TableFacts DEF RP!Record
  <2> HIDE DEF new
  <2>4. \A t \in Seqs : records'[Key(t)] = IF t = s THEN new ELSE R!KeptRecords[Key(t)]
    BY <2>1, LiveFacts, KeyFacts
  <2> QED
    BY <2>1, <2>2, <2>3, <2>4, LiveFacts
<1>2. CASE R!RecordApplied(Key(s))
  <2> DEFINE old == records[Key(s)]
             new == [old EXCEPT !.answer = "applied", !.deadline = now + Retention]
  <2>1. /\ old # Absent /\ sessions' = sessions
        /\ records' = [records EXCEPT ![Key(s)] = new]
        /\ UNCHANGED <<now, nextId, closed, admissions>>
    BY <1>2 DEF R!RecordApplied, R!Keep
  <2>2. old \in RP!Record /\ now + Retention \in Nat
    BY <2>1, TableFacts, Constants
  <2>3. /\ new # Absent /\ new.digest = old.digest /\ new.received = old.received
        /\ new.deadline = now + Retention /\ new.answer # "none"
    <3>1. new \in RP!Record
      BY <2>2 DEF RP!Record, RP!Answers
    <3> QED
      BY <2>2, <3>1, TableFacts DEF RP!Record
  <2> HIDE DEF new
  <2>4. \A t \in Seqs : records'[Key(t)] = IF t = s THEN new ELSE records[Key(t)]
    BY <2>1, TableFacts, KeyFacts
  <2> QED
    BY <2>1, <2>2, <2>3, <2>4
<1> QED
  BY <1>1, <1>2

\* A request is admitted: it is on record from now on, and what makes room for
\* it was full.
Admits1(s, c) ==
  /\ UNCHANGED <<now, closed>>
  /\ admissions[Key(s)] = 0 /\ admissions'[Key(s)] # 0
  /\ \A t \in Seqs : t # s => admissions'[Key(t)] = admissions[Key(t)]
  /\ records'[Key(s)] # Absent
  /\ records'[Key(s)].digest = c /\ records'[Key(s)].received = now
  /\ records'[Key(s)].deadline = now + Retention /\ records'[Key(s)].answer = "none"
  /\ \A t \in Seqs : t # s =>
       RecordForgets(t) \/ (R!Full(R!KeptRecords) /\ records'[Key(t)] = Absent)
  /\ sessions'[1] # Absent /\ sessions'[1].lastRx = s

\* To a session that lives: its lease is kept, or renewed by a heartbeat.
Serves(s, c) ==
  /\ nextId # 1 /\ nextId' = nextId
  /\ sessions[1] # Absent /\ now < sessions[1].deadline /\ sessions[1].lastRx < s
  /\ sessions'[1].deadline = IF c \in Heartbeats THEN now + Lease ELSE sessions[1].deadline

\* To the one session there is for this source.
Starts ==
  /\ nextId = 1 /\ nextId' # 1
  /\ sessions'[1].deadline = now + Lease

LEMMA RememberEffect ==
  ASSUME RP!TypeOK, NEW s \in Seqs, NEW c \in RP!Contents,
         admissions[Key(s)] = 0, R!Admitted(Key(s)),
         records' = R!Remembered(R!KeptRecords, Key(s), c)
  PROVE  /\ admissions'[Key(s)] # 0
         /\ \A t \in Seqs : t # s => admissions'[Key(t)] = admissions[Key(t)]
         /\ records'[Key(s)] # Absent
         /\ records'[Key(s)].digest = c /\ records'[Key(s)].received = now
         /\ records'[Key(s)].deadline = now + Retention /\ records'[Key(s)].answer = "none"
         /\ \A t \in Seqs : t # s =>
              RecordForgets(t) \/ (R!Full(R!KeptRecords) /\ records'[Key(t)] = Absent)
<1> DEFINE new == [digest |-> c, deadline |-> now + Retention, received |-> now,
                   answer |-> "none", queued |-> FALSE, pendingUntil |-> 0, stamp |-> arrivals]
<1>1. admissions' = [admissions EXCEPT ![Key(s)] = @ + 1]
  BY DEF R!Admitted
<1>2. admissions'[Key(s)] # 0 /\ \A t \in Seqs : t # s => admissions'[Key(t)] = admissions[Key(t)]
  BY <1>1, TableFacts, KeyFacts
<1>3. \A k \in RP!Keys : records'[k] = IF k = Key(s) THEN new
        ELSE IF R!Full(R!KeptRecords) /\ k = R!Oldest(R!KeptRecords) THEN Absent
        ELSE R!KeptRecords[k]
  BY SameTables DEF R!Remembered
<1>4. records'[Key(s)] = new
  BY <1>3, KeyFacts
<1>5. new # Absent
  <2>1. arrivals \in Nat /\ now + Retention \in Nat /\ now \in Nat
    BY TableFacts, Constants DEF RP!TypeOK
  <2>2. new \in RP!Record
    BY <2>1 DEF RP!Record, RP!Answers
  <2> QED
    BY <2>2, TableFacts
<1>6. \A t \in Seqs : t # s =>
        RecordForgets(t) \/ (R!Full(R!KeptRecords) /\ records'[Key(t)] = Absent)
  BY <1>3, KeyFacts, LiveFacts DEF RecordForgets
<1>7. /\ new.digest = c /\ new.received = now /\ new.deadline = now + Retention
      /\ new.answer = "none"
  OBVIOUS
<1> HIDE DEF new
<1> QED
  BY <1>2, <1>4, <1>5, <1>6, <1>7

LEMMA AcceptEffect ==
  ASSUME RP!RegistryInv, NEW s \in Seqs, NEW c \in Stimuli, R!Accept(Grant, Key(s), c)
  PROVE  Admits1(s, c) /\ Serves(s, c)
<1> USE RegistryAssumed
<1>0. RP!TypeOK /\ RP!OnceInv /\ RP!Accept(Grant, Key(s), c) /\ c \in RP!Contents
  BY SameCalls DEF RP!RegistryInv, RP!Contents, Stimuli
<1>1. admissions[Key(s)] = 0
  <2>1. Grant \in {Grant} /\ Key(s) \in RP!Keys
    BY KeyFacts
  <2> QED
    BY <1>0, <2>1, RP!FreshIsNew
<1>2. /\ R!LiveSessions[1] # Absent /\ s > R!LiveSessions[1].lastRx
      /\ R!Admitted(Key(s)) /\ records' = R!Remembered(R!KeptRecords, Key(s), c)
      /\ UNCHANGED <<now, closed, nextId>>
      /\ sessions' = [R!LiveSessions EXCEPT ![1] = [@ EXCEPT !.lastRx = s,
                                            !.deadline = R!RenewedLease(1, c)]]
  BY KeyFacts DEF R!Accept, R!Authorized, R!IsFresh
<1>3. /\ R!LiveSessions[1] = sessions[1] /\ sessions[1] # Absent /\ sessions[1] \in RP!Session
      /\ sessions[1].lastRx < s /\ now < sessions[1].deadline
  BY <1>0, <1>2, LiveFacts, TableFacts, KeyFacts
<1> DEFINE new == [sessions[1] EXCEPT !.lastRx = s, !.deadline = R!RenewedLease(1, c)]
<1>4. sessions'[1] = new
  BY <1>0, <1>2, <1>3, LiveFacts
<1>5. R!RenewedLease(1, c) = IF c \in Heartbeats THEN now + Lease ELSE sessions[1].deadline
  BY <1>3 DEF R!RenewedLease
<1>6. new \in RP!Session /\ new.lastRx = s /\ new.deadline = R!RenewedLease(1, c)
  <2>1. R!RenewedLease(1, c) \in Nat /\ s \in Nat
    BY <1>0, <1>3, <1>5, TableFacts, KeyFacts, Constants
  <2> QED
    BY <1>3, <2>1 DEF RP!Session
<1>7. new # Absent
  BY <1>0, <1>6, TableFacts
<1> HIDE DEF new
<1>8. nextId # 1
  <2>1. 1 \in RP!Ids /\ sessions[1] # Absent
    BY <1>3, KeyFacts
  <2>2. 1 < nextId
    BY <1>0, <2>1 DEF RP!OnceInv
  <2> QED
    BY <2>2
<1>9. Serves(s, c)
  BY <1>2, <1>3, <1>4, <1>5, <1>6, <1>8 DEF Serves
<1>10. Admits1(s, c)
  BY <1>0, <1>1, <1>2, <1>4, <1>6, <1>7, RememberEffect DEF Admits1
<1> QED
  BY <1>9, <1>10

LEMMA OpenEffect ==
  ASSUME RP!RegistryInv, NEW c \in Openings, R!Open(Grant, Nonce, c)
  PROVE  Admits1(1, c) /\ Starts
<1> USE RegistryAssumed
<1>0. RP!TypeOK /\ RP!Open(Grant, Nonce, c) /\ c \in RP!Contents
  BY SameCalls DEF RP!RegistryInv, RP!Contents
<1>1. nextId = 1
  BY <1>0, TableFacts DEF RP!Open, RP!Allocatable
<1>2. Key(1) = <<nextId, 1>>
  BY <1>1 DEF Key
<1>3. admissions[Key(1)] = 0
  <2>1. Grant \in {Grant} /\ Nonce \in {Nonce}
    OBVIOUS
  <2> QED
    BY <1>0, <1>2, <2>1, RP!FreshIsNew
<1> DEFINE new == [grant |-> Grant, nonce |-> Nonce, deadline |-> now + Lease, lastRx |-> 1]
<1>4. /\ R!Admitted(Key(1)) /\ records' = R!Remembered(R!KeptRecords, Key(1), c)
      /\ UNCHANGED <<now, closed>> /\ nextId' = nextId + 1
      /\ sessions' = [R!LiveSessions EXCEPT ![1] = new]
  BY <1>1, <1>2 DEF R!Open
<1>5. sessions'[1] = new
  BY <1>0, <1>4, LiveFacts
<1>6. new # Absent
  <2>1. now + Lease \in Nat
    BY <1>0, TableFacts, Constants
  <2>2. new \in RP!Session
    BY <2>1 DEF RP!Session
  <2> QED
    BY <1>0, <2>2, TableFacts
<1>7. new.lastRx = 1 /\ new.deadline = now + Lease
  OBVIOUS
<1> HIDE DEF new
<1>8. Starts
  BY <1>1, <1>4, <1>5, <1>7 DEF Starts
<1>9. Admits1(1, c)
  BY <1>0, <1>3, <1>4, <1>5, <1>6, <1>7, RememberEffect, KeyFacts DEF Admits1
<1> QED
  BY <1>8, <1>9

-----------------------------------------------------------------------------
(* The whole.                                                              *)

GateTypes ==
  /\ lastTx \in 0..LastTx
  /\ busy \in [seq : Seqs, effected : BOOLEAN] \cup {Absent}
  /\ applied \in [Seqs -> Nat]

GatewayInv ==
  /\ SourceTypeOK /\ RP!RegistryInv /\ GateTypes
  /\ RequestInv /\ FlightInv /\ AdmittedInv /\ LeaseInv /\ ReplyInv

LEMMA SameTypes == (R!TypeOK <=> RP!TypeOK) /\ (R!Init <=> RP!Init)
<1>1. R!Opening = RP!Opening /\ R!Replay = RP!Replay /\ R!Answers = RP!Answers
  BY SameTables
     DEF R!Opening, RP!Opening, R!Replay, RP!Replay, R!Answers, RP!Answers
<1>2. R!TypeOK <=> RP!TypeOK
  BY <1>1, SameTables DEF R!TypeOK, RP!TypeOK
<1>3. R!Init <=> RP!Init
  BY SameTables DEF R!Init, RP!Init
<1> QED
  BY <1>2, <1>3

LEMMA SizeOfTuples == Cardinality(1..1) \in Nat /\ Cardinality(1..2) \in Nat
<1>1. 1 \in Int /\ 2 \in Int
  OBVIOUS
<1>2. IsFiniteSet(1..1) /\ IsFiniteSet(1..2)
  BY <1>1, FS_Interval, Zenon
<1> QED
  BY <1>2, FS_CardinalityType, Zenon

\* Replies are added, with these stages, to this request.
Told(seq, stages) ==
  /\ feedback \subseteq feedback' /\ feedback' \subseteq Reply
  /\ \A r \in feedback' \ feedback : r.seq = seq /\ r.stage \in stages

LEMMA SendsEffect ==
  ASSUME feedback \subseteq Reply, lastTx \in 0..LastTx, NEW s \in Seqs
  PROVE  /\ \A a \in Stages : Sends(s, <<a>>) => Told(s, {a}) /\ lastTx' \in 0..LastTx
         /\ \A a, b \in Stages :
              Sends(s, <<a, b>>) => Told(s, {a, b}) /\ lastTx' \in 0..LastTx
<1>0. LastTx \in Nat /\ lastTx \in Nat
  BY Constants
<1>1. ASSUME NEW a \in Stages, Sends(s, <<a>>) PROVE Told(s, {a}) /\ lastTx' \in 0..LastTx
  <2> DEFINE tell == <<a>>
             new == {[number |-> lastTx + i, seq |-> s, stage |-> tell[i]] : i \in DOMAIN tell}
  <2>1. DOMAIN tell = 1..1 /\ tell[1] = a
    OBVIOUS
  <2>2. Cardinality(DOMAIN tell) \in Nat
    BY <2>1, SizeOfTuples
  <2>3. /\ feedback' = feedback \cup new
        /\ lastTx + Cardinality(DOMAIN tell) <= LastTx
        /\ lastTx' = lastTx + Cardinality(DOMAIN tell)
    BY <1>1 DEF Sends
  <2>4. \A i \in DOMAIN tell : tell[i] = a /\ lastTx + i \in Nat
    BY <1>0, <2>1
  <2>5. \A r \in new : r.seq = s /\ r.stage \in {a} /\ r \in Reply
    BY <2>4 DEF Reply
  <2> HIDE DEF new, tell
  <2> QED
    BY <1>0, <2>2, <2>3, <2>5 DEF Told
<1>2. ASSUME NEW a \in Stages, NEW b \in Stages, Sends(s, <<a, b>>)
      PROVE  Told(s, {a, b}) /\ lastTx' \in 0..LastTx
  <2> DEFINE tell == <<a, b>>
             new == {[number |-> lastTx + i, seq |-> s, stage |-> tell[i]] : i \in DOMAIN tell}
  <2>1. DOMAIN tell = 1..2 /\ tell[1] = a /\ tell[2] = b
    OBVIOUS
  <2>2. Cardinality(DOMAIN tell) \in Nat
    BY <2>1, SizeOfTuples
  <2>3. /\ feedback' = feedback \cup new
        /\ lastTx + Cardinality(DOMAIN tell) <= LastTx
        /\ lastTx' = lastTx + Cardinality(DOMAIN tell)
    BY <1>2 DEF Sends
  <2>4. \A i \in DOMAIN tell : tell[i] \in {a, b} /\ lastTx + i \in Nat
    <3>1. \A i \in DOMAIN tell : i = 1 \/ i = 2
      BY <2>1
    <3> QED
      BY <1>0, <2>1, <3>1
  <2>5. \A r \in new : r.seq = s /\ r.stage \in {a, b} /\ r \in Reply
    BY <2>4 DEF Reply, Stages
  <2> HIDE DEF new, tell
  <2> QED
    BY <1>0, <2>2, <2>3, <2>5 DEF Told
<1> QED
  BY <1>1, <1>2

-----------------------------------------------------------------------------
(* The receiver: its steps.                                                *)

\* A request is admitted and handed on.
Admission(q) ==
  /\ busy = Absent /\ busy' = [seq |-> q.seq, effected |-> FALSE]
  /\ Admits1(q.seq, q.content)
  /\ \/ q.content \notin Openings /\ Serves(q.seq, q.content)
     \/ q.content \in Openings /\ Starts
  /\ ReceiverOnly /\ UNCHANGED <<feedback, lastTx, applied>>

\* The request at work is answered, each stage in its own case only.
Answer(stages) ==
  /\ busy # Absent /\ busy' = Absent
  /\ Answers1(busy.seq)
  /\ Told(busy.seq, stages) /\ "refused" \notin stages
  /\ "opened" \in stages => busy.seq = 1
  /\ "status" \in stages => records[Key(busy.seq)].digest \in Heartbeats
  /\ "applied" \in stages => busy.effected
  /\ lastTx' \in 0..LastTx
  /\ ReceiverOnly /\ UNCHANGED applied

\* What has expired is dropped, and a request may be told it is refused.
Maintenance ==
  /\ busy = Absent /\ busy' = Absent
  /\ Drops /\ UNCHANGED <<now, nextId, closed, admissions>>
  /\ \/ UNCHANGED <<feedback, lastTx>>
     \/ /\ lastTx' \in 0..LastTx
        /\ \E q \in requests : RefuseRequest(q) /\ Told(q.seq, {"refused"})
  /\ ReceiverOnly /\ UNCHANGED applied

\* The request at work is left, or its effect is there.
Working ==
  /\ busy # Absent /\ (ApplyInput \/ Escape)
  /\ ReceiverOnly /\ UNCHANGED <<now, feedback, lastTx>> /\ UNCHANGED registryVars

LEMMA AdmissionStep ==
  ASSUME GatewayInv, NEW q \in requests, AcceptOpening(q) \/ Admit(q)
  PROVE  Admission(q)
<1>0. q.seq \in Seqs /\ q.content \in Openings \cup Stimuli /\ RP!RegistryInv
  BY DEF GatewayInv, SourceTypeOK, Request
<1>1. CASE AcceptOpening(q)
  <2>1. q.seq = 1 /\ q.content \in Openings
    BY <1>1 DEF AcceptOpening, GatewayInv, RequestInv
  <2>2. Admits1(1, q.content) /\ Starts
    BY <1>0, <1>1, <2>1, OpenEffect DEF AcceptOpening
  <2> QED
    BY <1>1, <2>1, <2>2 DEF AcceptOpening, Admission, Idle
<1>2. CASE Admit(q)
  <2>1. Admits1(q.seq, q.content) /\ Serves(q.seq, q.content)
    BY <1>0, <1>2, AcceptEffect DEF Admit
  <2> QED
    BY <1>2, <2>1 DEF Admit, Admission, Idle
<1> QED
  BY <1>1, <1>2

LEMMA AnswerStep ==
  ASSUME GatewayInv, AnswerOpening \/ AnswerHeartbeat \/ CompleteInput \/ FailRequest
  PROVE  \E stages \in SUBSET Stages : Answer(stages)
<1>0. /\ feedback \subseteq Reply /\ lastTx \in 0..LastTx /\ RP!TypeOK
      /\ busy # Absent => busy.seq \in Seqs
  BY DEF GatewayInv, SourceTypeOK, GateTypes, RP!RegistryInv
<1>1. CASE AnswerOpening
  <2>1. busy # Absent /\ busy.seq = 1 /\ busy' = Absent
    <3>1. busy = [seq |-> 1, effected |-> FALSE]
      BY <1>1 DEF AnswerOpening, AtOpening
    <3>2. busy \in [seq : Seqs, effected : BOOLEAN]
      BY <3>1, KeyFacts
    <3> QED
      BY <1>1, <3>1, <3>2, MissingAssumption DEF AnswerOpening
  <2>2. Answers1(1)
    BY <1>0, <1>1, KeyFacts, AnswerEffect DEF AnswerOpening
  <2>3. Told(1, {"opened"}) /\ lastTx' \in 0..LastTx
    BY <1>0, <1>1, KeyFacts, SendsEffect DEF AnswerOpening, Stages
  <2>4. Answer({"opened"})
    BY <1>1, <2>1, <2>2, <2>3 DEF Answer, AnswerOpening
  <2> QED
    BY <2>4 DEF Stages
<1>2. CASE AnswerHeartbeat
  <2>1. busy # Absent /\ busy.seq \in Seqs /\ busy' = Absent
    BY <1>0, <1>2 DEF AnswerHeartbeat, AtService, Idle
  <2>2. Answers1(busy.seq)
    BY <1>0, <1>2, <2>1, AnswerEffect DEF AnswerHeartbeat
  <2>3. Told(busy.seq, {"status"}) /\ lastTx' \in 0..LastTx
    BY <1>0, <1>2, <2>1, SendsEffect DEF AnswerHeartbeat, Stages
  <2>4. Answer({"status"})
    BY <1>2, <2>1, <2>2, <2>3 DEF Answer, AnswerHeartbeat, Content
  <2> QED
    BY <2>4 DEF Stages
<1>3. CASE CompleteInput
  <2>1. busy # Absent /\ busy.seq \in Seqs /\ busy' = Absent /\ busy.effected
    BY <1>0, <1>3 DEF CompleteInput, AtService, Idle, Completable
  <2>2. Answers1(busy.seq)
    BY <1>0, <1>3, <2>1, AnswerEffect DEF CompleteInput
  <2>3. Told(busy.seq, {"received", "applied"}) /\ lastTx' \in 0..LastTx
    BY <1>0, <1>3, <2>1, SendsEffect DEF CompleteInput, Stages
  <2>4. Answer({"received", "applied"})
    BY <1>3, <2>1, <2>2, <2>3 DEF Answer, CompleteInput
  <2> QED
    BY <2>4 DEF Stages
<1>4. CASE FailRequest
  <2>1. busy # Absent /\ busy.seq \in Seqs /\ busy' = Absent
    BY <1>0, <1>4 DEF FailRequest, AtService, Idle
  <2>2. Answers1(busy.seq)
    BY <1>0, <1>4, <2>1, AnswerEffect DEF FailRequest
  <2>3. Told(busy.seq, {"received", "failed"}) /\ lastTx' \in 0..LastTx
    BY <1>0, <1>4, <2>1, SendsEffect DEF FailRequest, Stages
  <2>4. Answer({"received", "failed"})
    BY <1>4, <2>1, <2>2, <2>3 DEF Answer, FailRequest
  <2> QED
    BY <2>4 DEF Stages
<1> QED
  BY <1>1, <1>2, <1>3, <1>4

LEMMA MaintenanceStep ==
  ASSUME GatewayInv, Maintain \/ \E q \in requests : RefuseRequest(q)
  PROVE  Maintenance
<1>0. feedback \subseteq Reply /\ lastTx \in 0..LastTx /\ RP!TypeOK
  BY DEF GatewayInv, SourceTypeOK, GateTypes, RP!RegistryInv
<1>1. CASE Maintain
  <2>1. Drops /\ UNCHANGED <<now, nextId, closed, admissions>>
    BY <1>0, <1>1, RefuseEffect DEF Maintain
  <2> QED
    BY <1>1, <2>1 DEF Maintain, Maintenance, Idle, gatewayVars
<1>2. ASSUME NEW q \in requests, RefuseRequest(q) PROVE Maintenance
  <2>1. q.seq \in Seqs
    BY DEF GatewayInv, SourceTypeOK, Request
  <2>2. Drops /\ UNCHANGED <<now, nextId, closed, admissions>>
    BY <1>0, <1>2, RefuseEffect DEF RefuseRequest
  <2>3. Sends(q.seq, <<"refused">>) /\ "refused" \in Stages
    BY <1>2 DEF RefuseRequest, Stages
  <2>4. Told(q.seq, {"refused"}) /\ lastTx' \in 0..LastTx
    BY <1>0, <2>1, <2>3, SendsEffect
  <2> QED
    BY <1>2, <2>2, <2>4 DEF RefuseRequest, Maintenance, Idle
<1> QED
  BY <1>1, <1>2

\* Every step is of the source, of the receiver, or of time.
LEMMA Moves ==
  ASSUME GatewayInv, [Next]_vars
  PROVE  \/ Source \/ Time \/ UNCHANGED vars
         \/ \E q \in requests : Admission(q)
         \/ \E stages \in SUBSET Stages : Answer(stages)
         \/ Maintenance \/ Working
<1>1. CASE ApplyInput \/ Escape
  BY <1>1 DEF ApplyInput, Escape, Working, AtService, Idle
<1> QED
  BY <1>1, AdmissionStep, AnswerStep, MaintenanceStep DEF Next

-----------------------------------------------------------------------------
(* The source: what it leaves to the receiver.                             *)

\* What was requested stays requested; a request that was sent keeps its
\* content and the time of its first packet; an end is open or a reply's.
SourceLeaves ==
  /\ requests \subseteq requests'
  /\ \A q \in requests' \ requests :
       q.content \in Openings \/ ended'[q.seq] \in {"none", "open"}
  /\ \A q \in requests :
       pending'[q.seq] # Absent =>
         /\ pending[q.seq] # Absent
         /\ pending'[q.seq].content = pending[q.seq].content
         /\ pending'[q.seq].started = pending[q.seq].started
  /\ \A s \in Seqs :
       \/ ended'[s] \in {ended[s], "open"}
       \/ \E r \in feedback : Settles(r) /\ r.seq = s /\ ended'[s] = EndOf(r.stage)

\* A request that was sent and is in flight.
LEMMA SentFacts ==
  ASSUME SourceTypeOK, RequestInv, FlightInv, NEW q \in requests, pending[q.seq] # Absent
  PROVE  /\ q.seq \in Seqs /\ q.seq \in Flying /\ q.content = pending[q.seq].content
         /\ pending[q.seq].sentOnce /\ pending[q.seq].content \in Stimuli
         /\ pending[q.seq].started \in Nat /\ pending[q.seq].started <= now
         /\ Validity[pending[q.seq].content] \in Nat
<1>1. q.seq \in Seqs
  BY DEF SourceTypeOK, Request
<1>2. q.seq \in Flying /\ pending[q.seq].content \in Stimuli
      /\ pending[q.seq].started \in Nat \cup {Absent}
  BY <1>1, FlightFacts
<1>3. pending[q.seq].sentOnce /\ q.content = pending[q.seq].content
  BY DEF RequestInv
<1>4. pending[q.seq].started # Absent /\ pending[q.seq].started <= now
  BY <1>2, <1>3 DEF FlightInv, Counted
<1> QED
  BY <1>1, <1>2, <1>3, <1>4, Constants

LEMMA SourceMoves ==
  ASSUME SourceTypeOK, RequestInv, FlightInv, SourceStep
  PROVE  SourceLeaves
<1>0. /\ \A q \in requests : q.seq \in Seqs /\ q.seq < source.next /\ q.seq \in Nat
      /\ \A r \in feedback : r.seq \in Seqs
      /\ source.next \in Nat
  BY KeyFacts DEF SourceTypeOK, Request, Reply, RequestInv
<1>1. CASE UNCHANGED <<pending, ended, requests>>
  BY <1>1 DEF SourceLeaves
<1>2. ASSUME NEW c \in Openings, OpenSession(c) PROVE SourceLeaves
  BY <1>2 DEF OpenSession, SourceLeaves
<1>3. ASSUME NEW set \in SUBSET Flying, Abandons(set) PROVE SourceLeaves
  <2>1. \A s \in Seqs : /\ pending'[s] \in {pending[s], Absent}
                        /\ ended'[s] \in {ended[s], "open"}
    BY <1>3 DEF Abandons, Finished
  <2> QED
    BY <1>0, <1>3, <2>1 DEF SourceLeaves, Abandons
<1>4. ASSUME NEW r \in feedback, Settles(r) PROVE SourceLeaves
  <2>1. \A s \in Seqs : /\ pending'[s] \in {pending[s], Absent}
                        /\ s # r.seq => ended'[s] = ended[s]
                        /\ s = r.seq => ended'[s] = EndOf(r.stage)
    BY <1>4 DEF Settles, Finished
  <2>2. requests' = requests
    BY <1>4 DEF Settles
  <2> QED
    BY <1>0, <1>4, <2>1, <2>2 DEF SourceLeaves
<1>5. ASSUME NEW s \in Seqs, NEW n, Stay(s, n), requests \subseteq requests',
             \A q \in requests' \ requests : q.seq \in Seqs /\ ended[q.seq] = "none",
             \A q \in requests : q.seq = s =>
               /\ pending[s] # Absent /\ n.content = pending[s].content
               /\ n.started = pending[s].started
      PROVE  SourceLeaves
  <2>1. \A t \in Seqs : pending'[t] = IF t = s THEN n ELSE pending[t]
    BY <1>5 DEF Stay, SourceTypeOK
  <2>2. ended' = ended
    BY <1>5 DEF Stay
  <2> QED
    BY <1>0, <1>5, <2>1, <2>2 DEF SourceLeaves
<1>6. ASSUME NEW r \in feedback, Counts(r) PROVE SourceLeaves
  <2> DEFINE p == pending[r.seq]
             n == Recorded([p EXCEPT !.replies = @ + 1], 1)
  <2>1. r.seq \in Seqs /\ p # Absent /\ p \in InFlight
    BY <1>0, <1>6, FlightFacts DEF Counts, Awaited
  <2>2. n.content = p.content /\ n.started = p.started
    BY <2>1 DEF Recorded, InFlight
  <2>3. Stay(r.seq, n) /\ requests' = requests
    BY <1>6 DEF Counts
  <2> HIDE DEF n
  <2> QED
    BY <1>5, <2>1, <2>2, <2>3
<1>7. ASSUME NEW c \in Stimuli, Submitted(c), UNCHANGED requests PROVE SourceLeaves
  <2>1. PICK n : Stay(source.next, n)
    BY <1>7 DEF Submitted
  <2>2. source.next \in Seqs
    BY <1>7, Constants DEF Submitted, Submittable, SourceTypeOK, Seqs
  <2> QED
    BY <1>0, <1>5, <1>7, <2>1, <2>2
<1>8. ASSUME NEW s \in Seqs, Sends1(s) \/ SendsLast(s) PROVE SourceLeaves
  <2> DEFINE p == pending[s]
             q0 == [seq |-> s, content |-> p.content]
  <2>1. p # Absent /\ Sending(s) /\ SentWith(s)
    BY <1>8 DEF Sends1, SendsLast, Sending, Ready
  <2>2. requests \subseteq requests' /\ requests' \subseteq requests \cup {q0} /\ q0.seq = s
    BY <2>1 DEF SentWith
  <2>3. ended[s] = "none"
    BY <2>1 DEF RequestInv
  <2>4. CASE Sends1(s)
    <3>1. ASSUME NEW q \in requests, q.seq = s
          PROVE  /\ PacketSent(p).content = p.content
                 /\ PacketSent(p).started = p.started
      <4>1. p.started \in Nat
        BY <2>1, <3>1, SentFacts
      <4> QED
        BY <2>1, <4>1, PacketFacts, Constants
    <3> QED
      BY <1>5, <2>1, <2>2, <2>3, <2>4, <3>1 DEF Sends1
  <2>5. CASE SendsLast(s)
    <3>1. \A t \in Seqs : /\ pending'[t] \in {pending[t], Absent}
                          /\ ended'[t] \in {ended[t], "open"}
                          /\ t = s => ended'[t] = "open"
      BY <2>5 DEF SendsLast, Finished
    <3> QED
      BY <1>0, <2>2, <3>1 DEF SourceLeaves
  <2> QED
    BY <1>8, <2>4, <2>5
<1>9. Shape
  BY SourceShape
<1> QED
  BY <1>1, <1>2, <1>3, <1>4, <1>6, <1>7, <1>8, <1>9 DEF Shape

-----------------------------------------------------------------------------
(* Every step keeps the types, and the receiver's state true.              *)

LEMMA GatewayFacts ==
  ASSUME GatewayInv
  PROVE  /\ RP!TypeOK /\ (busy # Absent => busy.seq \in Seqs /\ busy.effected \in BOOLEAN)
         /\ sessions[1] # Absent => nextId # 1
         /\ \A s \in Seqs : admissions[Key(s)] # 0 => nextId # 1
         /\ \A s \in Seqs : records[Key(s)] # Absent =>
              /\ admissions[Key(s)] # 0 /\ \E q \in requests : q.seq = s
              /\ records[Key(s)].pendingUntil # 0 => records[Key(s)].answer # "none"
         /\ \A q \in requests : q.seq \in Seqs
<1>1. RP!TypeOK /\ RP!OnceInv /\ RP!FeedbackInv
  BY DEF GatewayInv, RP!RegistryInv
<1>2. busy # Absent => busy.seq \in Seqs /\ busy.effected \in BOOLEAN
  BY DEF GatewayInv, GateTypes
<1>3. sessions[1] # Absent => nextId # 1
  <2>1. 1 \in RP!Ids
    BY KeyFacts
  <2> QED
    BY <1>1, <2>1 DEF RP!OnceInv
<1>4. \A s \in Seqs : admissions[Key(s)] # 0 => nextId # 1
  <2>1. \A k \in RP!Keys : admissions[k] # 0 => k[1] < nextId
    BY <1>1 DEF RP!OnceInv
  <2>2. ASSUME NEW s \in Seqs, admissions[Key(s)] # 0 PROVE nextId # 1
    <3>1. 1 < nextId
      BY <2>1, <2>2, KeyFacts
    <3> QED
      BY <3>1
  <2> QED
    BY <2>2
<1>5. ASSUME NEW s \in Seqs, records[Key(s)] # Absent
      PROVE  /\ admissions[Key(s)] # 0 /\ \E q \in requests : q.seq = s
             /\ records[Key(s)].pendingUntil # 0 => records[Key(s)].answer # "none"
  <2>1. /\ admissions[Key(s)] # 0
        /\ records[Key(s)].pendingUntil # 0 => records[Key(s)].answer = "received"
    BY <1>1, <1>5, KeyFacts DEF RP!FeedbackInv
  <2>2. [seq |-> s, content |-> records[Key(s)].digest] \in requests
    BY <1>5 DEF GatewayInv, AdmittedInv
  <2> QED
    BY <2>1, <2>2
<1>6. \A q \in requests : q.seq \in Seqs
  BY DEF GatewayInv, SourceTypeOK, Request
<1> QED
  BY <1>1, <1>2, <1>3, <1>4, <1>5, <1>6

LEMMA TypesStep ==
  ASSUME GatewayInv, [Next]_vars
  PROVE  SourceTypeOK' /\ RP!RegistryInv' /\ GateTypes'
<1>0. SourceTypeOK /\ RP!RegistryInv /\ GateTypes /\ FlightInv
  BY DEF GatewayInv
<1>1. RP!RegistryInv'
  <2>1. requests \subseteq Request /\ (busy # Absent => busy.seq \in Seqs)
    BY <1>0, GatewayFacts DEF SourceTypeOK
  <2>2. [RP!Next]_(RP!vars)
    BY <2>1, RegistryMoves
  <2> QED
    BY <1>0, <2>2, RegistryAssumed, RP!RegistryInvStep
<1>2. CASE Source
  <2>1. SourceTypeOK'
    BY <1>0, <1>2, SourceTypeStep DEF Source
  <2> QED
    BY <1>0, <1>1, <1>2, <2>1 DEF Source, gatewayVars, GateTypes
<1>3. CASE Time
  <2>1. now' \in Nat
    BY <1>0, <1>3 DEF Time, Tick, SourceTypeOK
  <2> QED
    BY <1>0, <1>1, <1>3, <2>1
       DEF Time, Tick, gatewayVars, GateTypes, SourceTypeOK, sourceVars
<1>4. CASE UNCHANGED vars
  BY <1>0, <1>1, <1>4 DEF vars, gatewayVars, GateTypes, SourceTypeOK, sourceVars
<1>5. ASSUME ReceiverOnly, now' = now, feedback' \subseteq Reply PROVE SourceTypeOK'
  BY <1>0, <1>5 DEF ReceiverOnly, SourceTypeOK, sourceVars
<1>6. ASSUME NEW q \in requests, Admission(q) PROVE SourceTypeOK' /\ GateTypes'
  <2>1. SourceTypeOK'
    BY <1>0, <1>5, <1>6 DEF Admission, Admits1, SourceTypeOK
  <2>2. q.seq \in Seqs
    BY GatewayFacts
  <2> QED
    BY <1>0, <1>6, <2>1, <2>2 DEF Admission, GateTypes
<1>7. ASSUME NEW stages, Answer(stages) PROVE SourceTypeOK' /\ GateTypes'
  <2>1. SourceTypeOK'
    BY <1>5, <1>7 DEF Answer, Answers1, Told
  <2> QED
    BY <1>0, <1>7, <2>1 DEF Answer, GateTypes
<1>8. CASE Maintenance
  <2>1. SourceTypeOK'
    BY <1>0, <1>5, <1>8 DEF Maintenance, Told, SourceTypeOK
  <2> QED
    BY <1>0, <1>1, <1>8, <2>1 DEF Maintenance, GateTypes
<1>9. CASE Working
  <2>1. SourceTypeOK'
    BY <1>0, <1>5, <1>9 DEF Working, SourceTypeOK
  <2>2. GateTypes'
    <3>1. CASE ApplyInput
      <4>1. busy \in [seq : Seqs, effected : BOOLEAN]
        BY <1>0, <1>9 DEF Working, GateTypes
      <4>2. busy' \in [seq : Seqs, effected : BOOLEAN]
        BY <3>1, <4>1 DEF ApplyInput
      <4>3. applied' \in [Seqs -> Nat]
        BY <1>0, <3>1, <4>1 DEF ApplyInput, GateTypes
      <4> QED
        BY <1>0, <3>1, <4>2, <4>3 DEF ApplyInput, GateTypes
    <3>2. CASE Escape
      BY <1>0, <3>2 DEF Escape, GateTypes
    <3> QED
      BY <1>9, <3>1, <3>2 DEF Working
  <2> QED
    BY <1>1, <2>1, <2>2
<1> QED
  BY <1>1, <1>2, <1>3, <1>4, <1>6, <1>7, <1>8, <1>9, Moves

\* What a request at work leaves of itself when it is left, or takes effect.
LEMMA WorkingFacts ==
  ASSUME GatewayInv, Working
  PROVE  /\ busy # Absent /\ busy.seq \in Seqs
         /\ \/ /\ ~busy.effected /\ busy' # Absent /\ busy'.seq = busy.seq /\ busy'.effected
               /\ busy.seq # 1 /\ lastTx + 2 <= LastTx
               /\ applied'[busy.seq] = 1
               /\ \A s \in Seqs : s # busy.seq => applied'[s] = applied[s]
            \/ /\ busy' = Absent /\ applied' = applied
               /\ \/ sessions[1] = Absent \/ now >= sessions[1].deadline
                  \/ now >= R!KeptUntil(records[Key(busy.seq)])
                  \/ lastTx + 2 > LastTx
<1>0. busy # Absent /\ busy.seq \in Seqs /\ busy \in [seq : Seqs, effected : BOOLEAN]
      /\ applied \in [Seqs -> Nat] /\ AdmittedInv
  BY DEF Working, GatewayInv, GateTypes
<1>1. CASE ApplyInput
  <2>1. busy.effected = FALSE /\ ~AtOpening
    BY <1>0, <1>1 DEF ApplyInput, AtService
  <2>2. busy' = [busy EXCEPT !.effected = TRUE] /\ applied' = [applied EXCEPT ![busy.seq] = @ + 1]
        /\ lastTx + 2 <= LastTx
    BY <1>1 DEF ApplyInput
  <2>3. busy' \in [seq : Seqs, effected : BOOLEAN] /\ busy'.seq = busy.seq /\ busy'.effected
    BY <1>0, <2>2
  <2>4. busy' # Absent
    BY <2>3, MissingAssumption
  <2>5. busy.seq # 1
    <3> SUFFICES ASSUME busy.seq = 1 PROVE FALSE
      OBVIOUS
    <3>1. busy = [seq |-> 1, effected |-> FALSE]
      BY <1>0, <2>1
    <3> QED
      BY <2>1, <3>1 DEF AtOpening
  <2>6. applied[busy.seq] = 0
    BY <1>0, <2>1 DEF AdmittedInv, At
  <2> QED
    BY <1>0, <2>1, <2>2, <2>3, <2>4, <2>5, <2>6
<1>2. CASE Escape
  <2>1. busy' = Absent /\ applied' = applied
        /\ (~Observed \/ lastTx + 2 > LastTx)
    BY <1>2 DEF Escape
  <2>2. records[Key(busy.seq)] # Absent
    BY <1>0 DEF AdmittedInv
  <2>3. ~Observed => \/ sessions[1] = Absent \/ now >= sessions[1].deadline
                     \/ now >= R!KeptUntil(records[Key(busy.seq)])
    BY <1>0, <2>2, GatewayFacts, LiveFacts DEF Observed
  <2> QED
    BY <1>0, <2>1, <2>3
<1> QED
  BY <1>1, <1>2 DEF Working

LEMMA AdmittedStep ==
  ASSUME GatewayInv, [Next]_vars
  PROVE  AdmittedInv'
<1> USE DEF AdmittedInv, At
<1>0. /\ AdmittedInv /\ applied \in [Seqs -> Nat] /\ RP!TypeOK
      /\ \A q \in requests : q.seq \in Seqs /\ q = [seq |-> q.seq, content |-> q.content]
  BY GatewayFacts DEF GatewayInv, GateTypes, SourceTypeOK, Request
<1>1. CASE Source
  <2>1. requests \subseteq requests'
    BY <1>1, SourceMoves DEF Source, GatewayInv, SourceLeaves
  <2> QED
    BY <1>0, <1>1, <2>1 DEF Source, registryVars, gatewayVars
<1>2. CASE Time
  BY <1>0, <1>2 DEF Time, Tick, registryVars, gatewayVars
<1>3. CASE UNCHANGED vars
  BY <1>0, <1>3 DEF vars, registryVars, gatewayVars
<1>4. ASSUME NEW q \in requests, Admission(q) PROVE AdmittedInv'
  <2>1. q.seq \in Seqs /\ Admits1(q.seq, q.content) /\ requests' = requests /\ applied' = applied
        /\ busy = Absent /\ busy' = [seq |-> q.seq, effected |-> FALSE]
    BY <1>0, <1>4 DEF Admission, ReceiverOnly
  <2>2. busy' # Absent /\ busy'.seq = q.seq /\ ~busy'.effected
    <3>1. busy' \in [seq : Seqs, effected : BOOLEAN]
      BY <2>1
    <3> QED
      BY <2>1, <3>1, MissingAssumption
  <2>3. \A s \in Seqs : s # q.seq /\ records'[Key(s)] # Absent => records'[Key(s)] = records[Key(s)]
    BY <2>1 DEF Admits1, RecordForgets
  <2>4. [seq |-> q.seq, content |-> q.content] \in requests
    BY <1>0
  <2>5. applied[q.seq] = 0
    BY <1>0, <2>1 DEF Admits1
  <2>6. ~closed'
    BY <1>0, <2>1 DEF Admits1
  <2>7. \A s \in Seqs : admissions'[Key(s)] # 0 => \E r \in requests' : r.seq = s
    BY <1>0, <2>1, <2>4 DEF Admits1
  <2>8. \A s \in Seqs : records'[Key(s)] # Absent =>
          [seq |-> s, content |-> records'[Key(s)].digest] \in requests'
    <3>1. records'[Key(q.seq)].digest = q.content
      BY <2>1 DEF Admits1
    <3> QED
      BY <1>0, <2>1, <2>3, <2>4, <3>1
  <2>9. records'[Key(q.seq)] # Absent /\ records'[Key(q.seq)].answer = "none"
    BY <2>1 DEF Admits1
  <2>10. \A s \in Seqs : applied'[s] # 0 => admissions'[Key(s)] # 0
    BY <1>0, <2>1, <2>5 DEF Admits1
  <2> QED
    BY <1>0, <2>1, <2>2, <2>5, <2>6, <2>7, <2>8, <2>9, <2>10
<1>5. ASSUME busy' = Absent, requests' = requests, applied' = applied,
             closed' = closed, admissions' = admissions,
             \A s \in Seqs : records'[Key(s)] # Absent =>
               records[Key(s)] # Absent /\ records'[Key(s)].digest = records[Key(s)].digest
      PROVE  AdmittedInv'
  BY <1>0, <1>5
<1>6. ASSUME NEW stages, Answer(stages) PROVE AdmittedInv'
  BY <1>5, <1>6 DEF Answer, Answers1, ReceiverOnly, RecordForgets
<1>7. CASE Maintenance
  BY <1>5, <1>7 DEF Maintenance, Drops, ReceiverOnly, RecordForgets
<1>8. CASE Working
  <2>1. UNCHANGED <<closed, records, admissions, requests, lastTx>>
    BY <1>8 DEF Working, ReceiverOnly, registryVars
  <2>2. busy # Absent /\ busy.seq \in Seqs
    BY <1>8, WorkingFacts
  <2>3. CASE /\ ~busy.effected /\ busy' # Absent /\ busy'.seq = busy.seq /\ busy'.effected
             /\ busy.seq # 1 /\ lastTx + 2 <= LastTx
             /\ applied'[busy.seq] = 1
             /\ \A s \in Seqs : s # busy.seq => applied'[s] = applied[s]
    <3>1. records[Key(busy.seq)] # Absent /\ admissions[Key(busy.seq)] # 0
      BY <1>0, <2>2, GatewayFacts
    <3>2. \A s \in Seqs : applied'[s] <= 1 /\ (applied'[s] # 0 => admissions[Key(s)] # 0)
      BY <1>0, <2>2, <2>3, <3>1
    <3>3. \A s \in Seqs : busy'.seq = s => s = busy.seq
      BY <2>3
    <3> QED
      BY <1>0, <2>1, <2>2, <2>3, <3>2, <3>3
  <2>4. CASE busy' = Absent /\ applied' = applied
    BY <1>0, <2>1, <2>4
  <2> QED
    BY <1>8, <2>3, <2>4, WorkingFacts
<1> QED
  BY <1>1, <1>2, <1>3, <1>4, <1>6, <1>7, <1>8, Moves

-----------------------------------------------------------------------------
(* The lease: what the source trusts, the receiver grants.                 *)

\* The time d is backed after the step.
Kept(d) == now' >= d \/ (sessions'[1] # Absent /\ sessions'[1].deadline >= d)

LEMMA LeaseKept ==
  ASSUME GatewayInv, [Next]_vars
  PROVE  /\ \A d \in Nat : Backed(d) => Kept(d)
         /\ sessions'[1] # Absent => sessions'[1].deadline <= now' + Lease
<1> USE DEF Backed, Kept
<1>0. /\ LeaseInv /\ now \in Nat /\ Lease \in Nat
      /\ sessions[1] # Absent => sessions[1].deadline \in Nat /\ nextId # 1
  BY GatewayFacts, TableFacts, Constants DEF GatewayInv
<1>1. sessions[1] # Absent => sessions[1].deadline <= now + Lease
  BY <1>0 DEF LeaseInv
<1>2. ASSUME sessions' = sessions, now' = now \/ now' = now + 1
      PROVE  /\ \A d \in Nat : Backed(d) => Kept(d)
             /\ sessions'[1] # Absent => sessions'[1].deadline <= now' + Lease
  BY <1>0, <1>1, <1>2
<1>3. ASSUME SessionForgets, now' = now
      PROVE  /\ \A d \in Nat : Backed(d) => Kept(d)
             /\ sessions'[1] # Absent => sessions'[1].deadline <= now' + Lease
  <2>1. CASE sessions'[1] = sessions[1]
    BY <1>0, <1>1, <1>3, <2>1
  <2>2. CASE sessions'[1] = Absent /\ now >= sessions[1].deadline
    BY <1>0, <1>3, <2>2
  <2> QED
    BY <1>3, <2>1, <2>2 DEF SessionForgets
<1>4. CASE Source \/ UNCHANGED vars
  BY <1>2, <1>4, SourceKeeps DEF Source, vars, registryVars
<1>5. CASE Time
  BY <1>2, <1>5 DEF Time, Tick, registryVars
<1>6. CASE Working
  BY <1>2, <1>6 DEF Working, registryVars
<1>7. ASSUME NEW stages, Answer(stages)
      PROVE  /\ \A d \in Nat : Backed(d) => Kept(d)
             /\ sessions'[1] # Absent => sessions'[1].deadline <= now' + Lease
  BY <1>3, <1>7 DEF Answer, Answers1
<1>8. CASE Maintenance
  BY <1>3, <1>8 DEF Maintenance, Drops
<1>9. ASSUME NEW q \in requests, Admission(q)
      PROVE  /\ \A d \in Nat : Backed(d) => Kept(d)
             /\ sessions'[1] # Absent => sessions'[1].deadline <= now' + Lease
  <2>1. sessions'[1] # Absent /\ now' = now
    BY <1>9 DEF Admission, Admits1
  <2>2. CASE Serves(q.seq, q.content)
    BY <1>0, <1>1, <2>1, <2>2 DEF Serves
  <2>3. CASE Starts
    BY <1>0, <2>1, <2>3 DEF Starts
  <2> QED
    BY <1>9, <2>2, <2>3 DEF Admission
<1> QED
  BY <1>4, <1>5, <1>6, <1>7, <1>8, <1>9, Moves

LEMMA LeaseStep ==
  ASSUME GatewayInv, [Next]_vars
  PROVE  LeaseInv'
<1>0. /\ SourceTypeOK /\ RequestInv /\ FlightInv /\ LeaseInv /\ ReplyInv
      /\ source.deadline \in Nat /\ source.opened \in Nat /\ now \in Nat /\ Lease \in Nat
      /\ source.opened <= now
  BY Constants DEF GatewayInv, SourceTypeOK, RequestInv
<1>1. /\ \A d \in Nat : Backed(d) => Kept(d)
      /\ sessions'[1] # Absent => sessions'[1].deadline <= now' + Lease
  BY LeaseKept
<1> DEFINE Live == source'.state = "LIVE" => Kept(source'.deadline)
           Begun == nextId' # 1 => source'.state # "NEW" /\ Kept(source'.opened + Lease)
           Beats == \A s \in Flying' :
                      records'[Key(s)] # Absent /\ pending'[s].content \in Heartbeats
                        => Kept(pending'[s].started + Lease)
<1>2. SUFFICES Live /\ Begun /\ Beats
  BY <1>1 DEF LeaseInv, Backed, Kept
<1>3. \A s \in Flying : s \in Seqs /\ pending[s] # Absent
  BY DEF Flying
<1>4. ASSUME NEW s \in Flying, NEW q \in requests, q.seq = s
      PROVE  pending[s].started \in Nat /\ pending[s].started + Lease \in Nat
             /\ pending[s].started <= now /\ q.content = pending[s].content
  BY <1>0, <1>3, <1>4, SentFacts
<1>5. \A s \in Flying : records[Key(s)] # Absent => \E q \in requests : q.seq = s
  BY <1>3, GatewayFacts
<1>6. CASE Source
  <2>1. SourceLeaves /\ GrantMoves
    BY <1>0, <1>6, SourceMoves, GrantStep DEF Source
  <2>2. UNCHANGED <<records, nextId, sessions>> /\ now' = now
    BY <1>6, SourceKeeps DEF Source, registryVars
  <2>3. \A d : Backed(d) => Kept(d)
    BY <2>2 DEF Backed, Kept
  <2>4. Live
    <3> SUFFICES ASSUME source'.state = "LIVE" PROVE Backed(source'.deadline)
      BY <2>3
    <3>1. CASE source.state = "LIVE" /\ source'.deadline = source.deadline
      BY <1>0, <3>1 DEF LeaseInv
    <3>2. ASSUME NEW r \in feedback, r.stage = "opened", source'.deadline = source.opened + Lease
          PROVE  Backed(source'.deadline)
      BY <1>0, <3>2 DEF ReplyInv, TrueReply, LeaseInv
    <3>3. ASSUME NEW r \in feedback, Awaited(r), r.stage = "status",
                 source'.deadline = pending[r.seq].started + Lease
          PROVE  Backed(source'.deadline)
      BY <1>0, <3>3 DEF ReplyInv, TrueReply, Awaited
    <3> QED
      BY <2>1, <3>1, <3>2, <3>3 DEF GrantMoves
  <2>5. Begun
    BY <1>0, <2>1, <2>2, <2>3 DEF GrantMoves, LeaseInv
  <2>6. Beats
    <3> SUFFICES ASSUME NEW s \in Flying', records'[Key(s)] # Absent,
                        pending'[s].content \in Heartbeats
                 PROVE  Backed(pending'[s].started + Lease)
      BY <2>3
    <3>1. s \in Seqs /\ pending'[s] # Absent /\ records[Key(s)] # Absent
      BY <2>2 DEF Flying
    <3>2. \E q \in requests : q.seq = s
      BY <3>1, GatewayFacts
    <3>3. /\ pending[s] # Absent /\ pending'[s].content = pending[s].content
          /\ pending'[s].started = pending[s].started
      BY <2>1, <3>1, <3>2 DEF SourceLeaves
    <3> QED
      BY <1>0, <3>1, <3>3 DEF LeaseInv, Flying
  <2> QED
    BY <2>4, <2>5, <2>6
<1>7. ASSUME UNCHANGED sourceVars,
             nextId' # 1 => nextId # 1,
             \A s \in Seqs : records'[Key(s)] # Absent => records[Key(s)] # Absent
      PROVE  Live /\ Begun /\ Beats
  <2>1. source' = source /\ pending' = pending /\ Flying' = Flying
    BY <1>7 DEF sourceVars, Flying
  <2>2. Live /\ Begun
    BY <1>0, <1>1, <1>7, <2>1 DEF LeaseInv
  <2>3. ASSUME NEW s \in Flying, records'[Key(s)] # Absent, pending[s].content \in Heartbeats
        PROVE  Kept(pending[s].started + Lease)
    BY <1>0, <1>1, <1>3, <1>4, <1>5, <1>7, <2>3 DEF LeaseInv
  <2> QED
    BY <2>1, <2>2, <2>3
<1>8. CASE Time \/ UNCHANGED vars \/ Working
  BY <1>7, <1>8 DEF Time, Tick, vars, Working, ReceiverOnly, registryVars
<1>9. ASSUME NEW stages, Answer(stages) PROVE Live /\ Begun /\ Beats
  BY <1>7, <1>9 DEF Answer, Answers1, ReceiverOnly, RecordForgets
<1>10. CASE Maintenance
  BY <1>7, <1>10 DEF Maintenance, Drops, ReceiverOnly, RecordForgets
<1>11. ASSUME NEW q \in requests, Admission(q) PROVE Live /\ Begun /\ Beats
  <2>1. /\ source' = source /\ pending' = pending /\ Flying' = Flying
        /\ Admits1(q.seq, q.content) /\ now' = now /\ sessions'[1] # Absent
        /\ Serves(q.seq, q.content) \/ (q.content \in Openings /\ Starts)
    BY <1>11 DEF Admission, Admits1, ReceiverOnly, sourceVars, Flying
  <2>2. Live
    BY <1>0, <1>1, <2>1 DEF LeaseInv
  <2>3. Begun
    <3>1. CASE Serves(q.seq, q.content)
      <4>1. source.opened + Lease \in Nat
        BY <1>0
      <4> QED
        BY <1>0, <1>1, <2>1, <3>1, <4>1 DEF LeaseInv, Serves
    <3>2. CASE q.content \in Openings /\ Starts
      <4>1. source.state # "NEW"
        BY <1>0, <3>2 DEF RequestInv
      <4>2. sessions'[1].deadline >= source.opened + Lease
        BY <1>0, <3>2 DEF Starts
      <4> QED
        BY <2>1, <4>1, <4>2 DEF Kept
    <3> QED
      BY <2>1, <3>1, <3>2
  <2>4. ASSUME NEW s \in Flying, records'[Key(s)] # Absent, pending[s].content \in Heartbeats
        PROVE  Kept(pending[s].started + Lease)
    <3>1. CASE s = q.seq
      <4>1. q.content \in Heartbeats /\ pending[s].started \in Nat /\ pending[s].started <= now
        BY <1>4, <2>4, <3>1
      <4>2. q.content \notin Openings
        BY <4>1, KindsAssumption DEF Stimuli
      <4>3. sessions'[1].deadline = now + Lease
        BY <2>1, <4>1, <4>2 DEF Serves
      <4> QED
        BY <1>0, <2>1, <4>1, <4>3 DEF Kept
    <3>2. CASE s # q.seq
      <4>1. records[Key(s)] # Absent
        BY <1>3, <2>1, <2>4, <3>2 DEF Admits1, RecordForgets
      <4>2. Backed(pending[s].started + Lease)
        BY <1>0, <2>4, <4>1 DEF LeaseInv
      <4> QED
        BY <1>1, <1>4, <1>5, <4>1, <4>2
    <3> QED
      BY <3>1, <3>2
  <2> QED
    BY <2>1, <2>2, <2>3, <2>4
<1> HIDE DEF Live, Begun, Beats
<1> QED
  BY <1>6, <1>7, <1>8, <1>9, <1>10, <1>11, Moves

-----------------------------------------------------------------------------
(* Replies stay true, and complete means applied.                          *)

\* What a step leaves as it is.
LEMMA Persists ==
  ASSUME GatewayInv, [Next]_vars
  PROVE  /\ requests \subseteq requests' /\ (nextId # 1 => nextId' # 1)
         /\ \A s \in Seqs : applied[s] = 1 => applied'[s] = 1
         /\ \A q \in requests :
              pending'[q.seq] # Absent =>
                /\ pending[q.seq] # Absent
                /\ pending'[q.seq].content = pending[q.seq].content
                /\ pending'[q.seq].started = pending[q.seq].started
         /\ now' \in Nat /\ now' >= now
<1>0. now \in Nat /\ SourceTypeOK /\ RequestInv /\ FlightInv
  BY DEF GatewayInv, SourceTypeOK
<1>1. CASE Source
  BY <1>0, <1>1, SourceMoves, SourceKeeps
     DEF Source, SourceLeaves, registryVars, gatewayVars
<1>2. CASE Time \/ UNCHANGED vars
  BY <1>0, <1>2 DEF Time, Tick, vars, registryVars, gatewayVars, sourceVars
<1>3. CASE Working
  <2>1. \A s \in Seqs : applied[s] = 1 => applied'[s] = 1
    BY <1>3, WorkingFacts
  <2> QED
    BY <1>0, <1>3, <2>1 DEF Working, ReceiverOnly, registryVars, sourceVars
<1>4. ASSUME NEW q \in requests, Admission(q)
      PROVE  UNCHANGED <<requests, applied, pending, now>> /\ (nextId # 1 => nextId' # 1)
  BY <1>4 DEF Admission, Admits1, Serves, Starts, ReceiverOnly, sourceVars
<1>5. ASSUME NEW stages, Answer(stages)
      PROVE  UNCHANGED <<requests, applied, pending, now, nextId>>
  BY <1>5 DEF Answer, Answers1, ReceiverOnly, sourceVars
<1>6. CASE Maintenance
  BY <1>0, <1>6 DEF Maintenance, ReceiverOnly, sourceVars
<1> QED
  BY <1>0, <1>1, <1>2, <1>3, <1>4, <1>5, <1>6, Moves

\* A reply is true after the step.
Truly(r) ==
  /\ r.stage = "opened" => r.seq = 1 /\ nextId' # 1
  /\ r.stage = "status" =>
       /\ \E q \in requests' : q.seq = r.seq /\ q.content \in Heartbeats
       /\ pending'[r.seq] # Absent => Kept(pending'[r.seq].started + Lease)
  /\ r.stage = "applied" => applied'[r.seq] = 1
  /\ \E q \in requests' : q.seq = r.seq

LEMMA OldReplies ==
  ASSUME GatewayInv, [Next]_vars, NEW r \in feedback
  PROVE  Truly(r)
<1>1. TrueReply(r) /\ r.seq \in Seqs /\ SourceTypeOK /\ RequestInv /\ FlightInv
  BY DEF GatewayInv, ReplyInv, SourceTypeOK, Reply
<1>2. PICK q \in requests : q.seq = r.seq
  BY <1>1 DEF TrueReply
<1>3. ASSUME pending'[r.seq] # Absent, r.stage = "status"
      PROVE  Kept(pending'[r.seq].started + Lease)
  <2>1. pending[r.seq] # Absent /\ pending'[r.seq].started = pending[r.seq].started
    BY <1>2, <1>3, Persists
  <2>2. pending[r.seq].started \in Nat
    BY <1>1, <1>2, <2>1, SentFacts
  <2>3. Backed(pending[r.seq].started + Lease)
    BY <1>1, <1>3, <2>1 DEF TrueReply
  <2>4. pending[r.seq].started + Lease \in Nat
    BY <2>2, Constants
  <2> QED
    BY <2>1, <2>3, <2>4, LeaseKept
<1> QED
  BY <1>1, <1>2, <1>3, Persists DEF TrueReply, Truly

LEMMA NewReplies ==
  ASSUME GatewayInv, [Next]_vars, NEW r \in feedback' \ feedback
  PROVE  Truly(r)
<1>0. /\ SourceTypeOK /\ RequestInv /\ FlightInv /\ LeaseInv /\ AdmittedInv
  BY DEF GatewayInv
<1>1. ASSUME NEW stages, Answer(stages) PROVE Truly(r)
  <2> DEFINE s == busy.seq
             q == [seq |-> s, content |-> records[Key(s)].digest]
  <2>1. /\ s \in Seqs /\ busy # Absent /\ records[Key(s)] # Absent /\ q \in requests
        /\ nextId # 1
    BY <1>0, <1>1, GatewayFacts DEF Answer, AdmittedInv
  <2>2. /\ r.seq = s /\ r.stage \in stages
        /\ pending' = pending /\ requests' = requests /\ applied' = applied /\ nextId' = nextId
    BY <1>1 DEF Answer, Answers1, Told, ReceiverOnly, sourceVars
  <2>3. r.stage = "opened" => r.seq = 1
    BY <1>1, <2>2 DEF Answer
  <2>4. r.stage = "applied" => applied[s] = 1
    BY <1>0, <1>1, <2>1, <2>2 DEF Answer, AdmittedInv, At
  <2>5. r.stage = "status" => q.content \in Heartbeats
    BY <1>1, <2>2 DEF Answer
  <2>6. ASSUME r.stage = "status", pending[s] # Absent PROVE Kept(pending[s].started + Lease)
    <3>1. s \in Flying /\ pending[s].content = q.content /\ pending[s].started \in Nat
      BY <1>0, <2>1, <2>6, SentFacts
    <3>2. Backed(pending[s].started + Lease)
      BY <1>0, <2>1, <2>5, <2>6, <3>1 DEF LeaseInv
    <3>3. pending[s].started + Lease \in Nat
      BY <3>1, Constants
    <3> QED
      BY <3>2, <3>3, LeaseKept
  <2>7. q.seq = s
    OBVIOUS
  <2> HIDE DEF q, s
  <2> QED
    BY <2>1, <2>2, <2>3, <2>4, <2>5, <2>6, <2>7 DEF Truly
<1>2. CASE Maintenance
  <2>1. PICK q \in requests : Told(q.seq, {"refused"})
    BY <1>2 DEF Maintenance
  <2>2. r.seq = q.seq /\ r.stage = "refused" /\ requests' = requests
    BY <1>2, <2>1 DEF Told, Maintenance, ReceiverOnly
  <2> QED
    BY <2>2 DEF Truly
<1>3. CASE Source
  BY <1>3, SourceKeeps DEF Source
<1>4. CASE Time \/ UNCHANGED vars \/ Working \/ \E q \in requests : Admission(q)
  BY <1>4 DEF Time, Tick, vars, Working, Admission
<1> QED
  BY <1>1, <1>2, <1>3, <1>4, Moves

LEMMA CompleteStep ==
  ASSUME GatewayInv, [Next]_vars
  PROVE  CompleteIsApplied'
<1>0. /\ SourceTypeOK /\ RequestInv /\ FlightInv /\ CompleteIsApplied
      /\ \A r \in feedback : TrueReply(r) /\ r.seq \in Seqs
      /\ \A q \in requests : q.seq \in Seqs
  BY DEF GatewayInv, ReplyInv, SourceTypeOK, Request, Reply
<1>1. CASE Source
  <2>1. SourceLeaves /\ applied' = applied
    BY <1>0, <1>1, SourceMoves DEF Source, gatewayVars
  <2>2. SUFFICES ASSUME NEW q \in requests', q.content \in Inputs, ended'[q.seq] = "complete"
                 PROVE  applied[q.seq] = 1
    BY <2>1 DEF CompleteIsApplied
  <2>3. q \in requests
    BY <2>1, <2>2, KindsAssumption DEF SourceLeaves, Stimuli
  <2>4. CASE ended'[q.seq] = ended[q.seq]
    BY <1>0, <2>2, <2>3, <2>4 DEF CompleteIsApplied
  <2>5. ASSUME NEW r \in feedback, Settles(r), r.seq = q.seq, EndOf(r.stage) = "complete"
        PROVE  applied[q.seq] = 1
    <3>1. pending[q.seq] # Absent /\ q.seq # 1
      BY <1>0, <2>5 DEF Settles, Awaited, RequestInv
    <3>2. r.stage \in Stages /\ r.stage # "received" /\ r.stage # "failed" /\ r.stage # "refused"
      BY <1>0, <2>5 DEF Settles, Terminal, EndOf, SourceTypeOK, Reply
    <3>3. r.stage # "opened"
      BY <1>0, <2>5, <3>1 DEF TrueReply
    <3>4. r.stage # "status"
      <4> SUFFICES ASSUME r.stage = "status" PROVE FALSE
        OBVIOUS
      <4>1. PICK h \in requests : h.seq = r.seq /\ h.content \in Heartbeats
        BY <1>0 DEF TrueReply
      <4>2. h = q
        BY <1>0, <2>3, <2>5, <3>1, <4>1 DEF RequestInv
      <4> QED
        BY <2>2, <4>1, <4>2, KindsAssumption
    <3>5. r.stage = "applied"
      BY <3>2, <3>3, <3>4 DEF Stages
    <3> QED
      BY <1>0, <2>5, <3>5 DEF TrueReply
  <2> QED
    BY <1>0, <2>1, <2>2, <2>3, <2>4, <2>5 DEF SourceLeaves
<1>2. CASE UNCHANGED <<requests, ended>>
  BY <1>0, <1>2, Persists DEF CompleteIsApplied
<1>3. CASE Time \/ UNCHANGED vars \/ Working \/ \E q \in requests : Admission(q)
  BY <1>2, <1>3 DEF Time, Tick, vars, Working, Admission, ReceiverOnly, sourceVars
<1>4. CASE Maintenance \/ \E stages \in SUBSET Stages : Answer(stages)
  BY <1>2, <1>4 DEF Maintenance, Answer, ReceiverOnly, sourceVars
<1> QED
  BY <1>1, <1>3, <1>4, Moves

LEMMA ReplyStep ==
  ASSUME GatewayInv, [Next]_vars
  PROVE  ReplyInv'
<1>1. \A r \in feedback' : Truly(r)
  BY OldReplies, NewReplies
<1>2. \A r \in feedback' : TrueReply(r)'
  BY <1>1 DEF Truly, TrueReply, Kept, Backed
<1> QED
  BY <1>2, CompleteStep DEF ReplyInv

-----------------------------------------------------------------------------
(* The source is sound.                                                    *)

LEMMA GatewayInit == Init => GatewayInv
<1> SUFFICES ASSUME Init PROVE GatewayInv
  OBVIOUS
<1>0. RP!Init /\ SourceInit /\ lastTx = 0 /\ busy = Absent /\ applied = [s \in Seqs |-> 0]
  BY SameTypes DEF Init
<1>1. RP!RegistryInv
  BY <1>0, RegistryAssumed, RP!RegistryInvInit
<1>2. LastSeq \in Nat \ {0} /\ LastTx \in Nat
  BY Constants
<1>3. SourceTypeOK
  <2>1. 2 \in 2..(LastSeq + 1)
    BY <1>2
  <2> QED
    BY <1>0, <2>1 DEF SourceInit, SourceTypeOK
<1>4. GateTypes
  BY <1>0, <1>2 DEF GateTypes
<1>5. /\ ~closed /\ sessions[1] = Absent /\ nextId = 1
      /\ \A s \in Seqs : admissions[Key(s)] = 0 /\ records[Key(s)] = Absent
  BY <1>0, KeyFacts DEF RP!Init
<1>6. Flying = {} /\ requests = {} /\ feedback = {}
  BY <1>0 DEF SourceInit, Flying
<1>7. RequestInv /\ FlightInv
  BY <1>0, <1>6
     DEF SourceInit, RequestInv, FlightInv, ReservationSuffices, FirstSendsInOrder
<1>8. AdmittedInv
  BY <1>0, <1>5 DEF AdmittedInv, At
<1>9. LeaseInv
  BY <1>0, <1>5, <1>6 DEF LeaseInv, SourceInit
<1>10. ReplyInv
  BY <1>6 DEF ReplyInv, CompleteIsApplied
<1> QED
  BY <1>1, <1>3, <1>4, <1>7, <1>8, <1>9, <1>10 DEF GatewayInv

LEMMA GatewayStep == GatewayInv /\ [Next]_vars => GatewayInv'
<1> SUFFICES ASSUME GatewayInv, [Next]_vars PROVE GatewayInv'
  OBVIOUS
<1>1. SourceTypeOK /\ RequestInv /\ FlightInv /\ now \in Nat /\ source.opened \in Nat
  BY DEF GatewayInv, SourceTypeOK
<1>2. CASE Source
  BY <1>1, <1>2, RequestStep, FlightStep, TypesStep, AdmittedStep, LeaseStep, ReplyStep
     DEF Source, GatewayInv
<1>3. ASSUME UNCHANGED sourceVars, UNCHANGED requests PROVE RequestInv' /\ FlightInv'
  <2>1. /\ source' = source /\ pending' = pending /\ ended' = ended /\ requests' = requests
        /\ Flying' = Flying
    BY <1>3 DEF sourceVars, Flying
  <2>2. now' \in Nat /\ now' >= now
    BY Persists
  <2>3. RequestInv'
    BY <1>1, <2>1, <2>2 DEF RequestInv
  <2>4. \A s \in Flying : Counted(pending[s])'
    <3> SUFFICES ASSUME NEW s \in Flying PROVE Counted(pending[s])'
      OBVIOUS
    <3>1. Counted(pending[s]) /\ pending'[s] = pending[s]
      BY <1>1, <2>1 DEF FlightInv
    <3>2. pending[s].started \in Nat \cup {Absent}
      BY <1>1, FlightFacts DEF Flying
    <3>3. pending[s].started # Absent => pending[s].started <= now'
      BY <1>1, <2>2, <3>1, <3>2 DEF Counted
    <3> QED
      BY <3>1, <3>3 DEF Counted
  <2>5. FlightInv'
    BY <1>1, <2>1, <2>4 DEF FlightInv, ReservationSuffices, FirstSendsInOrder
  <2> QED
    BY <2>3, <2>5
<1>4. CASE Time \/ UNCHANGED vars \/ Working \/ \E q \in requests : Admission(q)
  BY <1>3, <1>4, TypesStep, AdmittedStep, LeaseStep, ReplyStep
     DEF Time, Tick, vars, Working, Admission, ReceiverOnly, GatewayInv
<1>5. CASE Maintenance \/ \E stages \in SUBSET Stages : Answer(stages)
  BY <1>3, <1>5, TypesStep, AdmittedStep, LeaseStep, ReplyStep
     DEF Maintenance, Answer, ReceiverOnly, GatewayInv
<1> QED
  BY <1>2, <1>4, <1>5, Moves

\* While a source counts itself live the receiver does too, whatever was lost,
\* late or repeated between them; the records reserved for a request at its
\* submission suffice for all that may happen to it; and requests are first
\* sent in the order of their sequences, however their retries interleave.
THEOREM SourceIsSound == Spec => []SourceSound
<1>1. GatewayInv => SourceSound
  <2> SUFFICES ASSUME GatewayInv PROVE SourceSound
    OBVIOUS
  <2>1. TypeOK
    BY SameTypes DEF GatewayInv, TypeOK, GateTypes, RP!RegistryInv
  <2>2. LeaseConservative
    <3> SUFFICES ASSUME source.state = "LIVE", ~LeaseOver
                 PROVE  sessions[1] # Absent /\ now < sessions[1].deadline
      BY DEF LeaseConservative
    <3>1. Backed(source.deadline) /\ now \in Nat /\ source.deadline \in Nat
      BY DEF GatewayInv, LeaseInv, SourceTypeOK
    <3>2. sessions[1] # Absent => sessions[1].deadline \in Nat
      BY GatewayFacts, TableFacts
    <3> QED
      BY <3>1, <3>2 DEF Backed, LeaseOver
  <2>3. ReservationSuffices /\ FirstSendsInOrder
    BY DEF GatewayInv, FlightInv
  <2> QED
    BY <2>1, <2>2, <2>3 DEF SourceSound
<1> QED
  BY <1>1, GatewayInit, GatewayStep, PTL DEF Spec

\* What a source counts as complete was applied at the receiver, and nothing is
\* applied twice, over a network that loses, delays, reorders and repeats.
THEOREM CompletesAreTrue == Spec => [](CompleteIsApplied /\ AppliedOnce)
<1>1. GatewayInv => CompleteIsApplied /\ AppliedOnce
  BY DEF GatewayInv, ReplyInv, AdmittedInv, AppliedOnce
<1> QED
  BY <1>1, GatewayInit, GatewayStep, PTL DEF Spec

-----------------------------------------------------------------------------
(* Refusals.  Nothing is evicted while every admission finds the duplicate   *)
(* cache with an empty place.                                              *)

Roomy == admissions' # admissions => ~R!Full(R!KeptRecords)

\* What is forgotten of a request is beyond its validity.
LEMMA ForgottenIsOverdue ==
  ASSUME GatewayInv, MemoryInv, NEW s \in Seqs, records[Key(s)] # Absent,
         now >= R!KeptUntil(records[Key(s)])
  PROVE  Overdue(s)
<1> SUFFICES ASSUME pending[s] # Absent
             PROVE  now >= pending[s].started + Validity[pending[s].content]
  BY DEF Overdue
<1>1. PICK q \in requests : q.seq = s
  BY GatewayFacts
<1>2. /\ pending[s].started \in Nat /\ pending[s].content \in Stimuli
      /\ Validity[pending[s].content] \in Nat
  BY <1>1, SentFacts DEF GatewayInv
<1>3. /\ records[Key(s)].deadline \in Nat /\ records[Key(s)].received \in Nat
      /\ R!KeptUntil(records[Key(s)]) \in Nat /\ now \in Nat
      /\ R!KeptUntil(records[Key(s)]) >= records[Key(s)].deadline
  BY GatewayFacts, TableFacts
<1>4. /\ records[Key(s)].deadline >= records[Key(s)].received + Retention
      /\ pending[s].started <= records[Key(s)].received
  BY DEF MemoryInv
<1>5. Validity[pending[s].content] <= Retention /\ Retention \in Nat
  BY <1>2, GatewayAssumption
<1> QED
  BY <1>2, <1>3, <1>4, <1>5

LEMMA OverdueKept ==
  ASSUME GatewayInv, [Next]_vars, NEW q \in requests, Overdue(q.seq)
  PROVE  Overdue(q.seq)'
<1> DEFINE s == q.seq
<1>1. ASSUME pending'[s] # Absent
      PROVE  now' >= pending'[s].started + Validity[pending'[s].content]
  <2>1. /\ pending[s] # Absent /\ pending'[s].content = pending[s].content
        /\ pending'[s].started = pending[s].started /\ now' >= now /\ now' \in Nat
    BY <1>1, Persists
  <2>2. /\ pending[s].started \in Nat /\ Validity[pending[s].content] \in Nat /\ now \in Nat
    BY <2>1, SentFacts DEF GatewayInv, SourceTypeOK
  <2>3. now >= pending[s].started + Validity[pending[s].content]
    BY <2>1 DEF Overdue
  <2> QED
    BY <2>1, <2>2, <2>3
<1> QED
  BY <1>1 DEF Overdue

\* A cache without awaited storage results has room, if it must evict for it.
LEMMA AlwaysRoom == GatewayInv => R!Room(R!KeptRecords)
<1> SUFFICES ASSUME GatewayInv PROVE R!Room(R!KeptRecords)
  OBVIOUS
<1>1. RP!TypeOK /\ RP!Bounded /\ RP!RegistryAssumption /\ CacheSize \in Nat \ {0}
  BY RegistryAssumed, GatewayAssumption DEF GatewayInv, RP!RegistryInv, RP!SizeInv
<1>2. DOMAIN records = RP!Keys /\ RP!Pending(records) \subseteq RP!Keys
  BY <1>1 DEF RP!TypeOK, RP!Pending, RP!Held
<1>3. IsFiniteSet(RP!Keys)
  <2>1. IsFiniteSet(RP!Ids) /\ IsFiniteSet(1..LastSeq)
    <3>1. 1 \in Int /\ LastSeq \in Int
      BY Constants
    <3>2. IsFiniteSet(1..1) /\ IsFiniteSet(1..LastSeq)
      BY <3>1, FS_Interval, Zenon
    <3> QED
      BY <3>2 DEF RP!Ids
  <2> QED
    BY <2>1, FS_Product DEF RP!Keys
<1>4. IsFiniteSet(RP!Pending(records)) /\ Cardinality(RP!Pending(records)) \in Nat
  BY <1>2, <1>3, FS_Subset, FS_CardinalityType
<1>5. RP!Pending(records) = {}
  <2>1. Cardinality(RP!Pending(records)) <= 0
    BY <1>1, SameSizes DEF RP!Bounded
  <2>2. Cardinality(RP!Pending(records)) = 0
    BY <1>4, <2>1
  <2> QED
    BY <1>4, <2>2, FS_EmptySet
<1>6. RP!Pending(RP!KeptRecords) = {}
  <2>1. /\ DOMAIN RP!KeptRecords = RP!Keys
        /\ \A k \in RP!Keys : RP!KeptRecords[k] \in {records[k], Absent}
    BY DEF RP!KeptRecords
  <2>2. RP!Pending(RP!KeptRecords) \subseteq RP!Pending(records)
    BY <1>2, <2>1 DEF RP!Pending, RP!Held
  <2> QED
    BY <1>5, <2>2
<1>7. RP!Full(RP!KeptRecords) => RP!Held(RP!KeptRecords) # {}
  <2> SUFFICES ASSUME RP!Full(RP!KeptRecords), RP!Held(RP!KeptRecords) = {} PROVE FALSE
    OBVIOUS
  <2>1. Cardinality({}) = 0
    BY FS_EmptySet
  <2>2. Cardinality({}) >= CacheSize
    BY SameSizes DEF RP!Full
  <2> QED
    BY <1>1, <2>1, <2>2
<1>8. RP!Room(RP!KeptRecords)
  BY <1>6, <1>7 DEF RP!Room
<1> QED
  BY <1>8, SameRoom, SameTables

\* What was given up stays so, as long as it is remembered.
LEMMA GivenUpKept ==
  ASSUME GatewayInv, [Next]_vars, NEW s \in Seqs, records[Key(s)] # Absent,
         records'[Key(s)] = records[Key(s)], GivenUp(s)
  PROVE  GivenUp(s)'
<1> USE DEF GivenUp, R!KeptUntil
<1>1. /\ nextId # 1 /\ now' >= now /\ now \in Nat /\ now' \in Nat
      /\ R!KeptUntil(records[Key(s)]) \in Nat
      /\ sessions[1] # Absent => sessions[1].deadline \in Nat
  BY GatewayFacts, TableFacts, Persists
<1>2. CASE now >= R!KeptUntil(records[Key(s)])
  BY <1>1, <1>2
<1>3. ASSUME sessions[1] = Absent \/ now >= sessions[1].deadline
      PROVE  sessions'[1] = Absent \/ now' >= sessions'[1].deadline
  <2>1. ASSUME SessionForgets \/ sessions' = sessions
        PROVE  sessions'[1] = Absent \/ now' >= sessions'[1].deadline
    BY <1>1, <1>3, <2>1 DEF SessionForgets
  <2>2. CASE Source \/ Time \/ UNCHANGED vars \/ Working
    BY <2>1, <2>2 DEF Source, Time, Working, vars, registryVars
  <2>3. ASSUME NEW stages, Answer(stages)
        PROVE  sessions'[1] = Absent \/ now' >= sessions'[1].deadline
    BY <2>1, <2>3 DEF Answer, Answers1
  <2>4. CASE Maintenance
    BY <2>1, <2>4 DEF Maintenance, Drops
  <2>5. ASSUME NEW q \in requests, Admission(q) PROVE FALSE
    BY <1>1, <1>3, <2>5 DEF Admission, Serves, Starts
  <2> QED
    BY <2>2, <2>3, <2>4, <2>5, Moves
<1> QED
  BY <1>2, <1>3 DEF GivenUp

\* A request that is not applied and not admitted any more stays so.
LEMMA NeverAppliedKept ==
  ASSUME GatewayInv, [Next]_vars, NEW s \in Seqs, NeverApplied(s)
  PROVE  NeverApplied(s)'
<1> USE DEF NeverApplied, At
<1>0. /\ sessions[1] # Absent => sessions[1].lastRx \in Nat
      /\ s \in Nat /\ admissions[Key(s)] \in Nat
  BY GatewayFacts, TableFacts, KeyFacts
<1>1. CASE Source \/ Time \/ UNCHANGED vars
  BY <1>1 DEF Source, Time, vars, registryVars, gatewayVars
<1>2. CASE Working
  <2>1. UNCHANGED <<admissions, nextId, sessions>>
    BY <1>2 DEF Working, registryVars
  <2>2. applied'[s] = 0 /\ (busy' = Absent \/ busy'.seq # s)
    BY <1>2, WorkingFacts
  <2> QED
    BY <2>1, <2>2
<1>3. ASSUME busy' = Absent, applied' = applied, UNCHANGED <<admissions, nextId>>, SessionForgets
      PROVE  NeverApplied(s)'
  BY <1>3 DEF SessionForgets
<1>4. ASSUME NEW stages, Answer(stages) PROVE NeverApplied(s)'
  BY <1>3, <1>4 DEF Answer, Answers1
<1>5. CASE Maintenance
  BY <1>3, <1>5 DEF Maintenance, Drops
<1>6. ASSUME NEW q \in requests, Admission(q) PROVE NeverApplied(s)'
  <2>1. q.seq \in Seqs /\ q.seq \in Nat
    BY GatewayFacts, KeyFacts
  <2>2. /\ applied' = applied /\ busy' = [seq |-> q.seq, effected |-> FALSE]
        /\ admissions[Key(q.seq)] = 0
        /\ \A t \in Seqs : t # q.seq => admissions'[Key(t)] = admissions[Key(t)]
        /\ sessions'[1].lastRx = q.seq
    BY <1>6 DEF Admission, Admits1
  <2>3. CASE Serves(q.seq, q.content)
    <3>1. /\ sessions[1] # Absent /\ sessions[1].lastRx < q.seq /\ nextId' = nextId
      BY <2>3 DEF Serves
    <3>2. q.seq # s
      BY <1>0, <2>1, <2>2, <3>1
    <3> QED
      BY <1>0, <2>1, <2>2, <3>1, <3>2
  <2>4. CASE Starts
    <3>1. admissions[Key(s)] # 0
      BY <2>4 DEF Starts
    <3> QED
      BY <2>2, <2>4, <3>1, GatewayFacts DEF Starts
  <2> QED
    BY <1>6, <2>3, <2>4 DEF Admission
<1> QED
  BY <1>1, <1>2, <1>4, <1>5, <1>6, Moves

LEMMA MemoryStep ==
  ASSUME GatewayInv, MemoryInv, [Next]_vars, Roomy
  PROVE  MemoryInv'
<1> DEFINE Known(s) ==
             records'[Key(s)] # Absent =>
               /\ records'[Key(s)].received <= now'
               /\ records'[Key(s)].deadline >= records'[Key(s)].received + Retention
               /\ pending'[s] # Absent => pending'[s].started <= records'[Key(s)].received
               /\ records'[Key(s)].answer = "none" /\ applied'[s] # 0 /\ ~At(s)' => GivenUp(s)'
           Gone(s) ==
             admissions'[Key(s)] # 0 /\ records'[Key(s)] = Absent => Overdue(s)'
<1>1. SUFFICES ASSUME NEW s \in Seqs PROVE Known(s) /\ Gone(s)
  BY DEF MemoryInv
<1>2. /\ now' >= now /\ now \in Nat /\ now' \in Nat /\ Retention \in Nat
      /\ records[Key(s)] # Absent => records[Key(s)].received \in Nat
      /\ admissions[Key(s)] # 0 => \E q \in requests : q.seq = s
      /\ AdmittedInv
  BY GatewayFacts, TableFacts, Persists, Constants DEF GatewayInv, AdmittedInv
<1>3. ASSUME NEW q \in requests, q.seq = s, pending'[s] # Absent
      PROVE  pending[s] # Absent /\ pending'[s].started = pending[s].started
  BY <1>3, Persists
<1>4. ASSUME RecordForgets(s), admissions'[Key(s)] = admissions[Key(s)] PROVE Gone(s)
  <2> SUFFICES ASSUME admissions[Key(s)] # 0, records'[Key(s)] = Absent PROVE Overdue(s)'
    BY <1>4
  <2>1. Overdue(s)
    <3>1. CASE records[Key(s)] = Absent
      BY <3>1 DEF MemoryInv
    <3>2. CASE records[Key(s)] # Absent
      BY <1>4, <3>2, ForgottenIsOverdue DEF RecordForgets
    <3> QED
      BY <3>1, <3>2
  <2> QED
    BY <1>2, <2>1, OverdueKept
<1>5. ASSUME RecordForgets(s), ~At(s)' /\ applied'[s] # 0 => ~At(s) /\ applied[s] # 0
      PROVE  Known(s)
  <2> SUFFICES ASSUME records'[Key(s)] # Absent PROVE Known(s)
    OBVIOUS
  <2>1. records'[Key(s)] = records[Key(s)] /\ records[Key(s)] # Absent
    BY <1>5 DEF RecordForgets
  <2>2. \E q \in requests : q.seq = s
    BY <2>1, GatewayFacts
  <2>3. records[Key(s)].received <= now'
    BY <1>2, <2>1 DEF MemoryInv
  <2>4. pending'[s] # Absent => pending'[s].started <= records[Key(s)].received
    BY <1>3, <2>1, <2>2 DEF MemoryInv
  <2>5. ASSUME records[Key(s)].answer = "none", applied'[s] # 0, ~At(s)' PROVE GivenUp(s)'
    <3>1. GivenUp(s)
      BY <1>5, <2>1, <2>5 DEF MemoryInv
    <3> QED
      BY <2>1, <3>1, GivenUpKept
  <2> QED
    BY <2>1, <2>3, <2>4, <2>5 DEF MemoryInv
<1> HIDE DEF Known, Gone
<1>6. CASE Source \/ Time \/ UNCHANGED vars
  <2>1. RecordForgets(s) /\ admissions' = admissions /\ applied' = applied /\ busy' = busy
    BY <1>6 DEF Source, Time, vars, registryVars, gatewayVars, RecordForgets
  <2> QED
    BY <1>4, <1>5, <2>1 DEF At
<1>7. CASE Maintenance
  <2>1. RecordForgets(s) /\ admissions' = admissions /\ applied' = applied /\ busy' = busy
    BY <1>7 DEF Maintenance, Drops
  <2> QED
    BY <1>4, <1>5, <2>1 DEF At
<1>8. CASE Working
  <2>1. records' = records /\ admissions' = admissions /\ RecordForgets(s)
    BY <1>8 DEF Working, registryVars, RecordForgets
  <2>2. Gone(s)
    BY <1>4, <2>1
  <2>3. CASE s # busy.seq
    <3>1. applied'[s] = applied[s] /\ ~At(s)
      BY <1>8, <2>3, WorkingFacts DEF At
    <3> QED
      BY <1>5, <2>1, <2>2, <3>1
  <2>4. CASE s = busy.seq /\ busy' # Absent
    <3>1. At(s)'
      BY <1>8, <2>4, WorkingFacts DEF At
    <3> QED
      BY <1>5, <2>1, <2>2, <3>1
  <2>5. CASE s = busy.seq /\ busy' = Absent
    <3>1. /\ busy # Absent /\ records[Key(s)] # Absent /\ applied' = applied
          /\ \/ sessions[1] = Absent \/ now >= sessions[1].deadline
             \/ now >= R!KeptUntil(records[Key(busy.seq)])
             \/ lastTx + 2 > LastTx
      BY <1>2, <1>8, <2>5, WorkingFacts DEF AdmittedInv
    <3>2. lastTx \in Nat /\ LastTx \in Nat /\ busy.effected \in BOOLEAN
      BY <3>1, GatewayFacts, Constants DEF GatewayInv, GateTypes
    <3>3. applied[s] # 0 => busy.effected
      BY <1>2, <2>5, <3>1, <3>2 DEF AdmittedInv, At
    <3>4. applied[s] # 0 => ~(lastTx + 2 > LastTx)
      <4>1. busy.effected => lastTx + 2 <= LastTx
        BY <1>2, <3>1 DEF AdmittedInv
      <4> QED
        BY <3>2, <3>3, <4>1
    <3>5. applied[s] # 0 => GivenUp(s)
      BY <2>5, <3>1, <3>4 DEF GivenUp
    <3>6. \E q \in requests : q.seq = s
      BY <3>1, GatewayFacts
    <3>7. pending' = pending /\ now' = now
      BY <1>8 DEF Working, ReceiverOnly, sourceVars
    <3>8. applied[s] # 0 => GivenUp(s)'
      BY <2>1, <3>1, <3>5, GivenUpKept
    <3>9. Known(s)
      BY <2>1, <3>1, <3>7, <3>8 DEF Known, MemoryInv
    <3> QED
      BY <2>2, <3>9
  <2> QED
    BY <2>3, <2>4, <2>5
<1>9. ASSUME NEW stages, Answer(stages) PROVE Known(s) /\ Gone(s)
  <2>1. /\ busy # Absent /\ busy' = Absent /\ busy.seq \in Seqs
        /\ admissions' = admissions /\ applied' = applied /\ pending' = pending /\ now' = now
        /\ Answers1(busy.seq)
    BY <1>9, GatewayFacts DEF Answer, Answers1, ReceiverOnly, sourceVars
  <2>2. CASE s # busy.seq
    <3>1. RecordForgets(s) /\ ~At(s)
      BY <2>1, <2>2 DEF Answers1, At
    <3> QED
      BY <1>4, <1>5, <2>1, <3>1
  <2>3. CASE s = busy.seq
    <3>1. /\ records[Key(s)] # Absent /\ records'[Key(s)] # Absent
          /\ records'[Key(s)].received = records[Key(s)].received
          /\ records'[Key(s)].deadline \in {records[Key(s)].deadline, now + Retention}
          /\ records'[Key(s)].answer # "none"
      BY <2>1, <2>3 DEF Answers1
    <3>2. /\ records[Key(s)].received <= now
          /\ records[Key(s)].deadline >= records[Key(s)].received + Retention
          /\ pending[s] # Absent => pending[s].started <= records[Key(s)].received
      BY <3>1 DEF MemoryInv
    <3>3. records'[Key(s)].deadline >= records'[Key(s)].received + Retention
      BY <1>2, <3>1, <3>2
    <3> QED
      BY <2>1, <3>1, <3>2, <3>3 DEF Known, Gone
  <2> QED
    BY <2>2, <2>3
<1>10. ASSUME NEW q \in requests, Admission(q) PROVE Known(s) /\ Gone(s)
  <2>1. /\ busy = Absent /\ q.seq \in Seqs /\ Admits1(q.seq, q.content)
        /\ busy' = [seq |-> q.seq, effected |-> FALSE]
        /\ applied' = applied /\ pending' = pending /\ now' = now
    BY <1>10, GatewayFacts DEF Admission, Admits1, ReceiverOnly, sourceVars
  <2>2. ~R!Full(R!KeptRecords)
    <3>1. admissions' # admissions
      BY <2>1 DEF Admits1
    <3> QED
      BY <3>1 DEF Roomy
  <2>3. CASE s # q.seq
    <3>1. RecordForgets(s) /\ admissions'[Key(s)] = admissions[Key(s)]
      BY <2>1, <2>2, <2>3 DEF Admits1
    <3>2. ~At(s)
      BY <2>1 DEF At
    <3> QED
      BY <1>4, <1>5, <2>1, <3>1, <3>2
  <2>4. CASE s = q.seq
    <3>1. /\ records'[Key(s)] # Absent /\ records'[Key(s)].received = now
          /\ records'[Key(s)].deadline = now + Retention
      BY <2>1, <2>4 DEF Admits1
    <3>2. applied[s] = 0
      BY <1>2, <2>1, <2>4 DEF AdmittedInv, Admits1
    <3>3. pending[s] # Absent => pending[s].started <= now
      BY <2>4, SentFacts DEF GatewayInv
    <3>4. now + Retention >= now + Retention /\ now <= now
      BY <1>2
    <3> QED
      BY <2>1, <3>1, <3>2, <3>3, <3>4 DEF Known, Gone
  <2> QED
    BY <2>3, <2>4
<1> QED
  BY <1>6, <1>7, <1>8, <1>9, <1>10, Moves

\* A request is refused because it is not fresh, and it is not remembered: it is
\* too old to be awaited still, or it is overtaken.
LEMMA RefusedAway ==
  ASSUME GatewayInv, MemoryInv, NEW q \in requests, RefuseRequest(q)
  PROVE  NeverApplied(q.seq) \/ Overdue(q.seq)
<1> DEFINE s == q.seq
           record == R!KeptRecords[Key(s)]
<1>0. /\ s \in Seqs /\ s \in Nat /\ busy = Absent /\ AdmittedInv
      /\ sessions[1] # Absent => sessions[1].lastRx \in Nat /\ nextId # 1
      /\ RP!TypeOK
  BY GatewayFacts, TableFacts, KeyFacts DEF RefuseRequest, Idle, GatewayInv
<1>1. /\ R!LiveSessions[1] = sessions[1] /\ sessions[1] # Absent /\ nextId # 1
      /\ now < sessions[1].deadline
  <2>1. R!LiveSessions[1] # Absent
    BY DEF RefuseRequest, R!Authorized
  <2> QED
    BY <1>0, <2>1, LiveFacts
<1>2. CASE record # Absent
  <2>1. /\ record = records[Key(s)] /\ records[Key(s)] # Absent
        /\ now < R!KeptUntil(records[Key(s)]) /\ records[Key(s)].answer = "none"
    BY <1>0, <1>2, LiveFacts DEF RefuseRequest
  <2>2. admissions[Key(s)] # 0
    BY <1>0, <2>1, GatewayFacts
  <2>3. ~GivenUp(s)
    <3>1. /\ now \in Nat /\ sessions[1].deadline \in Nat
          /\ R!KeptUntil(records[Key(s)]) \in Nat
      BY <1>0, <1>1, <2>1, TableFacts
    <3> QED
      BY <1>1, <2>1, <3>1 DEF GivenUp
  <2>4. ~At(s)
    BY <1>0 DEF At
  <2>5. applied[s] = 0
    BY <1>0, <2>1, <2>3, <2>4 DEF MemoryInv
  <2> QED
    BY <2>2, <2>4, <2>5 DEF NeverApplied
<1>3. CASE record = Absent /\ records[Key(s)] # Absent
  <2>1. now >= R!KeptUntil(records[Key(s)])
    BY <1>0, <1>3, LiveFacts
  <2> QED
    BY <1>0, <1>3, <2>1, ForgottenIsOverdue
<1>4. CASE records[Key(s)] = Absent /\ admissions[Key(s)] # 0
  BY <1>0, <1>4 DEF MemoryInv
<1>5. CASE record = Absent /\ admissions[Key(s)] = 0
  <2>1. ~R!IsFresh(Key(s))
    BY <1>5, AlwaysRoom DEF RefuseRequest
  <2>2. ~(s > sessions[1].lastRx)
    BY <1>1, <1>5, <2>1, KeyFacts DEF R!IsFresh
  <2>3. sessions[1].lastRx >= s
    BY <1>0, <1>1, <2>2
  <2>4. applied[s] = 0 /\ ~At(s)
    BY <1>0, <1>5 DEF AdmittedInv, At
  <2> QED
    BY <1>1, <2>3, <2>4 DEF NeverApplied
<1> QED
  BY <1>2, <1>3, <1>4, <1>5

LEMMA RefusalStep ==
  ASSUME GatewayInv, MemoryInv, RefusalInv, [Next]_vars
  PROVE  RefusalInv'
<1>0. /\ \A r \in feedback : r.seq \in Seqs /\ \E q \in requests : q.seq = r.seq
      /\ \A q \in requests : q.seq \in Seqs
  BY GatewayFacts DEF GatewayInv, ReplyInv, TrueReply, SourceTypeOK, Reply
<1>1. ASSUME NEW q \in requests, NeverApplied(q.seq) \/ Overdue(q.seq)
      PROVE  NeverApplied(q.seq)' \/ Overdue(q.seq)'
  BY <1>0, <1>1, NeverAppliedKept, OverdueKept
<1>2. ASSUME NEW r \in feedback, r.stage = "refused"
      PROVE  NeverApplied(r.seq)' \/ Overdue(r.seq)'
  <2>1. PICK q \in requests : q.seq = r.seq
    BY <1>0
  <2>2. NeverApplied(q.seq) \/ Overdue(q.seq)
    BY <1>2, <2>1 DEF RefusalInv
  <2>3. NeverApplied(q.seq)' \/ Overdue(q.seq)'
    BY <1>1, <2>2
  <2> QED
    BY <2>1, <2>3 DEF NeverApplied, Overdue, At
<1>3. ASSUME NEW r \in feedback' \ feedback, r.stage = "refused"
      PROVE  NeverApplied(r.seq)' \/ Overdue(r.seq)'
  <2>1. ASSUME NEW stages, Answer(stages) PROVE FALSE
    BY <1>3, <2>1 DEF Answer, Told
  <2>2. CASE Maintenance
    <3>1. PICK q \in requests : RefuseRequest(q) /\ Told(q.seq, {"refused"})
      BY <1>3, <2>2 DEF Maintenance
    <3>2. r.seq = q.seq
      BY <1>3, <3>1 DEF Told
    <3>3. NeverApplied(q.seq)' \/ Overdue(q.seq)'
      BY <1>1, <3>1, RefusedAway
    <3> QED
      BY <3>2, <3>3 DEF NeverApplied, Overdue, At
  <2>3. CASE Source
    BY <1>3, <2>3, SourceKeeps DEF Source
  <2>4. CASE Time \/ UNCHANGED vars \/ Working \/ \E q \in requests : Admission(q)
    BY <1>3, <2>4 DEF Time, Tick, vars, Working, Admission
  <2> QED
    BY <2>1, <2>2, <2>3, <2>4, Moves
<1>4. ASSUME NEW s \in Seqs, ended'[s] = "refused" PROVE NeverApplied(s)'
  <2>1. NeverApplied(s)
    <3>1. CASE ended'[s] = ended[s]
      BY <1>4, <3>1 DEF RefusalInv
    <3>2. CASE ended'[s] # ended[s]
      <4>1. Source
        <5>1. ended' # ended
          BY <3>2
        <5>2. ~(Time \/ UNCHANGED vars \/ Working \/ Maintenance)
          BY <5>1 DEF Time, Tick, vars, Working, Maintenance, ReceiverOnly, sourceVars
        <5>3. ~(\E q \in requests : Admission(q)) /\ ~(\E stages \in SUBSET Stages : Answer(stages))
          BY <5>1 DEF Admission, Answer, ReceiverOnly, sourceVars
        <5> QED
          BY <5>2, <5>3, Moves
      <4>2. SourceLeaves
        BY <4>1, SourceMoves DEF Source, GatewayInv
      <4>3. PICK r \in feedback : Settles(r) /\ r.seq = s /\ EndOf(r.stage) = "refused"
        BY <1>4, <3>2, <4>2 DEF SourceLeaves
      <4>4. r.stage = "refused" /\ pending[s] # Absent /\ ~Late(pending[s])
        BY <4>3 DEF Settles, Awaited, EndOf
      <4>5. ~Overdue(s)
        BY <4>4 DEF Late, Overdue
      <4> QED
        BY <4>3, <4>4, <4>5 DEF RefusalInv
    <3> QED
      BY <3>1, <3>2
  <2> QED
    BY <2>1, NeverAppliedKept
<1>5. \A r \in feedback' : r.stage = "refused" => NeverApplied(r.seq)' \/ Overdue(r.seq)'
  BY <1>2, <1>3
<1>6. \A r \in feedback' : r.stage = "refused" => (NeverApplied(r.seq) \/ Overdue(r.seq))'
  BY <1>5 DEF NeverApplied, Overdue, At
<1> QED
  BY <1>4, <1>6 DEF RefusalInv

LEMMA RefusalInit == Init => MemoryInv /\ RefusalInv
<1> SUFFICES ASSUME Init PROVE MemoryInv /\ RefusalInv
  OBVIOUS
<1>1. RP!Init /\ SourceInit
  BY SameTypes DEF Init
<1>2. /\ \A s \in Seqs : admissions[Key(s)] = 0 /\ records[Key(s)] = Absent
      /\ feedback = {} /\ \A s \in Seqs : ended[s] # "refused"
  BY <1>1, KeyFacts DEF RP!Init, SourceInit
<1> QED
  BY <1>2 DEF MemoryInv, RefusalInv

\* What a source counts is the truth at the receiver: complete means applied,
\* refused means not applied, nothing is applied twice.  That refused means not
\* applied needs a duplicate cache that finds a place for every request without
\* evicting one: an evicted request is refused although it was applied.
THEOREM OutcomesHold ==
  Spec /\ [][Roomy]_vars => []OutcomesAreTrue
<1>1. GatewayInv /\ MemoryInv /\ RefusalInv => OutcomesAreTrue
  BY DEF GatewayInv, ReplyInv, AdmittedInv, AppliedOnce, RefusalInv, RefusedIsNotApplied,
         NeverApplied, OutcomesAreTrue
<1>2. UNCHANGED vars => Roomy
  BY DEF Roomy, vars, registryVars
<1>3. GatewayInv /\ MemoryInv /\ RefusalInv /\ [Next]_vars /\ [Roomy]_vars
        => (GatewayInv /\ MemoryInv /\ RefusalInv)'
  BY <1>2, GatewayStep, MemoryStep, RefusalStep
<1> QED
  BY <1>1, <1>3, GatewayInit, RefusalInit, PTL DEF Spec
=============================================================================
