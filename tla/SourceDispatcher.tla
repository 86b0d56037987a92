--------------------------- MODULE SourceDispatcher ---------------------------
(***************************************************************************)
(* The source of inputs: input_simulator/session.py (its grant and its      *)
(* counters), dispatch.py (requests in flight, retries, heartbeats) and     *)
(* udp_source.py (which feedback is taken) over datagrams that are lost,    *)
(* delayed, reordered and duplicated.                                      *)
(*                                                                         *)
(* One grant of one source.  poll is the steps its code takes between two   *)
(* readings of the clock: take the feedback that is there, let a heartbeat  *)
(* in, send.  requests and feedback are the datagram groups ever sent whole: *)
(* what is in them may arrive at any later time, again, or never.  A refusal *)
(* of a call changes nothing and is no action.                             *)
(*                                                                         *)
(* Durations below one unit of now are choices: whether a heartbeat is more  *)
(* than the jitter budget late, whether the fragments of a group are too far *)
(* apart, whether the socket refuses a packet.                             *)
(*                                                                         *)
(* A definition introduced by "Fault:" is the definition after it with a   *)
(* plausible error in it; nothing uses it.                                 *)
(***************************************************************************)
EXTENDS Naturals, FiniteSets

CONSTANTS
  Openings,       \* contents of SessionOpen, id 1
  Heartbeats,     \* of Heartbeat, id 2
  Inputs,         \* of requests a consumer service completes
  Absent,         \* nothing pending, no time
  Attempts,       \* attempts of each content: 4, or 1 when it is periodic
  Packets,        \* datagrams of each content
  Validity,       \* valid_for_ms of each content
  Lease,          \* session_lease_ms
  AckTimeout,     \* ack_timeout_ms
  FeedbackCap,    \* replies recorded for one request, 8
  Capacity,       \* requests in flight, 64
  LastSeq,        \* last request sequence, 0xffffffff
  SubmitUntil,    \* bound on the time of the last submission, for finite checking only
  MaxNow          \* bound on the clock, for finite checking only

Stimuli == Heartbeats \cup Inputs
Seqs == 1..LastSeq

ASSUME SourceAssumption ==
  /\ Attempts \in [Stimuli -> Nat \ {0}] /\ Packets \in [Stimuli -> Nat \ {0}]
  /\ Validity \in [Stimuli -> Nat \ {0}]
  /\ Lease \in Nat \ {0} /\ AckTimeout \in Nat \ {0}
  /\ FeedbackCap \in Nat \ {0} /\ Capacity \in Nat \ {0}
  /\ LastSeq \in Nat \ {0} /\ SubmitUntil \in Nat /\ MaxNow \in Nat

VARIABLES
  now,         \* the monotonic clock, of the source and of the receiver
  source,      \* SourceSession: state, lease deadline, time of the opening, next sequence
  attached,    \* the dispatcher exists and is not closed
  beating,     \* _provider: heartbeats are scheduled
  pc,          \* where poll is
  round,       \* requests the current pass over _pending has still to visit
  pending,     \* _pending: sequence -> request in flight
  highwater,   \* _feedback_highwater of the session
  seen,        \* feedback numbers taken: _feedback_cache, which outlives every request
  requests,    \* requests transmitted whole
  feedback,    \* replies transmitted by the receiver
  \* history
  ended        \* how each request ended

sourceVars == <<source, attached, beating, pc, round, pending,
                highwater, seen, ended>>

Stages == {"opened", "received", "status", "applied", "failed", "refused"}
\* COMPLETE; FAILED by the receiver; FAILED as stale or without room; and
\* TIMEOUT, CANCEL and the local FAILED, which leave the outcome open.
Ends == {"complete", "failed", "refused", "open"}

Request == [seq : Seqs, content : Openings \cup Stimuli]
Reply == [number : Nat, seq : Seqs, stage : Stages]
InFlight == [content : Stimuli, attempt : Nat, index : Nat, sentOnce : BOOLEAN,
             started : Nat \cup {Absent}, deadline : Nat \cup {Absent},
             replies : Nat, reserved : Nat]

\* A content is of one kind, and nothing pending is not something.
ASSUME KindsAssumption ==
  /\ Openings \cap Stimuli = {} /\ Heartbeats \cap Inputs = {}
  /\ Absent \notin InFlight \cup Nat

\* The state of the source has its types.
SourceTypeOK ==
  /\ now \in Nat
  /\ source \in [state : {"NEW", "OPENING", "LIVE", "FAILED", "ABANDONED"},
                 deadline : Nat, opened : Nat, next : 2..(LastSeq + 1)]
  /\ attached \in BOOLEAN /\ beating \in BOOLEAN
  /\ pc \in {"idle", "receive", "transmit"}
  /\ round \in SUBSET Seqs
  /\ pending \in [Seqs -> InFlight \cup {Absent}]
  /\ highwater \in Nat /\ seen \in SUBSET Nat
  /\ requests \subseteq Request /\ feedback \subseteq Reply
  /\ ended \in [Seqs -> Ends \cup {"none"}]

SourceInit ==
  /\ now = 0
  /\ source = [state |-> "NEW", deadline |-> 0, opened |-> 0, next |-> 2]
  /\ attached = FALSE /\ beating = FALSE
  /\ pc = "idle" /\ round = {}
  /\ pending = [s \in Seqs |-> Absent]
  /\ highwater = 0 /\ seen = {}
  /\ requests = {} /\ feedback = {}
  /\ ended = [s \in Seqs |-> "none"]

-----------------------------------------------------------------------------
(* Requests in flight.                                                     *)

Flying == {s \in Seqs : pending[s] # Absent}
LeaseOver == now >= source.deadline

\* Records that a request may still need: each packet of each attempt, each
\* reply, SUBMITTED and its end.
\* Fault: the end of a request has no record of its own.
NeededWithoutEnd(c) == 1 + Packets[c] * Attempts[c] + FeedbackCap

Needed(c) == 2 + Packets[c] * Attempts[c] + FeedbackCap

\* _record: n records of the request are written.
Recorded(p, n) == [p EXCEPT !.reserved = @ - n]

\* _finish of a set of requests.
Finished(set, kind) ==
  /\ pending' = [s \in Seqs |-> IF s \in set THEN Absent ELSE pending[s]]
  /\ ended' = [s \in Seqs |-> IF s \in set THEN kind ELSE ended[s]]

Stay(s, p) == pending' = [pending EXCEPT ![s] = p] /\ UNCHANGED ended

\* poll raises, or is over.
Return == pc' = "idle" /\ round' = {}

\* Fault: poll raises, and the requests stay in flight.
LapseOfPoll == LeaseOver /\ Return /\ UNCHANGED <<pending, ended>>

\* _check_lease: every request in flight ends and poll raises.
LapseOfAll == LeaseOver /\ Finished(Flying, "open") /\ Return

\* Where poll reads the lease without a reply at hand.
LeaseEnds ==
  /\ attached
  /\ pc = "idle" \/ (pc = "transmit" /\ round # {})
  /\ LapseOfAll
  /\ UNCHANGED <<now, source, attached, beating, highwater, seen, requests, feedback>>

-----------------------------------------------------------------------------
(* The grant: SourceSession.open, abandon; UDPDispatcher.__init__, close.   *)

OpenSession(c) ==
  /\ source.state = "NEW"
  /\ now <= SubmitUntil
  /\ source' = [source EXCEPT !.state = "OPENING", !.opened = now]
  /\ requests' = requests \cup {[seq |-> 1, content |-> c]}
  /\ UNCHANGED <<now, attached, beating, pc, round, pending,
                 highwater, seen, feedback, ended>>

\* Fault: the lease counts from the arrival of the grant.
LeaseFromReply == now + Lease

\* The end of the lease as the source sees it: from before the request left.
LeaseFromOpening == source.opened + Lease

\* The grant arrives before the lease counted from the request is over.
Opened(r) ==
  /\ source.state = "OPENING"
  /\ r.stage = "opened"
  /\ now < source.opened + Lease
  /\ source' = [source EXCEPT !.state = "LIVE", !.deadline = LeaseFromOpening]
  /\ highwater' = r.number /\ seen' = {r.number}
  /\ UNCHANGED <<now, attached, beating, pc, round, pending,
                 requests, feedback, ended>>

\* The attempts and their waiting are over, the grant came too late, or the
\* opening was refused.
OpenFails ==
  /\ source.state = "OPENING"
  /\ source' = [source EXCEPT !.state = "FAILED"]
  /\ UNCHANGED <<now, attached, beating, pc, round, pending,
                 highwater, seen, requests, feedback, ended>>

Abandon ==
  /\ ~attached
  /\ source.state \in {"LIVE", "FAILED"}
  /\ source' = [source EXCEPT !.state = "ABANDONED", !.deadline = 0]
  /\ UNCHANGED <<now, attached, beating, pc, round, pending,
                 highwater, seen, requests, feedback, ended>>

Attach ==
  /\ ~attached
  /\ source.state = "LIVE" /\ ~LeaseOver
  /\ attached' = TRUE
  /\ UNCHANGED <<now, source, beating, pc, round, pending,
                 highwater, seen, requests, feedback, ended>>

EnableHeartbeat ==
  /\ attached /\ pc = "idle" /\ ~beating
  /\ beating' = TRUE
  /\ UNCHANGED <<now, source, attached, pc, round, pending,
                 highwater, seen, requests, feedback, ended>>

\* close: what is in flight is given up locally.
Detach ==
  /\ attached /\ pc = "idle"
  /\ Finished(Flying, "open")
  /\ attached' = FALSE /\ beating' = FALSE
  /\ UNCHANGED <<now, source, pc, round, highwater, seen,
                 requests, feedback>>

-----------------------------------------------------------------------------
(* submit and cancel.                                                      *)

\* Fault: sequences do not end.
SubmittableBeyond ==
  /\ source.state = "LIVE" /\ ~LeaseOver
  /\ Cardinality(Flying) < Capacity
  /\ now <= SubmitUntil

Submittable ==
  /\ source.state = "LIVE" /\ ~LeaseOver
  /\ source.next <= LastSeq
  /\ Cardinality(Flying) < Capacity
  /\ now <= SubmitUntil

\* _submit: a sequence is taken and the records of the request are reserved.
Submitted(c) ==
  /\ Submittable
  /\ Stay(source.next,
          [content |-> c, attempt |-> 0, index |-> 0, sentOnce |-> FALSE,
           started |-> Absent, deadline |-> Absent,
           replies |-> 0, reserved |-> Needed(c) - 1])
  /\ source' = [source EXCEPT !.next = @ + 1]

Submit(c) ==
  /\ attached /\ pc = "idle"
  /\ Submitted(c)
  /\ UNCHANGED <<now, attached, beating, pc, round, highwater, seen,
                 requests, feedback>>

Cancel(s) ==
  /\ attached /\ pc = "idle"
  /\ pending[s] # Absent
  /\ Finished({s}, "open")
  /\ UNCHANGED <<now, source, attached, beating, pc, round,
                 highwater, seen, requests, feedback>>

-----------------------------------------------------------------------------
(* poll: _receive.                                                         *)

Poll ==
  /\ attached /\ pc = "idle" /\ ~LeaseOver
  /\ pc' = "receive"
  /\ UNCHANGED <<now, source, attached, beating, round, pending,
                 highwater, seen, requests, feedback, ended>>

\* _check_feedback_sequence: a number is new, or was taken before.
Takes(number) == number > highwater \/ number \in seen

\* The request that was sent whole and that a reply names.
Awaited(r) == pending[r.seq] # Absent /\ pending[r.seq].sentOnce

\* Fault: a reply is in time at its deadline.
LateAfterDeadline(p) ==
  \/ p.deadline # Absent /\ now > p.deadline
  \/ now > p.started + Validity[p.content]

\* A reply comes when the acknowledgement was due, or the validity is over.
Late(p) ==
  \/ p.deadline # Absent /\ now >= p.deadline
  \/ now >= p.started + Validity[p.content]

EndOf(stage) ==
  CASE stage = "failed" -> "failed"
    [] stage = "refused" -> "refused"
    [] OTHER -> "complete"

\* Fault: RECEIVED is taken for an end.
AnyIsTerminal(stage) == TRUE

\* Every reply but RECEIVED ends its request.
Terminal(stage) == stage # "received"

\* What a reply in time does to its request.
Answered(s, p, stage) ==
  \/ Terminal(stage) /\ Finished({s}, EndOf(stage))
  \/ ~Terminal(stage) /\ p.replies + 1 >= FeedbackCap /\ Finished({s}, "open")
  \/ /\ ~Terminal(stage) /\ p.replies + 1 < FeedbackCap
     /\ Stay(s, Recorded([p EXCEPT !.replies = @ + 1], 1))

\* A status renews the lease, counted from when its heartbeat was first sent.
Renewed(p, stage) ==
  IF stage = "status" /\ p.started + Lease > source.deadline
  THEN p.started + Lease ELSE source.deadline

\* What becomes of the request of a reply: the lease is over for all, the
\* reply is late, or it is in time.
Received(s, p, stage) ==
  \/ LapseOfAll /\ UNCHANGED source
  \/ /\ ~LeaseOver /\ Late(p)
     /\ Finished({s}, "open")
     /\ UNCHANGED <<source, pc, round>>
  \/ /\ ~LeaseOver /\ ~Late(p)
     /\ Answered(s, p, stage)
     /\ source' = [source EXCEPT !.deadline = Renewed(p, stage)]
     /\ UNCHANGED <<pc, round>>

Receive(r) ==
  /\ pc = "receive"
  /\ r \in feedback /\ Awaited(r) /\ Takes(r.number)
  /\ highwater' = IF r.number > highwater THEN r.number ELSE highwater
  /\ seen' = seen \cup {r.number}
  /\ Received(r.seq, pending[r.seq], r.stage)
  /\ UNCHANGED <<now, attached, beating, requests, feedback>>

-----------------------------------------------------------------------------
(* poll: _heartbeat, once there is no more feedback for now, and the start  *)
(* of _transmit.                                                           *)

StartRound == pc' = "transmit" /\ round' = {s \in Seqs : pending'[s] # Absent}

\* None is due.
NoHeartbeat ==
  /\ pc = "receive"
  /\ UNCHANGED pending
  /\ StartRound
  /\ UNCHANGED <<now, source, attached, beating, highwater, seen, requests,
                 feedback, ended>>

HeartbeatDue(c) ==
  /\ pc = "receive" /\ beating
  /\ Submitted(c)
  /\ StartRound
  /\ UNCHANGED <<now, attached, beating, highwater, seen, requests, feedback>>

\* It is more than the jitter late, or cannot be submitted: poll raises.
HeartbeatMissed ==
  /\ pc = "receive" /\ beating
  /\ beating' \in {beating, FALSE}
  /\ Return
  /\ UNCHANGED <<now, source, attached, pending, highwater, seen, requests,
                 feedback, ended>>

-----------------------------------------------------------------------------
(* poll: _transmit, one request of the pass at a time, lowest first.        *)

Visited == CHOOSE s \in round : \A t \in round : s <= t

\* What a visit leaves alone.
Visit ==
  /\ pc = "transmit" /\ round # {} /\ ~LeaseOver
  /\ round' = round \ {Visited}
  /\ UNCHANGED <<now, source, attached, highwater, seen, feedback>>

\* Fault: a request need not wait for a lower one.
NeverBlocked(s) == FALSE

\* A lower request has not been sent whole: the first transmissions are in
\* the order of the sequences.
Blocked(s) ==
  /\ ~pending[s].sentOnce
  /\ \E q \in Flying : q < s /\ ~pending[q].sentOnce

\* The acknowledgement is still awaited.
Waits(p) == p.deadline # Absent /\ now < p.deadline

Skip ==
  /\ Visit
  /\ \/ pending[Visited] = Absent
     \/ Blocked(Visited)
     \/ Waits(pending[Visited])
  /\ UNCHANGED <<beating, pc, pending, requests, ended>>

Ready(s) == pending[s] # Absent /\ ~Blocked(s) /\ ~Waits(pending[s])

\* No attempt is left, or no validity.
Exhausted(p) ==
  \/ p.deadline # Absent /\ p.attempt >= Attempts[p.content]
  \/ p.started # Absent /\ now >= p.started + Validity[p.content]

\* The request ends without another packet: it is exhausted, its fragments are
\* too far apart, or its transmission is refused.
GiveUp ==
  /\ Visit
  /\ Ready(Visited)
  /\ Finished({Visited}, "open")
  /\ UNCHANGED <<beating, pc, requests>>

\* A packet: of a new attempt when the last one was not acknowledged in time.
PacketSent(p) ==
  LET index == IF p.deadline # Absent THEN 0 ELSE p.index
      whole == index + 1 = Packets[p.content] IN
  [p EXCEPT !.attempt = IF index = 0 THEN @ + 1 ELSE @,
            !.index = index + 1,
            !.started = IF @ = Absent THEN now ELSE @,
            !.deadline = IF whole THEN now + AckTimeout ELSE Absent,
            !.sentOnce = @ \/ whole,
            !.reserved = @ - 1]

Transmit ==
  LET s == Visited
      p == pending[s]
      q == PacketSent(p) IN
  /\ Visit
  /\ Ready(s) /\ ~Exhausted(p)
  /\ Stay(s, q)
  /\ requests' = IF q.sentOnce
                 THEN requests \cup {[seq |-> s, content |-> p.content]} ELSE requests
  /\ UNCHANGED <<beating, pc>>

\* A scheduled heartbeat that was sent, or would be, too late: poll raises.
HeartbeatLate ==
  LET s == Visited IN
  /\ pc = "transmit" /\ round # {} /\ ~LeaseOver
  /\ pending[s] # Absent
  /\ pending[s].content \in Heartbeats
  /\ \/ ~pending[s].sentOnce /\ UNCHANGED requests
     \/ /\ Ready(s) /\ ~Exhausted(pending[s])
        /\ requests' = IF PacketSent(pending[s]).sentOnce
                       THEN requests \cup {[seq |-> s, content |-> pending[s].content]}
                       ELSE requests
  /\ Finished({s}, "open")
  /\ beating' = FALSE
  /\ Return
  /\ UNCHANGED <<now, source, attached, highwater, seen, feedback>>

\* The code makes another pass at once when this one sent something, and
\* returns after 64 packets: the next poll makes that pass here.
PollDone ==
  /\ pc = "transmit" /\ round = {}
  /\ Return
  /\ UNCHANGED <<now, source, attached, beating, pending, highwater, seen,
                 requests, feedback, ended>>

Tick ==
  /\ now < MaxNow
  /\ now' = now + 1
  /\ UNCHANGED sourceVars /\ UNCHANGED <<requests, feedback>>

PollStep ==
  \/ Poll \/ LeaseEnds
  \/ \E r \in feedback : Receive(r)
  \/ NoHeartbeat \/ HeartbeatMissed
  \/ \E c \in Heartbeats : HeartbeatDue(c)
  \/ Skip \/ GiveUp \/ Transmit \/ HeartbeatLate \/ PollDone

SourceStep ==
  \/ \E c \in Openings : OpenSession(c)
  \/ \E r \in feedback : Opened(r)
  \/ OpenFails \/ Abandon \/ Attach \/ EnableHeartbeat \/ Detach
  \/ \E c \in Inputs : Submit(c)
  \/ \E s \in Seqs : Cancel(s)
  \/ PollStep
=============================================================================
