------------------------------ MODULE Ingress ------------------------------
(***************************************************************************)
(* The standard ingress of the gateway: Receiver (icd_gateway/receiver.py) *)
(* and the bounded Reassembler (icd_runtime/reassembly.py) under it, on    *)
(* one Ethernet channel.  Every packet first runs the maintenance tick,    *)
(* then is decoded, authorised, and given to the group of its message.     *)
(* Sessions end by their lease, by the retirement of their run, or with    *)
(* the receiver; their pending model inputs must be told to somebody.      *)
(* All calls come from the one thread of the gateway.                      *)
(***************************************************************************)
EXTENDS Naturals, SequencesExt

CONSTANTS
  Sessions,       \* session ids the registry hands out, never twice
  RunOf,          \* [Sessions -> run identity]
  Sequences,      \* header sequence numbers of one session
  Headers,        \* the header values two packets of one message may carry
  CountOf,        \* [Headers -> fragment count that goes with the header]
  Bytes,       \* payload bytes of a fragment
  Undecodable,    \* the contents that make the whole payload invalid
  TotalLimit,     \* policy total_reassembly_limit, in fragments
  Slots,          \* policy reassembly_slots_per_channel
  CacheMessages,  \* policy duplicate_cache_messages
  Timeout,        \* codec reassembly_timeout_ms
  RefusalRetention, \* policy duplicate_retention_ms
  LeaseTime,      \* session lease
  InputCapacity,  \* maintenance_input_capacity of the receiver
  RunCapacity,    \* run_retirement_capacity of the receiver
  None, MaxTime

ASSUME IngressAssumption ==
  /\ DOMAIN RunOf = Sessions
  /\ CountOf \in [Headers -> Nat \ {0}] /\ Undecodable \subseteq Bytes
  /\ {TotalLimit, Slots, CacheMessages, Timeout, RefusalRetention, LeaseTime,
      InputCapacity, RunCapacity} \subseteq Nat \ {0}
  /\ MaxTime \in Nat

VARIABLES
  clock,      \* the monotonic clock of the receiving host
  lease,      \* [live session -> deadline]
  groups,     \* [key -> [header, deadline, pieces]], messages in progress
  reserved,   \* the reassembler's own account of what the groups hold
  terminal,   \* sequence of [key, until], the refused messages, oldest first
  pending,    \* sessions with an accepted input in the model queue
  queued,     \* sessions that ever queued one
  maintained, \* inputs held in the maintenance record
  reported,       \* inputs handed out by a drain or in a step batch
  retirements, \* [origin session -> retirement record]
  shutdown,   \* [sessions, inputs] of the shutdown record
  phase,      \* "open", "closing" or "closed"
  completed,  \* the message the last call completed, None when it did not
  refused,    \* [key -> time until which its refusal was to be remembered]
  evicted     \* keys whose refusal the bounded cache pushed out

ingressVars == <<clock, lease, groups, reserved, terminal, pending, queued, maintained,
          reported, retirements, shutdown, phase, completed, refused, evicted>>
reportVars == <<queued, reported, retirements, shutdown, phase>>

MessageKeys == Sessions \X Sequences
Live == DOMAIN lease
Fragments == [key : MessageKeys, header : Headers,
              index : 0 .. Max({CountOf[h] : h \in Headers}), content : Bytes]
GroupOf(S) == {k \in DOMAIN groups : k[1] \in S}

IngressInit ==
  /\ clock = 0 /\ lease = [s \in Sessions |-> LeaseTime]
  /\ groups = <<>> /\ reserved = 0 /\ terminal = <<>>
  /\ pending = {} /\ queued = {} /\ maintained = {} /\ reported = {}
  /\ retirements = <<>> /\ shutdown = [sessions |-> {}, inputs |-> {}]
  /\ phase = "open" /\ completed = None
  /\ refused = [k \in MessageKeys |-> 0] /\ evicted = {}

----------------------------------------------------------------------------
(* The reassembler.  Its operators take and return its whole state, since
   one call of push expires, refuses and completes in turn.               *)

Assembly == [groups |-> groups, reserved |-> reserved, terminal |-> terminal,
             refused |-> refused, evicted |-> evicted, completed |-> None]

Reservation(g) == CountOf[g.header]

\* Fault: the reservation of a dropped group is not given back.
DropUnaccounted(a, k) == [a EXCEPT !.groups = Restrict(@, DOMAIN @ \ {k})]

Drop(a, k) == [a EXCEPT !.groups = Restrict(@, DOMAIN @ \ {k}),
                        !.reserved = @ - Reservation(a.groups[k])]

\* A refusal is appended to the cache, which then pushes out its oldest entry.
Remember(a, k, from) ==
  LET entry == [key |-> k, until |-> from + RefusalRetention]
      cache == Append(SelectSeq(a.terminal, LAMBDA t : t.key # k), entry)
      full  == Len(cache) > CacheMessages
  IN [a EXCEPT !.terminal = IF full THEN Tail(cache) ELSE cache,
               !.refused[k] = entry.until,
               !.evicted = (@ \ {k}) \cup (IF full THEN {Head(cache).key} ELSE {})]

\* Fault: a refused group stays in progress.
RefuseKeepsGroup(a, k, from) == Remember(a, k, from)

RefuseGroup(a, k, from) == Remember(Drop(a, k), k, from)

\* Groups and refusals of a session are forgotten without a trace.
DiscardSessions(a, S) ==
  LET gone == {k \in DOMAIN a.groups : k[1] \in S}
  IN [FoldSet(LAMBDA k, b : Drop(b, k), a, gone) EXCEPT
        !.terminal = SelectSeq(@, LAMBDA t : t.key[1] \notin S)]

\* A group is refused from its own deadline on, however late that is noticed.
ExpireGroups(a) ==
  LET late == SetToSortSeq({k \in DOMAIN a.groups : clock >= a.groups[k].deadline},
                           LAMBDA k, l : a.groups[k].deadline < a.groups[l].deadline)
      timed == FoldSeq(LAMBDA k, b : RefuseGroup(b, k, a.groups[k].deadline), a, Reverse(late))
  IN [timed EXCEPT !.terminal = SelectSeq(@, LAMBDA t : clock < t.until)]

\* Fault: refused messages are not looked up.
KnownNever(a, k) == FALSE

Known(a, k) == \E i \in DOMAIN a.terminal : a.terminal[i].key = k
Fits(a, f) == /\ a.reserved + CountOf[f.header] <= TotalLimit
              /\ Cardinality(DOMAIN a.groups) < Slots

Opened(a, f) ==
  IF f.key \in DOMAIN a.groups THEN a
  ELSE [a EXCEPT !.groups = @ @@ (f.key :> [header |-> f.header,
                                            deadline |-> clock + Timeout, pieces |-> <<>>]),
                 !.reserved = @ + CountOf[f.header]]

\* The last piece ends the group, whether its payload decodes or not.
Complete(a, f, pieces) ==
  IF \E i \in DOMAIN pieces : pieces[i] \in Undecodable
  THEN RefuseGroup(a, f.key, clock)
  ELSE [Drop(a, f.key) EXCEPT !.completed = f.key]

\* Another header, or other bytes in the same place, end the whole message.
Place(a, f) ==
  LET g == a.groups[f.key]
      pieces == g.pieces @@ (f.index :> f.content)
  IN CASE g.header # f.header \/ pieces[f.index] # f.content -> RefuseGroup(a, f.key, clock)
       [] g.header = f.header /\ g.pieces = pieces -> a
       [] OTHER -> IF Cardinality(DOMAIN pieces) = CountOf[g.header]
                   THEN Complete(a, f, pieces)
                   ELSE [a EXCEPT !.groups[f.key].pieces = pieces]

Push(a, f) ==
  IF Known(a, f.key) \/ (f.key \notin DOMAIN a.groups /\ ~Fits(a, f)) THEN a
  ELSE Place(Opened(a, f), f)

SetAssembly(a) ==
  /\ groups' = a.groups /\ reserved' = a.reserved /\ terminal' = a.terminal
  /\ refused' = a.refused /\ evicted' = a.evicted /\ completed' = a.completed

----------------------------------------------------------------------------
(* Maintenance, which precedes every packet                                *)

Lapsed == {s \in Live : clock >= lease[s]}
Stale(S) == {s \in pending : s \notin S}
Unexpired == Live \ Lapsed

\* Nothing is deleted while the record of what was deleted has no room for it.
RoomToTell == Cardinality(maintained) + Cardinality(Stale(Unexpired)) <= InputCapacity

Ticked == ExpireGroups(DiscardSessions(Assembly, {k[1] : k \in MessageKeys} \ Unexpired))

\* Fault: the inputs of ended sessions are removed and not kept for the reader.
MaintainSilently ==
  /\ phase = "open" /\ RoomToTell
  /\ UNCHANGED maintained
  /\ pending' = pending \cap Unexpired
  /\ UNCHANGED <<clock, reportVars>>

Maintain ==
  /\ phase = "open" /\ RoomToTell
  /\ maintained' = maintained \cup Stale(Unexpired)
  /\ pending' = pending \cap Unexpired
  /\ UNCHANGED <<clock, reportVars>>

TickReceiver == Maintain /\ lease' = Restrict(lease, Unexpired) /\ SetAssembly(Ticked)

\* A fragment beyond the count of its own header does not decode.
WellFormed(f) == f.index < CountOf[f.header]
Preauthorized(f) == f.key[1] \in Unexpired

\* renews: whether the message is a heartbeat of a fresh sequence; no other
\* message renews the lease.
Receive(f, renews) ==
  /\ Maintain /\ WellFormed(f) /\ Preauthorized(f)
  /\ LET a == Push(Ticked, f)
     IN /\ SetAssembly(a)
        /\ lease' = IF renews /\ a.completed # None
                    THEN [Restrict(lease, Unexpired) EXCEPT ![f.key[1]] = clock + LeaseTime]
                    ELSE Restrict(lease, Unexpired)

Drain ==
  /\ maintained # {} /\ reported' = reported \cup maintained /\ maintained' = {}
  /\ completed' = None
  /\ UNCHANGED <<clock, lease, groups, reserved, terminal, pending, queued,
                 retirements, shutdown, phase, refused, evicted>>

----------------------------------------------------------------------------
(* The model queue, as far as it holds and gives up inputs                 *)

\* Expires the sessions without a word; their inputs stay until somebody looks.
Enqueue(s) ==
  /\ phase = "open" /\ s \in Unexpired /\ s \notin queued
  /\ queued' = queued \cup {s} /\ pending' = pending \cup {s}
  /\ lease' = Restrict(lease, Unexpired) /\ completed' = None
  /\ UNCHANGED <<clock, groups, reserved, terminal, maintained, reported, retirements,
                 shutdown, phase, refused, evicted>>

BeginStep(ready) ==
  /\ phase = "open" /\ ready \subseteq pending
  /\ LET out == Stale(Unexpired) \cup ready
     IN /\ out # {} /\ pending' = pending \ out /\ reported' = reported \cup out
  /\ lease' = Restrict(lease, Unexpired) /\ completed' = None
  /\ UNCHANGED <<clock, groups, reserved, terminal, maintained, queued,
                 retirements, shutdown, phase, refused, evicted>>

----------------------------------------------------------------------------
(* Retirement of a run and the end of the receiver                         *)

RunSessions(origin) == {s \in Live : RunOf[s] = RunOf[origin]}
CapturedInputs == UNION {retirements[o].inputs : o \in DOMAIN retirements}

RoomToRetire(inputs) ==
  /\ Cardinality(DOMAIN retirements) < RunCapacity
  /\ Cardinality(CapturedInputs) + Cardinality(inputs) <= InputCapacity

\* Fault: what the sessions were sending stays in the assembler.
RetireKeepsGroups(S) ==
  /\ lease' = Restrict(lease, Live \ S) /\ pending' = pending \ S
  /\ SetAssembly(Assembly)

Retire(S) ==
  /\ lease' = Restrict(lease, Live \ S) /\ pending' = pending \ S
  /\ SetAssembly(DiscardSessions(Assembly, S))

RetireRun(origin) ==
  LET selected == RunSessions(origin)
      inputs   == pending \cap selected
      held     == GroupOf(selected)
  IN /\ phase = "open" /\ origin \in Unexpired /\ origin \notin DOMAIN retirements
     /\ RoomToRetire(inputs)
     /\ Retire(selected)
     /\ retirements' = retirements @@ (origin :>
          [selected |-> selected, retired |-> selected \ DOMAIN lease',
           inputs |-> inputs, discarded |-> inputs \ pending',
           held |-> held, dropped |-> held \ DOMAIN groups'])
     /\ UNCHANGED <<clock, queued, maintained, reported, shutdown, phase>>

\* The resource worker may refuse to close; what the queue held is then already
\* in the shutdown record, and a second call ends the rest.
CloseReceiver(workerEnds) ==
  /\ phase \in {"open", "closing"}
  /\ shutdown' = IF phase = "open" THEN [sessions |-> Live, inputs |-> pending] ELSE shutdown
  /\ lease' = <<>> /\ pending' = {}
  /\ phase' = IF workerEnds THEN "closed" ELSE "closing"
  /\ SetAssembly(IF workerEnds THEN [Assembly EXCEPT !.groups = <<>>, !.reserved = 0,
                                                     !.terminal = <<>>]
                 ELSE Assembly)
  /\ UNCHANGED <<clock, queued, maintained, reported, retirements>>

Advance ==
  /\ clock < MaxTime /\ clock' = clock + 1 /\ completed' = None
  /\ UNCHANGED <<lease, groups, reserved, terminal, pending, queued, maintained,
                 reported, retirements, shutdown, phase, refused, evicted>>

IngressNext ==
  \/ TickReceiver \/ Drain \/ Advance
  \/ \E f \in Fragments, renews \in BOOLEAN : Receive(f, renews)
  \/ \E s \in Sessions : Enqueue(s) \/ RetireRun(s)
  \/ \E ready \in SUBSET Sessions : BeginStep(ready)
  \/ \E workerEnds \in BOOLEAN : CloseReceiver(workerEnds)

IngressSpec == IngressInit /\ [][IngressNext]_ingressVars

----------------------------------------------------------------------------
(* Properties                                                              *)

\* The state of the ingress keeps its shape.
IngressTypeOK ==
  /\ clock \in 0 .. MaxTime /\ Live \subseteq Sessions /\ DOMAIN groups \subseteq MessageKeys
  /\ \A k \in DOMAIN groups : groups[k].header \in Headers
  /\ \A i \in DOMAIN terminal : terminal[i].key \in MessageKeys \ DOMAIN groups
  /\ pending \cup maintained \cup reported \subseteq Sessions
  /\ phase \in {"open", "closing", "closed"} /\ completed \in MessageKeys \cup {None}

\* The account of reserved memory is exactly what the groups in progress hold,
\* through refusals, expiries and sessions that end half way through a message.
ReservedExact ==
  /\ reserved = MapThenSumSet(LAMBDA k : CountOf[groups[k].header], DOMAIN groups)
  /\ reserved <= TotalLimit
  /\ \A k \in DOMAIN groups : Cardinality(DOMAIN groups[k].pieces) < CountOf[groups[k].header]

\* A message refused for a conflict, a bad payload or a timeout completes again
\* only once its retention is over, unless the bounded cache forgot it earlier.
RefusalHolds ==
  completed # None => clock >= refused[completed] \/ completed \in evicted

\* An input that was queued is pending, was given to a step or to a reader, or
\* is in exactly one record: no path that ends a session loses one silently.
InputsAccounted ==
  LET places == <<pending, maintained, reported, CapturedInputs, shutdown.inputs>>
  IN /\ queued = UNION {places[i] : i \in DOMAIN places}
     /\ \A i, j \in DOMAIN places : i # j => places[i] \cap places[j] = {}

\* A retirement removed all it captured, and nothing of the sessions it names is
\* in progress, pending or live ever after.
RetirementComplete ==
  \A o \in DOMAIN retirements :
    LET r == retirements[o]
    IN /\ r.retired = r.selected /\ r.discarded = r.inputs /\ r.dropped = r.held
       /\ Live \cap r.selected = {} /\ pending \cap r.selected = {}
       /\ GroupOf(r.selected) = {}

\* The receiver's tables, over expiry, refusal and retirement: memory is accounted
\* for, a refusal holds, no input is lost, and a retirement leaves nothing.
IngressSound ==
  /\ IngressTypeOK
  /\ ReservedExact /\ RefusalHolds
  /\ InputsAccounted /\ RetirementComplete
============================================================================
