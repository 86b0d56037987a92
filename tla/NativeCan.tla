----------------------------- MODULE NativeCan -----------------------------
(***************************************************************************)
(* The original CAN tool links of a source: the book of interface          *)
(* reservations (input_simulator/tools.py), the inputs prepared for them   *)
(* (live_tool_input.py), one sender per bus (can_signal.py) and the        *)
(* coordinator that closes them (native_tools.py).  Every call holds the   *)
(* source's operation lock; between two frames of a group the reservation  *)
(* may be released, the grant may run out and the bus may fail.  The       *)
(* receiver answers a group of which every frame reached the bus.  A       *)
(* number stands for the sequence of an input: sequences of one grant      *)
(* increase with it.  The receiver repeats no reply, since no input is     *)
(* sent twice.  Byte limits are counted in records or left out.            *)
(***************************************************************************)
EXTENDS Naturals, Sequences, FiniteSets

CONSTANTS
  Interfaces,  \* physical CAN interfaces
  Tokens,      \* 1 .. reservations ever made
  Senders,     \* 1 .. senders ever made
  Plans,       \* 1 .. inputs ever allocated
  Transactions,\* transaction numbers an input may ask for
  Frames,      \* 1 .. fragments of a group
  MaxPending,  \* max_pending of a sender
  Capacity,    \* capacity of the builder
  KeptReplies, \* replies kept for a group that nobody asked for yet, 8
  MaxGrants,   \* bound: grants of the source
  Nothing

ASSUME NativeCanAssumption ==
  /\ \A S \in {Tokens, Senders, Plans, Frames} : IsFiniteSet(S) /\ S = 1 .. Cardinality(S)
  /\ Transactions \subseteq Nat /\ Frames # {}
  /\ {MaxPending, Capacity, KeptReplies, MaxGrants} \subseteq Nat

\* What the variables hold, and nothing.
Reservations == [iface : Interfaces, held : BOOLEAN]
Inputs == [sid : Nat, tx : Nat, kind : {"beat", "input", "udp"}, token : Tokens \cup {Nothing},
           state : {"prepared", "failed", "gone"}]
Replies == [n : Nat, sid : Nat, tx : Nat, of : Plans \cup {Nothing}, to : Plans, final : BOOLEAN]
Groups == UNION {[S -> [complete : BOOLEAN, feedback : Seq(Replies)]] : S \in SUBSET Plans}
CanSenders == [token : Tokens, open : BOOLEAN, closing : BOOLEAN, closed : BOOLEAN,
               sid : Nat, last : Nat, pending : Groups]
Bursts == [k : Senders, p : Plans, next : Frames]

ASSUME NothingAssumption ==
  Nothing \notin Reservations \cup Inputs \cup CanSenders \cup Bursts \cup Tokens \cup Plans

VARIABLES
  token,   \* [Tokens -> [iface, held]], or Nothing
  sender,  \* [Senders -> [token, open, closing, closed, sid, last, pending]], or Nothing
  coord,   \* the coordinator: [state, senders], state "none", "open", "closing", "closed"
  grant,   \* [sid, live]
  plan,    \* [Plans -> [sid, tx, kind, token, state]], or Nothing
  attempt, \* the source's first attempts: [sid, seq, beat]
  burst,     \* the send in progress: [k, p, next], or Nothing
  wire,    \* the frames that reached the bus or the other link, in order
  inbox,   \* [Senders -> replies on the way]
  replies, \* [Plans -> replies the receiver made]
  high,    \* the newest feedback sequence taken, and the newest made
  told,    \* replies a caller was given: <<plan asked for, reply>>
  refused  \* plans whose send was told failed

nativeVars == <<token, sender, coord, grant, plan, attempt, burst, wire, inbox, replies, high, told, refused>>

NativeInit ==
  /\ token = [t \in Tokens |-> Nothing] /\ sender = [k \in Senders |-> Nothing] /\ coord = [state |-> "none", senders |-> {}]
  /\ grant = [sid |-> 1, live |-> TRUE] /\ plan = [p \in Plans |-> Nothing]
  /\ attempt = [sid |-> 1, seq |-> 0, beat |-> 0] /\ burst = Nothing /\ wire = <<>>
  /\ inbox = [k \in Senders |-> <<>>] /\ replies = [p \in Plans |-> 0]
  /\ high = [taken |-> 0, made |-> 0] /\ told = {} /\ refused = {}

Held(t) == t # Nothing /\ token[t] # Nothing /\ token[t].held
Owners == {k \in Senders : sender[k] # Nothing /\ ~sender[k].closed}
IfaceOf(k) == token[sender[k].token].iface
Source == burst = Nothing
Usable(k) == sender[k] # Nothing /\ ~sender[k].closing /\ ~sender[k].closed /\ sender[k].open
Book == <<token, sender>>
Link == <<wire, inbox, replies, high, told, refused>>

----------------------------------------------------------------------------
(* ChannelReservations                                                     *)

\* Fault: an interface is free as soon as its reservation is released.
FreeBySender(i) == \A t \in Tokens : Held(t) => token[t].iface # i
Free(i) == /\ \A t \in Tokens : Held(t) => token[t].iface # i
           /\ \A k \in Owners : IfaceOf(k) # i

Reserve(t, i) ==
  /\ token[t] = Nothing /\ (t > 1 => token[t - 1] # Nothing) /\ Free(i)
  /\ token' = [token EXCEPT ![t] = [iface |-> i, held |-> TRUE]]
  /\ UNCHANGED <<sender, coord, grant, plan, attempt, burst, Link>>

ReleaseToken(t) ==
  /\ Held(t) /\ token' = [token EXCEPT ![t].held = FALSE]
  /\ UNCHANGED <<sender, coord, grant, plan, attempt, burst, Link>>

\* CANSignalSender.__init__: the backend is claimed, then the bus opened; a
\* bus that does not open gives the claim back.
Create(k, t) ==
  /\ Source /\ coord.state \in {"none", "closed"}
  /\ sender[k] = Nothing /\ (k > 1 => sender[k - 1] # Nothing) /\ Held(t) /\ grant.live
  /\ \A j \in Owners : sender[j].token # t /\ IfaceOf(j) # token[t].iface
  /\ sender' = [sender EXCEPT ![k] = [token |-> t, open |-> TRUE, closing |-> FALSE, closed |-> FALSE,
                                      sid |-> 0, last |-> 0, pending |-> <<>>]]
  /\ UNCHANGED <<token, coord, grant, plan, attempt, burst, Link>>

\* NativeToolCoordinator.__init__: before any input of the grant is allocated.
Attach ==
  /\ Source /\ coord.state \in {"none", "closed"} /\ grant.live /\ Owners # {}
  /\ \A k \in Owners : Usable(k) /\ Held(sender[k].token) /\ DOMAIN sender[k].pending = {}
  /\ \A p \in Plans : plan[p] # Nothing => plan[p].sid # grant.sid
  /\ coord' = [state |-> "open", senders |-> Owners]
  /\ UNCHANGED <<Book, grant, plan, attempt, burst, Link>>

----------------------------------------------------------------------------
(* The source: its grant, the inputs it allocates, its other link          *)

Lapse == grant.live /\ grant' = [grant EXCEPT !.live = FALSE]
         /\ UNCHANGED <<Book, coord, plan, attempt, burst, Link>>
Reopen == /\ Source /\ ~grant.live /\ grant.sid < MaxGrants
          /\ grant' = [sid |-> grant.sid + 1, live |-> TRUE]
          /\ UNCHANGED <<Book, coord, plan, attempt, burst, Link>>

Fresh(p) == plan[p] = Nothing /\ (p > 1 => plan[p - 1] # Nothing)
Kept == {p \in Plans : plan[p] # Nothing /\ plan[p].state \in {"prepared", "failed"}}

\* LiveToolInputBuilder.prepare: what goes wrong after the allocation leaves a
\* failed preparation with its sequence used up.
PrepareInput(p, t, kind, tx) ==
  /\ Source /\ coord.state = "open" /\ Fresh(p) /\ Held(t) /\ grant.live /\ Cardinality(Kept) < Capacity
  /\ \E state \in {"prepared", "failed"} :
       plan' = [plan EXCEPT ![p] = [sid |-> grant.sid, tx |-> tx, kind |-> kind, token |-> t, state |-> state]]
  /\ UNCHANGED <<Book, coord, grant, attempt, burst, Link>>

\* Fault: only the same input sent again is behind.
BehindItself(sid, seq) == sid = attempt.sid /\ seq = attempt.seq
Behind(sid, seq) == sid = attempt.sid /\ seq <= attempt.seq
BeatUsed(p) == plan[p].kind = "beat" /\ plan[p].sid = attempt.sid /\ plan[p].tx <= attempt.beat

\* SourceSession._claim_can_attempt
Claimed(p) ==
  [sid |-> plan[p].sid, seq |-> p,
   beat |-> IF plan[p].kind = "beat" THEN plan[p].tx
            ELSE IF plan[p].sid = attempt.sid THEN attempt.beat ELSE 0]

\* An input of the dispatcher's own link, answered there at once.
Elsewhere(p) ==
  /\ Source /\ Fresh(p) /\ grant.live
  /\ plan' = [plan EXCEPT ![p] = [sid |-> grant.sid, tx |-> 0, kind |-> "udp", token |-> Nothing, state |-> "gone"]]
  /\ attempt' = [sid |-> grant.sid, seq |-> p,
                 beat |-> IF attempt.sid = grant.sid THEN attempt.beat ELSE 0]
  /\ wire' = Append(wire, <<p, 1, 0>>)
  /\ high' = [taken |-> high.made + 1, made |-> high.made + 1]
  /\ UNCHANGED <<Book, coord, grant, burst, inbox, replies, told, refused>>

----------------------------------------------------------------------------
(* CANSignalSender.send                                                    *)

Authority(k, p) ==
  Held(sender[k].token) /\ grant.live /\ plan[p].sid = grant.sid /\ plan[p].state = "prepared"
Waiting(k) == DOMAIN sender[k].pending

\* Fault: an input prepared for another interface is let in.
AdmittedAnyToken(k, p) ==
  /\ Authority(k, p) /\ (sender[k].sid # plan[p].sid => Waiting(k) = {})
  /\ (sender[k].sid = plan[p].sid => p > sender[k].last) /\ p \notin Waiting(k)
  /\ Cardinality(Waiting(k)) < MaxPending
Admitted(k, p) ==
  /\ plan[p].token = sender[k].token /\ Authority(k, p)
  /\ (sender[k].sid # plan[p].sid => Waiting(k) = {})
  /\ (sender[k].sid = plan[p].sid => p > sender[k].last) /\ p \notin Waiting(k)
  /\ Cardinality(Waiting(k)) < MaxPending

\* The group joins those that wait.
With(gs, p) ==
  [q \in DOMAIN gs \cup {p} |-> IF q = p THEN [complete |-> FALSE, feedback |-> <<>>] ELSE gs[q]]

Send(k, p) ==
  /\ Source /\ coord.state = "open" /\ Usable(k) /\ plan[p] # Nothing /\ Admitted(k, p)
  /\ plan[p].kind = "beat" =>
       ~\E q \in Waiting(k) : plan[q].kind = "beat" /\ plan[q].tx = plan[p].tx
  /\ ~Behind(plan[p].sid, p) /\ ~BeatUsed(p)
  /\ attempt' = Claimed(p)
  /\ sender' = [sender EXCEPT ![k].sid = plan[p].sid, ![k].last = p,
                              ![k].pending = With(@, p)]
  /\ burst' = [k |-> k, p |-> p, next |-> 1]
  /\ UNCHANGED <<token, coord, grant, plan, Link>>

SendFails == /\ refused' = refused \cup {burst.p} /\ burst' = Nothing /\ UNCHANGED sender

\* One frame: the authority is asked before and after it, the bus may fail
\* with or without the frame, and the group has a deadline.
Frame ==
  /\ ~Source /\ UNCHANGED <<token, coord, grant, plan, attempt, inbox, replies, high, told>>
  /\ \/ UNCHANGED wire /\ SendFails
     \/ /\ Authority(burst.k, burst.p) /\ wire' = Append(wire, <<burst.p, burst.next, burst.k>>)
        /\ \/ SendFails
           \/ /\ burst.next + 1 \in Frames /\ burst' = [burst EXCEPT !.next = @ + 1]
              /\ UNCHANGED <<sender, refused>>
           \/ /\ burst.next + 1 \notin Frames /\ burst' = Nothing
              /\ sender' = [sender EXCEPT ![burst.k].pending[burst.p].complete = TRUE]
              /\ UNCHANGED refused

----------------------------------------------------------------------------
(* The receiver's feedback                                                 *)

OnWire(p, k) == \A f \in Frames : \E n \in DOMAIN wire : wire[n] = <<p, f, k>>
Final(p, n) == plan[p].kind = "beat" \/ n = 2

\* A heartbeat is answered once, an input accepted and then applied; a reply
\* may get lost.
Answer(k, p) ==
  /\ plan[p] # Nothing /\ OnWire(p, k) /\ replies[p] < 2
  /\ replies[p] = 1 => ~Final(p, 1)
  /\ replies' = [replies EXCEPT ![p] = @ + 1] /\ high' = [high EXCEPT !.made = @ + 1]
  /\ LET r == [n |-> high.made + 1, sid |-> plan[p].sid, tx |-> plan[p].tx,
               of |-> IF plan[p].kind = "beat" THEN Nothing ELSE p, to |-> p, final |-> Final(p, replies[p] + 1)]
     IN \E came \in BOOLEAN : inbox' = IF came THEN [inbox EXCEPT ![k] = Append(@, r)] ELSE inbox
  /\ UNCHANGED <<Book, coord, grant, plan, attempt, burst, wire, told, refused>>

\* SourceSession._check_reply: an acknowledgement names its request, a Status
\* only the transaction.
Correlates(r, p) ==
  /\ r.sid = plan[p].sid /\ r.tx = plan[p].tx
  /\ IF r.of = Nothing THEN plan[p].kind = "beat" ELSE r.of = p

Candidates(k, r) ==
  {p \in Waiting(k) : sender[k].pending[p].complete /\ r.sid = plan[p].sid /\ r.tx = plan[p].tx}
\* Fault: a group's transaction alone tells that it is meant.
MatchedByTransaction(k, r) == Candidates(k, r)
Matched(k, r) == {p \in Candidates(k, r) : Correlates(r, p)}

\* The reply is handed out; a final one retires the group.
Hand(p, r, gs) == IF r.final THEN [q \in DOMAIN gs \ {p} |-> gs[q]] ELSE gs
Asked(k, p) ==
  /\ Source /\ coord.state = "open" /\ Usable(k) /\ p \in Waiting(k) /\ plan[p].token = sender[k].token
  /\ Authority(k, p) /\ sender[k].pending[p].complete

Take(k, p) ==
  LET open == sender[k].pending
      r == Head(open[p].feedback)
  IN /\ Asked(k, p) /\ open[p].feedback # <<>>
     /\ sender' = [sender EXCEPT ![k].pending = Hand(p, r, [open EXCEPT ![p].feedback = Tail(@)])]
     /\ told' = told \cup {<<p, r>>}
     /\ UNCHANGED <<token, coord, grant, plan, attempt, burst, wire, inbox, replies, high, refused>>

\* One frame of the receive loop, asked for p: kept for the one group it
\* answers; unknown, ambiguous or older feedback, and what its group has no room
\* for, is recorded and passed over.
Listen(k, p) ==
  LET r == Head(inbox[k])
      open == sender[k].pending
      target == CHOOSE q \in Matched(k, r) : TRUE
      known == /\ Cardinality(Matched(k, r)) = 1 /\ r.n > high.taken
               /\ target = p \/ Len(open[target].feedback) < KeptReplies
  IN /\ Asked(k, p) /\ open[p].feedback = <<>> /\ inbox[k] # <<>>
     /\ inbox' = [inbox EXCEPT ![k] = Tail(@)]
     /\ high' = IF known THEN [high EXCEPT !.taken = r.n] ELSE high
     /\ IF known /\ target = p
        THEN told' = told \cup {<<p, r>>} /\ sender' = [sender EXCEPT ![k].pending = Hand(p, r, open)]
        ELSE /\ UNCHANGED told
             /\ sender' = IF known THEN [sender EXCEPT ![k].pending[target].feedback = Append(@, r)] ELSE sender
     /\ UNCHANGED <<token, coord, grant, plan, attempt, burst, wire, replies, refused>>

----------------------------------------------------------------------------
(* Giving up: retire, discard, close                                       *)

Retire(k, p) ==
  /\ Source /\ sender[k] # Nothing /\ p \in Waiting(k)
  /\ sender' = [sender EXCEPT ![k].pending = [q \in DOMAIN @ \ {p} |-> @[q]]]
  /\ UNCHANGED <<token, coord, grant, plan, attempt, burst, Link>>

\* discard_can, discard_failed_can: not while its attempt awaits feedback.
Discard(p) ==
  /\ Source /\ p \in Kept
  /\ \E k \in Senders : sender[k] # Nothing /\ sender[k].token = plan[p].token /\ p \notin Waiting(k)
  /\ plan' = [plan EXCEPT ![p].state = "gone"]
  /\ UNCHANGED <<Book, coord, grant, attempt, burst, Link>>

\* Fault: a bus that did not shut down gives its interface back.
ClosedRegardless(s, ok) == [s EXCEPT !.closing = TRUE, !.open = @ /\ ~ok, !.closed = TRUE]
\* CANSignalSender.close: a bus that does not shut down keeps its owner.
Closed(s, ok) == [s EXCEPT !.closing = TRUE, !.open = @ /\ ~ok, !.closed = @ \/ ok]

CloseSender(k) ==
  /\ Source /\ coord.state = "open" /\ k \in Owners
  /\ \E ok \in BOOLEAN : sender' = [sender EXCEPT ![k] = Closed(@, ok)]
  /\ UNCHANGED <<token, coord, grant, plan, attempt, burst, Link>>

\* NativeToolCoordinator.close: the senders in their order, up to one that fails.
CloseAll ==
  LET mine == coord.senders \cap Owners
  IN /\ Source /\ coord.state \in {"open", "closing"}
     /\ \/ /\ sender' = [k \in Senders |-> IF k \in mine THEN Closed(sender[k], TRUE) ELSE sender[k]]
           /\ coord' = [coord EXCEPT !.state = "closed"]
        \/ \E bad \in mine :
             /\ sender' = [k \in Senders |-> IF k \in mine /\ k <= bad
                                             THEN Closed(sender[k], k # bad) ELSE sender[k]]
             /\ coord' = [coord EXCEPT !.state = "closing"]
     /\ UNCHANGED <<token, grant, plan, attempt, burst, Link>>

NativeNext ==
  \/ \E t \in Tokens, i \in Interfaces : Reserve(t, i)
  \/ \E t \in Tokens : ReleaseToken(t)
  \/ \E k \in Senders, t \in Tokens : Create(k, t)
  \/ \E p \in Plans, t \in Tokens, kind \in {"beat", "input"}, tx \in Transactions : PrepareInput(p, t, kind, tx)
  \/ \E p \in Plans : Elsewhere(p) \/ Discard(p)
  \/ \E k \in Senders, p \in Plans :
       Send(k, p) \/ Answer(k, p) \/ (sender[k] # Nothing /\ (Take(k, p) \/ Listen(k, p) \/ Retire(k, p)))
  \/ \E k \in Senders : CloseSender(k)
  \/ Lapse \/ Reopen \/ Frame \/ Attach \/ CloseAll

NativeSpec == NativeInit /\ [][NativeNext]_nativeVars

----------------------------------------------------------------------------
(* Properties                                                              *)

\* Waiting groups belong to plans of the sender's token and grant, and the
\* builder keeps within its capacity.
NativeTypeOK ==
  /\ Cardinality(Kept) <= Capacity
  /\ \A k \in Senders : sender[k] # Nothing =>
       /\ Cardinality(Waiting(k)) <= MaxPending
       /\ \A p \in Waiting(k) : plan[p].token = sender[k].token /\ plan[p].sid = sender[k].sid

\* An interface has one user: while a bus is open nobody else holds its
\* interface, also after the reservation it was opened under was released.
OneUserPerInterface ==
  \A k \in Senders : sender[k] # Nothing /\ sender[k].open =>
    /\ \A j \in Senders \ {k} : sender[j] # Nothing /\ sender[j].open => IfaceOf(j) # IfaceOf(k)
    /\ \A t \in Tokens : Held(t) /\ token[t].iface = IfaceOf(k) => t = sender[k].token

\* Whatever the link, the inputs of a grant leave in the order of their
\* sequences and each fragment at most once: a failed group is not tried again.
TxInOrder ==
  \A m, n \in DOMAIN wire : m < n /\ plan[wire[m][1]].sid = plan[wire[n][1]].sid =>
    wire[m][1] < wire[n][1] \/ (wire[m][1] = wire[n][1] /\ wire[m][2] < wire[n][2])

\* A caller is told only what the receiver said of the input it asked about,
\* and nothing of an input whose sending was told failed.
ToldOfItsOwn ==
  \A x \in told : x[2].to = x[1] /\ x[1] \notin refused

\* The coordinator is closed only when no bus of its senders is open.
CoordinatorClosed ==
  coord.state = "closed" => \A k \in coord.senders : ~sender[k].open

\* Reservations, buses, groups and replies agree: one user an interface, inputs in
\* order and once, replies to their own caller, and nothing open when closed.
NativeSound ==
  NativeTypeOK /\ OneUserPerInterface /\ TxInOrder /\ ToldOfItsOwn /\ CoordinatorClosed
=============================================================================
