------------------------------- MODULE Replay -------------------------------
(***************************************************************************)
(* A recorded capture on its way to a replay: decoded into whole messages  *)
(* (input_simulator/history.py), prepared for a window, a mode and newly   *)
(* allocated headers (replay.py) and exported as files of one channel each *)
(* (replay_export.py).  The exporter is handed a plain value and checks it *)
(* again, so here the value may be altered on the way.  Bytes are named by *)
(* the message and the fragment they carry; hashes, sizes and the syntax   *)
(* of the containers are left out.  Offsets are counted in halves, so that *)
(* a doubled rate stays exact.                                             *)
(***************************************************************************)
EXTENDS Naturals, Sequences, FiniteSets, SequencesExt

CONSTANTS
  Captures,    \* captured files: sequences of [dom, t, m, i], i the fragment
  GroupTimeout,     \* reassembly timeout of a group
  NewHeaders,  \* headers an allocation may use: [sid, seq, tx]
  Policies,    \* policies: [mode, from, upto, rate, rewrite]
  Destinations,\* functions from a captured domain to a channel, 0 for another one
  Aux          \* fragments an auxiliary frame becomes when it is encoded

\* A message is [sid, seq, tx, dir, n, body], an auxiliary frame has sid 0.
Fields == {"SESSION", "SEQUENCE", "TRANSACTION", "SOURCE_ENDPOINT", "CRC"}
ASSUME ReplayAssumption ==
  /\ {GroupTimeout, Aux} \subseteq Nat \ {0} /\ \A pol \in Policies : pol.rewrite \subseteq Fields
  /\ \A c \in Captures : c \in Seq([dom : Nat, t : Nat, m : UNION {{p.m : p \in Range(d)} : d \in Captures}, i : Nat])

VARIABLES
  capture,  \* the packets of the file, in its order
  left,     \* indices of packets still to be decoded, domain by domain
  groups,   \* incomplete groups: a function from key to the indices so far
  records,  \* whole messages: [m, at, to, idx]
  policy,   \* [mode, from, upto, rate, rewrite], or <<>>
  prepared, \* packets of the replay: [rec, orig, gen, at, hdr, ch]
  stage     \* "decode", "decoded", "prepared", "altered", "exported" or "refused"

replayVars == <<capture, left, groups, records, policy, prepared, stage>>

Domains(c) == {c[n].dom : n \in DOMAIN c}
DomainOrder(c) == SetToSortSeq(Domains(c), LAMBDA d, e :
  \E n \in DOMAIN c : c[n].dom = d /\ \A k \in DOMAIN c : c[k].dom = e => n < k)
InDomain(c, d) == SelectSeq([n \in DOMAIN c |-> n], LAMBDA n : c[n].dom = d)
DecodeOrder(c) == FlattenSeq([x \in DOMAIN DomainOrder(c) |-> InDomain(c, DomainOrder(c)[x])])

ReplayInit ==
  /\ capture \in Captures /\ left = DecodeOrder(capture) /\ groups = <<>> /\ records = <<>>
  /\ policy = <<>> /\ prepared = <<>> /\ stage = "decode"

IsAux(m) == m.sid = 0
Refused == stage' = "refused" /\ UNCHANGED <<capture, left, groups, records, policy, prepared>>

----------------------------------------------------------------------------
(* HistoryDecoder.decode                                                   *)

ClocksForward(c) ==
  \A k, n \in DOMAIN c : k < n /\ c[k].dom = c[n].dom => c[k].t <= c[n].t
Key(p) == <<p.dom, p.m.dir, p.m.sid, p.m.seq, p.m.tx>>
GroupOf(p) == IF Key(p) \in DOMAIN groups THEN groups[Key(p)] ELSE <<>>

\* Assembler.expire, asked before every packet of the domain.
Expired(n) == {k \in DOMAIN groups : capture[n].t >= capture[groups[k][1]].t + GroupTimeout}

\* The pieces of a group agree with each other; the same piece twice is kept
\* with its packet but adds nothing.
Agree(idx) == \A x, y \in Range(idx) : capture[x].m = capture[y].m
\* Fault: as many packets as fragments make a message whole.
WholeByCount(idx) == Len(idx) = capture[idx[1]].m.n
Whole(idx) == {capture[x].i : x \in Range(idx)} = 1 .. capture[idx[1]].m.n

Record(idx) == [m |-> capture[idx[1]].m, at |-> capture[idx[1]].t, to |-> capture[Last(idx)].t, idx |-> idx]
Without(k) == [q \in DOMAIN groups \ {k} |-> groups[q]]

\* One packet.  A domain that ends with incomplete groups refuses the capture.
Decode ==
  /\ stage = "decode" /\ left # <<>>
  /\ LET n == Head(left)
         p == capture[n]
         idx == Append(GroupOf(p), n)
         last == \A k \in Range(Tail(left)) : capture[k].dom # p.dom
         after == IF Whole(idx) THEN Without(Key(p)) ELSE [q \in DOMAIN groups \cup {Key(p)} |->
                    IF q = Key(p) THEN idx ELSE groups[q]]
     IN IF \/ ~ClocksForward(capture) \/ Expired(n) # {} \/ ~Agree(idx)
           \/ last /\ DOMAIN after # {}
        THEN Refused
        ELSE /\ left' = Tail(left) /\ groups' = after
             /\ records' = IF Whole(idx) THEN Append(records, Record(idx)) ELSE records
             /\ UNCHANGED <<capture, policy, prepared, stage>>

Sorted == SortSeq(records, LAMBDA r, s : r.idx[1] < s.idx[1])

\* check_policy: the window lies within the capture, and auxiliary frames can
\* only be encoded anew.
PolicyFits(pol, recs) ==
  /\ \E r \in Range(recs) : r.at <= pol.from
  /\ pol.from <= pol.upto
  /\ \E r \in Range(recs) : pol.upto <= r.to
  /\ pol.mode # "REENCODE" => \A r \in Range(recs) : ~IsAux(r.m)

DecodeEnds(pol) ==
  /\ stage = "decode" /\ left = <<>>
  /\ IF records = <<>> \/ ~PolicyFits(pol, Sorted) THEN Refused
     ELSE /\ records' = Sorted /\ policy' = pol /\ stage' = "decoded"
          /\ UNCHANGED <<capture, left, groups, prepared>>

----------------------------------------------------------------------------
(* ReplayProcessor.prepare                                                 *)

Touches(r) == r.to >= policy.from /\ r.at <= policy.upto
Cut(r) == r.at < policy.from \/ r.to > policy.upto
Selected == SelectSeq([x \in DOMAIN records |-> x], LAMBDA x : Touches(records[x]) /\ records[x].m.dir = "TO_36")
CapturedSessions == {r.m.sid : r \in Range(records)}

SameOriginal(x, y) ==
  ~IsAux(records[x].m) /\ ~IsAux(records[y].m)
  /\ records[x].m.sid = records[y].m.sid /\ records[x].m.seq = records[y].m.seq
Transacts(x) == ~IsAux(records[x].m) /\ records[x].m.tx # 0
Earlier(x) == {y \in Range(Selected) : y < x}

\* Fault: transactions may be merged.
HeadersMerged(h) ==
  \A x \in Range(Selected) :
    /\ h[x].sid \notin CapturedSessions \cup {0}
    /\ \A y \in Earlier(x) :
         /\ h[y].sid = h[x].sid
         /\ SameOriginal(x, y) => records[x].m = records[y].m /\ h[x] = h[y]
         /\ (\A z \in Earlier(x) : ~SameOriginal(x, z)) => h[y].seq < h[x].seq
         /\ Transacts(x) /\ Transacts(y) /\ records[x].m.tx = records[y].m.tx => h[x].tx = h[y].tx
\* _headers: one new session; a retry keeps the identity of what it repeats,
\* anything else gets a higher sequence; transactions neither split nor merge.
HeadersFit(h) ==
  /\ HeadersMerged(h)
  /\ \A x \in Range(Selected) : \A y \in Earlier(x) :
       Transacts(x) /\ Transacts(y) /\ records[x].m.tx # records[y].m.tx => h[x].tx # h[y].tx

Original(x) == [sid |-> records[x].m.sid, seq |-> records[x].m.seq, tx |-> records[x].m.tx]

\* What one record becomes: its packets in their order, or the fragments of
\* its encoding.
Pieces(x) ==
  LET idx == records[x].idx
  IN CASE policy.mode # "REENCODE" -> [k \in DOMAIN idx |-> [orig |-> idx[k], gen |-> k - 1]]
       [] policy.mode = "REENCODE" /\ ~IsAux(records[x].m) -> [k \in DOMAIN idx |-> [orig |-> idx[k], gen |-> capture[idx[k]].i - 1]]
       [] OTHER -> [k \in 1 .. Aux |-> [orig |-> idx[1], gen |-> k - 1]]

OffsetOf(orig) == ((capture[orig].t - policy.from) * 2) \div policy.rate

Changed(x, hdr, ch) ==
  LET formal == ~IsAux(records[x].m) /\ policy.mode # "RAW_VALIDATED"
      fields == {f \in {"SESSION"} : formal /\ hdr.sid # records[x].m.sid}
          \cup {f \in {"SEQUENCE"} : formal /\ hdr.seq # records[x].m.seq}
          \cup {f \in {"TRANSACTION"} : formal /\ hdr.tx # records[x].m.tx}
          \cup {f \in {"SOURCE_ENDPOINT"} : ch # capture[records[x].idx[1]].dom}
  IN IF fields = {} /\ ~IsAux(records[x].m) THEN {} ELSE fields \cup {"CRC"}
Permitted(x, hdr, ch) == policy.mode = "SESSION_REBUILD" => Changed(x, hdr, ch) \subseteq policy.rewrite

ByOrigin(p, q) == p.orig < q.orig \/ (p.orig = q.orig /\ p.gen < q.gen)

Built(h, ch) ==
  SortSeq(FlattenSeq([s \in DOMAIN Selected |->
    LET x == Selected[s]
    IN [k \in DOMAIN Pieces(x) |->
         [rec |-> x, orig |-> Pieces(x)[k].orig, gen |-> Pieces(x)[k].gen,
          at |-> OffsetOf(Pieces(x)[k].orig), hdr |-> h[x], ch |-> ch[capture[records[x].idx[1]].dom]]]]), ByOrigin)

\* ch gives each captured domain the channel it is sent on, itself when no
\* destination is given; an auxiliary frame needs one.
Prepare(h, ch) ==
  /\ stage = "decoded"
  /\ IF \/ \E r \in Range(records) : Touches(r) /\ Cut(r)
        \/ Selected = <<>>
        \/ policy.mode # "RAW_VALIDATED" /\ ~HeadersFit(h)
        \/ \E x \in Range(Selected) : LET d == capture[records[x].idx[1]].dom IN
             \/ IsAux(records[x].m) /\ ch[d] = d
             \/ ~Permitted(x, h[x], ch[d])
     THEN Refused
     ELSE /\ prepared' = Built(h, ch) /\ stage' = "prepared"
          /\ UNCHANGED <<capture, left, groups, records, policy>>

\* The prepared replay is a value anybody may rebuild with other fields.
Alter ==
  /\ stage = "prepared"
  /\ \E n \in DOMAIN prepared :
       \/ prepared' = RemoveAt(prepared, n)
       \/ prepared' = InsertAt(prepared, n, prepared[n])
       \/ n < Len(prepared) /\ prepared' = [prepared EXCEPT ![n] = prepared[n + 1], ![n + 1] = prepared[n]]
       \/ \E h \in NewHeaders : prepared' = [prepared EXCEPT ![n].hdr = h]
       \/ prepared' = [prepared EXCEPT ![n].at = @ + 2]
       \/ \E x \in DOMAIN records : prepared' = [prepared EXCEPT ![n].rec = x]
  /\ prepared' # <<>> /\ stage' = "altered"
  /\ UNCHANGED <<capture, left, groups, records, policy>>

----------------------------------------------------------------------------
(* ReplayExporter.export                                                   *)

\* _packet: the packet is one of its record's, unchanged but for what its
\* mode and policy allow.
PacketFits(p) ==
  LET r == records[p.rec]
  IN /\ r.m.dir = "TO_36" /\ p.orig \in Range(r.idx)
     /\ policy.mode = "RAW_VALIDATED" => p.hdr = Original(p.rec) /\ p.ch = capture[r.idx[1]].dom
     /\ policy.mode = "REENCODE" /\ ~IsAux(r.m) => p.gen < r.m.n
     /\ policy.mode = "REENCODE" /\ IsAux(r.m) => p.gen < Aux
     /\ Permitted(p.rec, p.hdr, p.ch)
     /\ p.at % 2 = 0 /\ p.at = OffsetOf(p.orig)

\* Fault: what is missing of a group is not noticed.
GroupsNonempty == \A x \in Range(Selected) : \E n \in DOMAIN prepared : prepared[n].rec = x
\* Every selected record with all its pieces and no other record.
GroupsWhole ==
  /\ {prepared[n].rec : n \in DOMAIN prepared} = Range(Selected)
  /\ \A x \in Range(Selected) :
       LET seen == SelectSeq(prepared, LAMBDA p : p.rec = x)
       IN [n \in DOMAIN seen |-> [orig |-> seen[n].orig, gen |-> seen[n].gen]] = Pieces(x)

\* Fault: the packets are believed.
PacketsAny == \A n \in DOMAIN prepared : prepared[n].rec \in DOMAIN records
PacketsFit == \A n \in DOMAIN prepared : PacketFits(prepared[n])

Allocation == [x \in Range(Selected) |-> prepared[CHOOSE n \in DOMAIN prepared : prepared[n].rec = x].hdr]

Export ==
  /\ stage \in {"prepared", "altered"}
  /\ IF /\ PacketsFit
        /\ \A n, k \in DOMAIN prepared : n < k => ByOrigin(prepared[n], prepared[k])
        /\ \A n, k \in DOMAIN prepared : prepared[n].rec = prepared[k].rec =>
             prepared[n].hdr = prepared[k].hdr /\ prepared[n].ch = prepared[k].ch
        /\ GroupsWhole
        /\ \A r \in Range(records) : Touches(r) /\ r.m.dir = "TO_36" => ~Cut(r)
        /\ policy.mode # "RAW_VALIDATED" => HeadersFit(Allocation)
     THEN stage' = "exported" /\ UNCHANGED <<capture, left, groups, records, policy, prepared>>
     ELSE Refused

Allocate ==
  /\ stage = "decoded" /\ policy.mode # "RAW_VALIDATED"
  /\ \E h \in [Range(Selected) -> NewHeaders], ch \in Destinations : Prepare(h, ch)
Validate ==
  /\ stage = "decoded" /\ policy.mode = "RAW_VALIDATED"
  /\ Prepare([x \in Range(Selected) |-> Original(x)], [d \in Domains(capture) |-> d])

ReplayNext == Decode \/ Allocate \/ Validate \/ Alter \/ Export \/ \E pol \in Policies : DecodeEnds(pol)

ReplaySpec == ReplayInit /\ [][ReplayNext]_replayVars

----------------------------------------------------------------------------
(* Properties                                                              *)

\* A decoded capture is nothing but whole messages: every packet belongs to
\* exactly one record, and every record is complete, of one message, and took
\* no longer than the timeout, however the fragments were interleaved.
DecodedWhole ==
  stage \in {"decoded", "prepared", "altered", "exported"} =>
    /\ \A n \in DOMAIN capture : Cardinality({x \in DOMAIN records : n \in Range(records[x].idx)}) = 1
    /\ \A r \in Range(records) :
         /\ {capture[n].i : n \in Range(r.idx)} = 1 .. r.m.n /\ \A n \in Range(r.idx) : capture[n].m = r.m
         /\ r.to < r.at + GroupTimeout

Exported == stage = "exported"

\* An exported replay, also one altered on the way, holds all the packets of
\* a captured input or none, no feedback, and nothing outside the window.
ExportedWhole ==
  Exported =>
    /\ \A n \in DOMAIN prepared : records[prepared[n].rec].m.dir = "TO_36"
    /\ \A n \in DOMAIN prepared : LET t == capture[prepared[n].orig].t IN policy.from <= t /\ t <= policy.upto
    /\ \A x \in DOMAIN records :
         LET sent == {n \in DOMAIN prepared : prepared[n].rec = x}
         IN sent # {} => {prepared[n].orig : n \in sent} = Range(records[x].idx)

\* Two inputs of an exported replay share a sequence exactly when one was a
\* retry of the other, and share a transaction exactly when they did before.
IdentitiesKept ==
  Exported => \A n, k \in DOMAIN prepared :
    LET x == prepared[n].rec
        y == prepared[k].rec
    IN /\ policy.mode # "RAW_VALIDATED" => (prepared[n].hdr.seq = prepared[k].hdr.seq <=> x = y \/ SameOriginal(x, y))
       /\ Transacts(x) /\ Transacts(y) =>
            (prepared[n].hdr.tx = prepared[k].hdr.tx <=> records[x].m.tx = records[y].m.tx)

\* The gaps between exported packets are the captured ones at the policy's rate.
GapsKept ==
  Exported => \A n, k \in DOMAIN prepared :
    capture[prepared[n].orig].t <= capture[prepared[k].orig].t =>
      (prepared[k].at - prepared[n].at) * policy.rate = 2 * (capture[prepared[k].orig].t - capture[prepared[n].orig].t)

\* What is exported is what was captured: whole messages, whole inputs, the retries
\* and transactions it had, at its gaps.
ReplaySound == DecodedWhole /\ ExportedWhole /\ IdentitiesKept /\ GapsKept
=============================================================================
