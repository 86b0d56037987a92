----------------------------- MODULE ToolsProofs -----------------------------
(***************************************************************************)
(* Theorems about the tools: the export directory, for any writers and      *)
(* files, each of which may be killed or fail at any step; and the original *)
(* CAN tool links, for any interfaces, senders, plans, frames and bounds.   *)
(***************************************************************************)
EXTENDS ToolProcess, NativeCan, ExportDirectory, FiniteSetTheorems, TLAPS

(* The export directory: PublishedIsWhole of ExportDirectory.               *)

Whole(w) == [by |-> w, whole |-> TRUE]

\* The writer that made the directory and goes on.
Exporting(w) == writer[w].at \in {"file", "readback", "pending", "link", "done"}

\* One writer has made the directory; what it counts as read back is whole and
\* its own, and a manifest is over whole files.
DirectoryInv ==
  /\ writer \in [Writers -> [at : {"start", "file", "readback", "pending", "link", "done",
                                   "failed", "killed"}, n : Nat]]
  /\ disk \in [Files -> {Absent} \cup UNION {Content(w) : w \in Writers}]
  /\ \A w \in Writers :
       Exporting(w) =>
         /\ directory
         /\ \A v \in Writers : Exporting(v) => v = w
         /\ \A f \in Files : f <= writer[w].n => disk[f] = Whole(w)
         /\ writer[w].at \in {"pending", "link", "done"} => writer[w].n = Cardinality(Files)
         /\ writer[w].at = "link" => pending = Whole(w)
  /\ PublishedIsWhole

LEMMA DirectoryInvInit == DirectoryInit => DirectoryInv
BY DEF DirectoryInit, DirectoryInv, Exporting, PublishedIsWhole

\* A writer that stops leaves everything to nobody.
LEMMA WriterStops ==
  ASSUME DirectoryInv, NEW w \in Writers, NEW at \in {"failed", "killed"}, Goes(w, at, writer[w].n),
         UNCHANGED <<directory, disk, pending, manifest>>
  PROVE  DirectoryInv'
<1>1. writer' \in [Writers -> [at : {"start", "file", "readback", "pending", "link", "done",
                                     "failed", "killed"}, n : Nat]]
  BY DEF DirectoryInv, Goes
<1>2. writer'[w].at = at /\ \A v \in Writers \ {w} : writer'[v] = writer[v]
  BY DEF DirectoryInv, Goes
<1>3. \A v \in Writers : Exporting(v)' => v # w /\ Exporting(v)
  BY <1>2 DEF Exporting
<1> QED BY <1>1, <1>2, <1>3 DEF DirectoryInv, PublishedIsWhole

\* What a writer that goes on has to show.
LEMMA WriterGoes ==
  ASSUME DirectoryInv, NEW w \in Writers,
         NEW at \in {"file", "readback", "pending", "link", "done"}, NEW n \in Nat, Goes(w, at, n),
         directory', disk' \in [Files -> {Absent} \cup UNION {Content(v) : v \in Writers}],
         \A v \in Writers \ {w} : ~Exporting(v),
         \A f \in Files : f <= n => disk'[f] = Whole(w),
         at \in {"pending", "link", "done"} => n = Cardinality(Files),
         at = "link" => pending' = Whole(w),
         PublishedIsWhole'
  PROVE  DirectoryInv'
<1>1. writer' \in [Writers -> [at : {"start", "file", "readback", "pending", "link", "done",
                                     "failed", "killed"}, n : Nat]]
  BY DEF DirectoryInv, Goes
<1>2. writer'[w].at = at /\ writer'[w].n = n /\ \A v \in Writers \ {w} : writer'[v] = writer[v]
  BY DEF DirectoryInv, Goes
<1>3. \A v \in Writers : Exporting(v)' => v = w
  BY <1>2 DEF Exporting
<1> QED BY <1>1, <1>2, <1>3 DEF DirectoryInv

LEMMA DirectoryInvStep == ASSUME DirectoryInv, [DirectoryNext]_directoryVars PROVE DirectoryInv'
<1>1. CASE UNCHANGED directoryVars
  BY <1>1 DEF directoryVars, DirectoryInv, Exporting, PublishedIsWhole
<1>2. ASSUME NEW w \in Writers, Killed(w) PROVE DirectoryInv'
  BY <1>2, WriterStops DEF Killed
<1>3. ASSUME NEW w \in Writers, WriterStep(w),
             Fails(w), UNCHANGED <<directory, disk, pending, manifest>>
      PROVE  DirectoryInv'
  BY <1>3, WriterStops DEF Fails
<1>4. ASSUME NEW w \in Writers PROVE writer[w].n \in Nat
  BY DEF DirectoryInv
<1>5. ASSUME NEW w \in Writers, Mkdir(w), ~directory PROVE DirectoryInv'
  <2>1. directory' = TRUE /\ Goes(w, "file", 0) /\ UNCHANGED <<disk, pending, manifest>>
    BY <1>5 DEF Mkdir
  <2>2. \A v \in Writers : ~Exporting(v)
    BY <1>5 DEF DirectoryInv
  <2>4. directory' /\ disk' \in [Files -> {Absent} \cup UNION {Content(v) : v \in Writers}] /\ PublishedIsWhole'
    BY <2>1 DEF DirectoryInv, PublishedIsWhole
  <2>5. \A f \in Files : f <= 0 => disk'[f] = Whole(w)
    <3>1. \A f \in Files : f \in Nat /\ f > 0
      BY ExportDirectoryAssumption, FS_CardinalityType DEF ExportDirectoryAssumption
    <3> QED BY <3>1
  <2> QED BY <2>1, <2>2, <2>4, <2>5, WriterGoes
<1>6. ASSUME NEW w \in Writers, WriteFile(w), disk[writer[w].n + 1] = Absent PROVE DirectoryInv'
  <2> DEFINE f == writer[w].n + 1
  <2>1. PICK c \in Content(w) : disk' = [disk EXCEPT ![f] = c]
    BY <1>6 DEF WriteFile
  <2>2. writer[w].at = "file" /\ f \in Files /\ Goes(w, "readback", writer[w].n)
        /\ UNCHANGED <<directory, pending, manifest>>
    BY <1>6 DEF WriteFile
  <2>3. Exporting(w)
    BY <2>2 DEF Exporting
  <2>4. disk' \in [Files -> {Absent} \cup UNION {Content(v) : v \in Writers}]
    BY <2>1 DEF DirectoryInv
  <2>5. \A g \in Files : g <= writer[w].n => g # f /\ disk'[g] = disk[g]
    BY <1>4, <2>1 DEF DirectoryInv
  <2>6. PublishedIsWhole'
    BY <1>6, <2>2 DEF DirectoryInv, PublishedIsWhole
  <2> QED BY <1>4, <2>2, <2>3, <2>4, <2>5, <2>6, WriterGoes DEF DirectoryInv
<1>7. ASSUME NEW w \in Writers, ReadFile(w), Readback(disk[writer[w].n + 1], w) PROVE DirectoryInv'
  <2> DEFINE f == writer[w].n + 1
  <2>1. writer[w].at = "readback" /\ Goes(w, "file", f) /\ UNCHANGED <<directory, disk, pending, manifest>>
    BY <1>7 DEF ReadFile
  <2>2. Exporting(w)
    BY <2>1 DEF Exporting
  <2>3. disk[f] = Whole(w)
    BY <1>7 DEF Readback, Whole
  <2>4. f \in Nat
    BY <1>4
  <2>5. \A g \in Files : g <= f => g <= writer[w].n \/ g = f
    BY <1>4, ExportDirectoryAssumption, FS_CardinalityType DEF ExportDirectoryAssumption
  <2>6. \A g \in Files : g <= f => disk'[g] = Whole(w)
    BY <2>1, <2>2, <2>3, <2>5 DEF DirectoryInv
  <2>7. directory' /\ disk' \in [Files -> {Absent} \cup UNION {Content(v) : v \in Writers}]
        /\ (\A v \in Writers \ {w} : ~Exporting(v)) /\ PublishedIsWhole'
    BY <2>1, <2>2 DEF DirectoryInv, PublishedIsWhole
  <2> HIDE DEF f
  <2> QED BY <2>1, <2>4, <2>6, <2>7, WriterGoes
<1>8. ASSUME NEW w \in Writers, WritePending(w), pending = Absent PROVE DirectoryInv'
  <2>1. writer[w].at = "file" /\ writer[w].n = Cardinality(Files) /\ Goes(w, "pending", writer[w].n)
        /\ UNCHANGED <<directory, disk, manifest>>
    BY <1>8 DEF WritePending
  <2>2. Exporting(w)
    BY <2>1 DEF Exporting
  <2> QED BY <1>4, <2>1, <2>2, WriterGoes DEF DirectoryInv, PublishedIsWhole
<1>9. ASSUME NEW w \in Writers, ReadPending(w), Readback(pending, w) PROVE DirectoryInv'
  <2>1. writer[w].at = "pending" /\ Goes(w, "link", writer[w].n)
        /\ UNCHANGED <<directory, disk, pending, manifest>>
    BY <1>9 DEF ReadPending
  <2>2. Exporting(w) /\ pending = Whole(w)
    BY <1>9, <2>1 DEF Exporting, Readback, Whole
  <2> QED BY <1>4, <2>1, <2>2, WriterGoes DEF DirectoryInv, PublishedIsWhole
<1>10. ASSUME NEW w \in Writers, Publish(w), manifest = Absent PROVE DirectoryInv'
  <2>1. writer[w].at = "link" /\ manifest' = pending /\ Goes(w, "done", writer[w].n)
        /\ UNCHANGED <<directory, disk, pending>>
    BY <1>10 DEF Publish
  <2>2. Exporting(w)
    BY <2>1 DEF Exporting
  <2>3. pending = Whole(w) /\ writer[w].n = Cardinality(Files)
    BY <2>1, <2>2 DEF DirectoryInv
  <2>4. \A f \in Files : f <= writer[w].n
    BY <2>3, ExportDirectoryAssumption, FS_CardinalityType DEF ExportDirectoryAssumption
  <2>5. PublishedIsWhole'
    BY <2>1, <2>2, <2>3, <2>4 DEF DirectoryInv, PublishedIsWhole, Whole
  <2> QED BY <1>4, <2>1, <2>2, <2>5, WriterGoes DEF DirectoryInv
<1> QED
  BY <1>1, <1>2, <1>3, <1>5, <1>6, <1>7, <1>8, <1>9, <1>10
     DEF DirectoryNext, WriterStep, Mkdir, WriteFile, ReadFile, WritePending, ReadPending, Publish

\* A reader that finds manifest.json finds the complete files of one writer under
\* it, however many processes were given the path and wherever they were killed
\* (replay_export.py).
THEOREM ExportIsWhole == DirectorySpec => []PublishedIsWhole
<1>1. DirectoryInv => PublishedIsWhole
  BY DEF DirectoryInv
<1> QED BY <1>1, DirectoryInvInit, DirectoryInvStep, PTL DEF DirectorySpec


----------------------------------------------------------------------------
(* The CAN tool links: NativeSound of NativeCan.                            *)

NativeShape ==
  /\ token \in [Tokens -> Reservations \cup {Nothing}]
  /\ sender \in [Senders -> CanSenders \cup {Nothing}]
  /\ coord \in [state : {"none", "open", "closing", "closed"}, senders : SUBSET Senders]
  /\ grant \in [sid : Nat, live : BOOLEAN]
  /\ plan \in [Plans -> Inputs \cup {Nothing}]
  /\ attempt \in [sid : Nat, seq : {0} \cup Plans, beat : Nat]
  /\ burst \in Bursts \cup {Nothing}
  /\ wire \in Seq(Plans \X Frames \X (Senders \cup {0}))
  /\ inbox \in [Senders -> Seq(Replies)]
  /\ replies \in [Plans -> Nat]
  /\ high \in [taken : Nat, made : Nat]
  /\ told \subseteq Plans \X Replies
  /\ refused \subseteq Plans

\* A sender's reservation was made and a bus is open until it is closed; an
\* interface is held once and has one user.
BookInv ==
  /\ \A k \in Senders : sender[k] # Nothing =>
       token[sender[k].token] # Nothing /\ (sender[k].open <=> ~sender[k].closed)
  /\ \A t, u \in Tokens : Held(t) /\ Held(u) /\ token[t].iface = token[u].iface => t = u
  /\ \A k \in coord.senders : sender[k] # Nothing
  /\ OneUserPerInterface /\ CoordinatorClosed

\* Inputs are allocated in order, under grants up to the present one.
PlanInv ==
  /\ \A p, q \in Plans : plan[p] # Nothing /\ q < p => plan[q] # Nothing
  /\ \A p \in Plans : plan[p] # Nothing => plan[p].sid <= grant.sid
  /\ attempt.sid <= grant.sid
  /\ Cardinality(Kept) <= Capacity

\* At or behind the source's first attempts.
Attempted(p) ==
  /\ plan[p] # Nothing
  /\ plan[p].sid < attempt.sid \/ (plan[p].sid = attempt.sid /\ p <= attempt.seq)

\* What waits was attempted and belongs to its sender.
WaitInv ==
  \A k \in Senders : sender[k] # Nothing =>
    /\ Cardinality(Waiting(k)) <= MaxPending
    /\ \A p \in Waiting(k) : Attempted(p) /\ plan[p].token = sender[k].token /\ plan[p].sid = sender[k].sid

WireAttempted == \A n \in DOMAIN wire : Attempted(wire[n][1])

\* What reached a bus was attempted; the group being sent is the newest attempt
\* and is ahead of all its frames that did.
WireInv ==
  /\ WireAttempted
  /\ \A p \in refused : Attempted(p)
  /\ TxInOrder
  /\ burst # Nothing =>
       /\ Attempted(burst.p) /\ plan[burst.p].sid = attempt.sid /\ burst.p = attempt.seq
       /\ sender[burst.k] # Nothing /\ burst.p \in Waiting(burst.k)
       /\ burst.p \notin refused
       /\ \A n \in DOMAIN wire : wire[n][1] = burst.p => wire[n][2] < burst.next

OnSomeWire(p) == \E n \in DOMAIN wire : wire[n][1] = p
Tried(p) == OnSomeWire(p) \/ \E k \in Senders : sender[k] # Nothing /\ p \in Waiting(k)
TriedBeat(p) == plan[p] # Nothing /\ plan[p].kind = "beat" /\ Tried(p)

\* A grant's heartbeats have transactions of their own.
BeatInv ==
  /\ \A p \in Plans : TriedBeat(p) /\ plan[p].sid = attempt.sid => plan[p].tx <= attempt.beat
  /\ \A p, q \in Plans : TriedBeat(p) /\ TriedBeat(q) /\ plan[p].sid = plan[q].sid /\ plan[p].tx = plan[q].tx => p = q

\* A reply names what it answers the way the receiver does.
Genuine(r) ==
  /\ plan[r.to] # Nothing /\ OnSomeWire(r.to)
  /\ r.sid = plan[r.to].sid /\ r.tx = plan[r.to].tx
  /\ r.of = IF plan[r.to].kind = "beat" THEN Nothing ELSE r.to

Clear(p) == Attempted(p) /\ p \notin refused /\ (burst # Nothing => burst.p # p)

\* Replies on the way are genuine, those kept and told are the caller's own, and
\* a complete group was neither refused nor is it being sent.
InboxGenuine == \A k \in Senders : \A i \in DOMAIN inbox[k] : Genuine(inbox[k][i])
FeedbackOwn ==
  \A k \in Senders : sender[k] # Nothing => \A p \in Waiting(k) :
    \A i \in DOMAIN sender[k].pending[p].feedback : sender[k].pending[p].feedback[i].to = p
CompleteClear ==
  \A k \in Senders : sender[k] # Nothing => \A p \in Waiting(k) :
    sender[k].pending[p].complete => Clear(p)
ToldOwn == \A x \in told : x[2].to = x[1] /\ Clear(x[1])
ToldInv == InboxGenuine /\ FeedbackOwn /\ CompleteClear /\ ToldOwn

NativeInv == NativeShape /\ BookInv /\ PlanInv /\ WaitInv /\ WireInv /\ BeatInv /\ ToldInv

LEMMA NativeNats ==
  /\ Tokens \subseteq Nat /\ Senders \subseteq Nat /\ Plans \subseteq Nat /\ Frames \subseteq Nat
  /\ Transactions \subseteq Nat /\ MaxPending \in Nat /\ Capacity \in Nat /\ MaxGrants \in Nat
  /\ IsFiniteSet(Plans) /\ IsFiniteSet(Senders) /\ 1 \in Frames
  /\ 0 \notin Plans /\ 0 \notin Senders
<1>1. \A S \in {Tokens, Senders, Plans, Frames} : Cardinality(S) \in Nat
  BY FS_CardinalityType, NativeCanAssumption
<1>2. \A S \in {Tokens, Senders, Plans, Frames} : S \subseteq Nat /\ 0 \notin S
  BY <1>1, NativeCanAssumption
<1>3. 1 \in Frames
  BY <1>1, NativeCanAssumption
<1> QED BY <1>2, <1>3, NativeCanAssumption

LEMMA NothingApart ==
  /\ \A x \in Reservations : x # Nothing
  /\ \A x \in Inputs : x # Nothing
  /\ \A x \in CanSenders : x # Nothing
  /\ \A x \in Bursts : x # Nothing
  /\ Nothing \notin Tokens /\ Nothing \notin Plans
BY NothingAssumption

\* What waits at a sender is a finite set of inputs, each with its group.
LEMMA WaitingShape ==
  ASSUME NativeShape, NEW k \in Senders, sender[k] # Nothing
  PROVE  /\ sender[k] \in CanSenders /\ sender[k].pending \in Groups
         /\ Waiting(k) \subseteq Plans /\ IsFiniteSet(Waiting(k))
         /\ sender[k].pending \in [Waiting(k) -> [complete : BOOLEAN, feedback : Seq(Replies)]]
<1>1. sender[k] \in CanSenders
  BY DEF NativeShape
<1>2. sender[k].pending \in Groups
  BY <1>1 DEF CanSenders
<1>3. PICK S \in SUBSET Plans : sender[k].pending \in [S -> [complete : BOOLEAN, feedback : Seq(Replies)]]
  BY <1>2 DEF Groups
<1>4. Waiting(k) = S
  BY <1>3 DEF Waiting
<1>5. IsFiniteSet(S)
  BY FS_Subset, NativeNats
<1> QED BY <1>1, <1>2, <1>3, <1>4, <1>5

LEMMA GroupsIntro ==
  ASSUME NEW S \in SUBSET Plans, NEW gs \in [S -> [complete : BOOLEAN, feedback : Seq(Replies)]]
  PROVE  gs \in Groups
BY DEF Groups

LEMMA WithShape ==
  ASSUME NEW gs \in Groups, NEW p \in Plans
  PROVE  /\ With(gs, p) \in Groups /\ DOMAIN With(gs, p) = DOMAIN gs \cup {p}
         /\ With(gs, p)[p] = [complete |-> FALSE, feedback |-> <<>>]
         /\ \A q \in DOMAIN gs : q # p => With(gs, p)[q] = gs[q]
<1>1. PICK S \in SUBSET Plans : gs \in [S -> [complete : BOOLEAN, feedback : Seq(Replies)]]
  BY DEF Groups
<1>2. [complete |-> FALSE, feedback |-> <<>>] \in [complete : BOOLEAN, feedback : Seq(Replies)]
  OBVIOUS
<1>3. With(gs, p) \in [S \cup {p} -> [complete : BOOLEAN, feedback : Seq(Replies)]]
  BY <1>1, <1>2 DEF With
<1> QED BY <1>1, <1>3, GroupsIntro DEF With

LEMMA HandShape ==
  ASSUME NEW gs \in Groups, NEW p, NEW r
  PROVE  /\ Hand(p, r, gs) \in Groups /\ DOMAIN Hand(p, r, gs) \subseteq DOMAIN gs
         /\ \A q \in DOMAIN Hand(p, r, gs) : Hand(p, r, gs)[q] = gs[q]
<1>1. PICK S \in SUBSET Plans : gs \in [S -> [complete : BOOLEAN, feedback : Seq(Replies)]]
  BY DEF Groups
<1>2. CASE r.final
  <2>1. Hand(p, r, gs) \in [S \ {p} -> [complete : BOOLEAN, feedback : Seq(Replies)]]
    BY <1>1, <1>2 DEF Hand
  <2> QED BY <1>1, <1>2, <2>1, GroupsIntro DEF Hand
<1>3. CASE ~r.final
  BY <1>3 DEF Hand
<1> QED BY <1>2, <1>3

\* A sender with one group changed, or one field.
LEMMA SenderFields ==
  ASSUME NEW s \in CanSenders, NEW gs \in Groups
  PROVE  /\ [s EXCEPT !.pending = gs] \in CanSenders
         /\ \A sid \in Nat, last \in Nat : [s EXCEPT !.sid = sid, !.last = last, !.pending = gs] \in CanSenders
BY DEF CanSenders

LEMMA ClosedFields ==
  ASSUME NEW s \in CanSenders, NEW ok \in BOOLEAN
  PROVE  /\ Closed(s, ok) \in CanSenders
         /\ Closed(s, ok).token = s.token /\ Closed(s, ok).sid = s.sid /\ Closed(s, ok).pending = s.pending
         /\ Closed(s, ok).open <=> (s.open /\ ~ok)
         /\ Closed(s, ok).closed <=> (s.closed \/ ok)
BY DEF CanSenders, Closed

LEMMA NativeShapeInit == NativeInit => NativeShape
<1>1. \A k \in Senders : <<>> \in Seq(Replies)
  OBVIOUS
<1> QED BY <1>1 DEF NativeInit, NativeShape

\* One sender changes.
LEMMA SenderShape ==
  ASSUME NativeShape, NEW k \in Senders, NEW s \in CanSenders, sender' = [sender EXCEPT ![k] = s]
  PROVE  sender' \in [Senders -> CanSenders \cup {Nothing}]
BY DEF NativeShape

LEMMA GroupChanged ==
  ASSUME NEW gs \in Groups, NEW p \in DOMAIN gs, NEW g \in [complete : BOOLEAN, feedback : Seq(Replies)]
  PROVE  [gs EXCEPT ![p] = g] \in Groups
<1>1. PICK S \in SUBSET Plans : gs \in [S -> [complete : BOOLEAN, feedback : Seq(Replies)]]
  BY DEF Groups
<1>2. [gs EXCEPT ![p] = g] \in [S -> [complete : BOOLEAN, feedback : Seq(Replies)]]
  BY <1>1
<1> QED BY <1>2, GroupsIntro

\* What a step does to the groups of a sender.
Regroups(k, gs) ==
  /\ gs \in Groups
  /\ sender' \in [Senders -> CanSenders \cup {Nothing}] /\ sender'[k] # Nothing
  /\ sender'[k].token = sender[k].token /\ (sender'[k].open <=> sender[k].open)
  /\ (sender'[k].closed <=> sender[k].closed)
  /\ sender'[k].pending = gs
  /\ \A j \in Senders \ {k} : sender'[j] = sender[j]

LEMMA RegroupsSame ==
  ASSUME NativeShape, NEW k \in Senders, sender[k] # Nothing, NEW gs \in Groups,
         sender' = [sender EXCEPT ![k].pending = gs]
  PROVE  Regroups(k, gs) /\ sender'[k].sid = sender[k].sid
<1>1. sender[k] \in CanSenders
  BY WaitingShape
<1>2. sender' = [sender EXCEPT ![k] = [sender[k] EXCEPT !.pending = gs]]
  BY <1>1 DEF NativeShape
<1>3. [sender[k] EXCEPT !.pending = gs] \in CanSenders
  BY <1>1, SenderFields
<1>4. sender' \in [Senders -> CanSenders \cup {Nothing}]
  BY <1>2, <1>3, SenderShape
<1>5. sender'[k] = [sender[k] EXCEPT !.pending = gs] /\ \A j \in Senders \ {k} : sender'[j] = sender[j]
  BY <1>2 DEF NativeShape
<1>6. sender'[k] # Nothing
  BY <1>3, <1>5, NothingApart
<1> QED BY <1>1, <1>4, <1>5, <1>6 DEF Regroups, CanSenders

LEMMA SendRegroups ==
  ASSUME NativeShape, NEW k \in Senders, NEW p \in Plans, Send(k, p)
  PROVE  /\ Regroups(k, With(sender[k].pending, p)) /\ sender[k] # Nothing
         /\ sender'[k].sid = plan[p].sid /\ plan[p] \in Inputs
<1>1. sender[k] # Nothing /\ plan[p] # Nothing
  BY DEF Send, Usable
<1>2. sender[k] \in CanSenders /\ sender[k].pending \in Groups
  BY <1>1, WaitingShape
<1>3. plan[p] \in Inputs /\ plan[p].sid \in Nat /\ p \in Nat
  BY <1>1, NativeNats DEF NativeShape, Inputs
<1>4. With(sender[k].pending, p) \in Groups
  BY <1>2, WithShape
<1> DEFINE s == [sender[k] EXCEPT !.sid = plan[p].sid, !.last = p, !.pending = With(sender[k].pending, p)]
<1>5. sender' = [sender EXCEPT ![k] = s]
  BY <1>2 DEF Send, NativeShape
<1>6. s \in CanSenders
  BY <1>2, <1>3, <1>4, SenderFields
<1>7. /\ s.token = sender[k].token /\ s.sid = plan[p].sid /\ s.pending = With(sender[k].pending, p)
      /\ (s.open <=> sender[k].open) /\ (s.closed <=> sender[k].closed)
  BY <1>2 DEF CanSenders
<1> HIDE DEF s
<1>8. sender' \in [Senders -> CanSenders \cup {Nothing}]
  BY <1>5, <1>6, SenderShape
<1>9. sender'[k] = s /\ \A j \in Senders \ {k} : sender'[j] = sender[j]
  BY <1>5 DEF NativeShape
<1>10. sender'[k] # Nothing
  BY <1>6, <1>9, NothingApart
<1> QED BY <1>1, <1>3, <1>4, <1>7, <1>8, <1>9, <1>10 DEF Regroups

\* The last frame of a group.
Completes ==
  /\ burst.next + 1 \notin Frames /\ burst' = Nothing /\ UNCHANGED refused
  /\ sender' = [sender EXCEPT ![burst.k].pending[burst.p].complete = TRUE]

LEMMA FrameRegroups ==
  ASSUME NativeShape, burst # Nothing, Completes, sender[burst.k] # Nothing, burst.p \in Waiting(burst.k)
  PROVE  /\ Regroups(burst.k, [sender[burst.k].pending EXCEPT ![burst.p].complete = TRUE])
         /\ sender'[burst.k].sid = sender[burst.k].sid
<1> DEFINE k == burst.k
           p == burst.p
           gs == sender[k].pending
<1>1. burst \in Bursts /\ k \in Senders /\ p \in Plans
  BY DEF NativeShape, Bursts
<1>2. gs \in Groups /\ sender[k] \in CanSenders /\ gs \in [Waiting(k) -> [complete : BOOLEAN, feedback : Seq(Replies)]]
  BY <1>1, WaitingShape
<1>3. [gs[p] EXCEPT !.complete = TRUE] \in [complete : BOOLEAN, feedback : Seq(Replies)]
  BY <1>2
<1>4. [gs EXCEPT ![p] = [gs[p] EXCEPT !.complete = TRUE]] \in Groups
  BY <1>2, <1>3, GroupChanged
<1>5. [gs EXCEPT ![p].complete = TRUE] \in Groups
  BY <1>4
<1>6. sender' = [sender EXCEPT ![k].pending = [gs EXCEPT ![p].complete = TRUE]]
  BY DEF Completes
<1> QED BY <1>1, <1>5, <1>6, RegroupsSame

LEMMA TakeRegroups ==
  ASSUME NativeShape, NEW k \in Senders, NEW p \in Plans, sender[k] # Nothing, Take(k, p)
  PROVE  \E gs \in Groups :
           /\ Regroups(k, gs) /\ sender'[k].sid = sender[k].sid /\ DOMAIN gs \subseteq Waiting(k)
           /\ \A q \in DOMAIN gs :
                /\ gs[q].complete = sender[k].pending[q].complete
                /\ gs[q].feedback = IF q = p THEN Tail(sender[k].pending[q].feedback) ELSE sender[k].pending[q].feedback
<1> DEFINE open == sender[k].pending
           r == Head(open[p].feedback)
           mid == [open EXCEPT ![p].feedback = Tail(@)]
           gs == Hand(p, r, mid)
<1>1. /\ sender[k] \in CanSenders /\ open \in Groups
      /\ open \in [Waiting(k) -> [complete : BOOLEAN, feedback : Seq(Replies)]]
  BY WaitingShape
<1>2. p \in Waiting(k) /\ open[p].feedback # <<>> /\ sender' = [sender EXCEPT ![k].pending = gs]
  BY DEF Take, Asked
<1>3. Tail(open[p].feedback) \in Seq(Replies)
  BY <1>1, <1>2
<1>4. [open[p] EXCEPT !.feedback = Tail(open[p].feedback)] \in [complete : BOOLEAN, feedback : Seq(Replies)]
  BY <1>1, <1>2, <1>3
<1>5. mid = [open EXCEPT ![p] = [open[p] EXCEPT !.feedback = Tail(open[p].feedback)]]
  BY <1>1
<1>6. mid \in Groups
  BY <1>1, <1>2, <1>4, <1>5, GroupChanged DEF Waiting
<1>7. /\ DOMAIN mid = Waiting(k)
      /\ \A q \in Waiting(k) :
           /\ mid[q].complete = open[q].complete
           /\ mid[q].feedback = IF q = p THEN Tail(open[q].feedback) ELSE open[q].feedback
  BY <1>1, <1>2
<1> HIDE DEF mid
<1>8. gs \in Groups /\ DOMAIN gs \subseteq DOMAIN mid /\ \A q \in DOMAIN gs : gs[q] = mid[q]
  BY <1>6, HandShape
<1> HIDE DEF gs
<1>9. Regroups(k, gs) /\ sender'[k].sid = sender[k].sid
  BY <1>2, <1>8, RegroupsSame
<1> QED BY <1>7, <1>8, <1>9

LEMMA RetireRegroups ==
  ASSUME NativeShape, NEW k \in Senders, NEW p \in Plans, sender[k] # Nothing, Retire(k, p)
  PROVE  \E gs \in Groups :
           /\ Regroups(k, gs) /\ sender'[k].sid = sender[k].sid /\ DOMAIN gs \subseteq Waiting(k)
           /\ \A q \in DOMAIN gs : gs[q] = sender[k].pending[q]
<1> DEFINE open == sender[k].pending
           gs == [q \in DOMAIN open \ {p} |-> open[q]]
<1>1. open \in Groups /\ open \in [Waiting(k) -> [complete : BOOLEAN, feedback : Seq(Replies)]] /\ Waiting(k) \subseteq Plans
  BY WaitingShape
<1>2. gs \in [Waiting(k) \ {p} -> [complete : BOOLEAN, feedback : Seq(Replies)]]
  BY <1>1
<1>3. gs \in Groups
  BY <1>1, <1>2, GroupsIntro
<1>4. sender' = [sender EXCEPT ![k].pending = gs]
  BY DEF Retire
<1>5. Regroups(k, gs) /\ sender'[k].sid = sender[k].sid
  BY <1>3, <1>4, RegroupsSame
<1>6. DOMAIN gs \subseteq Waiting(k) /\ \A q \in DOMAIN gs : gs[q] = open[q]
  BY DEF Waiting
<1> QED BY <1>3, <1>5, <1>6

\* What the receive loop makes of the newest reply: told to the caller, kept for
\* the group it answers, or passed over.
LEMMA ListenRegroups ==
  ASSUME NativeShape, NEW k \in Senders, NEW p \in Plans, sender[k] # Nothing, Listen(k, p)
  PROVE  LET r == Head(inbox[k]) IN
         /\ r \in Replies /\ inbox[k] # <<>>
         /\ \/ UNCHANGED <<sender, told>>
            \/ /\ p \in Matched(k, r) /\ told' = told \cup {<<p, r>>}
               /\ Regroups(k, Hand(p, r, sender[k].pending)) /\ sender'[k].sid = sender[k].sid
            \/ \E q \in Matched(k, r) :
                 /\ UNCHANGED told
                 /\ Regroups(k, [sender[k].pending EXCEPT ![q].feedback = Append(@, r)])
                 /\ sender'[k].sid = sender[k].sid
<1> DEFINE r == Head(inbox[k])
           open == sender[k].pending
           target == CHOOSE q \in Matched(k, r) : TRUE
           known == /\ Cardinality(Matched(k, r)) = 1 /\ r.n > high.taken
                    /\ target = p \/ Len(open[target].feedback) < KeptReplies
<1>1. /\ sender[k] \in CanSenders /\ open \in Groups /\ Waiting(k) \subseteq Plans
      /\ open \in [Waiting(k) -> [complete : BOOLEAN, feedback : Seq(Replies)]]
  BY WaitingShape
<1>2. inbox[k] # <<>> /\ inbox[k] \in Seq(Replies)
  BY DEF Listen, NativeShape
<1>3. r \in Replies
  BY <1>2
<1>4. Matched(k, r) \subseteq Waiting(k)
  BY DEF Matched, Candidates
<1>5. CASE ~known
  BY <1>2, <1>3, <1>5 DEF Listen
<1>6. CASE known
  <2>1. target \in Matched(k, r)
    <3>1. Matched(k, r) # {}
      BY <1>6, FS_EmptySet
    <3> QED BY <3>1
  <2>2. CASE target = p
    <3>1. told' = told \cup {<<p, r>>} /\ sender' = [sender EXCEPT ![k].pending = Hand(p, r, open)]
      BY <1>6, <2>2 DEF Listen
    <3>2. Hand(p, r, open) \in Groups
      BY <1>1, HandShape
    <3>3. Regroups(k, Hand(p, r, open)) /\ sender'[k].sid = sender[k].sid
      BY <3>1, <3>2, RegroupsSame
    <3>4. p \in Matched(k, r)
      BY <2>1, <2>2
    <3> QED BY <1>2, <1>3, <3>1, <3>3, <3>4
  <2>3. CASE target # p
    <3> DEFINE gs == [open EXCEPT ![target].feedback = Append(@, r)]
    <3>1. UNCHANGED told /\ sender' = [sender EXCEPT ![k].pending[target].feedback = Append(@, r)]
      BY <1>6, <2>3 DEF Listen
    <3>2. sender' = [sender EXCEPT ![k].pending = gs]
      BY <3>1
    <3>3. target \in Waiting(k)
      BY <1>4, <2>1
    <3>4. [open[target] EXCEPT !.feedback = Append(open[target].feedback, r)] \in [complete : BOOLEAN, feedback : Seq(Replies)]
      <4>1. open[target] \in [complete : BOOLEAN, feedback : Seq(Replies)]
        BY <1>1, <3>3
      <4>2. Append(open[target].feedback, r) \in Seq(Replies)
        BY <1>3, <4>1
      <4> QED BY <4>1, <4>2
    <3>5. gs = [open EXCEPT ![target] = [open[target] EXCEPT !.feedback = Append(open[target].feedback, r)]]
      BY <1>1, <3>3
    <3>6. gs \in Groups
      BY <1>1, <3>3, <3>4, <3>5, GroupChanged DEF Waiting
    <3>7. Regroups(k, gs) /\ sender'[k].sid = sender[k].sid
      BY <3>2, <3>6, RegroupsSame
    <3> QED BY <1>2, <1>3, <2>1, <3>1, <3>7
  <2> QED BY <2>2, <2>3
<1> QED BY <1>5, <1>6

LEMMA NativeShapeFrame ==
  ASSUME NativeShape, Frame, WireInv
  PROVE  NativeShape'
<1>1. burst \in Bursts /\ burst.k \in Senders /\ burst.p \in Plans /\ burst.next \in Frames /\ burst # Nothing
  BY DEF Frame, Source, NativeShape, Bursts
<1>2. UNCHANGED <<token, coord, grant, plan, attempt, inbox, replies, high, told>>
  BY DEF Frame
<1>3. \/ /\ UNCHANGED <<wire, sender>> /\ refused' = refused \cup {burst.p} /\ burst' = Nothing
      \/ /\ wire' = Append(wire, <<burst.p, burst.next, burst.k>>)
         /\ \/ refused' = refused \cup {burst.p} /\ burst' = Nothing /\ UNCHANGED sender
            \/ /\ burst.next + 1 \in Frames /\ burst' = [burst EXCEPT !.next = @ + 1]
               /\ UNCHANGED <<sender, refused>>
            \/ Completes
  BY DEF Frame, SendFails, Completes
<1>4. wire' \in Seq(Plans \X Frames \X (Senders \cup {0}))
  <2>1. <<burst.p, burst.next, burst.k>> \in Plans \X Frames \X (Senders \cup {0})
    BY <1>1
  <2>2. wire \in Seq(Plans \X Frames \X (Senders \cup {0}))
    BY DEF NativeShape
  <2>3. CASE wire' = wire
    BY <2>2, <2>3
  <2>4. CASE wire' = Append(wire, <<burst.p, burst.next, burst.k>>)
    BY <2>1, <2>2, <2>4
  <2> QED BY <1>3, <2>3, <2>4
<1>5. burst' \in Bursts \cup {Nothing}
  BY <1>1, <1>3 DEF Bursts, Completes
<1>6. refused' \subseteq Plans
  BY <1>1, <1>3 DEF NativeShape, Completes
<1>7. sender' \in [Senders -> CanSenders \cup {Nothing}]
  <2>1. CASE UNCHANGED sender
    BY <2>1 DEF NativeShape
  <2>2. CASE Completes
    BY <1>1, <2>2, FrameRegroups DEF WireInv, Regroups
  <2> QED BY <1>3, <2>1, <2>2
<1> QED BY <1>2, <1>4, <1>5, <1>6, <1>7 DEF NativeShape

LEMMA NativeShapeStep == ASSUME NativeShape, WireInv, [NativeNext]_nativeVars PROVE NativeShape'
<1> USE NativeNats
<1>1. CASE UNCHANGED nativeVars
  BY <1>1 DEF nativeVars, NativeShape
<1>2. ASSUME NEW t \in Tokens, NEW i \in Interfaces, Reserve(t, i) PROVE NativeShape'
  BY <1>2 DEF Reserve, Link, NativeShape, Reservations
<1>3. ASSUME NEW t \in Tokens, ReleaseToken(t) PROVE NativeShape'
  <2>1. token[t] \in Reservations
    BY <1>3 DEF ReleaseToken, Held, NativeShape
  <2>2. token' \in [Tokens -> Reservations \cup {Nothing}]
    BY <1>3, <2>1 DEF ReleaseToken, NativeShape, Reservations
  <2> QED BY <1>3, <2>2 DEF ReleaseToken, Link, NativeShape
<1>4. ASSUME NEW k \in Senders, NEW t \in Tokens, Create(k, t) PROVE NativeShape'
  <2>1. <<>> \in Groups
    <3>1. <<>> \in [{} -> [complete : BOOLEAN, feedback : Seq(Replies)]]
      OBVIOUS
    <3> QED BY <3>1, GroupsIntro
  <2>2. [token |-> t, open |-> TRUE, closing |-> FALSE, closed |-> FALSE,
         sid |-> 0, last |-> 0, pending |-> <<>>] \in CanSenders
    BY <2>1 DEF CanSenders
  <2>3. sender' \in [Senders -> CanSenders \cup {Nothing}]
    BY <1>4, <2>2 DEF Create, NativeShape
  <2> QED BY <1>4, <2>3 DEF Create, Link, NativeShape
<1>5. CASE Attach
  BY <1>5 DEF Attach, Book, Link, NativeShape, Owners
<1>6. CASE Lapse
  BY <1>6 DEF Lapse, Book, Link, NativeShape
<1>7. CASE Reopen
  BY <1>7 DEF Reopen, Book, Link, NativeShape
<1>8. ASSUME NEW p \in Plans, NEW t \in Tokens, NEW kind \in {"beat", "input"}, NEW tx \in Transactions,
             PrepareInput(p, t, kind, tx)
      PROVE  NativeShape'
  <2>1. PICK state \in {"prepared", "failed"} :
          plan' = [plan EXCEPT ![p] = [sid |-> grant.sid, tx |-> tx, kind |-> kind, token |-> t, state |-> state]]
    BY <1>8 DEF PrepareInput
  <2>2. [sid |-> grant.sid, tx |-> tx, kind |-> kind, token |-> t, state |-> state] \in Inputs
    BY DEF NativeShape, Inputs
  <2>3. plan' \in [Plans -> Inputs \cup {Nothing}]
    BY <2>1, <2>2 DEF NativeShape
  <2> QED BY <1>8, <2>3 DEF PrepareInput, Book, Link, NativeShape
<1>9. ASSUME NEW p \in Plans, Elsewhere(p) PROVE NativeShape'
  <2>1. plan' \in [Plans -> Inputs \cup {Nothing}]
    BY <1>9 DEF Elsewhere, NativeShape, Inputs
  <2>2. attempt' \in [sid : Nat, seq : {0} \cup Plans, beat : Nat]
    BY <1>9 DEF Elsewhere, NativeShape
  <2>3. wire' \in Seq(Plans \X Frames \X (Senders \cup {0})) /\ high' \in [taken : Nat, made : Nat]
    BY <1>9 DEF Elsewhere, NativeShape
  <2> QED BY <1>9, <2>1, <2>2, <2>3 DEF Elsewhere, Book, NativeShape
<1>10. ASSUME NEW p \in Plans, Discard(p) PROVE NativeShape'
  <2>1. plan[p] \in Inputs
    BY <1>10 DEF Discard, Kept, NativeShape
  <2>2. plan' \in [Plans -> Inputs \cup {Nothing}]
    BY <1>10, <2>1 DEF Discard, NativeShape, Inputs
  <2> QED BY <1>10, <2>2 DEF Discard, Book, Link, NativeShape
<1>11. ASSUME NEW k \in Senders, NEW p \in Plans, Send(k, p) PROVE NativeShape'
  <2>1. sender' \in [Senders -> CanSenders \cup {Nothing}] /\ plan[p] \in Inputs
    BY <1>11, SendRegroups DEF Regroups
  <2>2. attempt' \in [sid : Nat, seq : {0} \cup Plans, beat : Nat]
    BY <1>11, <2>1 DEF Send, Claimed, NativeShape, Inputs
  <2>3. burst' \in Bursts
    BY <1>11 DEF Send, Bursts
  <2> QED BY <1>11, <2>1, <2>2, <2>3 DEF Send, Link, NativeShape
<1>12. ASSUME NEW k \in Senders, NEW p \in Plans, Answer(k, p) PROVE NativeShape'
  <2>1. plan[p] \in Inputs
    BY <1>12 DEF Answer, NativeShape
  <2> DEFINE r == [n |-> high.made + 1, sid |-> plan[p].sid, tx |-> plan[p].tx,
                   of |-> IF plan[p].kind = "beat" THEN Nothing ELSE p, to |-> p, final |-> Final(p, replies[p] + 1)]
  <2>2. Final(p, replies[p] + 1) \in BOOLEAN
    BY DEF Final
  <2>3. r \in Replies
    BY <2>1, <2>2 DEF Replies, Inputs, NativeShape
  <2>4. inbox' = inbox \/ inbox' = [inbox EXCEPT ![k] = Append(@, r)]
    BY <1>12 DEF Answer
  <2> HIDE DEF r
  <2>5. inbox' \in [Senders -> Seq(Replies)]
    <3>1. inbox \in [Senders -> Seq(Replies)]
      BY DEF NativeShape
    <3>2. Append(inbox[k], r) \in Seq(Replies)
      BY <2>3, <3>1
    <3> QED BY <2>4, <3>1, <3>2
  <2>8. replies' = [replies EXCEPT ![p] = @ + 1] /\ high' = [high EXCEPT !.made = @ + 1]
    BY <1>12 DEF Answer
  <2>9. replies \in [Plans -> Nat] /\ high \in [taken : Nat, made : Nat]
    BY DEF NativeShape
  <2>6. replies' \in [Plans -> Nat]
    BY <2>8, <2>9
  <2>7. high' \in [taken : Nat, made : Nat]
    BY <2>8, <2>9
  <2> QED BY <1>12, <2>5, <2>6, <2>7 DEF Answer, Book, NativeShape
<1>13. ASSUME NEW k \in Senders, NEW p \in Plans, sender[k] # Nothing, Take(k, p) PROVE NativeShape'
  <2>1. sender' \in [Senders -> CanSenders \cup {Nothing}]
    BY <1>13, TakeRegroups DEF Regroups
  <2>2. Head(sender[k].pending[p].feedback) \in Replies
    <3>1. /\ sender[k].pending[p].feedback \in Seq(Replies) /\ sender[k].pending[p].feedback # <<>>
      BY <1>13, WaitingShape DEF Take, Asked
    <3> QED BY <3>1
  <2>3. told' \subseteq Plans \X Replies
    BY <1>13, <2>2 DEF Take, NativeShape
  <2> QED BY <1>13, <2>1, <2>3 DEF Take, NativeShape
<1>14. ASSUME NEW k \in Senders, NEW p \in Plans, sender[k] # Nothing, Listen(k, p) PROVE NativeShape'
  <2>1. sender' \in [Senders -> CanSenders \cup {Nothing}] /\ told' \subseteq Plans \X Replies
    <3>1. \/ UNCHANGED <<sender, told>>
          \/ sender' \in [Senders -> CanSenders \cup {Nothing}] /\ told' = told \cup {<<p, Head(inbox[k])>>}
          \/ sender' \in [Senders -> CanSenders \cup {Nothing}] /\ UNCHANGED told
      BY <1>14, ListenRegroups DEF Regroups
    <3>2. Head(inbox[k]) \in Replies
      BY <1>14, ListenRegroups
    <3> QED BY <3>1, <3>2 DEF NativeShape
  <2>2. inbox' \in [Senders -> Seq(Replies)]
    <3>1. inbox[k] # <<>> /\ inbox[k] \in Seq(Replies) /\ inbox' = [inbox EXCEPT ![k] = Tail(inbox[k])]
      BY <1>14 DEF Listen, NativeShape
    <3>2. Tail(inbox[k]) \in Seq(Replies)
      BY <3>1
    <3> QED BY <3>1, <3>2 DEF NativeShape
  <2>3. high' \in [taken : Nat, made : Nat]
    <3>1. Head(inbox[k]).n \in Nat
      BY <1>14, ListenRegroups DEF Replies
    <3> QED BY <1>14, <3>1 DEF Listen, NativeShape
  <2> QED BY <1>14, <2>1, <2>2, <2>3 DEF Listen, NativeShape
<1>15. ASSUME NEW k \in Senders, NEW p \in Plans, sender[k] # Nothing, Retire(k, p) PROVE NativeShape'
  <2>1. sender' \in [Senders -> CanSenders \cup {Nothing}]
    BY <1>15, RetireRegroups DEF Regroups
  <2> QED BY <1>15, <2>1 DEF Retire, Link, NativeShape
<1>16. ASSUME NEW k \in Senders, CloseSender(k) PROVE NativeShape'
  <2>1. sender[k] \in CanSenders
    BY <1>16 DEF CloseSender, Owners, NativeShape
  <2>2. sender' \in [Senders -> CanSenders \cup {Nothing}]
    BY <1>16, <2>1, ClosedFields DEF CloseSender, NativeShape
  <2> QED BY <1>16, <2>2 DEF CloseSender, Link, NativeShape
<1>17. CASE CloseAll
  <2>1. \A k \in Owners : sender[k] \in CanSenders
    BY DEF Owners, NativeShape
  <2>2. \A k \in Owners : \A ok \in BOOLEAN : Closed(sender[k], ok) \in CanSenders
    BY <2>1, ClosedFields
  <2>3. sender' \in [Senders -> CanSenders \cup {Nothing}]
    <3>1. CASE sender' = [k \in Senders |-> IF k \in coord.senders \cap Owners THEN Closed(sender[k], TRUE) ELSE sender[k]]
      BY <2>2, <3>1 DEF NativeShape
    <3>2. ASSUME NEW bad \in coord.senders \cap Owners,
                 sender' = [k \in Senders |-> IF k \in coord.senders \cap Owners /\ k <= bad
                                              THEN Closed(sender[k], k # bad) ELSE sender[k]]
          PROVE  sender' \in [Senders -> CanSenders \cup {Nothing}]
      <4>1. \A k \in Owners : Closed(sender[k], k # bad) \in CanSenders
        BY <2>2
      <4> QED BY <3>2, <4>1 DEF NativeShape
    <3> QED BY <1>17, <3>1, <3>2 DEF CloseAll
  <2>4. coord' \in [state : {"none", "open", "closing", "closed"}, senders : SUBSET Senders]
    BY <1>17 DEF CloseAll, NativeShape
  <2> QED BY <1>17, <2>3, <2>4, <2>1 DEF CloseAll, Link, NativeShape
<1>18. CASE Frame
  BY <1>18, NativeShapeFrame
<1> QED
  BY <1>1, <1>2, <1>3, <1>4, <1>5, <1>6, <1>7, <1>8, <1>9, <1>10, <1>11, <1>12, <1>13, <1>14, <1>15, <1>16, <1>17, <1>18
  DEF NativeNext

\* Inputs keep what they are; groups only leave, and are not completed.
PlansStay ==
  \A p \in Plans : plan[p] # Nothing =>
    /\ plan'[p] # Nothing /\ plan'[p].sid = plan[p].sid /\ plan'[p].tx = plan[p].tx
    /\ plan'[p].kind = plan[p].kind /\ plan'[p].token = plan[p].token
Lessens ==
  \A k \in Senders : sender'[k] # Nothing => \A p \in Waiting(k)' :
    /\ sender[k] # Nothing /\ p \in Waiting(k)
    /\ sender'[k].token = sender[k].token /\ sender'[k].sid = sender[k].sid
    /\ (sender'[k].pending[p].complete <=> sender[k].pending[p].complete)
\* The same without their completion.
Fewer ==
  \A k \in Senders : sender'[k] # Nothing => \A p \in Waiting(k)' :
    /\ sender[k] # Nothing /\ p \in Waiting(k)
    /\ sender'[k].token = sender[k].token /\ sender'[k].sid = sender[k].sid
Quiet ==
  /\ PlansStay /\ Lessens /\ UNCHANGED <<attempt, burst, wire, refused>>
  /\ burst # Nothing => UNCHANGED sender

LEMMA SendersKept == UNCHANGED sender => Lessens
BY DEF Lessens, Waiting
LEMMA PlansKept == UNCHANGED plan => PlansStay
BY DEF PlansStay

LEMMA RegroupsLessens ==
  ASSUME NativeShape, NEW k \in Senders, sender[k] # Nothing, NEW gs \in Groups, Regroups(k, gs),
         sender'[k].sid = sender[k].sid, DOMAIN gs \subseteq Waiting(k),
         \A q \in DOMAIN gs : gs[q].complete = sender[k].pending[q].complete
  PROVE  Lessens
<1>1. ASSUME NEW j \in Senders, sender'[j] # Nothing, NEW p \in Waiting(j)'
      PROVE  /\ sender[j] # Nothing /\ p \in Waiting(j)
             /\ sender'[j].token = sender[j].token /\ sender'[j].sid = sender[j].sid
             /\ (sender'[j].pending[p].complete <=> sender[j].pending[p].complete)
  <2>1. CASE j = k
    BY <1>1, <2>1 DEF Regroups, Waiting
  <2>2. CASE j # k
    BY <1>1, <2>2 DEF Regroups, Waiting
  <2> QED BY <2>1, <2>2
<1> QED BY <1>1 DEF Lessens

\* A closed sender keeps its groups.
LEMMA ClosesLessens ==
  ASSUME NativeShape, sender' \in [Senders -> CanSenders \cup {Nothing}],
         \A k \in Senders : \/ sender'[k] = sender[k]
                            \/ sender[k] # Nothing /\ \E ok \in BOOLEAN : sender'[k] = Closed(sender[k], ok)
  PROVE  Lessens
<1>1. ASSUME NEW j \in Senders, sender'[j] # Nothing, NEW p \in Waiting(j)'
      PROVE  /\ sender[j] # Nothing /\ p \in Waiting(j)
             /\ sender'[j].token = sender[j].token /\ sender'[j].sid = sender[j].sid
             /\ (sender'[j].pending[p].complete <=> sender[j].pending[p].complete)
  <2>1. CASE sender'[j] = sender[j]
    BY <1>1, <2>1 DEF Waiting
  <2>2. ASSUME sender[j] # Nothing, NEW ok \in BOOLEAN, sender'[j] = Closed(sender[j], ok)
        PROVE  /\ p \in Waiting(j)
               /\ sender'[j].token = sender[j].token /\ sender'[j].sid = sender[j].sid
               /\ (sender'[j].pending[p].complete <=> sender[j].pending[p].complete)
    <3>1. sender[j] \in CanSenders
      BY <2>2 DEF NativeShape
    <3>2. /\ sender'[j].token = sender[j].token /\ sender'[j].sid = sender[j].sid
          /\ sender'[j].pending = sender[j].pending
      BY <2>2, <3>1, ClosedFields
    <3> QED BY <1>1, <3>2 DEF Waiting
  <2> QED BY <2>1, <2>2
<1> QED BY <1>1 DEF Lessens

LEMMA CloseSenderCloses ==
  ASSUME NativeShape, NEW k \in Senders, CloseSender(k)
  PROVE  \A j \in Senders : \/ sender'[j] = sender[j]
                            \/ sender[j] # Nothing /\ \E ok \in BOOLEAN : sender'[j] = Closed(sender[j], ok)
<1>1. PICK ok \in BOOLEAN : sender' = [sender EXCEPT ![k] = Closed(@, ok)]
  BY DEF CloseSender
<1>2. sender[k] # Nothing
  BY DEF CloseSender, Owners
<1> QED BY <1>1, <1>2 DEF NativeShape

LEMMA CloseAllCloses ==
  ASSUME NativeShape, CloseAll
  PROVE  \A j \in Senders : \/ sender'[j] = sender[j]
                            \/ sender[j] # Nothing /\ \E ok \in BOOLEAN : sender'[j] = Closed(sender[j], ok)
<1>1. CASE sender' = [k \in Senders |-> IF k \in coord.senders \cap Owners THEN Closed(sender[k], TRUE) ELSE sender[k]]
  BY <1>1 DEF Owners
<1>2. ASSUME NEW bad \in coord.senders \cap Owners,
             sender' = [k \in Senders |-> IF k \in coord.senders \cap Owners /\ k <= bad
                                          THEN Closed(sender[k], k # bad) ELSE sender[k]]
      PROVE  \A j \in Senders : \/ sender'[j] = sender[j]
                                \/ sender[j] # Nothing /\ \E ok \in BOOLEAN : sender'[j] = Closed(sender[j], ok)
  <2>1. ASSUME NEW j \in Senders, sender'[j] # sender[j] PROVE j \in Owners /\ sender'[j] = Closed(sender[j], j # bad)
    BY <1>2, <2>1
  <2>2. \A j \in Senders : (j # bad) \in BOOLEAN
    OBVIOUS
  <2> QED BY <2>1, <2>2 DEF Owners
<1> QED BY <1>1, <1>2 DEF CloseAll

\* Every step but a send, a frame and an input of the other link is quiet.
LEMMA QuietSteps ==
  ASSUME NativeShape, NativeShape', NativeNext
  PROVE  \/ Quiet
         \/ Frame
         \/ \E p \in Plans : Elsewhere(p)
         \/ \E k \in Senders, p \in Plans : Send(k, p)
<1>1. ASSUME NEW t \in Tokens, NEW i \in Interfaces, Reserve(t, i) PROVE Quiet
  BY <1>1, SendersKept, PlansKept DEF Reserve, Link, Quiet
<1>2. ASSUME NEW t \in Tokens, ReleaseToken(t) PROVE Quiet
  BY <1>2, SendersKept, PlansKept DEF ReleaseToken, Link, Quiet
<1>3. ASSUME NEW k \in Senders, NEW t \in Tokens, Create(k, t) PROVE Quiet
  <2>1. UNCHANGED <<plan, attempt, burst, wire, refused>> /\ burst = Nothing
    BY <1>3 DEF Create, Link, Source
  <2>2. sender'[k].pending = <<>> /\ \A j \in Senders \ {k} : sender'[j] = sender[j]
    BY <1>3 DEF Create, NativeShape
  <2>3. Waiting(k)' = {}
    BY <2>2 DEF Waiting
  <2>4. Lessens
    BY <2>2, <2>3 DEF Lessens, Waiting
  <2> QED BY <2>1, <2>4, PlansKept DEF Quiet
<1>4. CASE Attach
  BY <1>4, SendersKept, PlansKept DEF Attach, Book, Link, Quiet
<1>5. CASE Lapse
  BY <1>5, SendersKept, PlansKept DEF Lapse, Book, Link, Quiet
<1>6. CASE Reopen
  BY <1>6, SendersKept, PlansKept DEF Reopen, Book, Link, Quiet
<1>7. ASSUME NEW p \in Plans, NEW t \in Tokens, NEW kind \in {"beat", "input"}, NEW tx \in Transactions,
             PrepareInput(p, t, kind, tx)
      PROVE  Quiet
  <2>1. plan[p] = Nothing /\ \A q \in Plans \ {p} : plan'[q] = plan[q]
    BY <1>7 DEF PrepareInput, Fresh, NativeShape
  <2> QED BY <1>7, <2>1, SendersKept DEF PrepareInput, Book, Link, Quiet, PlansStay
<1>8. ASSUME NEW p \in Plans, Discard(p) PROVE Quiet
  <2>1. plan[p] \in Inputs /\ plan' = [plan EXCEPT ![p].state = "gone"]
    BY <1>8 DEF Discard, Kept, NativeShape
  <2>2. plan'[p] = [plan[p] EXCEPT !.state = "gone"] /\ \A q \in Plans \ {p} : plan'[q] = plan[q]
    BY <2>1 DEF NativeShape
  <2>3. [plan[p] EXCEPT !.state = "gone"] \in Inputs
    BY <2>1 DEF Inputs
  <2>4. plan'[p] # Nothing
    BY <2>2, <2>3, NothingApart
  <2>5. PlansStay
    BY <2>1, <2>2, <2>4 DEF PlansStay, Inputs
  <2> QED BY <1>8, <2>5, SendersKept DEF Discard, Book, Link, Quiet
<1>9. ASSUME NEW k \in Senders, NEW p \in Plans, Answer(k, p) PROVE Quiet
  BY <1>9, SendersKept, PlansKept DEF Answer, Book, Quiet
<1>10. ASSUME NEW k \in Senders, NEW p \in Plans, sender[k] # Nothing, Take(k, p) PROVE Quiet
  <2>1. Lessens
    BY <1>10, TakeRegroups, RegroupsLessens
  <2> QED BY <1>10, <2>1, PlansKept DEF Take, Asked, Source, Quiet
<1>11. ASSUME NEW k \in Senders, NEW p \in Plans, sender[k] # Nothing, Listen(k, p) PROVE Quiet
  <2> DEFINE r == Head(inbox[k])
             open == sender[k].pending
  <2>1. open \in Groups /\ open \in [Waiting(k) -> [complete : BOOLEAN, feedback : Seq(Replies)]]
    BY <1>11, WaitingShape
  <2>2. CASE UNCHANGED sender
    BY <1>11, <2>2, SendersKept, PlansKept DEF Listen, Asked, Source, Quiet
  <2>3. CASE Regroups(k, Hand(p, r, open)) /\ sender'[k].sid = sender[k].sid
    <3>1. /\ Hand(p, r, open) \in Groups /\ DOMAIN Hand(p, r, open) \subseteq Waiting(k)
          /\ \A q \in DOMAIN Hand(p, r, open) : Hand(p, r, open)[q].complete = open[q].complete
      BY <2>1, HandShape DEF Waiting
    <3>2. Lessens
      BY <1>11, <2>3, <3>1, RegroupsLessens
    <3> QED BY <1>11, <3>2, PlansKept DEF Listen, Asked, Source, Quiet
  <2>4. ASSUME NEW q \in Matched(k, r),
               Regroups(k, [open EXCEPT ![q].feedback = Append(@, r)]), sender'[k].sid = sender[k].sid
        PROVE  Quiet
    <3> DEFINE gs == [open EXCEPT ![q].feedback = Append(@, r)]
    <3>1. gs \in Groups
      BY <2>4 DEF Regroups
    <3>2. DOMAIN gs = Waiting(k) /\ \A u \in Waiting(k) : gs[u].complete = open[u].complete
      BY <2>1
    <3>4. Regroups(k, gs)
      BY <2>4
    <3>3. Lessens
      <4> HIDE DEF gs
      <4> QED BY <1>11, <2>4, <3>1, <3>2, <3>4, RegroupsLessens
    <3> QED BY <1>11, <3>3, PlansKept DEF Listen, Asked, Source, Quiet
  <2> QED BY <1>11, <2>2, <2>3, <2>4, ListenRegroups
<1>12. ASSUME NEW k \in Senders, NEW p \in Plans, sender[k] # Nothing, Retire(k, p) PROVE Quiet
  <2>1. Lessens
    BY <1>12, RetireRegroups, RegroupsLessens
  <2> QED BY <1>12, <2>1, PlansKept DEF Retire, Link, Source, Quiet
<1>13. ASSUME NEW k \in Senders, CloseSender(k) PROVE Quiet
  <2>1. Lessens
    BY <1>13, CloseSenderCloses, ClosesLessens DEF NativeShape
  <2> QED BY <1>13, <2>1, PlansKept DEF CloseSender, Link, Source, Quiet
<1>14. CASE CloseAll
  <2>1. Lessens
    BY <1>14, CloseAllCloses, ClosesLessens DEF NativeShape
  <2> QED BY <1>14, <2>1, PlansKept DEF CloseAll, Link, Source, Quiet
<1> QED
  BY <1>1, <1>2, <1>3, <1>4, <1>5, <1>6, <1>7, <1>8, <1>9, <1>10, <1>11, <1>12, <1>13, <1>14 DEF NativeNext

----------------------------------------------------------------------------
(* The book.                                                                *)

\* Steps that leave reservations, buses and the coordinator alone.
LEMMA BookKept ==
  ASSUME NativeShape, BookInv, UNCHANGED <<token, coord>>,
         \A k \in Senders : /\ sender'[k] # Nothing <=> sender[k] # Nothing
                            /\ sender[k] # Nothing =>
                                 /\ sender'[k].token = sender[k].token
                                 /\ (sender'[k].open <=> sender[k].open)
                                 /\ (sender'[k].closed <=> sender[k].closed)
  PROVE  BookInv'
<1>1. coord.senders \subseteq Senders
  BY DEF NativeShape
<1>2. \A k \in Senders : sender'[k] # Nothing =>
        token'[sender'[k].token] # Nothing /\ (sender'[k].open <=> ~sender'[k].closed)
  BY DEF BookInv
<1>3. \A t, u \in Tokens : Held(t)' /\ Held(u)' /\ token'[t].iface = token'[u].iface => t = u
  BY DEF BookInv, Held
<1>4. \A k \in coord'.senders : sender'[k] # Nothing
  BY <1>1 DEF BookInv
<1>5. OneUserPerInterface'
  BY DEF BookInv, OneUserPerInterface, Held, IfaceOf
<1>6. CoordinatorClosed'
  BY <1>1 DEF BookInv, CoordinatorClosed
<1> QED BY <1>2, <1>3, <1>4, <1>5, <1>6 DEF BookInv

LEMMA RegroupsBook ==
  ASSUME NativeShape, BookInv, UNCHANGED <<token, coord>>, NEW k \in Senders, sender[k] # Nothing,
         NEW gs, Regroups(k, gs)
  PROVE  BookInv'
<1>1. \A j \in Senders : /\ sender'[j] # Nothing <=> sender[j] # Nothing
                         /\ sender[j] # Nothing =>
                                 /\ sender'[j].token = sender[j].token
                                 /\ (sender'[j].open <=> sender[j].open)
                                 /\ (sender'[j].closed <=> sender[j].closed)
  BY DEF Regroups
<1> QED BY <1>1, BookKept

\* Closing takes senders from those that have a bus.
LEMMA ClosesBook ==
  ASSUME NativeShape, NativeShape', BookInv, UNCHANGED token, coord'.senders = coord.senders,
         \A k \in Senders : \/ sender'[k] = sender[k]
                            \/ sender[k] # Nothing /\ \E ok \in BOOLEAN : sender'[k] = Closed(sender[k], ok),
         coord'.state = "closed" => \A k \in coord.senders : ~sender'[k].open
  PROVE  BookInv'
<1>1. \A k \in Senders : /\ sender'[k] # Nothing <=> sender[k] # Nothing
                         /\ sender[k] # Nothing =>
                                 /\ sender'[k].token = sender[k].token
                                 /\ (sender'[k].open => sender[k].open)
                                 /\ (sender'[k].open <=> ~sender'[k].closed)
  <2> SUFFICES ASSUME NEW k \in Senders
               PROVE  /\ sender'[k] # Nothing <=> sender[k] # Nothing
                      /\ sender[k] # Nothing =>
                                 /\ sender'[k].token = sender[k].token
                                 /\ (sender'[k].open => sender[k].open)
                                 /\ (sender'[k].open <=> ~sender'[k].closed)
    OBVIOUS
  <2>1. CASE sender'[k] = sender[k]
    BY <2>1 DEF BookInv
  <2>2. ASSUME sender[k] # Nothing, NEW ok \in BOOLEAN, sender'[k] = Closed(sender[k], ok)
        PROVE  /\ sender'[k] # Nothing /\ sender'[k].token = sender[k].token
               /\ (sender'[k].open => sender[k].open)
               /\ (sender'[k].open <=> ~sender'[k].closed)
    <3>1. sender[k] \in CanSenders
      BY <2>2 DEF NativeShape
    <3>2. /\ sender'[k] \in CanSenders /\ sender'[k].token = sender[k].token
          /\ (sender'[k].open <=> (sender[k].open /\ ~ok))
          /\ (sender'[k].closed <=> (sender[k].closed \/ ok))
      BY <2>2, <3>1, ClosedFields
    <3>3. sender[k].open <=> ~sender[k].closed
      BY <2>2 DEF BookInv
    <3> QED BY <3>2, <3>3, NothingApart
  <2> QED BY <2>1, <2>2
<1>2. coord.senders \subseteq Senders
  BY DEF NativeShape
<1>3. \A k \in Senders : sender'[k] # Nothing =>
        token'[sender'[k].token] # Nothing /\ (sender'[k].open <=> ~sender'[k].closed)
  BY <1>1 DEF BookInv
<1>4. \A t, u \in Tokens : Held(t)' /\ Held(u)' /\ token'[t].iface = token'[u].iface => t = u
  BY DEF BookInv, Held
<1>5. \A k \in coord'.senders : sender'[k] # Nothing
  BY <1>1, <1>2 DEF BookInv
<1>6. OneUserPerInterface'
  BY <1>1 DEF BookInv, OneUserPerInterface, Held, IfaceOf
<1> QED BY <1>3, <1>4, <1>5, <1>6 DEF BookInv, CoordinatorClosed

LEMMA BookInvInit == NativeInit => BookInv
BY DEF NativeInit, BookInv, Held, OneUserPerInterface, CoordinatorClosed

LEMMA BookInvStep ==
  ASSUME NativeShape, NativeShape', BookInv, WireInv, [NativeNext]_nativeVars
  PROVE  BookInv'
<1>1. CASE UNCHANGED <<token, coord, sender>>
  BY <1>1, BookKept
<1>2. ASSUME NEW t \in Tokens, NEW i \in Interfaces, Reserve(t, i) PROVE BookInv'
  <2>1. /\ token[t] = Nothing /\ Free(i) /\ UNCHANGED <<sender, coord>>
        /\ token'[t] = [iface |-> i, held |-> TRUE] /\ \A u \in Tokens \ {t} : token'[u] = token[u]
    BY <1>2 DEF Reserve, NativeShape
  <2>2. [iface |-> i, held |-> TRUE] \in Reservations
    BY DEF Reservations
  <2>3. token'[t] # Nothing /\ token'[t].iface = i
    <3>1. token'[t] \in Reservations /\ token'[t].iface = i
      BY <2>1, <2>2
    <3> QED BY <3>1, NothingApart
  <2>4. \A k \in Senders : sender[k] # Nothing =>
          sender[k].token \in Tokens /\ sender[k].token # t /\ token'[sender[k].token] = token[sender[k].token]
    BY <2>1 DEF BookInv, NativeShape, CanSenders
  <2>5. \A u \in Tokens : Held(u)' => u = t \/ (u # t /\ Held(u) /\ token'[u] = token[u])
    BY <2>1 DEF Held
  <2>6. \A u \in Tokens : Held(u) => token[u].iface # i
    BY <2>1 DEF Free
  <2>7. \A k \in Senders : sender[k] # Nothing /\ sender[k].open => token[sender[k].token].iface # i
    BY <2>1 DEF Free, Owners, IfaceOf, BookInv
  <2>8. \A u, v \in Tokens : Held(u)' /\ Held(v)' /\ token'[u].iface = token'[v].iface => u = v
    BY <2>3, <2>5, <2>6 DEF BookInv
  <2>9. OneUserPerInterface'
    <3> SUFFICES ASSUME NEW k \in Senders, sender[k] # Nothing, sender[k].open
                 PROVE  /\ \A j \in Senders \ {k} : sender[j] # Nothing /\ sender[j].open => IfaceOf(j)' # IfaceOf(k)'
                        /\ \A u \in Tokens : Held(u)' /\ token'[u].iface = IfaceOf(k)' => u = sender[k].token
      BY <2>1 DEF OneUserPerInterface, IfaceOf
    <3>1. IfaceOf(k)' = IfaceOf(k) /\ IfaceOf(k) # i
      BY <2>1, <2>4, <2>7 DEF IfaceOf
    <3>2. \A j \in Senders \ {k} : sender[j] # Nothing /\ sender[j].open => IfaceOf(j)' # IfaceOf(k)'
      BY <2>1, <2>4, <3>1 DEF IfaceOf, BookInv, OneUserPerInterface
    <3>3. \A u \in Tokens : Held(u)' /\ token'[u].iface = IfaceOf(k)' => u = sender[k].token
      BY <2>3, <2>5, <3>1 DEF BookInv, OneUserPerInterface
    <3> QED BY <3>2, <3>3
  <2> QED BY <2>1, <2>4, <2>8, <2>9 DEF BookInv, CoordinatorClosed
<1>3. ASSUME NEW t \in Tokens, ReleaseToken(t) PROVE BookInv'
  <2>1. token[t] \in Reservations /\ UNCHANGED <<sender, coord>>
    BY <1>3 DEF ReleaseToken, Held, NativeShape
  <2>2. token' = [token EXCEPT ![t] = [token[t] EXCEPT !.held = FALSE]]
    BY <1>3 DEF ReleaseToken
  <2>3. [token[t] EXCEPT !.held = FALSE] \in Reservations
    BY <2>1 DEF Reservations
  <2>4. token'[t] # Nothing /\ token'[t].iface = token[t].iface /\ ~token'[t].held
    BY <2>1, <2>2, <2>3, NothingApart DEF Reservations, NativeShape
  <2>5. \A u \in Tokens \ {t} : token'[u] = token[u]
    BY <2>2 DEF NativeShape
  <2>6. \A u \in Tokens : Held(u)' => Held(u) /\ token'[u].iface = token[u].iface
    BY <2>4, <2>5 DEF Held
  <2>7. \A k \in Senders : sender[k] # Nothing => sender[k].token \in Tokens
    BY DEF NativeShape, CanSenders
  <2>8. \A k \in Senders : sender[k] # Nothing => token'[sender[k].token] # Nothing /\ IfaceOf(k)' = IfaceOf(k)
    BY <2>1, <2>4, <2>5, <2>7 DEF BookInv, IfaceOf
  <2>9. OneUserPerInterface'
    BY <2>1, <2>6, <2>8 DEF BookInv, OneUserPerInterface
  <2> QED BY <2>1, <2>6, <2>8, <2>9 DEF BookInv, CoordinatorClosed
<1>4. ASSUME NEW k \in Senders, NEW t \in Tokens, Create(k, t) PROVE BookInv'
  <2>1. /\ sender[k] = Nothing /\ Held(t) /\ UNCHANGED <<token, coord>>
        /\ \A j \in Owners : sender[j].token # t /\ IfaceOf(j) # token[t].iface
    BY <1>4 DEF Create
  <2>2. /\ sender'[k].token = t /\ sender'[k].open /\ ~sender'[k].closed
        /\ \A j \in Senders \ {k} : sender'[j] = sender[j]
    BY <1>4 DEF Create, NativeShape
  <2>3. k \notin coord.senders
    BY <2>1 DEF BookInv
  <2>4. \A j \in Senders : sender[j] # Nothing /\ sender[j].open => IfaceOf(j) # token[t].iface /\ j # k
    BY <2>1 DEF BookInv, Owners
  <2>5. IfaceOf(k)' = token[t].iface /\ \A j \in Senders \ {k} : IfaceOf(j)' = IfaceOf(j)
    BY <2>1, <2>2 DEF IfaceOf
  <2>6. \A u \in Tokens : Held(u)' <=> Held(u)
    BY <2>1 DEF Held
  <2>7. \A u \in Tokens : Held(u) /\ token[u].iface = token[t].iface => u = t
    BY <2>1 DEF BookInv
  <2>8. OneUserPerInterface'
    <3>1. ASSUME NEW j \in Senders, sender'[j] # Nothing, sender'[j].open, j # k
          PROVE  /\ \A l \in Senders \ {j} : sender'[l] # Nothing /\ sender'[l].open => IfaceOf(l)' # IfaceOf(j)'
                 /\ \A u \in Tokens : Held(u)' /\ token'[u].iface = IfaceOf(j)' => u = sender'[j].token
      <4>1. sender[j] # Nothing /\ sender[j].open /\ IfaceOf(j)' = IfaceOf(j)
        BY <2>2, <2>5, <3>1
      <4>2. \A l \in Senders \ {j} : sender'[l] # Nothing /\ sender'[l].open => IfaceOf(l)' # IfaceOf(j)'
        BY <2>2, <2>4, <2>5, <4>1 DEF BookInv, OneUserPerInterface
      <4>3. \A u \in Tokens : Held(u)' /\ token'[u].iface = IfaceOf(j)' => u = sender'[j].token
        BY <2>1, <2>2, <2>6, <3>1, <4>1 DEF BookInv, OneUserPerInterface
      <4> QED BY <4>2, <4>3
    <3>2. /\ \A l \in Senders \ {k} : sender'[l] # Nothing /\ sender'[l].open => IfaceOf(l)' # IfaceOf(k)'
          /\ \A u \in Tokens : Held(u)' /\ token'[u].iface = IfaceOf(k)' => u = sender'[k].token
      BY <2>1, <2>2, <2>4, <2>5, <2>6, <2>7
    <3> QED BY <3>1, <3>2 DEF OneUserPerInterface
  <2>9. \A j \in Senders : sender'[j] # Nothing =>
          token'[sender'[j].token] # Nothing /\ (sender'[j].open <=> ~sender'[j].closed)
    BY <2>1, <2>2 DEF BookInv, Held
  <2>10. coord.senders \subseteq Senders
    BY DEF NativeShape
  <2>11. (\A j \in coord'.senders : sender'[j] # Nothing) /\ CoordinatorClosed'
    BY <2>1, <2>2, <2>3, <2>10 DEF BookInv, CoordinatorClosed
  <2>12. \A u, v \in Tokens : Held(u)' /\ Held(v)' /\ token'[u].iface = token'[v].iface => u = v
    BY <2>1, <2>6 DEF BookInv
  <2> QED BY <2>8, <2>9, <2>11, <2>12 DEF BookInv
<1>5. CASE Attach
  <2>1. UNCHANGED <<token, sender>> /\ coord' = [state |-> "open", senders |-> Owners]
    BY <1>5 DEF Attach, Book
  <2>2. coord'.state = "open" /\ coord'.senders = Owners
    BY <2>1
  <2> QED BY <2>1, <2>2 DEF BookInv, OneUserPerInterface, CoordinatorClosed, Held, IfaceOf, Owners
<1>6. ASSUME NEW k \in Senders, CloseSender(k) PROVE BookInv'
  <2>1. UNCHANGED <<token, coord>> /\ coord.state = "open"
    BY <1>6 DEF CloseSender
  <2> QED BY <1>6, <2>1, CloseSenderCloses, ClosesBook
<1>7. CASE CloseAll
  <2>1. UNCHANGED token /\ coord'.senders = coord.senders
    BY <1>7 DEF CloseAll, NativeShape
  <2>2. coord'.state = "closed" => \A k \in coord.senders : ~sender'[k].open
    <3>1. CASE coord' = [coord EXCEPT !.state = "closing"]
      <4>1. coord'.state = "closing"
        BY <3>1 DEF NativeShape
      <4> QED BY <4>1
    <3>2. CASE sender' = [k \in Senders |-> IF k \in coord.senders \cap Owners THEN Closed(sender[k], TRUE) ELSE sender[k]]
      <4> SUFFICES ASSUME NEW k \in coord.senders PROVE ~sender'[k].open
        OBVIOUS
      <4>1. k \in Senders /\ sender[k] # Nothing /\ sender[k] \in CanSenders
        BY DEF NativeShape, BookInv
      <4>2. CASE k \in Owners
        <5>1. sender'[k] = Closed(sender[k], TRUE)
          BY <3>2, <4>1, <4>2
        <5>2. Closed(sender[k], TRUE).open <=> (sender[k].open /\ ~TRUE)
          BY <4>1, ClosedFields
        <5> QED BY <5>1, <5>2
      <4>3. CASE k \notin Owners
        <5>1. sender'[k] = sender[k] /\ sender[k].closed
          BY <3>2, <4>1, <4>3 DEF Owners
        <5> QED BY <4>1, <5>1 DEF BookInv
      <4> QED BY <4>2, <4>3
    <3> QED BY <1>7, <3>1, <3>2 DEF CloseAll
  <2> QED BY <1>7, <2>1, <2>2, CloseAllCloses, ClosesBook
<1>8. ASSUME NEW k \in Senders, NEW p \in Plans, Send(k, p) PROVE BookInv'
  BY <1>8, SendRegroups, RegroupsBook DEF Send
<1>9. CASE Frame
  <2>1. CASE UNCHANGED sender
    BY <1>1, <1>9, <2>1 DEF Frame
  <2>2. CASE Completes
    <3>1. burst.k \in Senders /\ sender[burst.k] # Nothing /\ burst.p \in Waiting(burst.k) /\ burst # Nothing
      BY <1>9 DEF Frame, Source, WireInv, NativeShape, Bursts
    <3> QED BY <1>9, <2>2, <3>1, FrameRegroups, RegroupsBook DEF Frame
  <2> QED BY <1>9, <2>1, <2>2 DEF Frame, SendFails, Completes
<1>10. ASSUME NEW k \in Senders, NEW p \in Plans, sender[k] # Nothing, Take(k, p) PROVE BookInv'
  BY <1>10, TakeRegroups, RegroupsBook DEF Take
<1>11. ASSUME NEW k \in Senders, NEW p \in Plans, sender[k] # Nothing, Retire(k, p) PROVE BookInv'
  BY <1>11, RetireRegroups, RegroupsBook DEF Retire
<1>12. ASSUME NEW k \in Senders, NEW p \in Plans, sender[k] # Nothing, Listen(k, p) PROVE BookInv'
  <2>1. UNCHANGED <<token, coord>>
    BY <1>12 DEF Listen
  <2>2. CASE UNCHANGED sender
    BY <1>1, <2>1, <2>2
  <2>3. ASSUME NEW gs, Regroups(k, gs) PROVE BookInv'
    BY <1>12, <2>1, <2>3, RegroupsBook
  <2> QED BY <1>12, <2>2, <2>3, ListenRegroups
<1>13. ASSUME NEW p \in Plans, NEW t \in Tokens, NEW kind \in {"beat", "input"}, NEW tx \in Transactions,
              PrepareInput(p, t, kind, tx)
       PROVE  UNCHANGED <<token, coord, sender>>
  BY <1>13 DEF PrepareInput, Book
<1>14. ASSUME NEW p \in Plans, Elsewhere(p) \/ Discard(p) PROVE UNCHANGED <<token, coord, sender>>
  BY <1>14 DEF Elsewhere, Discard, Book
<1>15. ASSUME NEW k \in Senders, NEW p \in Plans, Answer(k, p) PROVE UNCHANGED <<token, coord, sender>>
  BY <1>15 DEF Answer, Book
<1>16. ASSUME Lapse \/ Reopen \/ UNCHANGED nativeVars PROVE UNCHANGED <<token, coord, sender>>
  BY <1>16 DEF Lapse, Reopen, Book, nativeVars
<1> QED
  BY <1>1, <1>2, <1>3, <1>4, <1>5, <1>6, <1>7, <1>8, <1>9, <1>10, <1>11, <1>12, <1>13, <1>14, <1>15, <1>16 DEF NativeNext

----------------------------------------------------------------------------
(* Inputs, and what waits.                                                  *)

LEMMA KeptFinite == IsFiniteSet(Kept) /\ Cardinality(Kept) \in Nat
<1>1. Kept \subseteq Plans
  BY DEF Kept
<1>2. IsFiniteSet(Kept)
  BY <1>1, NativeNats, FS_Subset
<1> QED BY <1>2, FS_CardinalityType

LEMMA PlanInvInit == ASSUME NativeInit PROVE PlanInv
<1>1. Kept = {}
  BY DEF NativeInit, Kept
<1>2. Cardinality(Kept) = 0
  BY <1>1, FS_EmptySet
<1> QED BY <1>2, NativeNats DEF NativeInit, PlanInv

LEMMA PlanInvStep == ASSUME NativeShape, NativeShape', PlanInv, [NativeNext]_nativeVars PROVE PlanInv'
<1>0. /\ grant \in [sid : Nat, live : BOOLEAN] /\ grant.sid \in Nat /\ attempt.sid \in Nat
      /\ grant'.sid \in Nat
  BY DEF NativeShape
<1>1. CASE UNCHANGED <<plan, grant, attempt>>
  <2>1. Kept' = Kept
    BY <1>1 DEF Kept
  <2> QED BY <1>1, <2>1 DEF PlanInv
<1>2. CASE Reopen
  <2>1. UNCHANGED <<plan, attempt>> /\ grant'.sid = grant.sid + 1
    BY <1>2 DEF Reopen
  <2>2. Kept' = Kept
    BY <2>1 DEF Kept
  <2>3. \A p \in Plans : plan[p] # Nothing => plan[p].sid \in Nat
    BY DEF NativeShape, Inputs
  <2>4. \A p \in Plans : plan'[p] # Nothing => plan'[p].sid <= grant'.sid
    BY <1>0, <2>1, <2>3 DEF PlanInv
  <2>5. attempt'.sid <= grant'.sid
    BY <1>0, <2>1 DEF PlanInv
  <2> QED BY <2>1, <2>2, <2>4, <2>5 DEF PlanInv
<1>3. CASE Lapse
  <2>1. UNCHANGED <<plan, attempt>> /\ grant'.sid = grant.sid
    BY <1>0, <1>3 DEF Lapse
  <2>2. Kept' = Kept
    BY <2>1 DEF Kept
  <2> QED BY <2>1, <2>2 DEF PlanInv
<1>4. ASSUME NEW p \in Plans, NEW t \in Tokens, NEW kind \in {"beat", "input"}, NEW tx \in Transactions,
             PrepareInput(p, t, kind, tx)
      PROVE  PlanInv'
  <2>1. /\ UNCHANGED <<grant, attempt>> /\ Fresh(p) /\ Cardinality(Kept) < Capacity
        /\ plan'[p].sid = grant.sid /\ \A q \in Plans \ {p} : plan'[q] = plan[q]
    BY <1>4 DEF PrepareInput, NativeShape
  <2>2. Kept' \subseteq Kept \cup {p} /\ p \notin Kept
    BY <2>1 DEF Kept, Fresh
  <2>3. Cardinality(Kept') <= Capacity
    <3>1. Cardinality(Kept \cup {p}) = Cardinality(Kept) + 1 /\ IsFiniteSet(Kept \cup {p})
      BY <2>2, KeptFinite, FS_AddElement
    <3>2. Cardinality(Kept') <= Cardinality(Kept \cup {p}) /\ Cardinality(Kept') \in Nat
      BY <2>2, <3>1, FS_Subset, FS_CardinalityType
    <3> QED BY <2>1, <3>1, <3>2, KeptFinite, NativeNats
  <2>4. \A u, q \in Plans : plan'[u] # Nothing /\ q < u => plan'[q] # Nothing
    <3> SUFFICES ASSUME NEW u \in Plans, NEW q \in Plans, plan'[u] # Nothing, q < u PROVE plan'[q] # Nothing
      OBVIOUS
    <3>1. u \in Nat /\ q \in Nat /\ p \in Nat /\ p \in 1 .. Cardinality(Plans) /\ q \in 1 .. Cardinality(Plans)
      BY NativeNats, NativeCanAssumption
    <3>2. plan'[p] # Nothing
      <4>1. PICK state \in {"prepared", "failed"} :
              plan' = [plan EXCEPT ![p] = [sid |-> grant.sid, tx |-> tx, kind |-> kind, token |-> t, state |-> state]]
        BY <1>4 DEF PrepareInput
      <4>2. [sid |-> grant.sid, tx |-> tx, kind |-> kind, token |-> t, state |-> state] \in Inputs
        BY <1>0, NativeNats DEF Inputs
      <4> QED BY <4>1, <4>2, NothingApart DEF NativeShape
    <3>3. CASE u # p
      BY <2>1, <3>2, <3>3 DEF PlanInv
    <3>4. CASE u = p
      <4>1. p > 1 /\ p - 1 \in Plans
        <5>1. Plans = 1 .. Cardinality(Plans) /\ Cardinality(Plans) \in Nat
          BY NativeCanAssumption, NativeNats, FS_CardinalityType
        <5>2. p > q /\ p > 1
          BY <3>1, <3>4, <5>1
        <5> QED BY <3>1, <5>1, <5>2
      <4>2. plan[p - 1] # Nothing
        BY <2>1, <4>1 DEF Fresh
      <4>3. q = p - 1 \/ q < p - 1
        BY <3>1, <3>4
      <4>4. plan[q] # Nothing
        BY <4>1, <4>2, <4>3 DEF PlanInv
      <4> QED BY <2>1, <3>4, <4>4, <3>2
    <3> QED BY <3>3, <3>4
  <2>5. \A q \in Plans : plan'[q] # Nothing => plan'[q].sid <= grant'.sid
    BY <1>0, <2>1 DEF PlanInv
  <2> QED BY <2>1, <2>3, <2>4, <2>5 DEF PlanInv
<1>5. ASSUME NEW p \in Plans, Elsewhere(p) PROVE PlanInv'
  <2>1. /\ UNCHANGED grant /\ Fresh(p) /\ attempt'.sid = grant.sid
        /\ plan'[p] = [sid |-> grant.sid, tx |-> 0, kind |-> "udp", token |-> Nothing, state |-> "gone"]
        /\ \A q \in Plans \ {p} : plan'[q] = plan[q]
    BY <1>5 DEF Elsewhere, NativeShape
  <2>0. plan'[p].sid = grant.sid /\ plan'[p].state = "gone" /\ plan'[p] # Nothing
    <3>1. plan'[p] \in Inputs
      BY <1>0, <2>1 DEF Inputs
    <3> QED BY <2>1, <3>1, NothingApart
  <2>2. Kept' = Kept
    BY <2>0, <2>1 DEF Kept, Fresh
  <2>4. \A u, q \in Plans : plan'[u] # Nothing /\ q < u => plan'[q] # Nothing
    <3> SUFFICES ASSUME NEW u \in Plans, NEW q \in Plans, plan'[u] # Nothing, q < u PROVE plan'[q] # Nothing
      OBVIOUS
    <3>1. u \in Nat /\ q \in Nat /\ p \in Nat /\ p \in 1 .. Cardinality(Plans) /\ q \in 1 .. Cardinality(Plans)
      BY NativeNats, NativeCanAssumption
    <3>3. CASE u # p
      BY <2>0, <2>1, <3>3 DEF PlanInv
    <3>4. CASE u = p
      <4>1. p > 1 /\ p - 1 \in Plans
        <5>1. Plans = 1 .. Cardinality(Plans) /\ Cardinality(Plans) \in Nat
          BY NativeCanAssumption, NativeNats, FS_CardinalityType
        <5>2. p > q /\ p > 1
          BY <3>1, <3>4, <5>1
        <5> QED BY <3>1, <5>1, <5>2
      <4>2. plan[p - 1] # Nothing
        BY <2>1, <4>1 DEF Fresh
      <4>3. q = p - 1 \/ q < p - 1
        BY <3>1, <3>4
      <4>4. plan[q] # Nothing
        BY <4>1, <4>2, <4>3 DEF PlanInv
      <4> QED BY <2>0, <2>1, <3>4, <4>4
    <3> QED BY <3>3, <3>4
  <2>5. \A q \in Plans : plan'[q] # Nothing => plan'[q].sid <= grant'.sid
    BY <1>0, <2>0, <2>1 DEF PlanInv
  <2>6. attempt'.sid <= grant'.sid
    BY <1>0, <2>1
  <2> QED BY <2>2, <2>4, <2>5, <2>6 DEF PlanInv
<1>6. ASSUME NEW p \in Plans, Discard(p) PROVE PlanInv'
  <2>1. plan[p] \in Inputs /\ plan[p] # Nothing /\ plan' = [plan EXCEPT ![p].state = "gone"] /\ UNCHANGED <<grant, attempt>>
    BY <1>6 DEF Discard, Kept, NativeShape
  <2>2. plan'[p] = [plan[p] EXCEPT !.state = "gone"] /\ \A q \in Plans \ {p} : plan'[q] = plan[q]
    BY <2>1 DEF NativeShape
  <2>3. [plan[p] EXCEPT !.state = "gone"] \in Inputs /\ plan'[p].sid = plan[p].sid
    BY <2>1, <2>2 DEF Inputs
  <2>4. plan'[p] # Nothing
    BY <2>2, <2>3, NothingApart
  <2>5. Kept' \subseteq Kept
    BY <1>6, <2>2 DEF Kept, Discard
  <2>6. Cardinality(Kept') <= Cardinality(Kept) /\ Cardinality(Kept') \in Nat
    BY <2>5, KeptFinite, FS_Subset, FS_CardinalityType
  <2>7. Cardinality(Kept') <= Capacity
    BY <2>6, KeptFinite, NativeNats DEF PlanInv
  <2>8. \A u, q \in Plans : plan'[u] # Nothing /\ q < u => plan'[q] # Nothing
    BY <2>1, <2>2, <2>4 DEF PlanInv
  <2>9. \A q \in Plans : plan'[q] # Nothing => plan'[q].sid <= grant'.sid
    BY <2>1, <2>2, <2>3 DEF PlanInv
  <2> QED BY <2>1, <2>7, <2>8, <2>9 DEF PlanInv
<1>7. ASSUME NEW k \in Senders, NEW p \in Plans, Send(k, p) PROVE PlanInv'
  <2>1. UNCHANGED <<plan, grant>> /\ attempt'.sid = grant.sid
    BY <1>7 DEF Send, Claimed, Admitted, Authority
  <2>2. Kept' = Kept
    BY <2>1 DEF Kept
  <2>3. attempt'.sid <= grant'.sid
    BY <1>0, <2>1
  <2> QED BY <2>1, <2>2, <2>3 DEF PlanInv
<1>8. ASSUME NEW t \in Tokens, NEW i \in Interfaces, Reserve(t, i) PROVE UNCHANGED <<plan, grant, attempt>>
  BY <1>8 DEF Reserve
<1>9. ASSUME NEW t \in Tokens, ReleaseToken(t) PROVE UNCHANGED <<plan, grant, attempt>>
  BY <1>9 DEF ReleaseToken
<1>10. ASSUME NEW k \in Senders, NEW t \in Tokens, Create(k, t) PROVE UNCHANGED <<plan, grant, attempt>>
  BY <1>10 DEF Create
<1>11. ASSUME NEW k \in Senders, NEW p \in Plans, Answer(k, p) \/ Take(k, p) \/ Listen(k, p) \/ Retire(k, p)
       PROVE UNCHANGED <<plan, grant, attempt>>
  BY <1>11 DEF Answer, Take, Listen, Retire
<1>12. ASSUME NEW k \in Senders, CloseSender(k) PROVE UNCHANGED <<plan, grant, attempt>>
  BY <1>12 DEF CloseSender
<1>13. ASSUME Attach \/ Frame \/ CloseAll \/ UNCHANGED nativeVars PROVE UNCHANGED <<plan, grant, attempt>>
  BY <1>13 DEF Attach, Frame, CloseAll, nativeVars
<1> QED
  BY <1>1, <1>2, <1>3, <1>4, <1>5, <1>6, <1>7, <1>8, <1>9, <1>10, <1>11, <1>12, <1>13 DEF NativeNext

LEMMA SidsAreNumbers ==
  ASSUME NativeShape
  PROVE  /\ \A p \in Plans : p \in Nat /\ (plan[p] # Nothing => plan[p] \in Inputs /\ plan[p].sid \in Nat /\ plan[p].tx \in Nat)
         /\ attempt.sid \in Nat /\ attempt.seq \in Nat /\ attempt.beat \in Nat /\ grant.sid \in Nat
<1>1. \A p \in Plans : plan[p] # Nothing => plan[p] \in Inputs
  BY DEF NativeShape
<1>2. \A x \in Inputs : x.sid \in Nat /\ x.tx \in Nat
  BY DEF Inputs
<1>3. /\ attempt \in [sid : Nat, seq : {0} \cup Plans, beat : Nat]
      /\ grant \in [sid : Nat, live : BOOLEAN]
  BY DEF NativeShape
<1>4. \A p \in Plans : p \in Nat
  BY NativeNats
<1>5. attempt.seq \in Nat
  BY <1>3, <1>4
<1>6. attempt.sid \in Nat /\ attempt.beat \in Nat /\ grant.sid \in Nat
  BY <1>3
<1> QED BY <1>1, <1>2, <1>4, <1>5, <1>6

\* An input of the other link is the newest of all.
LEMMA ElsewhereIsNewest ==
  ASSUME NativeShape, PlanInv, NEW p \in Plans, Elsewhere(p)
  PROVE  /\ PlansStay /\ \A q \in Plans : plan[q] # Nothing => q < p
         /\ plan'[p].sid = grant.sid /\ plan'[p].kind = "udp" /\ plan'[p] # Nothing
         /\ attempt'.sid = grant.sid /\ attempt'.seq = p
         /\ (attempt.sid = grant.sid => attempt'.beat = attempt.beat)
<1>1. /\ plan[p] = Nothing
      /\ plan'[p] = [sid |-> grant.sid, tx |-> 0, kind |-> "udp", token |-> Nothing, state |-> "gone"]
      /\ \A q \in Plans \ {p} : plan'[q] = plan[q]
  BY DEF Elsewhere, Fresh, NativeShape
<1>2. PlansStay
  BY <1>1 DEF PlansStay
<1>3. \A q \in Plans : plan[q] # Nothing => q < p
  <2> SUFFICES ASSUME NEW q \in Plans, plan[q] # Nothing PROVE q < p
    OBVIOUS
  <2>1. ~(p < q)
    BY <1>1 DEF PlanInv
  <2>2. q # p /\ p \in Nat /\ q \in Nat
    BY <1>1, NativeNats
  <2> QED BY <2>1, <2>2
<1>4. plan'[p].sid = grant.sid /\ plan'[p].kind = "udp"
  BY <1>1
<1>5. plan'[p] # Nothing
  <2>1. plan'[p] \in Inputs
    BY <1>1, SidsAreNumbers DEF Inputs
  <2> QED BY <2>1, NothingApart
<1>6. /\ attempt'.sid = grant.sid /\ attempt'.seq = p
      /\ (attempt.sid = grant.sid => attempt'.beat = attempt.beat)
  BY DEF Elsewhere
<1> QED BY <1>2, <1>3, <1>4, <1>5, <1>6

\* An input that is sent was not attempted before.
LEMMA SendIsNew ==
  ASSUME NativeShape, PlanInv, NEW k \in Senders, NEW p \in Plans, Send(k, p)
  PROVE  /\ ~Attempted(p) /\ plan[p] # Nothing /\ plan[p].sid = grant.sid /\ PlansStay /\ UNCHANGED plan
         /\ attempt'.sid = plan[p].sid /\ attempt'.seq = p
         /\ \A q \in Plans : Attempted(q) /\ plan[q].sid = plan[p].sid => attempt.sid = plan[p].sid /\ q < p
<1>1. /\ plan[p] # Nothing /\ plan[p].sid = grant.sid /\ UNCHANGED plan /\ attempt' = Claimed(p)
      /\ ~(plan[p].sid = attempt.sid /\ p <= attempt.seq)
  BY DEF Send, Admitted, Authority, Behind
<1>2. attempt'.sid = plan[p].sid /\ attempt'.seq = p
  BY <1>1 DEF Claimed
<1>3. attempt.sid <= grant.sid
  BY DEF PlanInv
<1>4. ~Attempted(p)
  BY <1>1, <1>3, SidsAreNumbers DEF Attempted
<1>5. \A q \in Plans : Attempted(q) /\ plan[q].sid = plan[p].sid => attempt.sid = plan[p].sid /\ q < p
  BY <1>1, <1>3, SidsAreNumbers DEF Attempted
<1> QED BY <1>1, <1>2, <1>4, <1>5, PlansKept

LEMMA AttemptsStay ==
  ASSUME NativeShape, NativeShape', PlanInv, NativeNext
  PROVE  PlansStay /\ \A q \in Plans : Attempted(q) => Attempted(q)'
<1>1. CASE Quiet
  BY <1>1 DEF Quiet, PlansStay, Attempted
<1>2. CASE Frame
  BY <1>2, PlansKept DEF Frame, Attempted
<1>3. ASSUME NEW p \in Plans, Elsewhere(p) PROVE PlansStay /\ \A q \in Plans : Attempted(q) => Attempted(q)'
  <2>1. /\ PlansStay /\ attempt'.sid = grant.sid /\ attempt'.seq = p
        /\ \A q \in Plans : plan[q] # Nothing => q < p
    BY <1>3, ElsewhereIsNewest
  <2> SUFFICES ASSUME NEW q \in Plans, Attempted(q) PROVE Attempted(q)'
    BY <2>1
  <2>2. plan[q] # Nothing /\ plan'[q] # Nothing /\ plan'[q].sid = plan[q].sid /\ q < p
    BY <2>1 DEF Attempted, PlansStay
  <2>3. plan[q].sid <= grant.sid
    BY <2>2 DEF PlanInv
  <2> QED BY <2>1, <2>2, <2>3, SidsAreNumbers DEF Attempted
<1>4. ASSUME NEW k \in Senders, NEW p \in Plans, Send(k, p)
      PROVE  PlansStay /\ \A q \in Plans : Attempted(q) => Attempted(q)'
  <2>1. /\ PlansStay /\ attempt'.sid = grant.sid /\ attempt'.seq = p /\ plan[p].sid = grant.sid
        /\ \A q \in Plans : Attempted(q) /\ plan[q].sid = plan[p].sid => q < p
    BY <1>4, SendIsNew
  <2> SUFFICES ASSUME NEW q \in Plans, Attempted(q) PROVE Attempted(q)'
    BY <2>1
  <2>2. plan[q] # Nothing /\ plan'[q] # Nothing /\ plan'[q].sid = plan[q].sid
    BY <2>1 DEF Attempted, PlansStay
  <2>3. plan[q].sid <= grant.sid
    BY <2>2 DEF PlanInv
  <2>4. plan[q].sid = grant.sid => q <= p
    BY <2>1, SidsAreNumbers
  <2> QED BY <2>1, <2>2, <2>3, <2>4, SidsAreNumbers DEF Attempted
<1> QED BY <1>1, <1>2, <1>3, <1>4, QuietSteps

LEMMA ElsewhereLessens == ASSUME NEW p \in Plans, Elsewhere(p) PROVE Lessens /\ UNCHANGED <<sender, refused, told, inbox>> /\ burst = Nothing /\ burst' = Nothing
BY SendersKept DEF Elsewhere, Book, Source

\* A frame leaves the groups where they are.
LEMMA FrameFewer ==
  ASSUME NativeShape, WireInv, Frame
  PROVE  Fewer
<1>1. CASE UNCHANGED sender
  BY <1>1 DEF Fewer, Waiting
<1>2. CASE Completes
  <2> DEFINE k == burst.k
             gs == [sender[k].pending EXCEPT ![burst.p].complete = TRUE]
  <2>1. k \in Senders /\ sender[k] # Nothing /\ burst.p \in Waiting(k) /\ burst # Nothing
    BY DEF Frame, Source, WireInv, NativeShape, Bursts
  <2>2. Regroups(k, gs) /\ sender'[k].sid = sender[k].sid
    BY <1>2, <2>1, FrameRegroups
  <2>3. DOMAIN gs = Waiting(k)
    BY DEF Waiting
  <2> HIDE DEF gs
  <2> SUFFICES ASSUME NEW j \in Senders, sender'[j] # Nothing, NEW q \in Waiting(j)'
               PROVE  /\ sender[j] # Nothing /\ q \in Waiting(j)
                      /\ sender'[j].token = sender[j].token /\ sender'[j].sid = sender[j].sid
    BY DEF Fewer
  <2>4. CASE j = k
    BY <2>1, <2>2, <2>3, <2>4 DEF Regroups, Waiting
  <2>5. CASE j # k
    BY <2>2, <2>5 DEF Regroups, Waiting
  <2> QED BY <2>4, <2>5
<1> QED BY <1>1, <1>2 DEF Frame, SendFails, Completes

LEMMA WaitKept ==
  ASSUME NativeShape, NativeShape', WaitInv, Fewer, PlansStay, \A q \in Plans : Attempted(q) => Attempted(q)'
  PROVE  WaitInv'
<1> SUFFICES ASSUME NEW k \in Senders, sender'[k] # Nothing
             PROVE  /\ Cardinality(Waiting(k)') <= MaxPending
                    /\ \A p \in Waiting(k)' : /\ Attempted(p)' /\ plan'[p].token = sender'[k].token
                                              /\ plan'[p].sid = sender'[k].sid
  BY DEF WaitInv, Waiting
<1>1. CASE Waiting(k)' = {}
  BY <1>1, FS_EmptySet, NativeNats
<1>2. CASE Waiting(k)' # {}
  <2>1. /\ sender[k] # Nothing /\ Waiting(k)' \subseteq Waiting(k)
        /\ sender'[k].token = sender[k].token /\ sender'[k].sid = sender[k].sid
    BY <1>2 DEF Fewer
  <2>2. Waiting(k) \subseteq Plans /\ IsFiniteSet(Waiting(k))
    BY <2>1, WaitingShape
  <2>3. /\ Cardinality(Waiting(k)') <= Cardinality(Waiting(k))
        /\ Cardinality(Waiting(k)') \in Nat /\ Cardinality(Waiting(k)) \in Nat
    BY <2>1, <2>2, FS_Subset, FS_CardinalityType
  <2>4. Cardinality(Waiting(k)) <= MaxPending
    BY <2>1 DEF WaitInv
  <2>5. Cardinality(Waiting(k)') <= MaxPending
    BY <2>3, <2>4, NativeNats
  <2>6. \A p \in Waiting(k)' : /\ Attempted(p)' /\ plan'[p].token = sender'[k].token
                               /\ plan'[p].sid = sender'[k].sid
    BY <2>1, <2>2 DEF WaitInv, PlansStay, Attempted
  <2> QED BY <2>5, <2>6
<1> QED BY <1>1, <1>2

LEMMA WaitInvInit == NativeInit => WaitInv
BY DEF NativeInit, WaitInv

\* The groups after a send.
LEMMA SendWaiting ==
  ASSUME NativeShape, NEW k \in Senders, NEW p \in Plans, Send(k, p)
  PROVE  /\ sender[k] # Nothing /\ Waiting(k)' = Waiting(k) \cup {p} /\ p \notin Waiting(k)
         /\ sender'[k].token = sender[k].token /\ sender'[k].sid = plan[p].sid /\ sender'[k] # Nothing
         /\ sender'[k].pending[p] = [complete |-> FALSE, feedback |-> <<>>]
         /\ \A q \in Waiting(k) : sender'[k].pending[q] = sender[k].pending[q]
         /\ \A j \in Senders \ {k} : sender'[j] = sender[j] /\ Waiting(j)' = Waiting(j)
<1>1. Regroups(k, With(sender[k].pending, p)) /\ sender[k] # Nothing /\ sender'[k].sid = plan[p].sid
  BY SendRegroups
<1>2. sender[k].pending \in Groups /\ p \notin Waiting(k)
  BY <1>1, WaitingShape DEF Send, Admitted
<1>3. /\ DOMAIN With(sender[k].pending, p) = Waiting(k) \cup {p}
      /\ With(sender[k].pending, p)[p] = [complete |-> FALSE, feedback |-> <<>>]
      /\ \A q \in Waiting(k) : With(sender[k].pending, p)[q] = sender[k].pending[q]
  BY <1>2, WithShape DEF Waiting
<1> QED BY <1>1, <1>2, <1>3 DEF Regroups, Waiting

LEMMA WaitInvStep ==
  ASSUME NativeShape, NativeShape', PlanInv, WireInv, WaitInv, [NativeNext]_nativeVars
  PROVE  WaitInv'
<1>1. CASE UNCHANGED nativeVars
  BY <1>1 DEF nativeVars, WaitInv, Waiting, Attempted
<1>2. CASE NativeNext
  <2>1. PlansStay /\ \A q \in Plans : Attempted(q) => Attempted(q)'
    BY <1>2, AttemptsStay
  <2>2. CASE Quiet
    <3>1. Fewer
      BY <2>2 DEF Quiet, Lessens, Fewer
    <3> QED BY <2>1, <3>1, WaitKept
  <2>3. CASE Frame
    BY <2>1, <2>3, FrameFewer, WaitKept
  <2>4. ASSUME NEW p \in Plans, Elsewhere(p) PROVE WaitInv'
    <3>1. Fewer
      BY <2>4, ElsewhereLessens DEF Lessens, Fewer
    <3> QED BY <2>1, <3>1, WaitKept
  <2>5. ASSUME NEW k \in Senders, NEW p \in Plans, Send(k, p) PROVE WaitInv'
    <3>0. /\ plan[p].token = sender[k].token /\ (sender[k].sid # plan[p].sid => Waiting(k) = {})
          /\ Cardinality(Waiting(k)) < MaxPending
      BY <2>5 DEF Send, Admitted
    <3>1. /\ sender[k] # Nothing /\ Waiting(k)' = Waiting(k) \cup {p} /\ p \notin Waiting(k)
          /\ sender'[k].token = sender[k].token /\ sender'[k].sid = plan[p].sid
          /\ \A j \in Senders \ {k} : sender'[j] = sender[j] /\ Waiting(j)' = Waiting(j)
      BY <2>5, SendWaiting
    <3>2. plan' = plan /\ plan[p] # Nothing /\ attempt'.sid = plan[p].sid /\ attempt'.seq = p
      BY <2>5, SendIsNew
    <3>3. Attempted(p)'
      BY <3>2, SidsAreNumbers DEF Attempted
    <3>4. Waiting(k) \subseteq Plans /\ IsFiniteSet(Waiting(k))
      BY <3>1, WaitingShape
    <3>5. Cardinality(Waiting(k)') = Cardinality(Waiting(k)) + 1
      BY <3>1, <3>4, FS_AddElement
    <3>6. Cardinality(Waiting(k)') <= MaxPending
      BY <3>0, <3>4, <3>5, FS_CardinalityType, NativeNats
    <3>7. \A q \in Waiting(k) : Attempted(q)' /\ plan[q].token = sender[k].token /\ plan[q].sid = plan[p].sid
      BY <2>1, <3>0, <3>1, <3>4 DEF WaitInv
    <3>8. ASSUME NEW j \in Senders, sender'[j] # Nothing, j # k
          PROVE  /\ Cardinality(Waiting(j)') <= MaxPending
                 /\ \A q \in Waiting(j)' : Attempted(q)' /\ plan'[q].token = sender'[j].token /\ plan'[q].sid = sender'[j].sid
      <4>1. sender[j] # Nothing /\ sender'[j] = sender[j] /\ Waiting(j)' = Waiting(j)
        BY <3>1, <3>8
      <4>2. Waiting(j) \subseteq Plans
        BY <4>1, WaitingShape
      <4> QED BY <2>1, <3>2, <4>1, <4>2 DEF WaitInv
    <3>9. \A q \in Waiting(k)' : Attempted(q)' /\ plan'[q].token = sender'[k].token /\ plan'[q].sid = sender'[k].sid
      BY <3>0, <3>1, <3>2, <3>3, <3>7
    <3>10. ASSUME NEW j \in Senders, sender'[j] # Nothing
           PROVE  /\ Cardinality(Waiting(j)') <= MaxPending
                  /\ \A q \in Waiting(j)' : Attempted(q)' /\ plan'[q].token = sender'[j].token /\ plan'[q].sid = sender'[j].sid
      BY <3>6, <3>8, <3>9, <3>10
    <3> QED BY <3>10 DEF WaitInv, Waiting
  <2> QED BY <1>2, <2>2, <2>3, <2>4, <2>5, QuietSteps
<1> QED BY <1>1, <1>2

----------------------------------------------------------------------------
(* What reached a bus.                                                      *)

LEMMA WireShape ==
  ASSUME NativeShape, NEW n \in DOMAIN wire
  PROVE  n \in 1 .. Len(wire) /\ wire[n][1] \in Plans /\ wire[n][2] \in Frames
BY DEF NativeShape

\* One more entry behind all of its grant.
LEMMA WireGrows ==
  ASSUME NativeShape, NativeShape', WireInv, PlansStay, \A q \in Plans : Attempted(q) => Attempted(q)',
         NEW p \in Plans, NEW f, NEW k, wire' = Append(wire, <<p, f, k>>), Attempted(p)',
         \A n \in DOMAIN wire : plan[wire[n][1]].sid = plan'[p].sid =>
           wire[n][1] < p \/ (wire[n][1] = p /\ wire[n][2] < f)
  PROVE  WireAttempted' /\ TxInOrder'
<1>0. wire \in Seq(Plans \X Frames \X (Senders \cup {0}))
  BY DEF NativeShape
<1>1. /\ DOMAIN wire' = 1 .. (Len(wire) + 1) /\ Len(wire) \in Nat /\ DOMAIN wire = 1 .. Len(wire)
      /\ wire'[Len(wire) + 1] = <<p, f, k>>
      /\ \A n \in 1 .. Len(wire) : wire'[n] = wire[n]
  BY <1>0
<1>2. \A n \in 1 .. Len(wire) : /\ wire[n][1] \in Plans /\ Attempted(wire[n][1])
                                /\ plan'[wire[n][1]].sid = plan[wire[n][1]].sid
  BY <1>1, WireShape DEF WireInv, WireAttempted, Attempted, PlansStay
<1>3. WireAttempted'
  <2> SUFFICES ASSUME NEW n \in DOMAIN wire' PROVE Attempted(wire[n][1])'
    BY DEF WireAttempted
  <2>1. CASE n = Len(wire) + 1
    <3>1. wire'[n][1] = p
      BY <1>1, <2>1
    <3> QED BY <3>1 DEF Attempted
  <2>2. CASE n \in 1 .. Len(wire)
    BY <1>1, <1>2, <2>2 DEF Attempted
  <2> QED BY <1>1, <2>1, <2>2
<1>4. ASSUME NEW m \in DOMAIN wire', NEW n \in DOMAIN wire', m < n, plan'[wire'[m][1]].sid = plan'[wire'[n][1]].sid
      PROVE  wire'[m][1] < wire'[n][1] \/ (wire'[m][1] = wire'[n][1] /\ wire'[m][2] < wire'[n][2])
  <2>1. m \in 1 .. Len(wire)
    BY <1>1, <1>4
  <2>2. CASE n \in 1 .. Len(wire)
    BY <1>1, <1>2, <1>4, <2>1, <2>2 DEF WireInv, TxInOrder
  <2>3. CASE n = Len(wire) + 1
    BY <1>1, <1>2, <1>4, <2>1, <2>3
  <2> QED BY <1>1, <2>2, <2>3
<1> QED BY <1>3, <1>4 DEF TxInOrder

LEMMA WireKept ==
  ASSUME NativeShape, WireInv, UNCHANGED wire, PlansStay, \A q \in Plans : Attempted(q) => Attempted(q)'
  PROVE  WireAttempted' /\ TxInOrder'
<1>1. \A n \in DOMAIN wire : /\ wire[n][1] \in Plans /\ Attempted(wire[n][1])
                             /\ plan'[wire[n][1]].sid = plan[wire[n][1]].sid
  BY WireShape DEF WireInv, WireAttempted, Attempted, PlansStay
<1>2. WireAttempted'
  BY <1>1 DEF WireAttempted, Attempted
<1> QED BY <1>1, <1>2 DEF WireInv, TxInOrder

LEMMA WireInvInit == NativeInit => WireInv
BY DEF NativeInit, WireInv, WireAttempted, TxInOrder

LEMMA WireInvFrame ==
  ASSUME NativeShape, NativeShape', WireInv, Frame, PlansStay, \A q \in Plans : Attempted(q) => Attempted(q)'
  PROVE  WireInv'
<1>1. PICK k \in Senders, p \in Plans, next \in Frames : burst = [k |-> k, p |-> p, next |-> next]
  BY DEF Frame, Source, NativeShape, Bursts
<1>2. burst.k = k /\ burst.p = p /\ burst.next = next /\ burst # Nothing /\ UNCHANGED <<plan, attempt>> /\ next \in Nat
  BY <1>1, NativeNats DEF Frame, Source
<1>3. /\ Attempted(p) /\ plan[p].sid = attempt.sid /\ p = attempt.seq
      /\ sender[k] # Nothing /\ p \in Waiting(k) /\ p \notin refused
      /\ \A n \in DOMAIN wire : wire[n][1] = p => wire[n][2] < next
  BY <1>2 DEF WireInv
<1>4. \/ /\ UNCHANGED <<wire, sender>> /\ refused' = refused \cup {p} /\ burst' = Nothing
      \/ /\ wire' = Append(wire, <<p, next, k>>)
         /\ \/ refused' = refused \cup {p} /\ burst' = Nothing /\ UNCHANGED sender
            \/ burst' = [burst EXCEPT !.next = @ + 1] /\ UNCHANGED <<sender, refused>>
            \/ burst' = Nothing /\ UNCHANGED refused
  BY <1>2 DEF Frame, SendFails
<1>5. WireAttempted' /\ TxInOrder'
  <2>1. CASE UNCHANGED wire
    BY <2>1, WireKept
  <2>2. CASE wire' = Append(wire, <<p, next, k>>)
    <3>1. ASSUME NEW n \in DOMAIN wire, plan[wire[n][1]].sid = plan'[p].sid
          PROVE  wire[n][1] < p \/ (wire[n][1] = p /\ wire[n][2] < next)
      <4>1. wire[n][1] \in Plans /\ Attempted(wire[n][1])
        BY WireShape DEF WireInv, WireAttempted
      <4>2. plan[wire[n][1]].sid = attempt.sid
        BY <1>2, <1>3, <3>1
      <4>3. wire[n][1] <= p
        BY <1>3, <4>1, <4>2, SidsAreNumbers DEF Attempted
      <4>4. wire[n][1] \in Nat /\ p \in Nat
        BY <4>1, NativeNats
      <4> QED BY <1>3, <4>3, <4>4
    <3>2. Attempted(p)'
      BY <1>3
    <3> QED BY <2>2, <3>1, <3>2, WireGrows
  <2> QED BY <1>4, <2>1, <2>2
<1>6. \A q \in refused' : Attempted(q)'
  <2>1. refused' \subseteq refused \cup {p} /\ refused \subseteq Plans
    BY <1>4 DEF NativeShape
  <2>2. \A q \in refused \cup {p} : q \in Plans /\ Attempted(q)
    BY <1>3, <2>1 DEF WireInv
  <2> QED BY <2>1, <2>2
<1>7. CASE burst' = Nothing
  BY <1>5, <1>6, <1>7 DEF WireInv
<1>8. CASE /\ wire' = Append(wire, <<p, next, k>>)
           /\ burst' = [burst EXCEPT !.next = @ + 1] /\ UNCHANGED <<sender, refused>>
  <2>1. burst'.p = p /\ burst'.k = k /\ burst'.next = next + 1
    BY <1>1, <1>8
  <2>2. wire \in Seq(Plans \X Frames \X (Senders \cup {0}))
    BY DEF NativeShape
  <2>3. /\ DOMAIN wire' = 1 .. (Len(wire) + 1) /\ Len(wire) \in Nat /\ DOMAIN wire = 1 .. Len(wire)
        /\ wire'[Len(wire) + 1] = <<p, next, k>>
        /\ \A n \in 1 .. Len(wire) : wire'[n] = wire[n]
    BY <1>8, <2>2
  <2>4. ASSUME NEW n \in DOMAIN wire', wire'[n][1] = p PROVE wire'[n][2] < next + 1
    <3>1. CASE n = Len(wire) + 1
      <4>1. wire'[n][2] = next
        BY <2>3, <3>1
      <4> QED BY <1>2, <4>1
    <3>2. CASE n \in DOMAIN wire
      <4>1. wire'[n] = wire[n] /\ wire[n][2] < next
        BY <1>3, <2>3, <2>4, <3>2
      <4>2. wire[n][2] \in Nat
        BY <3>2, WireShape, NativeNats
      <4> QED BY <1>2, <4>1, <4>2
    <3> QED BY <2>3, <3>1, <3>2
  <2>5. Waiting(k)' = Waiting(k)
    BY <1>8 DEF Waiting
  <2>6. Attempted(p)' /\ plan'[p].sid = attempt'.sid /\ p = attempt'.seq
    BY <1>2, <1>3
  <2>7. sender'[k] # Nothing /\ p \in Waiting(k)' /\ p \notin refused'
    BY <1>3, <1>8, <2>5
  <2>8. /\ Attempted(burst.p)' /\ plan'[burst'.p].sid = attempt'.sid /\ burst'.p = attempt'.seq
        /\ sender'[burst'.k] # Nothing /\ (burst.p \in Waiting(burst.k))' /\ burst'.p \notin refused'
        /\ \A n \in DOMAIN wire' : wire'[n][1] = burst'.p => wire'[n][2] < burst'.next
    BY <2>1, <2>4, <2>6, <2>7 DEF Attempted, Waiting
  <2> QED BY <1>5, <1>6, <2>8 DEF WireInv
<1> QED BY <1>4, <1>7, <1>8

LEMMA WireInvStep ==
  ASSUME NativeShape, NativeShape', PlanInv, WireInv, [NativeNext]_nativeVars
  PROVE  WireInv'
<1>1. CASE UNCHANGED nativeVars
  BY <1>1 DEF nativeVars, WireInv, WireAttempted, TxInOrder, Waiting, Attempted
<1>2. CASE NativeNext
  <2>1. PlansStay /\ \A q \in Plans : Attempted(q) => Attempted(q)'
    BY <1>2, AttemptsStay
  <2>2. CASE Quiet
    <3>1. WireAttempted' /\ TxInOrder'
      BY <2>1, <2>2, WireKept DEF Quiet
    <3>2. \A p \in refused' : Attempted(p)'
      BY <2>1, <2>2 DEF Quiet, WireInv, NativeShape
    <3>3. burst' = burst /\ UNCHANGED <<attempt, wire, refused>> /\ (burst # Nothing => UNCHANGED sender)
      BY <2>2 DEF Quiet
    <3>4. burst # Nothing => burst.p \in Plans /\ burst.k \in Senders
      BY DEF NativeShape, Bursts
    <3>5. burst # Nothing => /\ Attempted(burst.p)' /\ plan'[burst.p].sid = attempt.sid
                             /\ Waiting(burst.k)' = Waiting(burst.k)
      BY <2>1, <3>3, <3>4 DEF WireInv, PlansStay, Attempted, Waiting
    <3>6. burst' # Nothing =>
            /\ Attempted(burst.p)' /\ plan'[burst'.p].sid = attempt'.sid /\ burst'.p = attempt'.seq
            /\ sender'[burst'.k] # Nothing /\ (burst.p \in Waiting(burst.k))' /\ burst'.p \notin refused'
            /\ \A n \in DOMAIN wire' : wire'[n][1] = burst'.p => wire'[n][2] < burst'.next
      BY <3>3, <3>5 DEF WireInv
    <3> QED BY <3>1, <3>2, <3>6 DEF WireInv
  <2>3. CASE Frame
    BY <2>1, <2>3, WireInvFrame
  <2>4. ASSUME NEW p \in Plans, Elsewhere(p) PROVE WireInv'
    <3>1. /\ \A q \in Plans : plan[q] # Nothing => q < p
          /\ plan'[p].sid = grant.sid /\ plan'[p] # Nothing /\ attempt'.sid = grant.sid /\ attempt'.seq = p
      BY <2>4, ElsewhereIsNewest
    <3>2. wire' = Append(wire, <<p, 1, 0>>) /\ UNCHANGED refused /\ burst' = Nothing
      BY <2>4, ElsewhereLessens DEF Elsewhere
    <3>3. Attempted(p)'
      BY <3>1, SidsAreNumbers DEF Attempted
    <3>4. \A n \in DOMAIN wire : wire[n][1] < p
      BY <3>1, WireShape DEF WireInv, WireAttempted, Attempted
    <3>5. WireAttempted' /\ TxInOrder'
      BY <2>1, <3>2, <3>3, <3>4, WireGrows
    <3>6. \A q \in refused' : Attempted(q)'
      BY <2>1, <3>2 DEF WireInv, NativeShape
    <3> QED BY <3>2, <3>5, <3>6 DEF WireInv
  <2>5. ASSUME NEW k \in Senders, NEW p \in Plans, Send(k, p) PROVE WireInv'
    <3>1. /\ ~Attempted(p) /\ plan[p] # Nothing /\ plan' = plan
          /\ attempt'.sid = plan[p].sid /\ attempt'.seq = p
      BY <2>5, SendIsNew
    <3>2. UNCHANGED <<wire, refused>> /\ burst' = [k |-> k, p |-> p, next |-> 1]
      BY <2>5 DEF Send, Link
    <3>3. burst'.k = k /\ burst'.p = p
      BY <3>2
    <3>4. Attempted(p)'
      BY <3>1, SidsAreNumbers DEF Attempted
    <3>5. WireAttempted' /\ TxInOrder'
      BY <2>1, <3>2, WireKept
    <3>6. \A q \in refused' : Attempted(q)'
      BY <2>1, <3>2 DEF WireInv, NativeShape
    <3>7. p \notin refused' /\ \A n \in DOMAIN wire' : wire'[n][1] # p
      BY <3>1, <3>2 DEF WireInv, WireAttempted
    <3>8. sender'[k] # Nothing /\ p \in Waiting(k)'
      BY <2>5, SendWaiting
    <3>9. /\ Attempted(burst.p)' /\ plan'[burst'.p].sid = attempt'.sid /\ burst'.p = attempt'.seq
          /\ sender'[burst'.k] # Nothing /\ (burst.p \in Waiting(burst.k))' /\ burst'.p \notin refused'
          /\ \A n \in DOMAIN wire' : wire'[n][1] = burst'.p => wire'[n][2] < burst'.next
      BY <3>1, <3>3, <3>4, <3>7, <3>8 DEF Attempted, Waiting
    <3> QED BY <3>5, <3>6, <3>9 DEF WireInv
  <2> QED BY <1>2, <2>2, <2>3, <2>4, <2>5, QuietSteps
<1> QED BY <1>1, <1>2

----------------------------------------------------------------------------
(* Heartbeats.                                                              *)

LEMMA TriedWereAttempted ==
  ASSUME NativeShape, WireInv, WaitInv, NEW p \in Plans, Tried(p)
  PROVE  Attempted(p)
BY WireShape DEF Tried, OnSomeWire, WireInv, WireAttempted, WaitInv

\* What was tried before.
LEMMA BeatKept ==
  ASSUME NativeShape, WireInv, WaitInv, BeatInv, PlansStay, UNCHANGED attempt,
         \A q \in Plans : Tried(q)' => Tried(q)
  PROVE  BeatInv'
<1>1. \A q \in Plans : TriedBeat(q)' => TriedBeat(q) /\ plan'[q].sid = plan[q].sid /\ plan'[q].tx = plan[q].tx
  <2> SUFFICES ASSUME NEW q \in Plans, TriedBeat(q)'
               PROVE  TriedBeat(q) /\ plan'[q].sid = plan[q].sid /\ plan'[q].tx = plan[q].tx
    OBVIOUS
  <2>1. Tried(q) /\ plan'[q].kind = "beat"
    BY DEF TriedBeat
  <2>2. plan[q] # Nothing
    BY <2>1, TriedWereAttempted DEF Attempted
  <2> QED BY <2>1, <2>2 DEF TriedBeat, PlansStay
<1> QED BY <1>1 DEF BeatInv

LEMMA FewerTried ==
  ASSUME UNCHANGED wire, Fewer
  PROVE  \A q \in Plans : Tried(q)' => Tried(q)
BY DEF Fewer, Tried, OnSomeWire, Waiting

LEMMA BeatInvInit == NativeInit => BeatInv
BY DEF NativeInit, BeatInv, TriedBeat

LEMMA BeatInvStep ==
  ASSUME NativeShape, NativeShape', PlanInv, WaitInv, WireInv, BeatInv, [NativeNext]_nativeVars
  PROVE  BeatInv'
<1>1. CASE UNCHANGED nativeVars
  BY <1>1 DEF nativeVars, BeatInv, TriedBeat, Tried, OnSomeWire, Waiting
<1>2. CASE NativeNext
  <2>1. PlansStay
    BY <1>2, AttemptsStay
  <2>2. CASE Quiet
    <3>1. Fewer /\ UNCHANGED <<wire, attempt>>
      BY <2>2 DEF Quiet, Lessens, Fewer
    <3> QED BY <2>1, <3>1, FewerTried, BeatKept
  <2>3. CASE Frame
    <3>1. Fewer /\ UNCHANGED attempt
      BY <2>3, FrameFewer DEF Frame
    <3>2. burst.p \in Plans /\ Tried(burst.p)
      BY <2>3 DEF Frame, Source, WireInv, NativeShape, Bursts, Tried
    <3>3. wire' = wire \/ wire' = Append(wire, <<burst.p, burst.next, burst.k>>)
      BY <2>3 DEF Frame
    <3>4. \A n \in DOMAIN wire' : wire'[n][1] = burst.p \/ OnSomeWire(wire'[n][1])
      <4>1. CASE wire' = wire
        BY <4>1 DEF OnSomeWire
      <4>2. CASE wire' = Append(wire, <<burst.p, burst.next, burst.k>>)
        <5>1. /\ DOMAIN wire' = 1 .. (Len(wire) + 1) /\ Len(wire) \in Nat /\ DOMAIN wire = 1 .. Len(wire)
              /\ wire'[Len(wire) + 1] = <<burst.p, burst.next, burst.k>>
              /\ \A n \in 1 .. Len(wire) : wire'[n] = wire[n]
          <6>1. wire \in Seq(Plans \X Frames \X (Senders \cup {0}))
            BY DEF NativeShape
          <6> QED BY <4>2, <6>1
        <5> QED BY <5>1 DEF OnSomeWire
      <4> QED BY <3>3, <4>1, <4>2
    <3>5. \A q \in Plans : Tried(q)' => Tried(q)
      BY <3>1, <3>2, <3>4 DEF Fewer, Tried, OnSomeWire, Waiting
    <3> QED BY <2>1, <3>1, <3>5, BeatKept
  <2>4. ASSUME NEW p \in Plans, Elsewhere(p) PROVE BeatInv'
    <3>1. /\ plan'[p].kind = "udp" /\ attempt'.sid = grant.sid /\ (attempt.sid = grant.sid => attempt'.beat = attempt.beat)
      BY <2>4, ElsewhereIsNewest
    <3>2. wire' = Append(wire, <<p, 1, 0>>) /\ UNCHANGED sender
      BY <2>4, ElsewhereLessens DEF Elsewhere
    <3>3. /\ DOMAIN wire' = 1 .. (Len(wire) + 1) /\ Len(wire) \in Nat /\ DOMAIN wire = 1 .. Len(wire)
          /\ wire'[Len(wire) + 1] = <<p, 1, 0>>
          /\ \A n \in 1 .. Len(wire) : wire'[n] = wire[n]
      BY <3>2 DEF NativeShape
    <3>4. \A q \in Plans : Tried(q)' => q = p \/ Tried(q)
      BY <3>2, <3>3 DEF Tried, OnSomeWire, Waiting
    <3>5. ASSUME NEW q \in Plans, TriedBeat(q)'
          PROVE  /\ TriedBeat(q) /\ plan'[q].sid = plan[q].sid /\ plan'[q].tx = plan[q].tx
                 /\ plan[q].sid = grant.sid => attempt.sid = grant.sid
      <4>1. q # p /\ Tried(q) /\ plan'[q].kind = "beat"
        BY <3>1, <3>4, <3>5 DEF TriedBeat
      <4>2. Attempted(q)
        BY <4>1, TriedWereAttempted
      <4>3. plan[q].sid = grant.sid => attempt.sid = grant.sid
        BY <4>2, SidsAreNumbers DEF Attempted, PlanInv
      <4> QED BY <2>1, <4>1, <4>2, <4>3 DEF TriedBeat, Attempted, PlansStay
    <3>6. \A q \in Plans : TriedBeat(q)' /\ plan'[q].sid = attempt'.sid => plan'[q].tx <= attempt'.beat
      BY <3>1, <3>5 DEF BeatInv
    <3>7. \A u, q \in Plans : TriedBeat(u)' /\ TriedBeat(q)' /\ plan'[u].sid = plan'[q].sid /\ plan'[u].tx = plan'[q].tx => u = q
      BY <3>5 DEF BeatInv
    <3> QED BY <3>6, <3>7 DEF BeatInv
  <2>5. ASSUME NEW k \in Senders, NEW p \in Plans, Send(k, p) PROVE BeatInv'
    <3>1. /\ ~Attempted(p) /\ plan[p] # Nothing /\ plan' = plan /\ attempt'.sid = plan[p].sid
          /\ \A q \in Plans : Attempted(q) /\ plan[q].sid = plan[p].sid => attempt.sid = plan[p].sid
      BY <2>5, SendIsNew
    <3>2. UNCHANGED wire /\ attempt' = Claimed(p) /\ ~BeatUsed(p)
      BY <2>5 DEF Send, Link
    <3>3. \A q \in Plans : Tried(q)' => q = p \/ Tried(q)
      <4>1. \A j \in Senders : sender'[j] # Nothing => sender[j] # Nothing /\ Waiting(j)' \subseteq Waiting(j) \cup {p}
        BY <2>5, SendWaiting
      <4> QED BY <3>2, <4>1 DEF Tried, OnSomeWire
    <3>4. plan[p].kind = "beat" => attempt'.beat = plan[p].tx
      BY <3>2 DEF Claimed
    <3>5. plan[p].kind # "beat" /\ plan[p].sid = attempt.sid => attempt'.beat = attempt.beat
      BY <3>2 DEF Claimed
    <3>6. plan[p].kind = "beat" /\ plan[p].sid = attempt.sid => attempt.beat < plan[p].tx
      BY <3>1, <3>2, SidsAreNumbers DEF BeatUsed
    <3>7. ASSUME NEW q \in Plans, TriedBeat(q)', q # p
          PROVE  /\ TriedBeat(q)
                 /\ plan[q].sid = plan[p].sid => attempt.sid = plan[p].sid /\ plan[q].tx <= attempt.beat
      <4>1. Tried(q) /\ plan[q] # Nothing /\ plan[q].kind = "beat"
        BY <3>1, <3>3, <3>7 DEF TriedBeat
      <4>2. Attempted(q)
        BY <4>1, TriedWereAttempted
      <4> QED BY <3>1, <4>1, <4>2 DEF TriedBeat, BeatInv
    <3>8. \A q \in Plans : TriedBeat(q)' /\ plan'[q].sid = attempt'.sid => plan'[q].tx <= attempt'.beat
      <4> SUFFICES ASSUME NEW q \in Plans, TriedBeat(q)', plan[q].sid = plan[p].sid PROVE plan[q].tx <= attempt'.beat
        BY <3>1
      <4>1. plan[q] # Nothing /\ plan[q].kind = "beat" /\ plan[q].tx \in Nat /\ plan[p].tx \in Nat /\ attempt.beat \in Nat
        BY <3>1, SidsAreNumbers DEF TriedBeat
      <4>2. CASE q = p
        BY <3>4, <4>1, <4>2
      <4>3. CASE q # p
        <5>1. attempt.sid = plan[p].sid /\ plan[q].tx <= attempt.beat
          BY <3>7, <4>3
        <5>2. attempt'.beat = attempt.beat \/ (attempt'.beat = plan[p].tx /\ attempt.beat < plan[p].tx)
          BY <3>4, <3>5, <3>6, <5>1
        <5> QED BY <4>1, <5>1, <5>2
      <4> QED BY <4>2, <4>3
    <3>9. ASSUME NEW q \in Plans, TriedBeat(q)', q # p, plan[p].kind = "beat", plan[q].sid = plan[p].sid, plan[q].tx = plan[p].tx
          PROVE  FALSE
      <4>1. attempt.sid = plan[p].sid /\ plan[q].tx <= attempt.beat /\ plan[q] # Nothing
        BY <3>7, <3>9 DEF TriedBeat
      <4> QED BY <3>1, <3>6, <3>9, <4>1, SidsAreNumbers
    <3>10. \A u, q \in Plans : TriedBeat(u)' /\ TriedBeat(q)' /\ plan'[u].sid = plan'[q].sid /\ plan'[u].tx = plan'[q].tx => u = q
      <4> SUFFICES ASSUME NEW u \in Plans, NEW q \in Plans, TriedBeat(u)', TriedBeat(q)',
                          plan[u].sid = plan[q].sid, plan[u].tx = plan[q].tx, u # q
                   PROVE  FALSE
        BY <3>1
      <4>0. plan[u].kind = "beat" /\ plan[q].kind = "beat"
        BY <3>1 DEF TriedBeat
      <4>1. CASE u = p
        BY <3>9, <4>0, <4>1
      <4>2. CASE q = p
        BY <3>9, <4>0, <4>2
      <4>3. CASE u # p /\ q # p
        BY <3>7, <4>3 DEF BeatInv
      <4> QED BY <4>1, <4>2, <4>3
    <3> QED BY <3>8, <3>10 DEF BeatInv
  <2> QED BY <1>2, <2>2, <2>3, <2>4, <2>5, QuietSteps
<1> QED BY <1>1, <1>2

----------------------------------------------------------------------------
(* Replies.                                                                 *)

LEMMA ClearStays ==
  ASSUME NativeShape, NativeShape', PlanInv, NativeNext
  PROVE  \A q \in Plans : Clear(q) => Clear(q)'
<1>0. \A q \in Plans : Attempted(q) => Attempted(q)'
  BY AttemptsStay
<1>1. CASE Quiet
  BY <1>0, <1>1 DEF Quiet, Clear
<1>2. CASE Frame
  <2>1. PICK p \in Plans : burst.p = p /\ burst # Nothing
    BY <1>2 DEF Frame, Source, NativeShape, Bursts
  <2>2. refused' \subseteq refused \cup {p} /\ (burst' # Nothing => burst'.p = p)
    <3>1. \/ refused' = refused \cup {p} /\ burst' = Nothing
          \/ UNCHANGED refused /\ burst' = [burst EXCEPT !.next = @ + 1]
          \/ UNCHANGED refused /\ burst' = Nothing
      BY <1>2, <2>1 DEF Frame, SendFails
    <3>2. burst \in Bursts
      BY <2>1 DEF NativeShape
    <3> QED BY <2>1, <3>1, <3>2 DEF Bursts
  <2> QED BY <1>0, <2>1, <2>2 DEF Clear
<1>3. ASSUME NEW p \in Plans, Elsewhere(p) PROVE \A q \in Plans : Clear(q) => Clear(q)'
  BY <1>0, <1>3, ElsewhereLessens DEF Clear
<1>4. ASSUME NEW k \in Senders, NEW p \in Plans, Send(k, p) PROVE \A q \in Plans : Clear(q) => Clear(q)'
  <2>1. ~Attempted(p)
    BY <1>4, SendIsNew
  <2>2. UNCHANGED refused /\ burst'.p = p
    BY <1>4 DEF Send, Link
  <2> QED BY <1>0, <2>1, <2>2 DEF Clear
<1> QED BY <1>1, <1>2, <1>3, <1>4, QuietSteps

LEMMA WireStays ==
  ASSUME NativeShape, NativeShape', NativeNext
  PROVE  \A q \in Plans : OnSomeWire(q) => OnSomeWire(q)'
<1>0. wire \in Seq(Plans \X Frames \X (Senders \cup {0}))
  BY DEF NativeShape
<1>1. UNCHANGED wire \/ \E e : wire' = Append(wire, e)
  <2>1. CASE Quiet
    BY <2>1 DEF Quiet
  <2>2. CASE Frame
    BY <2>2 DEF Frame
  <2>3. ASSUME NEW p \in Plans, Elsewhere(p) PROVE \E e : wire' = Append(wire, e)
    BY <2>3 DEF Elsewhere
  <2>4. ASSUME NEW k \in Senders, NEW p \in Plans, Send(k, p) PROVE UNCHANGED wire
    BY <2>4 DEF Send, Link
  <2> QED BY <2>1, <2>2, <2>3, <2>4, QuietSteps
<1>2. ASSUME NEW e, wire' = Append(wire, e) PROVE \A n \in DOMAIN wire : n \in DOMAIN wire' /\ wire'[n] = wire[n]
  BY <1>0, <1>2
<1>3. \A n \in DOMAIN wire : n \in DOMAIN wire' /\ wire'[n] = wire[n]
  BY <1>1, <1>2
<1> QED BY <1>3 DEF OnSomeWire

LEMMA GenuineStays ==
  ASSUME NativeShape, NativeShape', PlanInv, NativeNext
  PROVE  \A r \in Replies : Genuine(r) => Genuine(r)'
<1>1. PlansStay /\ \A q \in Plans : OnSomeWire(q) => OnSomeWire(q)'
  BY AttemptsStay, WireStays
<1> QED BY <1>1 DEF Genuine, PlansStay, Replies

\* A reply that arrives.
LEMMA AnswerIsGenuine ==
  ASSUME NativeShape, NEW k \in Senders, NEW p \in Plans, Answer(k, p)
  PROVE  \/ UNCHANGED inbox
         \/ \E r \in Replies : Genuine(r) /\ inbox' = [inbox EXCEPT ![k] = Append(@, r)]
<1> DEFINE r == [n |-> high.made + 1, sid |-> plan[p].sid, tx |-> plan[p].tx,
                 of |-> IF plan[p].kind = "beat" THEN Nothing ELSE p, to |-> p, final |-> Final(p, replies[p] + 1)]
<1>1. plan[p] # Nothing /\ plan[p] \in Inputs /\ OnWire(p, k)
  BY DEF Answer, NativeShape
<1>2. OnSomeWire(p)
  <2>1. PICK n \in DOMAIN wire : wire[n] = <<p, 1, k>>
    BY <1>1, NativeNats DEF OnWire
  <2> QED BY <2>1 DEF OnSomeWire
<1>3. high.made + 1 \in Nat /\ Final(p, replies[p] + 1) \in BOOLEAN
  BY DEF Final, NativeShape
<1>4. r \in Replies
  BY <1>1, <1>3 DEF Replies, Inputs
<1>5. Genuine(r)
  BY <1>1, <1>2 DEF Genuine
<1>6. inbox' = inbox \/ inbox' = [inbox EXCEPT ![k] = Append(@, r)]
  BY DEF Answer
<1> QED BY <1>4, <1>5, <1>6

\* Every reply on the way after the step is genuine then.
LEMMA InboxBy ==
  ASSUME NativeShape',
         \A k \in Senders, r \in Replies : \A i \in DOMAIN inbox'[k] : inbox'[k][i] = r => Genuine(r)'
  PROVE  InboxGenuine'
<1> SUFFICES ASSUME NEW k \in Senders, NEW i \in DOMAIN inbox'[k] PROVE Genuine(inbox[k][i])'
  BY DEF InboxGenuine
<1>1. inbox' \in [Senders -> Seq(Replies)]
  BY DEF NativeShape
<1>2. PICK r \in Replies : inbox'[k][i] = r
  BY <1>1
<1>3. Genuine(r)'
  BY <1>2
<1> QED BY <1>2, <1>3 DEF Genuine, OnSomeWire

LEMMA InboxStep ==
  ASSUME NativeShape, NativeShape', PlanInv, ToldInv, NativeNext
  PROVE  InboxGenuine'
<1>0. inbox \in [Senders -> Seq(Replies)] /\ InboxGenuine
  BY DEF NativeShape, ToldInv
<1>1. ASSUME NEW k \in Senders, NEW r \in Replies, NEW i \in DOMAIN inbox[k], inbox[k][i] = r PROVE Genuine(r)'
  <2>1. Genuine(r)
    BY <1>0, <1>1 DEF InboxGenuine
  <2> QED BY <2>1, GenuineStays
<1>2. CASE UNCHANGED inbox
  BY <1>1, <1>2, InboxBy
<1>3. ASSUME NEW k \in Senders, NEW p \in Plans, Answer(k, p) PROVE InboxGenuine'
  <2>1. ASSUME NEW s \in Replies, Genuine(s), inbox' = [inbox EXCEPT ![k] = Append(@, s)] PROVE InboxGenuine'
    <3>1. Genuine(s)'
      BY <2>1, GenuineStays
    <3>2. inbox'[k] = Append(inbox[k], s) /\ inbox[k] \in Seq(Replies) /\ \A j \in Senders \ {k} : inbox'[j] = inbox[j]
      BY <1>0, <2>1
    <3>3. \A i \in DOMAIN inbox'[k] : inbox'[k][i] = s \/ \E j \in DOMAIN inbox[k] : inbox'[k][i] = inbox[k][j]
      BY <3>2
    <3>4. ASSUME NEW j \in Senders, NEW r \in Replies, NEW i \in DOMAIN inbox'[j], inbox'[j][i] = r PROVE Genuine(r)'
      <4>1. CASE j = k
        BY <1>1, <3>1, <3>3, <3>4, <4>1
      <4>2. CASE j # k
        BY <1>1, <3>2, <3>4, <4>2
      <4> QED BY <4>1, <4>2
    <3> QED BY <3>4, InboxBy
  <2> QED BY <1>2, <1>3, <2>1, AnswerIsGenuine
<1>4. ASSUME NEW k \in Senders, NEW p \in Plans, Listen(k, p) PROVE InboxGenuine'
  <2>1. inbox[k] # <<>> /\ inbox' = [inbox EXCEPT ![k] = Tail(inbox[k])]
    BY <1>4 DEF Listen
  <2>2. inbox'[k] = Tail(inbox[k]) /\ inbox[k] \in Seq(Replies) /\ \A j \in Senders \ {k} : inbox'[j] = inbox[j]
    BY <1>0, <2>1
  <2>3. \A i \in DOMAIN inbox'[k] : \E j \in DOMAIN inbox[k] : inbox'[k][i] = inbox[k][j]
    BY <2>1, <2>2
  <2>4. ASSUME NEW j \in Senders, NEW r \in Replies, NEW i \in DOMAIN inbox'[j], inbox'[j][i] = r PROVE Genuine(r)'
    <3>1. CASE j = k
      BY <1>1, <2>3, <2>4, <3>1
    <3>2. CASE j # k
      BY <1>1, <2>2, <2>4, <3>2
    <3> QED BY <3>1, <3>2
  <2> QED BY <2>4, InboxBy
<1>5. ASSUME NEW k \in Senders, NEW p \in Plans, Send(k, p) \/ Take(k, p) \/ Retire(k, p) PROVE UNCHANGED inbox
  BY <1>5 DEF Send, Take, Retire, Link
<1>6. ASSUME NEW p \in Plans, Elsewhere(p) \/ Discard(p) PROVE UNCHANGED inbox
  BY <1>6 DEF Elsewhere, Discard, Link
<1>7. ASSUME NEW t \in Tokens, NEW i \in Interfaces, Reserve(t, i) \/ ReleaseToken(t) PROVE UNCHANGED inbox
  BY <1>7 DEF Reserve, ReleaseToken, Link
<1>8. ASSUME NEW t \in Tokens, ReleaseToken(t) PROVE UNCHANGED inbox
  BY <1>8 DEF ReleaseToken, Link
<1>9. ASSUME NEW k \in Senders, NEW t \in Tokens, Create(k, t) PROVE UNCHANGED inbox
  BY <1>9 DEF Create, Link
<1>10. ASSUME NEW k \in Senders, CloseSender(k) PROVE UNCHANGED inbox
  BY <1>10 DEF CloseSender, Link
<1>11. ASSUME NEW p \in Plans, NEW t \in Tokens, NEW kind \in {"beat", "input"}, NEW tx \in Transactions,
              PrepareInput(p, t, kind, tx)
       PROVE  UNCHANGED inbox
  BY <1>11 DEF PrepareInput, Link
<1>12. ASSUME Attach \/ Lapse \/ Reopen \/ Frame \/ CloseAll PROVE UNCHANGED inbox
  BY <1>12 DEF Attach, Lapse, Reopen, Frame, CloseAll, Link
<1> QED BY <1>2, <1>3, <1>4, <1>5, <1>6, <1>7, <1>8, <1>9, <1>10, <1>11, <1>12 DEF NativeNext

----------------------------------------------------------------------------
(* The feedback kept for a group is about it.                               *)

\* Where one sender's groups change.
LEMMA FeedbackBy ==
  ASSUME NativeShape, FeedbackOwn, NEW k \in Senders, NEW gs, Regroups(k, gs),
         \A q \in DOMAIN gs : \A i \in DOMAIN gs[q].feedback : gs[q].feedback[i].to = q
  PROVE  FeedbackOwn'
BY DEF FeedbackOwn, Regroups, Waiting

\* Where groups only leave.
LEMMA FeedbackLess ==
  ASSUME FeedbackOwn,
         \A k \in Senders : sender'[k] # Nothing => \A p \in Waiting(k)' :
           sender[k] # Nothing /\ p \in Waiting(k) /\ sender'[k].pending[p] = sender[k].pending[p]
  PROVE  FeedbackOwn'
BY DEF FeedbackOwn, Waiting

\* A sender's own groups.
LEMMA FeedbackOf ==
  ASSUME NativeShape, FeedbackOwn, NEW k \in Senders, sender[k] # Nothing, NEW q \in Waiting(k)
  PROVE  /\ sender[k].pending[q].feedback \in Seq(Replies)
         /\ \A i \in DOMAIN sender[k].pending[q].feedback : sender[k].pending[q].feedback[i].to = q
BY WaitingShape DEF FeedbackOwn

LEMMA TailItems ==
  ASSUME NEW S, NEW s \in Seq(S), s # <<>>
  PROVE  /\ Tail(s) \in Seq(S) /\ Head(s) = s[1] /\ 1 \in DOMAIN s
         /\ \A i \in DOMAIN Tail(s) : \E j \in DOMAIN s : Tail(s)[i] = s[j]
OBVIOUS

\* The one group a reply is matched with is the one the receiver answered.
LEMMA MatchedIsMeant ==
  ASSUME NativeShape, WireInv, WaitInv, BeatInv, NEW k \in Senders, sender[k] # Nothing,
         NEW r \in Replies, Genuine(r), NEW q \in Matched(k, r)
  PROVE  q \in Waiting(k) /\ r.to = q /\ sender[k].pending[q].complete
<1>1. /\ q \in Waiting(k) /\ sender[k].pending[q].complete
      /\ r.sid = plan[q].sid /\ r.tx = plan[q].tx
      /\ IF r.of = Nothing THEN plan[q].kind = "beat" ELSE r.of = q
  BY DEF Matched, Candidates, Correlates
<1>2. q \in Plans /\ r.to \in Plans /\ r.to # Nothing
  BY <1>1, WaitingShape, NothingApart DEF Replies
<1>3. plan[q] # Nothing
  BY <1>1 DEF WaitInv, Attempted
<1>4. CASE r.of = Nothing
  <2>1. plan[r.to].kind = "beat" /\ plan[q].kind = "beat"
    BY <1>1, <1>2, <1>4 DEF Genuine
  <2>2. TriedBeat(r.to) /\ TriedBeat(q)
    BY <1>1, <1>3, <2>1 DEF TriedBeat, Tried, Genuine
  <2> QED BY <1>1, <1>2, <2>2 DEF BeatInv, Genuine
<1>5. CASE r.of # Nothing
  BY <1>1, <1>5 DEF Genuine
<1> QED BY <1>1, <1>4, <1>5

LEMMA AppendItems ==
  ASSUME NEW S, NEW s \in Seq(S), NEW e \in S
  PROVE  \A i \in DOMAIN Append(s, e) : Append(s, e)[i] = e \/ \E j \in DOMAIN s : Append(s, e)[i] = s[j]
OBVIOUS

LEMMA HeadIsGenuine ==
  ASSUME NativeShape, InboxGenuine, NEW k \in Senders, inbox[k] # <<>>
  PROVE  Head(inbox[k]) \in Replies /\ Genuine(Head(inbox[k]))
<1>1. inbox[k] \in Seq(Replies)
  BY DEF NativeShape
<1>2. Head(inbox[k]) = inbox[k][1] /\ 1 \in DOMAIN inbox[k]
  BY <1>1, TailItems
<1>3. Head(inbox[k]) \in Replies
  BY <1>1
<1> QED BY <1>2, <1>3 DEF InboxGenuine

LEMMA FeedbackStep ==
  ASSUME NativeShape, NativeShape', WireInv, WaitInv, BeatInv, ToldInv, NativeNext
  PROVE  FeedbackOwn'
<1>0. FeedbackOwn /\ InboxGenuine
  BY DEF ToldInv
<1>1. CASE UNCHANGED sender
  BY <1>0, <1>1, FeedbackLess DEF Waiting
<1>2. ASSUME NEW k \in Senders, NEW p \in Plans, Send(k, p) PROVE FeedbackOwn'
  <2> DEFINE gs == With(sender[k].pending, p)
  <2>1. Regroups(k, gs) /\ sender[k] # Nothing /\ sender[k].pending \in Groups
    BY <1>2, SendRegroups, WaitingShape
  <2>2. /\ DOMAIN gs = Waiting(k) \cup {p} /\ gs[p].feedback = <<>>
        /\ \A q \in Waiting(k) : q # p => gs[q] = sender[k].pending[q]
    <3>1. /\ DOMAIN gs = DOMAIN sender[k].pending \cup {p} /\ gs[p] = [complete |-> FALSE, feedback |-> <<>>]
          /\ \A q \in DOMAIN sender[k].pending : q # p => gs[q] = sender[k].pending[q]
      BY <2>1, WithShape
    <3> HIDE DEF gs
    <3> QED BY <3>1 DEF Waiting
  <2>3. ASSUME NEW q \in DOMAIN gs, NEW i \in DOMAIN gs[q].feedback PROVE gs[q].feedback[i].to = q
    <3>1. CASE q = p
      <4>1. DOMAIN gs[q].feedback = {}
        BY <2>2, <3>1
      <4> QED BY <4>1
    <3>2. CASE q # p
      BY <1>0, <2>1, <2>2, <2>3, <3>2, FeedbackOf
    <3> QED BY <3>1, <3>2
  <2> HIDE DEF gs
  <2> QED BY <1>0, <2>1, <2>3, FeedbackBy
<1>3. CASE Frame
  <2>1. CASE Completes
    <3>1. PICK k \in Senders, p \in Plans : burst.k = k /\ burst.p = p /\ burst # Nothing
      BY <1>3 DEF Frame, Source, NativeShape, Bursts
    <3> DEFINE gs == [sender[k].pending EXCEPT ![p].complete = TRUE]
    <3>2. sender[k] # Nothing /\ p \in Waiting(k)
      BY <3>1 DEF WireInv
    <3>3. Regroups(k, gs)
      BY <2>1, <3>1, <3>2, FrameRegroups
    <3>4. sender[k].pending \in [Waiting(k) -> [complete : BOOLEAN, feedback : Seq(Replies)]]
      BY <3>2, WaitingShape
    <3>5. DOMAIN gs = Waiting(k) /\ \A q \in Waiting(k) : gs[q].feedback = sender[k].pending[q].feedback
      BY <3>4
    <3>6. \A q \in DOMAIN gs : \A i \in DOMAIN gs[q].feedback : gs[q].feedback[i].to = q
      BY <1>0, <3>2, <3>5, FeedbackOf
    <3> HIDE DEF gs
    <3> QED BY <1>0, <3>3, <3>6, FeedbackBy
  <2> QED BY <1>1, <1>3, <2>1 DEF Frame, SendFails, Completes
<1>4. ASSUME NEW k \in Senders, NEW p \in Plans, sender[k] # Nothing, Take(k, p) PROVE FeedbackOwn'
  <2>1. PICK gs \in Groups :
           /\ Regroups(k, gs) /\ sender'[k].sid = sender[k].sid /\ DOMAIN gs \subseteq Waiting(k)
           /\ \A q \in DOMAIN gs :
                /\ gs[q].complete = sender[k].pending[q].complete
                /\ gs[q].feedback = IF q = p THEN Tail(sender[k].pending[q].feedback) ELSE sender[k].pending[q].feedback
    BY <1>4, TakeRegroups
  <2>2. sender[k].pending[p].feedback # <<>>
    BY <1>4 DEF Take
  <2>3. ASSUME NEW q \in DOMAIN gs, NEW i \in DOMAIN gs[q].feedback PROVE gs[q].feedback[i].to = q
    <3>1. /\ sender[k].pending[q].feedback \in Seq(Replies)
          /\ \A j \in DOMAIN sender[k].pending[q].feedback : sender[k].pending[q].feedback[j].to = q
      BY <1>0, <1>4, <2>1, FeedbackOf
    <3>2. CASE q = p
      <4>1. gs[q].feedback = Tail(sender[k].pending[q].feedback)
        BY <2>1, <3>2
      <4>2. \E j \in DOMAIN sender[k].pending[q].feedback : gs[q].feedback[i] = sender[k].pending[q].feedback[j]
        BY <2>2, <3>1, <3>2, <4>1, TailItems
      <4> QED BY <3>1, <4>2
    <3>3. CASE q # p
      BY <2>1, <3>1, <3>3
    <3> QED BY <3>2, <3>3
  <2> QED BY <1>0, <2>1, <2>3, FeedbackBy
<1>5. ASSUME NEW k \in Senders, NEW p \in Plans, sender[k] # Nothing, Retire(k, p) PROVE FeedbackOwn'
  <2>1. PICK gs \in Groups :
           /\ Regroups(k, gs) /\ sender'[k].sid = sender[k].sid /\ DOMAIN gs \subseteq Waiting(k)
           /\ \A q \in DOMAIN gs : gs[q] = sender[k].pending[q]
    BY <1>5, RetireRegroups
  <2>2. \A q \in DOMAIN gs : \A i \in DOMAIN gs[q].feedback : gs[q].feedback[i].to = q
    BY <1>0, <1>5, <2>1, FeedbackOf
  <2> QED BY <1>0, <2>1, <2>2, FeedbackBy
<1>6. ASSUME NEW k \in Senders, NEW p \in Plans, sender[k] # Nothing, Listen(k, p) PROVE FeedbackOwn'
  <2> DEFINE r == Head(inbox[k])
             open == sender[k].pending
  <2>1. open \in Groups /\ open \in [Waiting(k) -> [complete : BOOLEAN, feedback : Seq(Replies)]]
    BY <1>6, WaitingShape
  <2>2. r \in Replies /\ Genuine(r)
    BY <1>0, <1>6, HeadIsGenuine DEF Listen
  <2>3. CASE Regroups(k, Hand(p, r, open))
    <3>1. /\ DOMAIN Hand(p, r, open) \subseteq Waiting(k)
          /\ \A q \in DOMAIN Hand(p, r, open) : Hand(p, r, open)[q] = open[q]
      BY <2>1, HandShape DEF Waiting
    <3>2. \A q \in DOMAIN Hand(p, r, open) : \A i \in DOMAIN Hand(p, r, open)[q].feedback :
            Hand(p, r, open)[q].feedback[i].to = q
      BY <1>0, <1>6, <3>1, FeedbackOf
    <3> QED BY <1>0, <2>3, <3>2, FeedbackBy
  <2>4. ASSUME NEW q \in Matched(k, r), Regroups(k, [open EXCEPT ![q].feedback = Append(@, r)])
        PROVE  FeedbackOwn'
    <3> DEFINE gs == [open EXCEPT ![q].feedback = Append(@, r)]
    <3>0. Regroups(k, gs)
      BY <2>4
    <3>1. q \in Waiting(k) /\ r.to = q
      BY <1>6, <2>2, MatchedIsMeant
    <3>2. /\ DOMAIN gs = Waiting(k) /\ gs[q].feedback = Append(open[q].feedback, r)
          /\ \A u \in Waiting(k) : u # q => gs[u] = open[u]
      BY <2>1, <3>1
    <3> HIDE DEF gs
    <3>3. ASSUME NEW u \in DOMAIN gs, NEW i \in DOMAIN gs[u].feedback PROVE gs[u].feedback[i].to = u
      <4>1. /\ open[u].feedback \in Seq(Replies)
            /\ \A j \in DOMAIN open[u].feedback : open[u].feedback[j].to = u
        BY <1>0, <1>6, <3>2, FeedbackOf
      <4>2. CASE u # q
        BY <3>2, <3>3, <4>1, <4>2
      <4>3. CASE u = q
        <5>1. gs[u].feedback[i] = r \/ \E j \in DOMAIN open[u].feedback : gs[u].feedback[i] = open[u].feedback[j]
          <6>1. gs[u].feedback = Append(open[u].feedback, r)
            BY <3>2, <4>3
          <6>2. \A j \in DOMAIN Append(open[u].feedback, r) :
                  Append(open[u].feedback, r)[j] = r \/ \E l \in DOMAIN open[u].feedback : Append(open[u].feedback, r)[j] = open[u].feedback[l]
            <7>1. r \in Replies /\ open[u].feedback \in Seq(Replies)
              BY <2>2, <4>1
            <7> HIDE DEF r, open
            <7> QED BY <7>1, AppendItems
          <6> QED BY <3>3, <6>1, <6>2
        <5> QED BY <3>1, <4>1, <4>3, <5>1
      <4> QED BY <4>2, <4>3
    <3> QED BY <1>0, <3>0, <3>3, FeedbackBy
  <2> QED BY <1>1, <1>6, <2>3, <2>4, ListenRegroups
<1>7. ASSUME sender' \in [Senders -> CanSenders \cup {Nothing}],
             \A k \in Senders : \/ sender'[k] = sender[k]
                                \/ sender[k] # Nothing /\ \E ok \in BOOLEAN : sender'[k] = Closed(sender[k], ok)
      PROVE  FeedbackOwn'
  <2>1. ASSUME NEW k \in Senders PROVE sender'[k] = sender[k] \/ (sender[k] # Nothing /\ sender'[k].pending = sender[k].pending)
    BY <1>7, ClosedFields DEF NativeShape
  <2> QED BY <1>0, <2>1, FeedbackLess DEF Waiting
<1>8. ASSUME NEW k \in Senders, CloseSender(k) PROVE FeedbackOwn'
  BY <1>7, <1>8, CloseSenderCloses DEF NativeShape
<1>9. CASE CloseAll
  BY <1>7, <1>9, CloseAllCloses DEF NativeShape
<1>10. ASSUME NEW k \in Senders, NEW t \in Tokens, Create(k, t) PROVE FeedbackOwn'
  <2>1. sender'[k].pending = <<>> /\ \A j \in Senders \ {k} : sender'[j] = sender[j]
    BY <1>10 DEF Create, NativeShape
  <2>2. Waiting(k)' = {}
    BY <2>1 DEF Waiting
  <2> QED BY <1>0, <2>1, <2>2, FeedbackLess DEF Waiting
<1>11. ASSUME NEW p \in Plans, Elsewhere(p) \/ Discard(p) PROVE UNCHANGED sender
  BY <1>11 DEF Elsewhere, Discard, Book
<1>12. ASSUME NEW t \in Tokens, NEW i \in Interfaces, Reserve(t, i) PROVE UNCHANGED sender
  BY <1>12 DEF Reserve
<1>13. ASSUME NEW t \in Tokens, ReleaseToken(t) PROVE UNCHANGED sender
  BY <1>13 DEF ReleaseToken
<1>14. ASSUME NEW p \in Plans, NEW t \in Tokens, NEW kind \in {"beat", "input"}, NEW tx \in Transactions,
              PrepareInput(p, t, kind, tx)
       PROVE  UNCHANGED sender
  BY <1>14 DEF PrepareInput, Book
<1>15. ASSUME Attach \/ Lapse \/ Reopen PROVE UNCHANGED sender
  BY <1>15 DEF Attach, Lapse, Reopen, Book
<1>16. ASSUME NEW k \in Senders, NEW p \in Plans, Answer(k, p) PROVE UNCHANGED sender
  BY <1>16 DEF Answer, Book
<1> QED BY <1>1, <1>2, <1>3, <1>4, <1>5, <1>6, <1>8, <1>9, <1>10, <1>11, <1>12, <1>13, <1>14, <1>15, <1>16 DEF NativeNext

LEMMA CompleteStep ==
  ASSUME NativeShape, NativeShape', PlanInv, WireInv, ToldInv, NativeNext
  PROVE  CompleteClear'
<1>0. (\A q \in Plans : Clear(q) => Clear(q)') /\ CompleteClear
  BY ClearStays DEF ToldInv
<1>1. CASE Lessens
  <2> SUFFICES ASSUME NEW k \in Senders, sender'[k] # Nothing, NEW p \in Waiting(k)', sender'[k].pending[p].complete
               PROVE  Clear(p)'
    BY DEF CompleteClear
  <2>1. sender[k] # Nothing /\ p \in Waiting(k) /\ sender[k].pending[p].complete
    BY <1>1 DEF Lessens
  <2>2. p \in Plans
    BY <2>1, WaitingShape
  <2> QED BY <1>0, <2>1, <2>2 DEF CompleteClear
<1>2. ASSUME NEW k \in Senders, NEW p \in Plans, Send(k, p) PROVE CompleteClear'
  <2>1. /\ sender[k] # Nothing /\ Waiting(k)' = Waiting(k) \cup {p}
        /\ ~sender'[k].pending[p].complete
        /\ \A q \in Waiting(k) : sender'[k].pending[q] = sender[k].pending[q]
        /\ \A j \in Senders \ {k} : sender'[j] = sender[j] /\ Waiting(j)' = Waiting(j)
    BY <1>2, SendWaiting
  <2> SUFFICES ASSUME NEW j \in Senders, sender'[j] # Nothing, NEW q \in Waiting(j)', sender'[j].pending[q].complete
               PROVE  Clear(q)'
    BY DEF CompleteClear
  <2>2. sender[j] # Nothing /\ q \in Waiting(j) /\ sender[j].pending[q].complete
    BY <2>1
  <2>3. q \in Plans
    BY <2>2, WaitingShape
  <2> QED BY <1>0, <2>2, <2>3 DEF CompleteClear
<1>3. CASE Frame
  <2>1. CASE UNCHANGED sender
    BY <1>1, <2>1, SendersKept
  <2>2. CASE Completes
    <3>1. PICK k \in Senders, p \in Plans : burst.k = k /\ burst.p = p /\ burst # Nothing
      BY <1>3 DEF Frame, Source, NativeShape, Bursts
    <3> DEFINE gs == [sender[k].pending EXCEPT ![p].complete = TRUE]
    <3>2. sender[k] # Nothing /\ p \in Waiting(k) /\ Attempted(p) /\ p \notin refused
      BY <3>1 DEF WireInv
    <3>3. Regroups(k, gs)
      BY <2>2, <3>1, <3>2, FrameRegroups
    <3>4. sender[k].pending \in [Waiting(k) -> [complete : BOOLEAN, feedback : Seq(Replies)]]
      BY <3>2, WaitingShape
    <3>5. DOMAIN gs = Waiting(k) /\ \A q \in Waiting(k) : q # p => gs[q] = sender[k].pending[q]
      BY <3>4
    <3> HIDE DEF gs
    <3>6. Clear(p)'
      <4>1. UNCHANGED <<plan, attempt, refused>> /\ burst' = Nothing
        BY <1>3, <2>2 DEF Frame, Completes
      <4> QED BY <3>2, <4>1 DEF Clear, Attempted
    <3> SUFFICES ASSUME NEW j \in Senders, sender'[j] # Nothing, NEW q \in Waiting(j)', sender'[j].pending[q].complete, q # p
                 PROVE  Clear(q)'
      BY <3>6 DEF CompleteClear
    <3>7. sender[j] # Nothing /\ q \in Waiting(j) /\ sender[j].pending[q].complete
      BY <3>2, <3>3, <3>5 DEF Regroups, Waiting
    <3>8. q \in Plans
      BY <3>7, WaitingShape
    <3> QED BY <1>0, <3>7, <3>8 DEF CompleteClear
  <2> QED BY <1>3, <2>1, <2>2 DEF Frame, SendFails, Completes
<1> QED BY <1>1, <1>2, <1>3, QuietSteps, ElsewhereLessens DEF Quiet

LEMMA ToldStep ==
  ASSUME NativeShape, NativeShape', PlanInv, WireInv, WaitInv, BeatInv, ToldInv, NativeNext
  PROVE  ToldOwn'
<1>0. FeedbackOwn /\ InboxGenuine /\ CompleteClear /\ ToldOwn /\ told \subseteq Plans \X Replies
  BY DEF ToldInv, NativeShape
<1>1. \A q \in Plans : Clear(q) => Clear(q)'
  BY ClearStays
<1>2. ASSUME NEW k \in Senders, NEW p \in Plans, sender[k] # Nothing, Asked(k, p), NEW r \in Replies, r.to = p,
             told' = told \cup {<<p, r>>}
      PROVE  ToldOwn'
  <2>1. Clear(p)
    BY <1>0, <1>2 DEF Asked, CompleteClear
  <2> SUFFICES ASSUME NEW x \in told' PROVE x[2].to = x[1] /\ (\A q \in Plans : q = x[1] => Clear(q)')
    <3>1. told' \subseteq Plans \X Replies
      BY DEF NativeShape
    <3>2. ASSUME NEW x \in told' PROVE x[2].to = x[1] /\ Clear(x[1])'
      BY <3>1, <3>2
    <3> QED BY <3>2 DEF ToldOwn
  <2>2. CASE x = <<p, r>>
    BY <1>1, <1>2, <2>1, <2>2
  <2>3. CASE x \in told
    BY <1>0, <1>1, <2>3 DEF ToldOwn
  <2> QED BY <1>2, <2>2, <2>3
<1>3. CASE UNCHANGED told
  <2>1. ASSUME NEW x \in told PROVE x[1] \in Plans /\ x[2].to = x[1] /\ Clear(x[1])
    BY <1>0 DEF ToldOwn
  <2>2. ASSUME NEW x \in told' PROVE x[2].to = x[1] /\ Clear(x[1])'
    BY <1>1, <1>3, <2>1
  <2> QED BY <2>2 DEF ToldOwn
<1>4. ASSUME NEW k \in Senders, NEW p \in Plans, sender[k] # Nothing, Take(k, p) PROVE ToldOwn'
  <2> DEFINE f == sender[k].pending[p].feedback
  <2>1. p \in Waiting(k) /\ f # <<>> /\ told' = told \cup {<<p, Head(f)>>} /\ Asked(k, p)
    BY <1>4 DEF Take, Asked
  <2>2. f \in Seq(Replies) /\ \A i \in DOMAIN f : f[i].to = p
    BY <1>0, <1>4, <2>1, FeedbackOf
  <2> HIDE DEF f
  <2>3. Head(f) = f[1] /\ 1 \in DOMAIN f
    BY <2>1, <2>2, TailItems
  <2>4. Head(f) \in Replies /\ Head(f).to = p
    BY <2>1, <2>2, <2>3
  <2> QED BY <1>2, <1>4, <2>1, <2>4
<1>5. ASSUME NEW k \in Senders, NEW p \in Plans, sender[k] # Nothing, Listen(k, p) PROVE ToldOwn'
  <2> DEFINE r == Head(inbox[k])
  <2>1. r \in Replies /\ Genuine(r) /\ Asked(k, p)
    BY <1>0, <1>5, HeadIsGenuine DEF Listen
  <2>2. CASE p \in Matched(k, r) /\ told' = told \cup {<<p, r>>}
    <3>1. r.to = p
      BY <1>5, <2>1, <2>2, MatchedIsMeant
    <3> QED BY <1>2, <1>5, <2>1, <2>2, <3>1
  <2> QED BY <1>3, <1>5, <2>2, ListenRegroups
<1>6. ASSUME NEW k \in Senders, NEW p \in Plans, Send(k, p) \/ Answer(k, p) \/ Retire(k, p) PROVE UNCHANGED told
  BY <1>6 DEF Send, Answer, Retire, Link
<1>7. ASSUME NEW p \in Plans, Elsewhere(p) \/ Discard(p) PROVE UNCHANGED told
  BY <1>7 DEF Elsewhere, Discard, Link
<1>8. ASSUME NEW t \in Tokens, NEW i \in Interfaces, Reserve(t, i) PROVE UNCHANGED told
  BY <1>8 DEF Reserve, Link
<1>9. ASSUME NEW t \in Tokens, ReleaseToken(t) PROVE UNCHANGED told
  BY <1>9 DEF ReleaseToken, Link
<1>10. ASSUME NEW k \in Senders, NEW t \in Tokens, Create(k, t) PROVE UNCHANGED told
  BY <1>10 DEF Create, Link
<1>11. ASSUME NEW k \in Senders, CloseSender(k) PROVE UNCHANGED told
  BY <1>11 DEF CloseSender, Link
<1>12. ASSUME NEW p \in Plans, NEW t \in Tokens, NEW kind \in {"beat", "input"}, NEW tx \in Transactions,
              PrepareInput(p, t, kind, tx)
       PROVE  UNCHANGED told
  BY <1>12 DEF PrepareInput, Link
<1>13. ASSUME Attach \/ Lapse \/ Reopen \/ Frame \/ CloseAll PROVE UNCHANGED told
  BY <1>13 DEF Attach, Lapse, Reopen, Frame, CloseAll, Link
<1> QED BY <1>3, <1>4, <1>5, <1>6, <1>7, <1>8, <1>9, <1>10, <1>11, <1>12, <1>13 DEF NativeNext

LEMMA ToldInvStep ==
  ASSUME NativeShape, NativeShape', PlanInv, WireInv, WaitInv, BeatInv, ToldInv, [NativeNext]_nativeVars
  PROVE  ToldInv'
<1>1. CASE UNCHANGED nativeVars
  BY <1>1 DEF nativeVars, ToldInv, InboxGenuine, FeedbackOwn, CompleteClear, ToldOwn, Genuine, Clear, Attempted, OnSomeWire, Waiting
<1>2. CASE NativeNext
  BY <1>2, InboxStep, FeedbackStep, CompleteStep, ToldStep DEF ToldInv
<1> QED BY <1>1, <1>2

LEMMA ToldInvInit == NativeInit => ToldInv
BY DEF NativeInit, ToldInv, InboxGenuine, FeedbackOwn, CompleteClear, ToldOwn

\* NativeSound: whatever the reservations, grants, buses and replies do, the
\* original CAN tool links give an interface one user, send the inputs of a grant
\* in order and once, tell a caller only what the receiver said of its own input,
\* and leave no bus open when closed (tools.py, can_signal.py, native_tools.py).
THEOREM NativeLinksAreSound == NativeSpec => []NativeSound
<1>1. NativeInit => NativeInv
  BY NativeShapeInit, BookInvInit, PlanInvInit, WaitInvInit, WireInvInit, BeatInvInit, ToldInvInit DEF NativeInv
<1>2. NativeInv /\ [NativeNext]_nativeVars => NativeInv'
  <2> SUFFICES ASSUME NativeInv, [NativeNext]_nativeVars PROVE NativeInv'
    OBVIOUS
  <2>1. NativeShape /\ BookInv /\ PlanInv /\ WaitInv /\ WireInv /\ BeatInv /\ ToldInv
    BY DEF NativeInv
  <2>2. NativeShape'
    BY <2>1, NativeShapeStep
  <2>3. BookInv' /\ PlanInv'
    BY <2>1, <2>2, BookInvStep, PlanInvStep
  <2>4. WaitInv' /\ WireInv'
    BY <2>1, <2>2, WaitInvStep, WireInvStep
  <2>5. BeatInv' /\ ToldInv'
    BY <2>1, <2>2, BeatInvStep, ToldInvStep
  <2> QED BY <2>2, <2>3, <2>4, <2>5 DEF NativeInv
<1>3. NativeInv => NativeSound
  <2> SUFFICES ASSUME NativeInv PROVE NativeSound
    OBVIOUS
  <2>1. NativeTypeOK
    BY DEF NativeInv, PlanInv, WaitInv, NativeTypeOK
  <2>2. OneUserPerInterface /\ TxInOrder /\ CoordinatorClosed
    BY DEF NativeInv, BookInv, WireInv
  <2>3. ToldOfItsOwn
    BY DEF NativeInv, ToldInv, ToldOwn, Clear, ToldOfItsOwn
  <2> QED BY <2>1, <2>2, <2>3 DEF NativeSound
<1> QED BY <1>1, <1>2, <1>3, PTL DEF NativeSpec
=============================================================================
