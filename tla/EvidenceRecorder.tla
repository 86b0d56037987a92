---------------------------- MODULE EvidenceRecorder ----------------------------
(***************************************************************************)
(* ObservationRecorder (evidence_recorder.py): what the owners of a run       *)
(* observed is written to disk in segments that form a chain, and is given up  *)
(* in memory only when it is there; and read_observation_chain, which another  *)
(* process may call at any time, also after this one has died.               *)
(*                                                                         *)
(* Records are numbers, one sequence of them for each stream: the rows of a   *)
(* stream are 1, 2, ... in the order they were observed.  A hash is what it   *)
(* is taken of.  The files of a segment are written by a thread of its own,    *)
(* one file a step; the owner of the recorder calls flush, poll and close.    *)
(* A crash leaves the disk as it is: what an invariant says of the disk it     *)
(* says of every crash.                                                    *)
(*                                                                         *)
(* A definition introduced by "Fault:" is the definition after it with a   *)
(* plausible error in it; nothing uses it.                                 *)
(***************************************************************************)
EXTENDS Naturals, Sequences, FiniteSets, SequencesExt

CONSTANTS
  Reclaimed,      \* streams whose rows are deleted once saved (DISPATCH)
  Retained,       \* streams that keep their rows (SCENARIO): a prefix is saved
  Dispatch,       \* the stream with the feedback of a native action
  MaxRows,        \* rows of each stream (bound)
  MaxSegments

ASSUME RecorderAssumption ==
  /\ Reclaimed \cap Retained = {} /\ Dispatch \in Reclaimed
  /\ MaxRows \in Nat /\ MaxSegments \in Nat \ {0}

Streams == Reclaimed \cup Retained

VARIABLES
  observed,       \* number of rows observed of each stream
  live,           \* rows each owner holds
  action,         \* the native action whose feedback is in Dispatch
  disk,           \* segments: how far each is written, and its content
  checkpoint,     \* close.json: how far it is written, and its content
  job,            \* the write job and its thread
  rec,            \* the recorder
  turn            \* the call of its owner in progress

recorderVars == <<observed, live, action, disk, checkpoint, job, rec, turn>>
owned == <<observed, live, action>>
files == <<disk, checkpoint>>

\* The rows of an action: submitted is the first of its stream, its feedback
\* the second one.
Submitted == 1
Feedback == 2

\* How far a segment is written: its directory, the records, the manifest, the
\* manifest published, the descriptor, the descriptor published.
Parts == <<"directory", "records", "manifest", "archive", "pending", "final">>
PartOf(part) == CHOOSE i \in DOMAIN Parts : Parts[i] = part

RowLists == [Streams -> Seq(1..MaxRows)]
NoRows == [s \in Streams |-> <<>>]
Contents == [rows : RowLists, start : [Streams -> Nat], previous : Seq(RowLists)]
NoJob == [rows |-> NoRows, state |-> "none", error |-> FALSE]
Unwritten == [part |-> "none", segments |-> 0, tip |-> <<>>, counts |-> [s \in Streams |-> 0]]

\* The owners, the disk and the recorder have their types.
RecorderTypeOK ==
  /\ observed \in [Streams -> 0..MaxRows] /\ live \in RowLists
  /\ action \in {"none", "sent", "answered", "finished"}
  /\ Len(disk) <= MaxSegments
  /\ \A i \in DOMAIN disk : disk[i].part \in {Parts[k] : k \in DOMAIN Parts} /\ disk[i].content \in Contents
  /\ checkpoint.part \in {"none", "pending", "final"} /\ checkpoint.segments \in 0..MaxSegments
  /\ job.rows \in RowLists /\ job.state \in {"none", "running", "ended"} /\ job.error \in BOOLEAN
  /\ rec.counts \in [Streams -> Nat] /\ rec.kept \in [Retained -> Nat] /\ rec.used \in [Reclaimed -> Nat]
  /\ rec.commits \in 0..MaxSegments /\ Len(rec.previous) = rec.commits
  /\ rec.failed \in {"none", "STATE", "RESOURCE"}
  /\ {rec.attached, rec.sealed, rec.closed} \subseteq BOOLEAN
  /\ turn \in {"idle", "verified", "join", "joined", "seal", "publish", "detach", "verifiedToClose"}

RecorderInit ==
  /\ observed = [s \in Streams |-> 0] /\ live = NoRows /\ action = "none"
  /\ disk = <<>> /\ checkpoint = Unwritten
  /\ job = NoJob
  /\ rec = [commits |-> 0, previous |-> <<>>, counts |-> [s \in Streams |-> 0],
            kept |-> [s \in Retained |-> 0], used |-> [s \in Reclaimed |-> 0],
            failed |-> "none", attached |-> TRUE, sealed |-> FALSE, closed |-> FALSE]
  /\ turn = "idle"

-----------------------------------------------------------------------------
(* The owners of the records.                                              *)

\* A row is observed and accounted; the first of Dispatch is the submission of
\* an action, the second its feedback.
Observe(s) ==
  /\ observed[s] < MaxRows
  /\ observed' = [observed EXCEPT ![s] = @ + 1]
  /\ live' = [live EXCEPT ![s] = Append(@, observed[s] + 1)]
  /\ rec' = [rec EXCEPT !.used = [r \in Reclaimed |-> IF r = s THEN @[r] + 1 ELSE @[r]]]
  /\ action' = IF s # Dispatch THEN action
               ELSE IF observed[s] + 1 = Submitted THEN "sent"
               ELSE IF observed[s] + 1 = Feedback THEN "answered" ELSE action
  /\ UNCHANGED <<files, job, turn>>

\* The action finds its feedback among the rows of the dispatcher (_udp_result).
Finish ==
  /\ action = "answered"
  /\ \E i \in DOMAIN live[Dispatch] : live[Dispatch][i] = Feedback
  /\ action' = "finished"
  /\ UNCHANGED <<observed, live, files, job, rec, turn>>

-----------------------------------------------------------------------------
(* flush.                                                                  *)

\* What the recorder has not saved yet: a retained stream is past its prefix.
LiveRows(s) == IF s \in Retained THEN SubSeq(live[s], rec.kept[s] + 1, Len(live[s])) ELSE live[s]

\* A snapshot must hold something.
Observations == \E s \in Streams : LiveRows(s) # <<>>

\* Fault: one segment too many.
SegmentRoomForOneMore == rec.commits <= MaxSegments

SegmentRoom == rec.commits < MaxSegments

Flush ==
  /\ turn = "idle" /\ rec.failed = "none" /\ ~rec.sealed
  /\ job.state = "none" /\ SegmentRoom
  /\ Observations
  /\ \/ job' = [rows |-> [s \in Streams |-> LiveRows(s)], state |-> "running", error |-> FALSE] /\ UNCHANGED rec
     \/ \* the thread does not start
        /\ job' = [rows |-> [s \in Streams |-> LiveRows(s)], state |-> "ended", error |-> TRUE]
        /\ rec' = [rec EXCEPT !.failed = "STATE"]
  /\ UNCHANGED <<owned, files, turn>>

-----------------------------------------------------------------------------
(* The thread: _write and write_new_directory.                             *)

Content == [rows |-> job.rows, start |-> rec.counts, previous |-> rec.previous]
Segment == rec.commits + 1
Begun == Len(disk) = Segment

MakeDirectory ==
  /\ job.state = "running" /\ ~Begun
  /\ disk' = Append(disk, [part |-> "directory", content |-> Content])
  /\ UNCHANGED <<owned, checkpoint, job, rec, turn>>

WritePart ==
  /\ job.state = "running" /\ Begun /\ disk[Segment].part # "final"
  /\ disk' = [disk EXCEPT ![Segment].part = Parts[PartOf(@) + 1]]
  /\ UNCHANGED <<owned, checkpoint, job, rec, turn>>

WriteEnds ==
  /\ job.state = "running" /\ Begun /\ disk[Segment].part = "final"
  /\ job' = [job EXCEPT !.state = "ended"]
  /\ UNCHANGED <<owned, files, rec, turn>>

\* Any write, sync or readback may fail; what was written stays.
WriteFails ==
  /\ job.state = "running" /\ (Begun => disk[Segment].part # "final")
  /\ job' = [job EXCEPT !.state = "ended", !.error = TRUE]
  /\ UNCHANGED <<owned, files, rec, turn>>

-----------------------------------------------------------------------------
(* poll, called by the owner or by close.                                  *)

\* A job whose thread ended without an error.
JobEnded == job.state = "ended" /\ ~job.error /\ rec.failed = "none"

Polling == {"idle", "joined"}
Verified == IF turn = "idle" THEN "verified" ELSE "verifiedToClose"
AfterPoll == IF turn = "verified" THEN "idle" ELSE "seal"

\* The segment is read back before any lock of an owner is taken.
PollReads ==
  /\ turn \in Polling /\ JobEnded
  /\ turn' = Verified
  /\ UNCHANGED <<owned, files, job, rec>>

\* The thread reported an error, or the readback fails: nothing is reclaimed.
PollRaises ==
  /\ turn \in Polling /\ job.state = "ended" /\ rec.failed = "none"
  /\ rec' = [rec EXCEPT !.failed = "RESOURCE"]
  /\ turn' = IF turn = "idle" THEN "idle" ELSE "seal"
  /\ UNCHANGED <<owned, files, job>>

InRows(row, rows) == \E i \in DOMAIN rows : rows[i] = row

\* Fault: feedback that is on disk counts as seen.
AwaitedNever == FALSE

\* An action has not taken its feedback yet: its rows stay, saved or not.
Awaited ==
  /\ action \in {"sent", "answered"}
  /\ InRows(Submitted, job.rows[Dispatch]) \/ InRows(Feedback, job.rows[Dispatch])
  /\ InRows(Feedback, live[Dispatch])

\* The rows of the job are still the first rows of their owners.
Prefixed == \A s \in Streams : IsPrefix(job.rows[s], LiveRows(s))

\* Fault: rows observed since the snapshot go too.
AfterAllRows(s) == <<>>

AfterRows(s) == SubSeq(live[s], Len(job.rows[s]) + 1, Len(live[s]))

\* Fault: the prefix of a retained stream is not advanced.
KeptAsBefore(s) == rec.kept[s]

Kept(s) == rec.kept[s] + Len(job.rows[s])

\* Fault: the job stays after its rows were reclaimed.
JobReclaimedKept == job

JobReclaimed == NoJob

\* All streams are checked before any row is deleted.
Reclaim ==
  /\ turn \in {"verified", "verifiedToClose"} /\ Prefixed /\ ~Awaited
  /\ live' = [s \in Streams |-> IF s \in Reclaimed THEN AfterRows(s) ELSE live[s]]
  /\ rec' = [rec EXCEPT !.commits = @ + 1, !.previous = Append(@, job.rows),
                        !.counts = [s \in Streams |-> @[s] + Len(job.rows[s])],
                        !.kept = [s \in Retained |-> Kept(s)],
                        !.used = [s \in Reclaimed |-> @[s] - Len(job.rows[s])]]
  /\ job' = JobReclaimed /\ turn' = AfterPoll
  /\ UNCHANGED <<observed, action, files>>

\* The poll returns and the job waits for its action; close is refused then.
PollWaits ==
  /\ turn \in {"verified", "verifiedToClose"} /\ Prefixed /\ Awaited
  /\ turn' = "idle"
  /\ UNCHANGED <<owned, files, job, rec>>

-----------------------------------------------------------------------------
(* close.                                                                  *)

Close ==
  /\ turn = "idle" /\ ~rec.closed
  /\ turn' = IF rec.sealed THEN "detach" ELSE "join"
  /\ UNCHANGED <<owned, files, job, rec>>

\* Fault: close goes on while the thread is at work.
WriterGoneAlways == TRUE

\* The join of the thread.
WriterGone == job.state # "running"

\* The thread is still alive after the timeout: close is refused.
JoinTimesOut ==
  /\ turn = "join" /\ job.state = "running" /\ turn' = "idle"
  /\ UNCHANGED <<owned, files, job, rec>>

Join ==
  /\ turn = "join" /\ WriterGone
  /\ turn' = IF job.state = "ended" /\ rec.failed = "none" THEN "joined" ELSE "seal"
  /\ UNCHANGED <<owned, files, job, rec>>

\* Count what is left, and write the checkpoint.
Seal ==
  /\ turn = "seal"
  /\ \/ /\ checkpoint' = [part |-> "pending", segments |-> rec.commits, tip |-> rec.previous, counts |-> rec.counts]
        /\ turn' = "publish" /\ UNCHANGED rec
     \/ \* no room for it, or the write fails
        /\ checkpoint' \in {checkpoint, [Unwritten EXCEPT !.part = "pending"]}
        /\ rec' = [rec EXCEPT !.failed = "RESOURCE", !.sealed = TRUE] /\ turn' = "detach"
  /\ UNCHANGED <<owned, disk, job>>

Publish ==
  /\ turn = "publish"
  /\ \/ checkpoint' = [checkpoint EXCEPT !.part = "final"] /\ rec' = [rec EXCEPT !.sealed = TRUE]
     \/ UNCHANGED checkpoint /\ rec' = [rec EXCEPT !.failed = "RESOURCE", !.sealed = TRUE]
  /\ turn' = "detach"
  /\ UNCHANGED <<owned, disk, job>>

\* The owners are let go; one that is busy makes close return, to be repeated.
Detach ==
  /\ turn = "detach" /\ turn' = "idle"
  /\ rec' \in {rec, [rec EXCEPT !.attached = FALSE, !.closed = TRUE]}
  /\ UNCHANGED <<owned, files, job>>

-----------------------------------------------------------------------------

Writer == MakeDirectory \/ WritePart \/ WriteEnds \/ WriteFails

Poll == PollReads \/ PollRaises \/ Reclaim \/ PollWaits

Closing == JoinTimesOut \/ Join \/ Seal \/ Publish \/ Detach

RecorderNext ==
  \/ \E s \in Streams : Observe(s)
  \/ Finish \/ Flush \/ Writer \/ Poll \/ Close \/ Closing

RecorderSpec == RecorderInit /\ [][RecorderNext]_recorderVars

\* The thread goes on, a call goes on, the owner polls again, and an action
\* looks for its feedback.
RecorderFairness ==
  /\ WF_recorderVars(Writer) /\ WF_recorderVars(Closing)
  /\ SF_recorderVars(Poll /\ ~PollWaits) /\ WF_recorderVars(Poll)
  /\ WF_recorderVars(Finish) /\ WF_recorderVars(Observe(Dispatch))
RecorderFairSpec == RecorderSpec /\ RecorderFairness

-----------------------------------------------------------------------------
(* read_observation_chain.                                                 *)

\* A link continues the counts and the hash of the one before it.
Linked(i) ==
  /\ disk[i].content.previous = [k \in 1..(i - 1) |-> disk[k].content.rows]
  /\ \A s \in Streams :
       disk[i].content.start[s] = FoldLeft(LAMBDA n, k : n + Len(disk[k].content.rows[s]), 0, [k \in 1..(i - 1) |-> k])

ChainRows(s) == FlattenSeq([i \in DOMAIN disk |-> disk[i].content.rows[s]])

\* The archive of a segment has its records and its published manifest.
Whole(i) == PartOf(disk[i].part) >= PartOf("archive")

\* The directory holds whole segments only, each linked to the one before, and
\* a close checkpoint that agrees with them if there is one.
Readable ==
  /\ disk # <<>>
  /\ \A i \in DOMAIN disk : Whole(i) /\ disk[i].part = "final" /\ Linked(i)
  /\ \/ checkpoint.part = "none"
     \/ /\ checkpoint.part = "final"
        /\ checkpoint.segments = Len(disk)
        /\ checkpoint.tip = [k \in DOMAIN disk |-> disk[k].content.rows]
        /\ checkpoint.counts = [s \in Streams |-> Len(ChainRows(s))]

-----------------------------------------------------------------------------
(* Properties.                                                             *)

Upto(n) == [i \in 1..n |-> i]
SavedRows(s) == FlattenSeq([i \in 1..rec.commits |-> disk[i].content.rows[s]])

\* While the recorder owns the records none is lost and none is kept twice: what
\* the segments on disk hold and what is still in memory is exactly what was
\* observed, in order, and the accounts of the owners agree.
NothingLost ==
  /\ \A i \in 1..rec.commits : disk[i].part = "final"
  /\ \A s \in Reclaimed : /\ SavedRows(s) \o live[s] = Upto(observed[s])
                          /\ rec.used[s] = Len(live[s])
  /\ \A s \in Retained : live[s] = Upto(observed[s]) /\ SavedRows(s) = Upto(rec.kept[s])

\* Whenever the chain can be read, also after a crash at any point and before the
\* recorder knows of its last segment, it holds a prefix of what was observed,
\* with everything that was given up in memory.
ChainTrue ==
  Readable => \A s \in Streams : /\ ChainRows(s) = Upto(Len(ChainRows(s)))
                                 /\ Len(ChainRows(s)) \in rec.counts[s]..observed[s]

\* An action whose feedback has come always finds it: its row is not given up
\* before the action has taken it, though it is on disk.
FeedbackKept == action = "answered" => InRows(Feedback, live[Dispatch])

\* Once close has counted what is left no segment is written or committed any more.
SealedIsFinal ==
  [][rec.sealed \/ checkpoint.part # "none" => disk' = disk /\ rec'.commits = rec.commits]_recorderVars

\* A snapshot that was taken is committed, or the recorder fails or is closed.
JobEnds == job.state # "none" ~> (job.state = "none" \/ rec.failed # "none" \/ rec.closed)

\* Memory and disk together hold what was observed, once; a reader of the chain gets
\* a prefix of it, at any time; and feedback stays until its action has taken it.
RecorderSound == RecorderTypeOK /\ NothingLost /\ ChainTrue /\ FeedbackKept
=============================================================================
