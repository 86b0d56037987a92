----------------------------- MODULE StorageProofs -----------------------------
(***************************************************************************)
(* Theorems about what the simulator keeps on disk.  First RunManagement:   *)
(* the store of runs, its handlers and the one execution, for any number of *)
(* calls, runs, requests and records.  Then ResourceStorage, for any        *)
(* sessions, resources, chunks and bounds: owner, worker and disk agree,    *)
(* also after a crash and with every file operation failing or not.        *)
(***************************************************************************)
EXTENDS RunManagement, ResourceStorage, FiniteSetTheorems, SequenceTheorems, TLAPS

-----------------------------------------------------------------------------
(* Control.  A run is launched once, by the call that found it READY; what  *)
(* a call or the worker still has to do tells which run it may touch.       *)

\* The call has queued its run and not handed it to the executor.
Launching(c) == calls[c].stage \in {"track", "note", "submit"}

\* The worker has seen to it that its run is over.
Concluded == worker.reporter \in Terminal

CallInv ==
  \A c \in Calls :
    /\ calls[c].stage \notin {"new", "begin", "remember", "done"} => RunOf(c) \in DOMAIN runs
    /\ Launching(c) => State(RunOf(c)) # "READY"
    /\ \A d \in Calls : Launching(c) /\ Launching(d) /\ RunOf(c) = RunOf(d) => c = d

ExecutionInv ==
  /\ active = Nobody <=> On("none")
  /\ Concluded => worker.stage \in {"noteComplete", "leave", "noteFailed", "free"}
  /\ worker.stage \in {"noteComplete", "noteFailed", "free"} => Concluded
  /\ active # Nobody =>
       /\ Run \in DOMAIN runs /\ State(Run) # "READY"
       /\ \A c \in Calls : Launching(c) => RunOf(c) # Run
       /\ Concluded => State(Run) \in Terminal

ControlInv == CallInv /\ ExecutionInv /\ NobodyForgotten

-----------------------------------------------------------------------------
(* The target.                                                             *)

Driven(r) == hil.state = "RUNNING" /\ hil.run = r

\* No execution has started the target for r.
Unstarted(r) ==
  \/ r \notin DOMAIN runs
  \/ State(r) = "READY"
  \/ \E c \in Calls : Launching(c) /\ RunOf(c) = r
  \/ active # Nobody /\ Run = r /\ worker.stage \in {"enter", "opened", "configured"}

TargetInv ==
  /\ \A r \in 1 .. MaxRuns : Unstarted(r) => ~Driven(r)
  /\ active # Nobody /\ worker.stage \in {"complete", "noteComplete"} => ~Driven(Run)
  /\ \A r \in DOMAIN runs : Has(r, "EXECUTION_INCOMPLETE") =>
       /\ ~Driven(r) /\ State(r) \in Terminal
       /\ \A c \in Calls : Launching(c) => RunOf(c) # r
       /\ active # Nobody /\ Run = r => worker.stage \in {"leave", "free"} /\ Concluded

-----------------------------------------------------------------------------
(* Results.                                                                *)

Ended(list) == \E i \in DOMAIN list : list[i] \in Results
EndedOnce(list) ==
  \A i, j \in DOMAIN list : list[i] \in Results /\ list[j] \in Results => i = j

\* The worker is about to note the result of its run.
Noting == active # Nobody /\ worker.stage \in {"noteComplete", "noteFailed"}

ResultInv ==
  /\ \A r \in DOMAIN runs : EndedOnce(facts[r]) /\ (State(r) \notin Terminal => ~Ended(facts[r]))
  /\ \A c \in Calls : At(c, "noteFail") =>
       /\ State(RunOf(c)) \in Terminal /\ ~Ended(facts[RunOf(c)])
       /\ \A d \in Calls : At(d, "noteFail") /\ RunOf(d) = RunOf(c) => d = c
       /\ Noting => Run # RunOf(c)
  /\ Noting => ~Ended(facts[Run])

-----------------------------------------------------------------------------
(* Answers.                                                                *)

\* What a finished call was told is what is stored under its request, or that
\* its request is another one's.
AnswerInv ==
  \A c \in Calls : At(c, "done") /\ calls[c].reply \notin {"none", "lost", "error"} =>
    LET old == answers[Request[c].id] IN
    /\ old # Nobody
    /\ \/ old = Stored(c, calls[c].reply)
       \/ ~SameRequest(c) /\ calls[c].reply = "rejected"

-----------------------------------------------------------------------------
(* Lists of facts.                                                         *)

\* What Kept keeps is the end of the list, and not more than MaxRecords of it.
LEMMA KeptIsTail ==
  ASSUME ManagementAssumption, NEW S, NEW list \in Seq(S)
  PROVE  /\ Kept(list) \in Seq(S) /\ Len(Kept(list)) <= MaxRecords
         /\ \E k \in Nat :
              /\ k <= Len(list) /\ Len(Kept(list)) = Len(list) - k
              /\ \A i \in DOMAIN Kept(list) :
                   i + k \in DOMAIN list /\ Kept(list)[i] = list[i + k]
<1>0. MaxRecords \in Nat /\ Len(list) \in Nat
  <2>1. MaxRecords \in Nat \ {0}
    BY DEF ManagementAssumption
  <2> QED
    BY <2>1
<1>a. DOMAIN list = 1 .. Len(list)
  OBVIOUS
<1>1. PICK k \in Nat : /\ k <= Len(list) /\ Len(list) - k <= MaxRecords
                       /\ Kept(list) = SubSeq(list, k + 1, Len(list))
  <2>1. CASE Len(list) > MaxRecords
    <3>0. Len(list) - MaxRecords \in Nat
      BY <1>0, <2>1
    <3>1. Kept(list) = SubSeq(list, (Len(list) - MaxRecords) + 1, Len(list))
      BY <2>1 DEF Kept
    <3>2. /\ Len(list) - MaxRecords <= Len(list)
          /\ Len(list) - (Len(list) - MaxRecords) <= MaxRecords
      BY <1>0
    <3> QED
      BY <3>0, <3>1, <3>2
  <2>2. CASE ~(Len(list) > MaxRecords)
    BY <1>0, <2>2 DEF Kept
  <2> QED
    BY <2>1, <2>2
<1>2. Kept(list) = SubSeq(list, k + 1, Len(list))
  BY <1>1
<1>3. /\ Kept(list) \in Seq(S) /\ Len(Kept(list)) = Len(list) - k
      /\ \A i \in 1 .. (Len(list) - k) : Kept(list)[i] = list[i + k]
  <2>0. k < Len(list) \/ k = Len(list)
    BY <1>0, <1>1
  <2>1. CASE k < Len(list)
    <3>1. k + 1 \in 1 .. Len(list) /\ Len(list) \in (k + 1) .. Len(list)
      BY <1>0, <1>1, <2>1
    <3> QED
      BY <1>0, <1>1, <1>2, <2>1, <3>1, SubSeqProperties
  <2>2. CASE k = Len(list)
    <3>1. SubSeq(list, k + 1, Len(list)) = << >>
      BY <1>0, <1>1, <2>2, SubSeqEmpty
    <3>2. << >> \in Seq(S) /\ Len(<< >>) = 0
      OBVIOUS
    <3>3. Kept(list) = << >> /\ Len(list) - k = 0
      BY <1>0, <1>1, <1>2, <2>2, <3>1
    <3> QED
      BY <3>2, <3>3
  <2> QED
    BY <2>0, <2>1, <2>2
<1>4. \A i \in DOMAIN Kept(list) : i + k \in DOMAIN list /\ Kept(list)[i] = list[i + k]
  <2>1. DOMAIN Kept(list) = 1 .. (Len(list) - k)
    BY <1>3
  <2>2. \A i \in 1 .. (Len(list) - k) : i + k \in 1 .. Len(list)
    BY <1>0, <1>1
  <2> QED
    BY <1>a, <1>3, <2>1, <2>2
<1> QED
  BY <1>a, <1>1, <1>3, <1>4

\* A fact of an extended list is an old one or a new one.
LEMMA KeptFrom ==
  ASSUME ManagementAssumption, NEW list \in Seq(Reasons), NEW new \in Seq(Reasons),
         NEW i \in DOMAIN Kept(list \o new)
  PROVE  \/ \E j \in DOMAIN list : list[j] = Kept(list \o new)[i]
         \/ \E j \in DOMAIN new : new[j] = Kept(list \o new)[i]
<1> DEFINE whole == list \o new
<1>1. /\ whole \in Seq(Reasons) /\ Len(whole) = Len(list) + Len(new)
      /\ Len(list) \in Nat /\ Len(new) \in Nat
      /\ \A j \in 1 .. Len(whole) : whole[j] = IF j <= Len(list) THEN list[j] ELSE new[j - Len(list)]
  OBVIOUS
<1>2. PICK j \in DOMAIN whole : Kept(whole)[i] = whole[j]
  BY <1>1, KeptIsTail
<1>3. CASE j <= Len(list)
  BY <1>1, <1>2, <1>3
<1>4. CASE j > Len(list)
  <2>1. j - Len(list) \in DOMAIN new /\ whole[j] = new[j - Len(list)]
    BY <1>1, <1>2, <1>4
  <2> QED
    BY <1>2, <2>1
<1> QED
  BY <1>1, <1>2, <1>3, <1>4

\* Facts that are no results change nothing about the end of a run.
LEMMA KeptEnds ==
  ASSUME ManagementAssumption, NEW list \in Seq(Reasons), NEW new \in Seq(Reasons)
  PROVE  /\ ~Ended(new) /\ ~Ended(list) => ~Ended(Kept(list \o new))
         /\ ~Ended(new) /\ EndedOnce(list) => EndedOnce(Kept(list \o new))
         /\ EndedOnce(new) /\ ~Ended(list) => EndedOnce(Kept(list \o new))
<1> DEFINE whole == list \o new
<1>1. /\ whole \in Seq(Reasons) /\ Len(whole) = Len(list) + Len(new)
      /\ Len(list) \in Nat /\ Len(new) \in Nat
      /\ DOMAIN list = 1 .. Len(list) /\ DOMAIN new = 1 .. Len(new)
      /\ DOMAIN whole = 1 .. Len(whole)
      /\ \A j \in 1 .. Len(whole) : whole[j] = IF j <= Len(list) THEN list[j] ELSE new[j - Len(list)]
  OBVIOUS
<1> HIDE DEF whole
<1>2. PICK k \in Nat : \A i \in DOMAIN Kept(whole) :
        i + k \in DOMAIN whole /\ Kept(whole)[i] = whole[i + k]
  BY <1>1, KeptIsTail
<1>3. DOMAIN Kept(whole) \subseteq Nat
  <2>1. Kept(whole) \in Seq(Reasons)
    BY <1>1, KeptIsTail
  <2> QED
    BY <2>1
<1>4. ~Ended(new) /\ ~Ended(list) => ~Ended(Kept(whole))
  BY KeptFrom DEF Ended, whole
<1>5. ASSUME EndedOnce(whole) PROVE EndedOnce(Kept(whole))
  <2> SUFFICES ASSUME NEW i \in DOMAIN Kept(whole), NEW j \in DOMAIN Kept(whole),
                      Kept(whole)[i] \in Results, Kept(whole)[j] \in Results
               PROVE  i = j
    BY DEF EndedOnce
  <2>1. i + k = j + k
    BY <1>2, <1>5 DEF EndedOnce
  <2> QED
    BY <1>3, <2>1
<1>5a. \A j \in DOMAIN whole :
        \/ j \in DOMAIN list /\ whole[j] = list[j]
        \/ j - Len(list) \in DOMAIN new /\ whole[j] = new[j - Len(list)]
  BY <1>1
<1>6. ASSUME ~Ended(new), EndedOnce(list) PROVE EndedOnce(whole)
  <2>1. \A j \in DOMAIN whole : whole[j] \in Results => j \in DOMAIN list /\ whole[j] = list[j]
    BY <1>6, <1>5a DEF Ended
  <2> QED
    BY <1>6, <2>1 DEF EndedOnce
<1>7. ASSUME EndedOnce(new), ~Ended(list) PROVE EndedOnce(whole)
  <2>1. \A j \in DOMAIN whole : whole[j] \in Results =>
          j - Len(list) \in DOMAIN new /\ whole[j] = new[j - Len(list)]
    BY <1>7, <1>5a DEF Ended
  <2>2. \A i, j \in DOMAIN whole : i - Len(list) = j - Len(list) => i = j
    BY <1>1
  <2> QED
    BY <1>7, <2>1, <2>2 DEF EndedOnce
<1> QED
  BY <1>4, <1>5, <1>6, <1>7 DEF whole

\* Facts new of the run r are recorded.
Recorded(r, new) == facts' = [facts EXCEPT ![r] = Kept(facts[r] \o new)]

LEMMA NoteRecords ==
  ASSUME RunsTypeOK, NEW r, NEW reason \in Reasons
  PROVE  /\ <<reason>> \in Seq(Reasons)
         /\ Note(r, reason) => Recorded(r, <<reason>>)
<1>1. <<reason>> \in Seq(Reasons)
  OBVIOUS
<1>2. ASSUME Note(r, reason) PROVE Recorded(r, <<reason>>)
  <2>1. CASE r \in DOMAIN facts
    <3>1. facts[r] \in Seq(Reasons)
      BY <2>1 DEF RunsTypeOK
    <3>2. Append(facts[r], reason) = facts[r] \o <<reason>>
      BY <3>1
    <3> QED
      BY <1>2, <3>2 DEF Note, Noted, Recorded
  <2>2. CASE r \notin DOMAIN facts
    BY <1>2, <2>2 DEF Note, Noted, Recorded, RunsTypeOK
  <2> QED
    BY <2>1, <2>2
<1> QED
  BY <1>1, <1>2

-----------------------------------------------------------------------------
(* Type correctness.                                                       *)

RunRecord == [state : RunStates, rev : Nat]
CallRecord == [stage : CallStages, held : Calls \cup {Nobody}, reply : Replies]
WorkerRecord == [stage : WorkerStages, reporter : {"WAITING", "RUNNING", "COMPLETED", "FAILED"},
                 sent : 0 .. Events, started : BOOLEAN]

AnsweredIds == {i \in Ids : answers[i] # Nobody}

\* The parts of the type invariant that steps disturb one at a time.
RunsShape == runs \in Seq(RunRecord) /\ Len(runs) <= MaxRuns
FactsShape ==
  /\ facts \in Seq(Seq(Reasons)) /\ Len(facts) = Len(runs)
  /\ \A r \in DOMAIN runs : Len(facts[r]) <= MaxRecords
AnswersShape ==
  /\ answers \in [Ids -> {Nobody} \cup StoredAnswers]
  /\ IsFiniteSet(AnsweredIds) /\ Cardinality(AnsweredIds) <= MaxRequests
MemoryShape ==
  /\ reserved \in [1 .. MaxRuns -> Nat]
  /\ operations \in [1 .. MaxRuns -> Calls \cup {Nobody}]
  /\ active \in {Nobody} \cup Executions /\ registered \subseteq Calls /\ worker \in WorkerRecord
  /\ calls \in [Calls -> CallRecord]
  /\ hil \in [state : {"CONFIGURED", "RUNNING", "STOPPED"}, run : 0 .. MaxRuns]

ShapeInv == RunsShape /\ FactsShape /\ AnswersShape /\ MemoryShape

LEMMA ShapeIsType == ASSUME ShapeInv PROVE RunsTypeOK
BY DEF ShapeInv, RunsShape, FactsShape, AnswersShape, MemoryShape, RunsTypeOK, RunRecord,
       CallRecord, WorkerRecord, AnsweredIds

\* A transition changes the state of its run, and no other.
LEMMA Transits ==
  ASSUME RunsShape, NEW r, NEW state \in RunStates, Transition(r, state)
  PROVE  /\ RunsShape' /\ Len(runs') = Len(runs) /\ DOMAIN runs' = DOMAIN runs
         /\ \A x \in DOMAIN runs : runs'[x].state = IF x = r THEN state ELSE runs[x].state
<1>1. runs \in Seq(RunRecord) /\ Len(runs) \in Nat /\ DOMAIN runs = 1 .. Len(runs)
  BY DEF RunsShape
<1>2. \A x \in DOMAIN runs : runs[x] \in RunRecord
  BY <1>1
<1>3. \A x \in DOMAIN runs : [state |-> state, rev |-> runs[x].rev + 1] \in RunRecord
  BY <1>2 DEF RunRecord
<1>4. runs' \in [1 .. Len(runs) -> RunRecord]
      /\ \A x \in DOMAIN runs :
           runs'[x] = IF x = r THEN [state |-> state, rev |-> runs[x].rev + 1] ELSE runs[x]
  BY <1>1, <1>2, <1>3 DEF Transition
<1>5. runs' \in Seq(RunRecord) /\ Len(runs') = Len(runs)
  BY <1>1, <1>4
<1> QED
  BY <1>1, <1>4, <1>5 DEF RunsShape

LEMMA RecordsShape ==
  ASSUME ManagementAssumption, RunsShape, FactsShape, UNCHANGED Len(runs), DOMAIN runs' = DOMAIN runs,
         NEW r, NEW new \in Seq(Reasons), Recorded(r, new)
  PROVE  FactsShape' /\ \A x \in DOMAIN runs : x # r => facts'[x] = facts[x]
<1>1. Len(facts) \in Nat /\ DOMAIN facts = 1 .. Len(facts) /\ DOMAIN runs = DOMAIN facts
  BY DEF RunsShape, FactsShape
<1>2. \A x \in DOMAIN facts : /\ facts[x] \in Seq(Reasons)
                              /\ Kept(facts[x] \o new) \in Seq(Reasons)
                              /\ Len(Kept(facts[x] \o new)) <= MaxRecords
  <2>1. \A x \in DOMAIN facts : facts[x] \in Seq(Reasons)
    BY DEF FactsShape
  <2> QED
    <3>1. \A x \in DOMAIN facts : facts[x] \o new \in Seq(Reasons)
      BY <2>1
    <3> QED
      BY <2>1, <3>1, KeptIsTail
<1>3. /\ facts' \in [1 .. Len(facts) -> Seq(Reasons)]
      /\ \A x \in DOMAIN facts : facts'[x] = IF x = r THEN Kept(facts[x] \o new) ELSE facts[x]
  BY <1>1, <1>2 DEF Recorded, FactsShape
<1>4. facts' \in Seq(Seq(Reasons)) /\ Len(facts') = Len(facts)
  BY <1>1, <1>3
<1> QED
  BY <1>1, <1>2, <1>3, <1>4 DEF FactsShape

LEMMA CreateShape ==
  ASSUME ManagementAssumption, RunsShape, FactsShape, NEW c \in Calls, Create(c)
  PROVE  RunsShape' /\ FactsShape'
<1>1. CASE Creatable
  <2>1. [state |-> "READY", rev |-> 1] \in RunRecord /\ << >> \in Seq(Reasons)
    BY DEF RunRecord, RunStates
  <2>2. /\ runs' = Append(runs, [state |-> "READY", rev |-> 1]) /\ facts' = Append(facts, << >>)
        /\ Len(runs) < MaxRuns
    BY <1>1 DEF Create, Creatable
  <2>3. /\ runs \in Seq(RunRecord) /\ facts \in Seq(Seq(Reasons)) /\ Len(facts) = Len(runs)
        /\ \A r \in DOMAIN runs : Len(facts[r]) <= MaxRecords
    BY DEF RunsShape, FactsShape
  <2>4. /\ runs' \in Seq(RunRecord) /\ facts' \in Seq(Seq(Reasons))
        /\ Len(runs') = Len(runs) + 1 /\ Len(facts') = Len(facts) + 1
    BY <2>1, <2>2, <2>3
  <2>5. MaxRecords \in Nat /\ MaxRuns \in Nat
    BY DEF ManagementAssumption
  <2>6. Len(runs) \in Nat /\ Len(facts) \in Nat
    BY <2>3
  <2>7. Len(runs') <= MaxRuns
    BY <2>2, <2>4, <2>5, <2>6
  <2>8. ASSUME NEW r \in DOMAIN runs' PROVE Len(facts'[r]) <= MaxRecords
    <3>1. r \in 1 .. (Len(facts) + 1)
      BY <2>3, <2>4, <2>8
    <3>2. CASE r = Len(facts) + 1
      <4>1. facts'[r] = << >>
        BY <2>1, <2>2, <2>3, <3>2
      <4> QED
        BY <2>5, <4>1
    <3>3. CASE r \in 1 .. Len(facts)
      <4>1. facts'[r] = facts[r]
        BY <2>1, <2>2, <2>3, <3>3
      <4> QED
        BY <2>3, <3>3, <4>1
    <3> QED
      BY <2>6, <3>1, <3>2, <3>3
  <2> QED
    BY <2>3, <2>4, <2>7, <2>8 DEF RunsShape, FactsShape
<1>2. CASE ~Creatable
  BY <1>2 DEF Create, RunsShape, FactsShape
<1> QED
  BY <1>1, <1>2

LEMMA RestartShape ==
  ASSUME ManagementAssumption, RunsShape, FactsShape, RestartProcess
  PROVE  /\ RunsShape' /\ FactsShape' /\ DOMAIN runs' = DOMAIN runs
         /\ \A r \in DOMAIN runs : /\ runs'[r] = Recovered(r) /\ facts'[r] = RecoveredFacts(r)
                                   /\ facts[r] \in Seq(Reasons)
<1>1. /\ runs \in Seq(RunRecord) /\ facts \in Seq(Seq(Reasons)) /\ Len(facts) = Len(runs)
      /\ Len(runs) \in Nat /\ DOMAIN runs = 1 .. Len(runs) /\ DOMAIN facts = 1 .. Len(runs)
  BY DEF RunsShape, FactsShape
<1>2. \A r \in DOMAIN runs : runs[r] \in RunRecord /\ facts[r] \in Seq(Reasons)
                             /\ Len(facts[r]) <= MaxRecords
  BY <1>1 DEF FactsShape
<1>3. \A r \in DOMAIN runs : Recovered(r) \in RunRecord
  BY <1>2 DEF Recovered, RunRecord, RunStates, Terminal
<1>4. \A r \in DOMAIN runs : RecoveredFacts(r) \in Seq(Reasons) /\ Len(RecoveredFacts(r)) <= MaxRecords
  <2>1. \A r \in DOMAIN runs : Append(facts[r], "RECOVERY_INCOMPLETE") \in Seq(Reasons)
    BY <1>2 DEF Reasons
  <2> QED
    BY <1>2, <2>1, KeptIsTail DEF RecoveredFacts
<1>5. \A r \in DOMAIN runs : runs'[r] = Recovered(r) /\ facts'[r] = RecoveredFacts(r)
  BY DEF RestartProcess
<1>6. runs' \in Seq(RunRecord) /\ Len(runs') = Len(runs) /\ DOMAIN runs' = DOMAIN runs
  <2>1. Len(runs) \in Nat /\ runs' \in [1 .. Len(runs) -> RunRecord]
    BY <1>1, <1>3 DEF RestartProcess
  <2>2. runs' \in Seq(RunRecord) /\ Len(runs') = Len(runs)
    BY <2>1
  <2>3. DOMAIN runs' = DOMAIN runs
    BY DEF RestartProcess
  <2> QED
    BY <2>2, <2>3
<1>7. facts' \in Seq(Seq(Reasons)) /\ Len(facts') = Len(runs)
  <2>1. Len(runs) \in Nat /\ facts' \in [1 .. Len(runs) -> Seq(Reasons)]
    BY <1>1, <1>4 DEF RestartProcess
  <2> QED
    BY <2>1
<1> QED
  BY <1>1, <1>2, <1>4, <1>5, <1>6, <1>7 DEF RunsShape, FactsShape

\* The reasons a step records are reasons.
LEMMA ReasonLists ==
  /\ <<"REJECTED", "EXECUTION_FAILED">> \in Seq(Reasons)
  /\ <<"EXECUTION_INCOMPLETE">> \in Seq(Reasons)
  /\ <<"TX", "APPLIED">> \in Seq(Reasons)
  /\ {"START_QUEUED", "HIL_START_APPLIED", "STOP_REQUESTED", "HIL_STOP_APPLIED"} \subseteq Reasons
BY DEF Reasons


-----------------------------------------------------------------------------
(* Types of the memory, and of the whole.                                  *)

\* What a handler writes of its call, and the worker of itself.
LEMMA CallsShape ==
  ASSUME calls \in [Calls -> CallRecord], NEW c \in Calls
  PROVE  /\ \A stage \in CallStages : Go(c, stage) => calls' \in [Calls -> CallRecord]
         /\ \A stage \in CallStages, reply \in Replies :
              Reply(c, stage, reply) => calls' \in [Calls -> CallRecord]
         /\ \A stage \in CallStages, held \in Calls :
              calls' = [calls EXCEPT ![c].stage = stage, ![c].held = held]
                => calls' \in [Calls -> CallRecord]
BY DEF CallRecord, Go, Reply

LEMMA StageNames ==
  /\ CallStages = {"new", "begin", "reserve", "queue", "track", "note", "submit", "find", "stop",
                   "noteStop", "signal", "backend", "fail", "noteFail", "remember", "done"}
  /\ {"none", "created", "queued", "rejected", "error", "lost"} = Replies
BY DEF CallStages, Replies

LEMMA WorkerShape ==
  ASSUME worker \in WorkerRecord, NEW stage \in WorkerStages,
         NEW reporter \in {"WAITING", "RUNNING", "COMPLETED", "FAILED"}
  PROVE  /\ [worker EXCEPT !.stage = stage] \in WorkerRecord
         /\ [worker EXCEPT !.reporter = reporter, !.stage = stage] \in WorkerRecord
         /\ [worker EXCEPT !.stage = stage, !.started = TRUE] \in WorkerRecord
BY DEF WorkerRecord

LEMMA ShapeInit == ASSUME ManagementAssumption, RunsInit PROVE ShapeInv
<1>0. MaxRuns \in Nat \ {0} /\ MaxRequests \in Nat \ {0}
  BY DEF ManagementAssumption
<1>1. RunsShape /\ FactsShape
  <2>1. << >> \in Seq(RunRecord) /\ << >> \in Seq(Seq(Reasons)) /\ Len(<< >>) = 0
    OBVIOUS
  <2> QED
    BY <1>0, <2>1 DEF RunsInit, RunsShape, FactsShape
<1>2. AnswersShape
  <2>1. AnsweredIds = {}
    BY DEF RunsInit, AnsweredIds
  <2>2. IsFiniteSet(AnsweredIds) /\ Cardinality(AnsweredIds) = 0
    BY <2>1, FS_EmptySet
  <2>3. answers \in [Ids -> {Nobody} \cup StoredAnswers]
    BY DEF RunsInit
  <2> QED
    BY <1>0, <2>2, <2>3 DEF AnswersShape
<1>3. MemoryShape
  <2>1. NoWorker \in WorkerRecord
    BY DEF NoWorker, WorkerRecord, WorkerStages, ManagementAssumption
  <2>2. [stage |-> "new", held |-> Nobody, reply |-> "none"] \in CallRecord
    BY DEF CallRecord, CallStages, Replies
  <2> QED
    BY <1>0, <2>1, <2>2 DEF RunsInit, MemoryShape
<1> QED
  BY <1>1, <1>2, <1>3 DEF ShapeInv

\* An answer is stored for a request that had none, while there is room.
LEMMA RememberShape ==
  ASSUME ManagementAssumption, NobodyAssumption, AnswersShape, MemoryShape,
         NEW c \in Calls, Remember(c)
  PROVE  AnswersShape' /\ Answered(c).reply \in Replies
<1> DEFINE id == Request[c].id
           old == answers[id]
<1>1. id \in Ids /\ old \in {Nobody} \cup StoredAnswers /\ calls[c].reply \in Replies
  BY DEF Ids, AnswersShape, MemoryShape, CallRecord
<1>2. old # Nobody => old.reply \in Replies
  BY <1>1 DEF StoredAnswers
<1>3. Answered(c).reply \in Replies
  BY <1>1, <1>2 DEF Answered, AnsweredBy, Replies
<1>4. CASE Answered(c).new
  <2>1. old = Nobody /\ Cardinality(AnsweredIds) < MaxRequests
    BY <1>4 DEF Answered, AnsweredIds
  <2>2. answers' = [answers EXCEPT ![id] = Stored(c, Answered(c).reply)]
    BY <1>4 DEF Remember
  <2>3. Stored(c, Answered(c).reply) \in StoredAnswers
    BY <1>3 DEF Stored, StoredAnswers, ManagementAssumption
  <2>4. answers' \in [Ids -> {Nobody} \cup StoredAnswers]
    BY <2>2, <2>3 DEF AnswersShape
  <2>5. AnsweredIds' = AnsweredIds \cup {id}
    BY <1>1, <2>2, <2>3 DEF AnsweredIds, AnswersShape, NobodyAssumption, Ids
  <2>6. id \notin AnsweredIds /\ IsFiniteSet(AnsweredIds)
    BY <2>1 DEF AnsweredIds, AnswersShape
  <2>7. /\ IsFiniteSet(AnsweredIds \cup {id})
        /\ Cardinality(AnsweredIds \cup {id}) = Cardinality(AnsweredIds) + 1
    BY <2>6, FS_AddElement
  <2>8. Cardinality(AnsweredIds) \in Nat /\ MaxRequests \in Nat
    BY <2>6, FS_CardinalityType DEF ManagementAssumption
  <2> HIDE DEF id, old
  <2>9. Cardinality(AnsweredIds') <= MaxRequests /\ IsFiniteSet(AnsweredIds')
    BY <2>1, <2>5, <2>7, <2>8
  <2> QED
    BY <1>3, <2>4, <2>9 DEF AnswersShape
<1>5. CASE ~Answered(c).new
  BY <1>3, <1>5 DEF Remember, AnswersShape, AnsweredIds
<1> QED
  BY <1>4, <1>5

LEMMA ShapeStep ==
  ASSUME ManagementAssumption, NobodyAssumption, ShapeInv, CallInv, ExecutionInv,
         [RunsNext]_runsVars
  PROVE  ShapeInv'
<1> USE DEF runStoreVars
<1>0. RunsShape /\ FactsShape /\ AnswersShape /\ MemoryShape /\ RunsTypeOK
  BY ShapeIsType DEF ShapeInv
<1>1. UNCHANGED <<runs, facts>> => RunsShape' /\ FactsShape'
  BY <1>0 DEF RunsShape, FactsShape
<1>2. ASSUME NEW r, NEW state \in RunStates, Transition(r, state), UNCHANGED facts
      PROVE  RunsShape' /\ FactsShape'
  BY <1>0, <1>2, Transits DEF FactsShape
<1>3. ASSUME NEW r, NEW new \in Seq(Reasons), Recorded(r, new), UNCHANGED runs
      PROVE  RunsShape' /\ FactsShape'
  BY <1>0, <1>3, RecordsShape DEF RunsShape
<1>4. ASSUME NEW r, NEW reason \in Reasons, Note(r, reason), UNCHANGED runs
      PROVE  RunsShape' /\ FactsShape'
  BY <1>0, <1>3, <1>4, NoteRecords
<1>5. UNCHANGED answers => AnswersShape'
  BY <1>0 DEF AnswersShape, AnsweredIds
<1>6. /\ reserved \in [1 .. MaxRuns -> Nat] /\ operations \in [1 .. MaxRuns -> Calls \cup {Nobody}]
      /\ active \in {Nobody} \cup Executions /\ registered \subseteq Calls /\ worker \in WorkerRecord
      /\ calls \in [Calls -> CallRecord]
      /\ hil \in [state : {"CONFIGURED", "RUNNING", "STOPPED"}, run : 0 .. MaxRuns]
  BY <1>0 DEF MemoryShape
<1>7. \A r : /\ Unreserved(r) \in [1 .. MaxRuns -> Nat]
             /\ [reserved EXCEPT ![r] = 0] \in [1 .. MaxRuns -> Nat]
             /\ [operations EXCEPT ![r] = Nobody] \in [1 .. MaxRuns -> Calls \cup {Nobody}]
  <2>1. ASSUME NEW r PROVE Unreserved(r) \in [1 .. MaxRuns -> Nat]
    <3>1. \A x \in 1 .. MaxRuns : (IF reserved[x] > 0 THEN reserved[x] - 1 ELSE 0) \in Nat
      BY <1>6
    <3> QED
      BY <1>6, <3>1 DEF Unreserved
  <2> QED
    BY <1>6, <2>1
<1>8. ASSUME NEW c \in Calls, UNCHANGED <<reserved, operations, active, registered, worker, hil>>,
             \/ \E stage \in CallStages : Go(c, stage)
             \/ \E stage \in CallStages, reply \in Replies : Reply(c, stage, reply)
             \/ \E stage \in CallStages, held \in Calls :
                  calls' = [calls EXCEPT ![c].stage = stage, ![c].held = held]
      PROVE  MemoryShape'
  <2>1. calls' \in [Calls -> CallRecord]
    BY <1>6, <1>8, CallsShape
  <2> QED
    BY <1>6, <1>8, <2>1 DEF MemoryShape
<1>9. DOMAIN runs \subseteq 1 .. MaxRuns
  <2>1. runs \in Seq(RunRecord) /\ Len(runs) <= MaxRuns /\ MaxRuns \in Nat
    BY <1>0 DEF RunsShape, ManagementAssumption
  <2> QED
    BY <2>1
<1>10. ASSUME NEW c \in Calls, Handle(c) PROVE ShapeInv'
  <2>1. CASE Replay(c)
    <3>1. answers[Request[c].id] # Nobody => answers[Request[c].id].reply \in Replies
      BY <1>0 DEF Ids, AnswersShape, StoredAnswers
    <3> QED
      BY <1>1, <1>5, <1>8, <2>1, <3>1
         DEF Replay, CallOnly, ShapeInv, CallStages, Replies
  <2>2. CASE Create(c)
    BY <1>0, <1>5, <1>8, <2>2, CreateShape DEF Create, Reject, ShapeInv, CallStages, Replies
  <2>3. CASE CheckStart(c) \/ CheckStop(c) \/ SignalBackend(c)
    BY <1>1, <1>5, <1>8, <2>3
       DEF CheckStart, CheckStop, SignalBackend, CallOnly, Reject, ShapeInv, CallStages, Replies
  <2>4. CASE Reserve(c)
    <3>1. reserved' \in [1 .. MaxRuns -> Nat]
      <4>1. Needed \in Nat
        BY DEF Needed, ManagementAssumption
      <4> QED
        BY <1>6, <2>4, <4>1 DEF Reserve
    <3>2. calls' \in [Calls -> CallRecord]
      <4>1. Go(c, "queue") \/ Reply(c, "remember", "rejected")
        BY <2>4 DEF Reserve, Reject
      <4> QED
        BY <1>6, <4>1, CallsShape, StageNames
    <3> QED
      BY <1>1, <1>5, <1>6, <2>4, <3>1, <3>2 DEF Reserve, ShapeInv, MemoryShape
  <2>5. CASE QueueRun(c)
    <3>1. RunsShape' /\ FactsShape'
      BY <1>1, <1>2, <2>5 DEF QueueRun, RunStates, InExecution
    <3> QED
      BY <1>5, <1>8, <2>5, <3>1 DEF QueueRun, Reject, ShapeInv, CallStages, Replies
  <2>6. CASE Track(c)
    <3>1. calls' \in [Calls -> CallRecord]
      BY <1>6, <2>6, CallsShape, StageNames DEF Track
    <3> QED
      BY <1>1, <1>5, <1>6, <2>6, <3>1 DEF Track, ShapeInv, MemoryShape
  <2>7. CASE NoteQueued(c) \/ NoteStop(c)
    <3>1. RunsShape' /\ FactsShape'
      BY <1>4, <2>7 DEF NoteQueued, NoteStop, Reasons
    <3>2. calls' \in [Calls -> CallRecord]
      BY <1>6, <2>7, CallsShape, StageNames DEF NoteQueued, NoteStop
    <3>3. reserved' \in [1 .. MaxRuns -> Nat]
      BY <1>7, <2>7 DEF NoteQueued, NoteStop, Note
    <3> QED
      BY <1>5, <1>6, <2>7, <3>1, <3>2, <3>3 DEF NoteQueued, NoteStop, ShapeInv, MemoryShape
  <2>8. CASE SubmitStart(c)
    <3>1. calls' \in [Calls -> CallRecord]
      <4>1. Go(c, "fail") \/ Reply(c, "remember", "queued")
        BY <2>8 DEF SubmitStart
      <4> QED
        BY <1>6, <4>1, CallsShape, StageNames
    <3>2. \/ UNCHANGED <<active, worker>>
          \/ /\ active' = [op |-> c, stop |-> FALSE]
             /\ worker' = [NoWorker EXCEPT !.stage = "enter"]
      BY <2>8 DEF SubmitStart
    <3>3. [op |-> c, stop |-> FALSE] \in Executions
      BY DEF Executions
    <3>4. [NoWorker EXCEPT !.stage = "enter"] \in WorkerRecord
      <4>1. 0 \in 0 .. Events
        BY DEF ManagementAssumption
      <4> QED
        BY <4>1 DEF NoWorker, WorkerRecord, WorkerStages
    <3>5. active' \in {Nobody} \cup Executions /\ worker' \in WorkerRecord /\ registered' \subseteq Calls
      <4>1. registered' \subseteq Calls
        BY <1>6, <2>8 DEF SubmitStart
      <4> QED
        BY <1>6, <3>2, <3>3, <3>4, <4>1
    <3> QED
      BY <1>1, <1>5, <1>6, <2>8, <3>1, <3>5 DEF SubmitStart, ShapeInv, MemoryShape
  <2>9. CASE FindOperation(c)
    <3>1. calls' \in [Calls -> CallRecord]
      <4>1. CASE operations[RunOf(c)] # Nobody
        <5>1. calls' = [calls EXCEPT ![c].stage = "stop", ![c].held = operations[RunOf(c)]]
          BY <2>9, <4>1 DEF FindOperation
        <5>2. RunOf(c) \in 1 .. MaxRuns
          <6>1. calls[c].stage = "find"
            BY <2>9 DEF FindOperation, At
          <6>2. RunOf(c) \in DOMAIN runs
            BY <6>1 DEF CallInv
          <6> QED
            BY <1>9, <6>2
        <5>3. operations[RunOf(c)] \in Calls
          BY <1>6, <4>1, <5>2
        <5> QED
          BY <1>6, <5>1, <5>3, CallsShape, StageNames
      <4>2. CASE operations[RunOf(c)] = Nobody
        <5>1. Reply(c, "remember", "rejected")
          BY <2>9, <4>2 DEF FindOperation, Reject
        <5> QED
          BY <1>6, <5>1, CallsShape, StageNames
      <4> QED
        BY <4>1, <4>2
    <3> QED
      BY <1>1, <1>5, <1>6, <2>9, <3>1 DEF FindOperation, CallOnly, ShapeInv, MemoryShape
  <2>10. CASE StopRun(c)
    <3>1. RunsShape' /\ FactsShape'
      BY <1>1, <1>2, <2>10 DEF StopRun, RunStates, InExecution
    <3> QED
      BY <1>5, <1>8, <2>10, <3>1 DEF StopRun, Reject, ShapeInv, CallStages, Replies
  <2>11. CASE Signal(c)
    <3>1. calls' \in [Calls -> CallRecord]
      BY <1>6, <2>11, CallsShape, StageNames DEF Signal
    <3>2. active' \in {Nobody} \cup Executions
      BY <1>6, <2>11 DEF Signal, Executions
    <3> QED
      BY <1>1, <1>5, <1>6, <2>11, <3>1, <3>2 DEF Signal, ShapeInv, MemoryShape
  <2>12. CASE FailRun(c)
    <3>1. RunsShape' /\ FactsShape'
      BY <1>1, <1>2, <2>12 DEF FailRun, RunStates, Terminal
    <3>2. calls' \in [Calls -> CallRecord]
      <4>1. Go(c, "noteFail") \/ Reply(c, "remember", "rejected")
        BY <2>12 DEF FailRun, Reject
      <4> QED
        BY <1>6, <4>1, CallsShape, StageNames
    <3>3. operations' \in [1 .. MaxRuns -> Calls \cup {Nobody}]
      BY <1>6, <1>7, <2>12 DEF FailRun
    <3> QED
      BY <1>5, <1>6, <2>12, <3>1, <3>2, <3>3 DEF FailRun, ShapeInv, MemoryShape
  <2>13. CASE NoteFail(c)
    <3>1. RunsShape' /\ FactsShape'
      BY <1>3, <2>13, ReasonLists DEF NoteFail, NoteResult, Recorded
    <3>2. calls' \in [Calls -> CallRecord]
      BY <1>6, <2>13, CallsShape, StageNames DEF NoteFail, Reject
    <3>3. reserved' \in [1 .. MaxRuns -> Nat]
      BY <1>7, <2>13 DEF NoteFail, NoteResult
    <3> QED
      BY <1>5, <1>6, <2>13, <3>1, <3>2, <3>3 DEF NoteFail, ShapeInv, MemoryShape
  <2>14. CASE Remember(c)
    <3>1. AnswersShape' /\ Answered(c).reply \in Replies
      BY <1>0, <2>14, RememberShape
    <3> QED
      BY <1>1, <1>8, <2>14, <3>1 DEF Remember, ShapeInv, CallStages
  <2> QED
    BY <1>10, <2>1, <2>2, <2>3, <2>4, <2>5, <2>6, <2>7, <2>8, <2>9, <2>10, <2>11, <2>12,
       <2>13, <2>14 DEF Handle
<1>11. CASE ExecutionStep
  <2>0. Unwound \in WorkerStages
    BY DEF Unwound, WorkerStages
  <2>1. ASSUME UNCHANGED <<runs, facts, answers, reserved, operations, active, registered, calls>>,
               hil' \in [state : {"CONFIGURED", "RUNNING", "STOPPED"}, run : 0 .. MaxRuns],
               \/ \E stage \in WorkerStages : Work(stage)
               \/ \E stage \in WorkerStages :
                    worker' = [worker EXCEPT !.stage = stage, !.started = TRUE]
        PROVE  ShapeInv'
    <3>1. worker' \in WorkerRecord
      BY <1>6, <2>1 DEF Work, WorkerRecord
    <3> QED
      BY <1>1, <1>5, <1>6, <2>1, <3>1 DEF ShapeInv, MemoryShape
  <2>2. CASE OpenStore \/ Configure \/ StopBeforeStart \/ StartRefused \/ LoopFails \/ SeeStop
             \/ Confirm
    BY <1>6, <2>0, <2>1, <2>2
       DEF OpenStore, Configure, Prepare, StopBeforeStart, StartRefused, LoopFails, SeeStop,
           Confirm, ExecutionOnly, WorkerStages
  <2>3. CASE Start
    <3>1. hil' \in [state : {"CONFIGURED", "RUNNING", "STOPPED"}, run : 0 .. MaxRuns]
      <4>1. Run \in DOMAIN runs
        BY <2>3 DEF Start, On, ExecutionInv
      <4>2. Run \in 0 .. MaxRuns
        BY <1>9, <4>1
      <4> QED
        BY <2>3, <4>2 DEF Start
    <3> QED
      BY <1>6, <2>0, <2>1, <2>3, <3>1 DEF Start, WorkerStages
  <2>4. CASE StopHilFails
    <3>1. hil' \in [state : {"CONFIGURED", "RUNNING", "STOPPED"}, run : 0 .. MaxRuns]
      BY <1>6, <2>4 DEF StopHilFails
    <3> QED
      BY <1>6, <2>1, <2>4, <3>1 DEF StopHilFails, WorkerStages
  <2>5. CASE ReportRunning \/ Complete \/ ReportFailed
    <3>1. RunsShape' /\ FactsShape'
      <4>1. \/ UNCHANGED <<runs, facts>>
            \/ UNCHANGED facts /\ \E state \in RunStates : Transition(Run, state)
        BY <2>5 DEF ReportRunning, Complete, ReportFailed, RunStates, InExecution, Terminal
      <4> QED
        BY <1>1, <1>2, <4>1
    <3>2. worker' \in WorkerRecord
      BY <1>6, <2>5, WorkerShape DEF ReportRunning, Complete, ReportFailed, WorkerStages
    <3>3. operations' \in [1 .. MaxRuns -> Calls \cup {Nobody}]
      <4>1. UNCHANGED operations \/ operations' = [operations EXCEPT ![Run] = Nobody]
        BY <2>5 DEF ReportRunning, Complete, ReportFailed
      <4> QED
        BY <1>6, <1>7, <4>1
    <3>4. UNCHANGED <<answers, reserved, active, registered, calls, hil>>
      BY <2>5 DEF ReportRunning, Complete, ReportFailed
    <3> QED
      BY <1>5, <1>6, <3>1, <3>2, <3>3, <3>4 DEF ShapeInv, MemoryShape
  <2>6. CASE NoteStarted \/ StopHil \/ Compensate \/ NoteComplete \/ NoteFailed
    <3>1. RunsShape' /\ FactsShape'
      <4>1. \/ UNCHANGED <<runs, facts>>
            \/ UNCHANGED runs /\ \E reason \in Reasons : Note(Run, reason)
            \/ UNCHANGED runs /\ \E new \in Seq(Reasons) : Recorded(Run, new)
        BY <2>6, ReasonLists
           DEF NoteStarted, StopHil, Compensate, NoteComplete, NoteFailed, NoteResult, Recorded
      <4> QED
        BY <1>1, <1>3, <1>4, <4>1
    <3>2. worker' \in WorkerRecord
      BY <1>6, <2>6, WorkerShape
         DEF NoteStarted, StopHil, Compensate, NoteComplete, NoteFailed, Work, WorkerStages
    <3>3. reserved' \in [1 .. MaxRuns -> Nat]
      <4>1. \/ UNCHANGED reserved
            \/ reserved' = Unreserved(Run)
            \/ reserved' = [reserved EXCEPT ![Run] = 0]
        BY <2>6 DEF NoteStarted, StopHil, Compensate, NoteComplete, NoteFailed, Note, NoteResult
      <4> QED
        BY <1>6, <1>7, <4>1
    <3>4. hil' \in [state : {"CONFIGURED", "RUNNING", "STOPPED"}, run : 0 .. MaxRuns]
      <4>1. UNCHANGED hil \/ hil' = [hil EXCEPT !.state = "STOPPED"]
        BY <2>6 DEF NoteStarted, StopHil, Compensate, NoteComplete, NoteFailed
      <4> QED
        BY <1>6, <4>1
    <3>5. UNCHANGED <<answers, operations, active, registered, calls>>
      BY <2>6 DEF NoteStarted, StopHil, Compensate, NoteComplete, NoteFailed
    <3> QED
      BY <1>5, <1>6, <3>1, <3>2, <3>3, <3>4, <3>5 DEF ShapeInv, MemoryShape
  <2>7. CASE SendEvent
    <3>1. RunsShape' /\ FactsShape'
      <4>1. UNCHANGED runs /\ Recorded(Run, <<"TX", "APPLIED">>)
        BY <2>7 DEF SendEvent, Recorded
      <4> QED
        BY <1>3, <4>1, ReasonLists
    <3>2. worker' \in WorkerRecord
      <4>1. worker.sent + 1 \in 0 .. Events
        BY <1>6, <2>7 DEF SendEvent, WorkerRecord, ManagementAssumption
      <4> QED
        BY <1>6, <2>7, <4>1 DEF SendEvent, WorkerRecord
    <3>3. reserved' \in [1 .. MaxRuns -> Nat]
      <4>1. \A x \in 1 .. MaxRuns : (IF reserved[x] > 2 THEN reserved[x] - 2 ELSE 0) \in Nat
        BY <1>6
      <4> QED
        BY <1>6, <2>7, <4>1 DEF SendEvent
    <3> QED
      BY <1>5, <1>6, <2>7, <3>1, <3>2, <3>3 DEF SendEvent, ShapeInv, MemoryShape
  <2>8. CASE Leave
    <3>1. worker' \in WorkerRecord
      BY <1>6, <2>8, WorkerShape DEF Leave, Work, WorkerStages
    <3>2. registered' \subseteq Calls /\ UNCHANGED active
      BY <1>6, <2>8 DEF Leave
    <3> QED
      BY <1>1, <1>5, <1>6, <2>8, <3>1, <3>2 DEF Leave, ShapeInv, MemoryShape
  <2>9. CASE Free
    <3>1. NoWorker \in WorkerRecord
      <4>1. 0 \in 0 .. Events
        BY DEF ManagementAssumption
      <4> QED
        BY <4>1 DEF NoWorker, WorkerRecord, WorkerStages
    <3> QED
      BY <1>1, <1>5, <1>6, <2>9, <3>1 DEF Free, ShapeInv, MemoryShape
  <2> QED
    BY <1>11, <2>2, <2>3, <2>4, <2>5, <2>6, <2>7, <2>8, <2>9 DEF ExecutionStep
<1>12. CASE HilStops \/ HilPrepared
  <2>1. hil' \in [state : {"CONFIGURED", "RUNNING", "STOPPED"}, run : 0 .. MaxRuns]
    BY <1>6, <1>12 DEF HilStops, HilPrepared, ManagementAssumption
  <2> QED
    BY <1>1, <1>5, <1>6, <1>12, <2>1 DEF HilStops, HilPrepared, ShapeInv, MemoryShape
<1>13. CASE RestartProcess
  <2>1. RunsShape' /\ FactsShape'
    BY <1>0, <1>13, RestartShape
  <2>2. worker' \in WorkerRecord
    BY <1>13 DEF RestartProcess, NoWorker, WorkerRecord, WorkerStages, ManagementAssumption
  <2>3. calls' \in [Calls -> CallRecord]
    BY <1>6, <1>13 DEF RestartProcess, CallRecord, CallStages, Replies
  <2>4. /\ reserved' \in [1 .. MaxRuns -> Nat]
        /\ operations' \in [1 .. MaxRuns -> Calls \cup {Nobody}] /\ active' = Nobody
    BY <1>13 DEF RestartProcess
  <2> QED
    BY <1>5, <1>6, <1>13, <2>1, <2>2, <2>3, <2>4 DEF RestartProcess, ShapeInv, MemoryShape
<1>14. CASE UNCHANGED runsVars
  BY <1>1, <1>5, <1>6, <1>14 DEF runsVars, ShapeInv, MemoryShape
<1> QED
  BY <1>10, <1>11, <1>12, <1>13, <1>14 DEF RunsNext

-----------------------------------------------------------------------------
(* What a step does to the states of the runs and to the calls.            *)

\* A run is new beside runs that are over, or as it was, or goes on along its states.
LEMMA StateMoves ==
  ASSUME ManagementAssumption, ShapeInv, [RunsNext]_runsVars
  PROVE  /\ DOMAIN runs \subseteq DOMAIN runs'
         /\ \A r \in DOMAIN runs' :
              \/ /\ r \notin DOMAIN runs /\ runs'[r].state = "READY"
                 /\ \A s \in DOMAIN runs' : s # r => runs'[s].state \in Terminal
              \/ r \in DOMAIN runs /\ runs'[r].state = runs[r].state
              \/ /\ r \in DOMAIN runs /\ runs[r].state = "READY" /\ runs'[r].state = "WAITING"
                 /\ \E c \in Calls : QueueRun(c) /\ RunOf(c) = r
              \/ /\ r \in DOMAIN runs /\ runs[r].state \in InExecution
                 /\ runs'[r].state \in {"RUNNING", "STOPPING"} \cup Terminal
<1> USE DEF runStoreVars
<1>0. RunsShape /\ FactsShape /\ runs \in Seq(RunRecord) /\ \A r \in DOMAIN runs : runs[r] \in RunRecord
  <2>1. RunsShape /\ FactsShape
    BY DEF ShapeInv
  <2>2. runs \in Seq(RunRecord)
    BY <2>1 DEF RunsShape
  <2> QED
    BY <2>1, <2>2
<1> DEFINE Goal == /\ DOMAIN runs \subseteq DOMAIN runs'
                   /\ \A r \in DOMAIN runs' :
                        \/ /\ r \notin DOMAIN runs /\ runs'[r].state = "READY"
                           /\ \A s \in DOMAIN runs' : s # r => runs'[s].state \in Terminal
                        \/ r \in DOMAIN runs /\ runs'[r].state = runs[r].state
                        \/ /\ r \in DOMAIN runs /\ runs[r].state = "READY" /\ runs'[r].state = "WAITING"
                           /\ \E c \in Calls : QueueRun(c) /\ RunOf(c) = r
                        \/ /\ r \in DOMAIN runs /\ runs[r].state \in InExecution
                           /\ runs'[r].state \in {"RUNNING", "STOPPING"} \cup Terminal
<1>1. UNCHANGED runs => Goal
  OBVIOUS
<1>2. ASSUME NEW r, NEW state \in {"RUNNING", "STOPPING"} \cup Terminal, runs[r].state \in InExecution,
             Transition(r, state)
      PROVE  Goal
  <2>1. state \in RunStates
    BY DEF RunStates, InExecution
  <2> QED
    BY <1>0, <1>2, <2>1, Transits
<1>3. ASSUME NEW c \in Calls, Create(c) PROVE Goal
  <2>1. CASE Creatable
    <3>1. runs' = Append(runs, [state |-> "READY", rev |-> 1])
      BY <1>3, <2>1 DEF Create
    <3>2. [state |-> "READY", rev |-> 1] \in RunRecord
      BY DEF RunRecord, RunStates
    <3>3. /\ DOMAIN runs' = 1 .. (Len(runs) + 1) /\ DOMAIN runs = 1 .. Len(runs)
          /\ \A r \in DOMAIN runs : runs'[r] = runs[r]
          /\ runs'[Len(runs) + 1] = [state |-> "READY", rev |-> 1] /\ Len(runs) \in Nat
      BY <1>0, <3>1, <3>2
    <3>4. \A r \in 1 .. (Len(runs) + 1) : r \in 1 .. Len(runs) \/ r = Len(runs) + 1
      BY <3>3
    <3>5. DOMAIN runs \subseteq DOMAIN runs' /\ Len(runs) + 1 \notin DOMAIN runs
      BY <3>3
    <3>6. \A s \in DOMAIN runs : runs'[s].state \in Terminal
      BY <2>1, <3>3 DEF Creatable, State
    <3> QED
      BY <3>3, <3>4, <3>5, <3>6
  <2>2. CASE ~Creatable
    BY <1>1, <1>3, <2>2 DEF Create
  <2> QED
    BY <2>1, <2>2
<1>4. ASSUME NEW c \in Calls, QueueRun(c) PROVE Goal
  <2>1. CASE State(RunOf(c)) = "READY"
    <3>1. Transition(RunOf(c), "WAITING") /\ runs[RunOf(c)].state = "READY"
      BY <1>4, <2>1 DEF QueueRun, State
    <3>2. "WAITING" \in RunStates
      BY DEF RunStates, InExecution
    <3> QED
      BY <1>0, <1>4, <3>1, <3>2, Transits
  <2>2. CASE State(RunOf(c)) # "READY"
    BY <1>1, <1>4, <2>2 DEF QueueRun
  <2> QED
    BY <2>1, <2>2
<1>5. ASSUME NEW c \in Calls, StopRun(c) \/ FailRun(c) PROVE Goal
  BY <1>1, <1>2, <1>5 DEF StopRun, FailRun, Failable, State, InExecution, Terminal
<1>6. ASSUME ReportRunning \/ Complete \/ ReportFailed PROVE Goal
  BY <1>1, <1>2, <1>6 DEF ReportRunning, Complete, ReportFailed, Failable, State, InExecution, Terminal
<1>7. ASSUME RestartProcess PROVE Goal
  <2>1. DOMAIN runs' = DOMAIN runs /\ \A r \in DOMAIN runs : runs'[r] = Recovered(r)
    BY <1>0, <1>7, RestartShape
  <2> QED
    BY <2>1 DEF Recovered, State, Terminal
<1>8. CASE UNCHANGED runsVars
  BY <1>1, <1>8 DEF runsVars
<1>9. ASSUME RunsNext PROVE Goal
  <2>1. ASSUME NEW c \in Calls, Handle(c), ~Create(c), ~QueueRun(c), ~StopRun(c), ~FailRun(c)
        PROVE UNCHANGED runs
    BY <2>1 DEF Handle, Replay, CheckStart, Reserve, Track, NoteQueued, SubmitStart, CheckStop,
       FindOperation, NoteStop, Signal, SignalBackend, NoteFail, Remember, CallOnly
  <2>2. ASSUME ExecutionStep, ~ReportRunning, ~Complete, ~ReportFailed PROVE UNCHANGED runs
    BY <2>2 DEF ExecutionStep, OpenStore, Configure, Prepare, StopBeforeStart, Start, StartRefused,
       NoteStarted, SendEvent, LoopFails, SeeStop, StopHil, StopHilFails, Confirm, Compensate,
       NoteComplete, Leave, NoteFailed, Free, ExecutionOnly
  <2>3. HilStops \/ HilPrepared => UNCHANGED runs
    BY DEF HilStops, HilPrepared
  <2> HIDE DEF Goal
  <2>4. ASSUME NEW c \in Calls, Handle(c) PROVE Goal
    BY <1>1, <1>3, <1>4, <1>5, <2>1, <2>4
  <2>5. CASE ExecutionStep
    BY <1>1, <1>6, <2>2, <2>5
  <2> QED
    BY <1>1, <1>7, <1>9, <2>3, <2>4, <2>5 DEF RunsNext
<1> QED
  BY <1>8, <1>9

\* A call writes only its own record.
LEMMA CallWrites ==
  ASSUME calls \in [Calls -> CallRecord], NEW c \in Calls
  PROVE  /\ \A stage : Go(c, stage) =>
              /\ calls'[c].stage = stage /\ calls'[c].reply = calls[c].reply
              /\ calls'[c].held = calls[c].held
              /\ \A d \in Calls : d # c => calls'[d] = calls[d]
         /\ \A stage, reply : Reply(c, stage, reply) =>
              /\ calls'[c].stage = stage /\ calls'[c].reply = reply
              /\ \A d \in Calls : d # c => calls'[d] = calls[d]
         /\ \A stage, held : calls' = [calls EXCEPT ![c].stage = stage, ![c].held = held] =>
              /\ calls'[c].stage = stage /\ calls'[c].reply = calls[c].reply
              /\ \A d \in Calls : d # c => calls'[d] = calls[d]
BY DEF CallRecord, Go, Reply

LEMMA FindWrites ==
  ASSUME calls \in [Calls -> CallRecord], NEW c \in Calls, FindOperation(c)
  PROVE  calls'[c].stage \in {"stop", "remember"}
<1>1. \/ calls' = [calls EXCEPT ![c].stage = "stop", ![c].held = operations[RunOf(c)]]
      \/ calls' = [calls EXCEPT ![c].stage = "remember", ![c].reply = "rejected"]
  BY DEF FindOperation, Reject, Reply
<1> QED
  BY <1>1 DEF CallRecord

\* A handler leaves the other calls alone.
LEMMA HandlerAlone ==
  ASSUME ShapeInv, NEW c \in Calls, Handle(c)
  PROVE  \A d \in Calls : d # c => calls'[d] = calls[d]
<1> USE DEF At, CallOnly
<1>0. calls \in [Calls -> CallRecord]
  BY DEF ShapeInv, MemoryShape
<1>1. \/ \E stage : Go(c, stage)
      \/ \E stage, reply : Reply(c, stage, reply)
      \/ \E held : calls' = [calls EXCEPT ![c].stage = "stop", ![c].held = held]
  BY DEF Handle, Replay, Create, CheckStart, Reserve, QueueRun, Track, NoteQueued, SubmitStart, CheckStop,
     FindOperation, StopRun, NoteStop, Signal, SignalBackend, FailRun, NoteFail, Remember, Reject
<1> QED
  BY <1>0, <1>1, CallWrites

\* Where a handler goes: only QueueRun launches a run, and a call that answers for
\* a run in execution passes it on or fails it.
LEMMA HandlerMoves ==
  ASSUME ShapeInv, CallInv, NEW c \in Calls, Handle(c)
  PROVE  /\ \A d \in Calls : d # c => calls'[d] = calls[d]
         /\ calls'[c].stage \notin {"new", "begin", "remember", "done"} => RunOf(c) \in DOMAIN runs
         /\ calls'[c].stage \in {"track", "note", "submit"} =>
              \/ Launching(c)
              \/ State(RunOf(c)) = "READY" /\ Transition(RunOf(c), "WAITING")
         /\ calls[c].stage \in {"track", "note", "submit", "fail"} =>
              \/ calls'[c].stage \in {"track", "note", "submit", "fail"}
              \/ SubmitStart(c) /\ active = Nobody
              \/ FailRun(c)
         /\ \/ UNCHANGED <<active, worker>>
            \/ SubmitStart(c) /\ active = Nobody
            \/ Signal(c) /\ active # Nobody
<1> USE DEF At, CallOnly
<1>0. calls \in [Calls -> CallRecord]
  BY DEF ShapeInv, MemoryShape
<1>a. calls[c].stage \notin {"new", "begin", "remember", "done"} => RunOf(c) \in DOMAIN runs
  BY DEF CallInv
<1>1. CASE Replay(c)
  BY <1>0, <1>1, CallWrites DEF Replay
<1>2. CASE Create(c)
  BY <1>0, <1>2, CallWrites DEF Create, Reject
<1>3. CASE CheckStart(c)
  BY <1>0, <1>3, CallWrites DEF CheckStart, Reject, Current
<1>4. CASE Reserve(c)
  BY <1>0, <1>a, <1>4, CallWrites DEF Reserve, Reject
<1>5. CASE QueueRun(c)
  BY <1>0, <1>a, <1>5, CallWrites DEF QueueRun, Reject
<1>6. CASE Track(c)
  BY <1>0, <1>a, <1>6, CallWrites DEF Track, Launching
<1>7. CASE NoteQueued(c)
  BY <1>0, <1>a, <1>7, CallWrites DEF NoteQueued, Launching
<1>8. CASE SubmitStart(c)
  BY <1>0, <1>a, <1>8, CallWrites DEF SubmitStart, Launching
<1>9. CASE CheckStop(c)
  BY <1>0, <1>9, CallWrites DEF CheckStop, Reject, Current
<1>10. CASE FindOperation(c)
  <2>1. \/ calls' = [calls EXCEPT ![c].stage = "stop", ![c].held = operations[RunOf(c)]]
        \/ Reply(c, "remember", "rejected")
    BY <1>10 DEF FindOperation, Reject
  <2>2. /\ calls'[c].stage \in {"stop", "remember"} /\ \A d \in Calls : d # c => calls'[d] = calls[d]
        /\ UNCHANGED <<active, worker>> /\ calls[c].stage = "find"
    BY <1>0, <1>10, <2>1, CallWrites DEF FindOperation
  <2> QED
    BY <1>a, <2>2
<1>11. CASE StopRun(c)
  BY <1>0, <1>a, <1>11, CallWrites DEF StopRun, Reject
<1>12. CASE NoteStop(c)
  BY <1>0, <1>a, <1>12, CallWrites DEF NoteStop
<1>13. CASE Signal(c)
  BY <1>0, <1>a, <1>13, CallWrites DEF Signal
<1>14. CASE SignalBackend(c)
  BY <1>0, <1>a, <1>14, CallWrites DEF SignalBackend
<1>15. CASE FailRun(c)
  BY <1>0, <1>a, <1>15, CallWrites DEF FailRun, Reject
<1>16. CASE NoteFail(c)
  BY <1>0, <1>16, CallWrites DEF NoteFail, Reject
<1>17. CASE Remember(c)
  BY <1>0, <1>17, CallWrites DEF Remember
<1> QED
  BY <1>1, <1>2, <1>3, <1>4, <1>5, <1>6, <1>7, <1>8, <1>9, <1>10, <1>11, <1>12, <1>13, <1>14,
     <1>15, <1>16, <1>17 DEF Handle

\* A step that is no handler's leaves the calls where they are, or ends them.
LEMMA OtherSteps ==
  ASSUME [RunsNext]_runsVars, ~\E c \in Calls : Handle(c)
  PROVE  \/ UNCHANGED calls /\ (UNCHANGED <<active, worker>> \/ ExecutionStep)
         \/ RestartProcess
<1>1. CASE ExecutionStep
  BY <1>1 DEF ExecutionStep, OpenStore, Configure, Prepare, StopBeforeStart, Start, StartRefused,
     ReportRunning, NoteStarted, SendEvent, LoopFails, SeeStop, StopHil, StopHilFails, Confirm,
     Compensate, Complete, NoteComplete, Leave, ReportFailed, NoteFailed, Free, ExecutionOnly
<1>2. CASE HilStops \/ HilPrepared
  BY <1>2 DEF HilStops, HilPrepared
<1> QED
  BY <1>1, <1>2 DEF RunsNext, runsVars

LEMMA CallStep ==
  ASSUME ManagementAssumption, ShapeInv, CallInv, [RunsNext]_runsVars
  PROVE  CallInv'
<1>1. DOMAIN runs \subseteq DOMAIN runs'
      /\ \A r \in DOMAIN runs : runs[r].state # "READY" => runs'[r].state # "READY"
  BY StateMoves DEF Terminal
<1>2. \A r \in DOMAIN runs : Transition(r, "WAITING") => runs'[r].state = "WAITING"
  <2>1. RunsShape /\ "WAITING" \in RunStates
    BY DEF ShapeInv, RunStates, InExecution
  <2> QED
    BY <2>1, Transits
<1>3. \A d \in Calls :
        /\ calls[d].stage \notin {"new", "begin", "remember", "done"} => RunOf(d) \in DOMAIN runs
        /\ Launching(d) => RunOf(d) \in DOMAIN runs /\ runs[RunOf(d)].state # "READY"
  BY DEF CallInv, Launching, State
<1>4. ASSUME NEW c \in Calls, Handle(c) PROVE CallInv'
  <2>1. \A d \in Calls : d # c => calls'[d] = calls[d]
    BY <1>4, HandlerMoves
  <2>2. calls'[c].stage \notin {"new", "begin", "remember", "done"} => RunOf(c) \in DOMAIN runs
    BY <1>4, HandlerMoves
  <2>3. Launching(c)' =>
          \/ Launching(c)
          \/ runs[RunOf(c)].state = "READY" /\ Transition(RunOf(c), "WAITING")
    BY <1>4, HandlerMoves DEF Launching, State
  <2>4. \A d \in Calls : Launching(d)' => RunOf(d) \in DOMAIN runs
    BY <1>3, <2>1, <2>2 DEF Launching
  <2>5. \A d \in Calls : d # c => Launching(d)' = Launching(d)
    BY <2>1 DEF Launching
  <2>6. ASSUME NEW d \in Calls, Launching(d)' PROVE runs'[RunOf(d)].state # "READY"
    BY <1>1, <1>2, <1>3, <2>3, <2>4, <2>5, <2>6
  <2>7. ASSUME NEW d \in Calls, NEW e \in Calls, Launching(d)', Launching(e)', RunOf(d) = RunOf(e)
        PROVE d = e
    <3>1. CASE Launching(d) /\ Launching(e)
      BY <2>7, <3>1 DEF CallInv
    <3>2. CASE ~(Launching(d) /\ Launching(e))
      BY <1>3, <2>3, <2>5, <2>7, <3>2
    <3> QED
      BY <3>1, <3>2
  <2>8. \A d \in Calls : calls'[d].stage \notin {"new", "begin", "remember", "done"} =>
          RunOf(d) \in DOMAIN runs'
    BY <1>1, <1>3, <2>1, <2>2
  <2>9. \A d \in Calls : RunOf(d)' = RunOf(d)
    BY DEF RunOf
  <2> QED
    BY <2>6, <2>7, <2>8, <2>9 DEF CallInv, State
<1>5. CASE UNCHANGED calls
  <2>1. \A d \in Calls : RunOf(d)' = RunOf(d) /\ Launching(d)' = Launching(d)
    BY <1>5 DEF RunOf, Launching
  <2>2. \A d \in Calls : Launching(d) => runs'[RunOf(d)].state # "READY"
    BY <1>1, <1>3
  <2> QED
    BY <1>1, <1>3, <1>5, <2>1, <2>2 DEF CallInv, State
<1>6. CASE RestartProcess
  BY <1>6 DEF RestartProcess, CallInv, Launching
<1> QED
  BY <1>4, <1>5, <1>6, OtherSteps

LEMMA ExecutionHolds ==
  ASSUME ManagementAssumption, NobodyAssumption, ShapeInv, CallInv, ExecutionInv,
         [RunsNext]_runsVars
  PROVE  ExecutionInv'
<1> USE DEF On
<1>0. /\ active \in {Nobody} \cup Executions /\ worker \in WorkerRecord
      /\ calls \in [Calls -> CallRecord] /\ RunsShape
  BY DEF ShapeInv, MemoryShape
<1>1. /\ DOMAIN runs \subseteq DOMAIN runs'
      /\ \A r \in DOMAIN runs :
           /\ runs[r].state # "READY" => runs'[r].state # "READY"
           /\ runs[r].state \in Terminal => runs'[r].state \in Terminal
  BY StateMoves DEF Terminal, InExecution
<1>2. ASSUME NEW c \in Calls, Handle(c) PROVE ExecutionInv'
  <2>1. \A d \in Calls : d # c => Launching(d)' = Launching(d)
    BY <1>2, HandlerMoves DEF Launching
  <2>2. Launching(c)' => Launching(c) \/ runs[RunOf(c)].state = "READY"
    BY <1>2, HandlerMoves DEF Launching, State
  <2>3. CASE UNCHANGED worker /\ (active = Nobody <=> active' = Nobody)
             /\ (active # Nobody => active'.op = active.op)
    <3>1. active # Nobody => Run' = Run
      BY <2>3 DEF Run, RunOf
    <3>2. Concluded' = Concluded
      BY <2>3 DEF Concluded
    <3>3. active # Nobody => \A d \in Calls : Launching(d)' => RunOf(d) # Run
      BY <2>1, <2>2 DEF ExecutionInv, State
    <3>4. \A d \in Calls : RunOf(d)' = RunOf(d)
      BY DEF RunOf
    <3>5. active # Nobody => /\ Run \in DOMAIN runs' /\ runs'[Run].state # "READY"
                             /\ Concluded => runs'[Run].state \in Terminal
      BY <1>1 DEF ExecutionInv, State
    <3> QED
      BY <2>3, <3>1, <3>2, <3>3, <3>4, <3>5 DEF ExecutionInv, State
  <2>4. CASE SubmitStart(c) /\ active = Nobody
    <3>1. /\ active' = [op |-> c, stop |-> FALSE]
          /\ worker' = [NoWorker EXCEPT !.stage = "enter"]
          /\ calls[c].stage = "submit" /\ Reply(c, "remember", "queued")
      BY <2>4 DEF SubmitStart, At
    <3>2. worker'.stage = "enter" /\ worker'.reporter = "WAITING"
      BY <3>1 DEF NoWorker
    <3>3. Run' = RunOf(c) /\ \A d \in Calls : RunOf(d)' = RunOf(d)
      BY <3>1 DEF Run, RunOf
    <3>4. Launching(c) /\ ~Launching(c)'
      BY <1>0, <3>1, CallWrites DEF Launching
    <3>5. RunOf(c) \in DOMAIN runs /\ runs[RunOf(c)].state # "READY"
      BY <3>1, <3>4 DEF CallInv, State
    <3>6. \A d \in Calls : Launching(d)' => RunOf(d) # RunOf(c)
      BY <2>1, <3>4 DEF CallInv
    <3>7. ~Concluded'
      BY <3>2 DEF Concluded, Terminal
    <3>8. active' # Nobody
      <4>1. active' \in Executions
        BY <3>1 DEF Executions
      <4> QED
        BY <4>1 DEF NobodyAssumption
    <3> QED
      BY <1>1, <3>2, <3>3, <3>5, <3>6, <3>7, <3>8 DEF ExecutionInv, State, Terminal
  <2>5. CASE Signal(c) /\ active # Nobody
    <3>1. active \in Executions /\ active' \in Executions /\ active'.op = active.op
      BY <1>0, <2>5 DEF Signal, Executions
    <3>2. active' # Nobody /\ UNCHANGED worker
      BY <2>5, <3>1 DEF NobodyAssumption, Signal
    <3> QED
      BY <2>3, <2>5, <3>1, <3>2
  <2> QED
    BY <1>2, <2>3, <2>4, <2>5, HandlerMoves
<1>3. ASSUME UNCHANGED <<calls, active>>, active # Nobody, worker'.stage # "none",
             Concluded' => worker'.stage \in {"noteComplete", "leave", "noteFailed", "free"},
             worker'.stage \in {"noteComplete", "noteFailed", "free"} => Concluded',
             Concluded' => Concluded \/ runs'[Run].state \in Terminal
      PROVE  ExecutionInv'
  <2>1. Run' = Run /\ \A d \in Calls : RunOf(d)' = RunOf(d) /\ Launching(d)' = Launching(d)
    BY <1>3 DEF Run, RunOf, Launching
  <2>2. /\ Run \in DOMAIN runs' /\ runs'[Run].state # "READY"
        /\ Concluded' => runs'[Run].state \in Terminal
        /\ \A d \in Calls : Launching(d) => RunOf(d) # Run
    BY <1>1, <1>3 DEF ExecutionInv, State
  <2> QED
    BY <1>3, <2>1, <2>2 DEF ExecutionInv, State
<1>4. CASE ExecutionStep
  <2>0. worker.stage # "none" => active # Nobody
    BY DEF ExecutionInv
  <2>1. ASSUME UNCHANGED <<calls, active>>, worker.stage # "none", worker'.reporter = worker.reporter,
               worker.reporter \notin Terminal, worker'.stage \notin {"none", "noteComplete", "noteFailed", "free"}
        PROVE  ExecutionInv'
    BY <1>3, <2>0, <2>1 DEF Concluded
  <2>2. CASE \/ OpenStore \/ Configure \/ StopBeforeStart \/ Start \/ StartRefused \/ NoteStarted
             \/ SendEvent \/ LoopFails \/ SeeStop \/ StopHil \/ StopHilFails \/ Confirm \/ Compensate
    <3>1. /\ UNCHANGED <<calls, active>>
          /\ worker.stage \in {"enter", "opened", "configured", "noteStarted", "loop", "stop",
                               "stopped", "compensate"}
      BY <2>2 DEF OpenStore, Configure, Prepare, StopBeforeStart, Start, StartRefused, NoteStarted,
         SendEvent, LoopFails, SeeStop, StopHil, StopHilFails, Confirm, Compensate, ExecutionOnly
    <3>2. worker.reporter \notin Terminal
      BY <3>1 DEF ExecutionInv, Concluded
    <3>3. /\ worker'.reporter = worker.reporter
          /\ worker'.stage \notin {"none", "noteComplete", "noteFailed", "free"}
      BY <1>0, <2>2 DEF OpenStore, Configure, Prepare, StopBeforeStart, Start, StartRefused, NoteStarted,
         SendEvent, LoopFails, SeeStop, StopHil, StopHilFails, Confirm, Compensate, ExecutionOnly,
         Work, Unwound, WorkerRecord
    <3> QED
      BY <2>1, <3>1, <3>2, <3>3
  <2>3. CASE ReportRunning
    <3>1. /\ UNCHANGED <<calls, active>> /\ worker.stage = "started"
          /\ worker'.reporter = "RUNNING" /\ worker'.stage \in {"noteStarted", "loop"}
      BY <1>0, <2>3 DEF ReportRunning, WorkerRecord
    <3> QED
      BY <1>3, <2>0, <3>1 DEF Concluded, Terminal
  <2>4. CASE Complete \/ ReportFailed
    <3>1. /\ UNCHANGED <<calls, active>> /\ worker.stage \in {"complete", "report"}
          /\ worker'.stage \in {"noteComplete", "leave", "noteFailed", "free"} /\ Concluded'
      BY <1>0, <2>4 DEF Complete, ReportFailed, WorkerRecord, Concluded, Terminal
    <3>2. Run \in DOMAIN runs /\ runs[Run].state # "READY" /\ runs[Run] \in RunRecord
      <4>1. Run \in DOMAIN runs /\ runs[Run].state # "READY"
        BY <2>0, <3>1 DEF ExecutionInv, State
      <4>2. runs \in Seq(RunRecord)
        BY <1>0 DEF RunsShape
      <4> QED
        BY <4>1, <4>2
    <3>3. CASE runs[Run].state \in InExecution
      <4>1. \E state \in Terminal : Transition(Run, state)
        BY <2>4, <3>3 DEF Complete, ReportFailed, Failable, State, Terminal
      <4>2. Terminal \subseteq RunStates
        BY DEF RunStates
      <4>3. runs'[Run].state \in Terminal
        BY <1>0, <3>2, <4>1, <4>2, Transits
      <4> QED
        BY <1>3, <2>0, <3>1, <4>3
    <3>4. CASE runs[Run].state \notin InExecution
      <4>1. runs[Run].state \in Terminal
        BY <3>2, <3>4 DEF RunRecord, RunStates
      <4> QED
        BY <1>1, <1>3, <2>0, <3>1, <3>2, <4>1
    <3> QED
      BY <3>3, <3>4
  <2>5. CASE NoteComplete \/ NoteFailed
    <3>1. /\ UNCHANGED <<calls, active>> /\ worker.stage \in {"noteComplete", "noteFailed"}
          /\ worker'.stage \in {"leave", "free"} /\ worker'.reporter = worker.reporter
      BY <1>0, <2>5 DEF NoteComplete, NoteFailed, Work, WorkerRecord
    <3>2. Concluded /\ Concluded'
      BY <3>1 DEF ExecutionInv, Concluded
    <3> QED
      BY <1>3, <2>0, <3>1, <3>2
  <2>6. CASE Leave
    <3>1. /\ active # Nobody /\ active \in Executions /\ UNCHANGED active
          /\ UNCHANGED <<calls, runs>> /\ worker.stage = "leave" /\ worker'.reporter = worker.reporter
          /\ worker'.stage = IF worker.reporter \in Terminal THEN "free" ELSE "report"
      BY <1>0, <2>0, <2>6 DEF Leave, Work, WorkerRecord, runStoreVars
    <3>2. active' \in Executions /\ active'.op = active.op
      BY <1>0, <3>1
    <3>3. active' # Nobody
      BY <3>1
    <3>4. Run' = Run /\ \A d \in Calls : RunOf(d)' = RunOf(d) /\ Launching(d)' = Launching(d)
      BY <3>1, <3>2 DEF Run, RunOf, Launching
    <3>5. Concluded' = Concluded
      BY <3>1 DEF Concluded
    <3>5a. worker'.stage = IF Concluded THEN "free" ELSE "report"
      BY <3>1 DEF Concluded
    <3>6. /\ Run \in DOMAIN runs /\ runs[Run].state # "READY"
          /\ Concluded => runs[Run].state \in Terminal
          /\ \A d \in Calls : Launching(d) => RunOf(d) # Run
      BY <3>1 DEF ExecutionInv, State
    <3> QED
      BY <3>1, <3>3, <3>4, <3>5, <3>5a, <3>6 DEF ExecutionInv, State
  <2>7. CASE Free
    <3>1. active' = Nobody /\ worker'.stage = "none" /\ worker'.reporter = "WAITING"
      BY <2>7 DEF Free, NoWorker
    <3> QED
      BY <3>1 DEF ExecutionInv, Terminal, Concluded
  <2> QED
    BY <1>4, <2>2, <2>3, <2>4, <2>5, <2>6, <2>7 DEF ExecutionStep
<1>5. CASE UNCHANGED <<calls, active, worker>>
  <2>1. Concluded' = Concluded
    BY <1>5 DEF Concluded
  <2>2. CASE active = Nobody
    BY <1>5, <2>1, <2>2 DEF ExecutionInv
  <2>3. CASE active # Nobody
    BY <1>3, <1>5, <2>1, <2>3 DEF ExecutionInv
  <2> QED
    BY <2>2, <2>3
<1>6. CASE RestartProcess
  <2>1. active' = Nobody /\ worker'.stage = "none" /\ worker'.reporter = "WAITING"
    BY <1>6 DEF RestartProcess, NoWorker
  <2> QED
    BY <2>1 DEF ExecutionInv, Terminal, Concluded
<1> QED
  BY <1>2, <1>4, <1>5, <1>6, OtherSteps

LEMMA NobodyStep ==
  ASSUME ManagementAssumption, NobodyAssumption, ShapeInv, CallInv, ExecutionInv, NobodyForgotten,
         [RunsNext]_runsVars
  PROVE  NobodyForgotten'
<1> DEFINE Owed(r) == \E c \in Calls : /\ RunOf(c) = r
                                       /\ calls[c].stage \in {"track", "note", "submit", "fail"}
<1> SUFFICES ASSUME NEW r \in DOMAIN runs', runs'[r].state \in InExecution
             PROVE  (active' # Nobody /\ Run' = r) \/ Owed(r)'
  BY DEF NobodyForgotten, State, RunOf
<1>0. /\ active \in {Nobody} \cup Executions /\ worker \in WorkerRecord
      /\ calls \in [Calls -> CallRecord] /\ RunsShape /\ FactsShape
  BY DEF ShapeInv, MemoryShape
<1>1. /\ r \in DOMAIN runs
      /\ runs[r].state \in InExecution \/ \E c \in Calls : QueueRun(c) /\ RunOf(c) = r
         /\ runs[r].state = "READY"
  BY StateMoves DEF InExecution, Terminal
<1>2. ASSUME NEW c \in Calls, QueueRun(c), RunOf(c) = r, runs[r].state = "READY"
      PROVE  Owed(r)'
  <2>1. Go(c, "track")
    BY <1>2 DEF QueueRun, State
  <2>2. calls'[c].stage = "track" /\ RunOf(c)' = r
    BY <1>0, <1>2, <2>1, CallWrites DEF RunOf
  <2> QED
    BY <2>2
<1>3. CASE runs[r].state \in InExecution
  <2>1. (active # Nobody /\ Run = r) \/ Owed(r)
    BY <1>1, <1>3 DEF NobodyForgotten, State
  <2>2. active # Nobody /\ Run = r => ~Concluded
    BY <1>3 DEF ExecutionInv, State, InExecution, Terminal
  <2>3. ASSUME NEW c \in Calls, Handle(c)
        PROVE (active' # Nobody /\ Run' = r) \/ Owed(r)'
    <3>1. CASE active # Nobody /\ Run = r
      <4>1. UNCHANGED active \/ Signal(c)
        BY <2>3, <3>1, HandlerMoves
      <4>2. active' \in Executions /\ active'.op = active.op
        BY <1>0, <3>1, <4>1 DEF Signal, Executions
      <4> QED
        BY <3>1, <4>2 DEF NobodyAssumption, Run, RunOf
    <3>2. ASSUME NEW d \in Calls, RunOf(d) = r, d # c,
                 calls[d].stage \in {"track", "note", "submit", "fail"}
          PROVE  Owed(r)'
      <4>1. calls'[d] = calls[d] /\ RunOf(d)' = r
        BY <2>3, <3>2, HandlerMoves DEF RunOf
      <4> QED
        BY <3>2, <4>1
    <3>3. CASE RunOf(c) = r /\ calls[c].stage \in {"track", "note", "submit", "fail"}
      <4>1. CASE calls'[c].stage \in {"track", "note", "submit", "fail"}
        <5>1. RunOf(c)' = r
          BY <3>3 DEF RunOf
        <5> QED
          BY <4>1, <5>1
      <4>2. CASE SubmitStart(c) /\ active = Nobody
        <5>1. active' = [op |-> c, stop |-> FALSE]
          BY <4>2 DEF SubmitStart
        <5>2. active' \in Executions
          BY <5>1 DEF Executions
        <5> QED
          BY <3>3, <5>1, <5>2 DEF NobodyAssumption, Run, RunOf
      <4>3. CASE FailRun(c)
        <5>1. Transition(r, "FAILED")
          BY <1>3, <3>3, <4>3 DEF FailRun, Failable, State
        <5>2. runs'[r].state = "FAILED"
          BY <1>0, <1>1, <5>1, Transits DEF RunStates, Terminal
        <5> QED
          BY <5>2 DEF InExecution
      <4> QED
        BY <2>3, <3>3, <4>1, <4>2, <4>3, HandlerMoves
    <3> QED
      BY <2>1, <3>1, <3>2, <3>3
  <2>4. CASE UNCHANGED <<calls, active>>
    BY <2>1, <2>4 DEF Run, RunOf
  <2>5. CASE ExecutionStep /\ UNCHANGED calls
    <3>1. CASE Owed(r)
      BY <2>5, <3>1 DEF RunOf
    <3>2. CASE active # Nobody /\ Run = r
      <4>1. UNCHANGED active \/ Leave \/ Free
        BY <2>5 DEF ExecutionStep, OpenStore, Configure, Prepare, StopBeforeStart, Start, StartRefused,
           ReportRunning, NoteStarted, SendEvent, LoopFails, SeeStop, StopHil, StopHilFails, Confirm,
           Compensate, Complete, NoteComplete, ReportFailed, NoteFailed, ExecutionOnly
      <4>2. ~Free
        BY <2>2, <3>2 DEF Free, On, ExecutionInv
      <4>3. active' \in Executions /\ active'.op = active.op
        BY <1>0, <3>2, <4>1, <4>2 DEF Leave, Executions
      <4> QED
        BY <3>2, <4>3 DEF NobodyAssumption, Run, RunOf
    <3> QED
      BY <2>1, <3>1, <3>2
  <2>6. ~RestartProcess
    <3>1. RestartProcess => runs'[r].state = Recovered(r).state
      BY <1>0, <1>1, RestartShape
    <3> QED
      BY <1>3, <3>1 DEF Recovered, State, InExecution
  <2> QED
    BY <2>3, <2>4, <2>5, <2>6, OtherSteps
<1> QED
  BY <1>1, <1>2, <1>3

\* Of any two runs, one is over.
OneOpen ==
  \A r, s \in DOMAIN runs : runs[r].state \notin Terminal /\ runs[s].state \notin Terminal => r = s

LEMMA OpenStep ==
  ASSUME ManagementAssumption, ShapeInv, OneOpen, [RunsNext]_runsVars
  PROVE  OneOpen'
<1> SUFFICES ASSUME NEW r \in DOMAIN runs', NEW s \in DOMAIN runs',
                    runs'[r].state \notin Terminal, runs'[s].state \notin Terminal
             PROVE  r = s
  BY DEF OneOpen
<1>1. ASSUME NEW x \in DOMAIN runs', runs'[x].state \notin Terminal, x \in DOMAIN runs
      PROVE  runs[x].state \notin Terminal
  BY <1>1, StateMoves DEF Terminal, InExecution
<1>2. CASE r \in DOMAIN runs /\ s \in DOMAIN runs
  BY <1>1, <1>2 DEF OneOpen
<1>3. CASE r \notin DOMAIN runs \/ s \notin DOMAIN runs
  BY <1>3, StateMoves
<1> QED
  BY <1>2, <1>3

LEMMA OneIsOne == ASSUME OneOpen PROVE OneRunAtATime
<1> DEFINE Unfinished == {r \in DOMAIN runs : State(r) \notin Terminal}
<1>1. CASE Unfinished = {}
  <2>1. Cardinality(Unfinished) = 0
    BY <1>1, FS_EmptySet
  <2> QED
    BY <2>1 DEF OneRunAtATime
<1>2. CASE Unfinished # {}
  <2>1. PICK r \in Unfinished : TRUE
    BY <1>2
  <2>2. Unfinished = {r}
    BY <2>1 DEF OneOpen, State
  <2>3. Cardinality(Unfinished) = 1
    BY <2>2, FS_Singleton
  <2> QED
    BY <2>3 DEF OneRunAtATime
<1> QED
  BY <1>1, <1>2

-----------------------------------------------------------------------------
(* Answers.                                                                *)

\* What is stored is never replaced, and a call that ends is told what is stored.
LEMMA AnswerMoves ==
  ASSUME ShapeInv, NEW c \in Calls, Handle(c)
  PROVE  \/ UNCHANGED answers /\ calls'[c].stage # "done"
         \/ Replay(c) /\ calls'[c].stage = "begin"
         \/ Replay(c) /\ Reply(c, "done", answers[Request[c].id].reply) /\ SameRequest(c)
                      /\ answers[Request[c].id] # Nobody
         \/ Replay(c) /\ Reply(c, "done", "rejected") /\ ~SameRequest(c)
                      /\ answers[Request[c].id] # Nobody
         \/ Remember(c)
<1> USE DEF At, CallOnly, runStoreVars
<1>0. calls \in [Calls -> CallRecord]
  BY DEF ShapeInv, MemoryShape
<1>1. CASE Replay(c)
  BY <1>0, <1>1, CallWrites DEF Replay
<1>2. CASE Create(c)
  BY <1>0, <1>2, CallWrites DEF Create, Reject
<1>3. CASE CheckStart(c) \/ CheckStop(c) \/ SignalBackend(c)
  BY <1>0, <1>3, CallWrites DEF CheckStart, CheckStop, SignalBackend, Reject
<1>4. CASE Reserve(c)
  BY <1>0, <1>4, CallWrites DEF Reserve, Reject
<1>5. CASE QueueRun(c) \/ Track(c) \/ NoteQueued(c) \/ SubmitStart(c)
  BY <1>0, <1>5, CallWrites DEF QueueRun, Track, NoteQueued, SubmitStart, Reject
<1>6. CASE FindOperation(c)
  <2>1. calls'[c].stage \in {"stop", "remember"}
    BY <1>0, <1>6, FindWrites
  <2> QED
    BY <1>6, <2>1 DEF FindOperation
<1>7. CASE StopRun(c) \/ NoteStop(c) \/ Signal(c)
  BY <1>0, <1>7, CallWrites DEF StopRun, NoteStop, Signal, Reject
<1>8. CASE FailRun(c) \/ NoteFail(c)
  BY <1>0, <1>8, CallWrites DEF FailRun, NoteFail, Reject
<1> QED
  BY <1>1, <1>2, <1>3, <1>4, <1>5, <1>6, <1>7, <1>8 DEF Handle

LEMMA AnswerStep ==
  ASSUME ManagementAssumption, NobodyAssumption, ShapeInv, AnswerInv, [RunsNext]_runsVars
  PROVE  AnswerInv'
<1> USE DEF At
<1> DEFINE Real == Replies \ {"none", "lost", "error"}
           Told(d) == \/ answers[Request[d].id] = Stored(d, calls[d].reply)
                      \/ ~SameRequest(d) /\ calls[d].reply = "rejected"
<1>0. calls \in [Calls -> CallRecord] /\ AnswersShape /\ MemoryShape
  BY DEF ShapeInv, MemoryShape
<1>1. ASSUME NEW d \in Calls, calls'[d] = calls[d],
             answers'[Request[d].id] = answers[Request[d].id],
             calls[d].stage = "done", calls[d].reply \notin {"none", "lost", "error"}
      PROVE  answers'[Request[d].id] # Nobody /\ Told(d)'
  <2>1. SameRequest(d)' = SameRequest(d)
    BY <1>1 DEF SameRequest, Stored
  <2>2. \A reply : Stored(d, reply)' = Stored(d, reply)
    BY DEF Stored
  <2> QED
    BY <1>1, <2>1, <2>2 DEF AnswerInv, Stored
<1>2. ASSUME NEW c \in Calls, Handle(c), NEW d \in Calls,
             calls'[d].stage = "done", calls'[d].reply \notin {"none", "lost", "error"}
      PROVE  answers'[Request[d].id] # Nobody /\ Told(d)'
  <2>1. CASE UNCHANGED answers /\ calls'[c].stage # "done"
    BY <1>1, <1>2, <2>1, HandlerAlone
  <2>2. CASE Replay(c)
    <3>1. UNCHANGED answers
      BY <2>2 DEF Replay, CallOnly, runStoreVars
    <3>2. CASE d # c
      BY <1>1, <1>2, <3>1, <3>2, HandlerAlone
    <3>3. CASE d = c
      <4>1. calls'[c].stage # "begin"
        BY <1>2, <3>3
      <4>2. answers[Request[c].id] # Nobody
        BY <1>2, <2>1, <3>1, <3>3, <4>1, <2>2, <1>0, CallWrites DEF Replay
      <4>3. SameRequest(c)' = SameRequest(c)
        BY <3>1 DEF SameRequest, Stored
      <4>4. CASE SameRequest(c)
        <5>1. Reply(c, "done", answers[Request[c].id].reply)
          BY <2>2, <4>2, <4>4 DEF Replay
        <5>2. calls'[c].reply = answers[Request[c].id].reply
          BY <1>0, <5>1, CallWrites
        <5>3. answers[Request[c].id] = Stored(c, calls'[c].reply)
          BY <4>4, <5>2 DEF SameRequest, Stored
        <5> QED
          BY <3>1, <3>3, <4>2, <5>3 DEF Stored
      <4>5. CASE ~SameRequest(c)
        <5>1. Reply(c, "done", "rejected")
          BY <2>2, <4>2, <4>5 DEF Replay
        <5>2. calls'[c].reply = "rejected"
          BY <1>0, <5>1, CallWrites
        <5> QED
          BY <3>1, <3>3, <4>2, <4>3, <4>5, <5>2
      <4> QED
        BY <4>4, <4>5
    <3> QED
      BY <3>2, <3>3
  <2>3. CASE Remember(c)
    <3>1. Answered(c).reply \in Replies
      BY <1>0, <2>3, RememberShape
    <3>2. Reply(c, "done", Answered(c).reply) /\ calls'[c].reply = Answered(c).reply
      BY <1>0, <2>3, CallWrites DEF Remember
    <3>3. CASE Answered(c).new
      <4>1. answers[Request[c].id] = Nobody
        BY <3>3 DEF Answered
      <4>2. answers' = [answers EXCEPT ![Request[c].id] = Stored(c, Answered(c).reply)]
        BY <2>3, <3>3 DEF Remember
      <4>3. Request[c].id \in Ids
        BY DEF Ids
      <4>4. answers'[Request[c].id] = Stored(c, Answered(c).reply)
        BY <1>0, <4>2, <4>3 DEF AnswersShape
      <4>5. Stored(c, Answered(c).reply) # Nobody
        <5>1. Stored(c, Answered(c).reply) \in StoredAnswers
          BY <3>1 DEF Stored, StoredAnswers, ManagementAssumption
        <5> QED
          BY <5>1 DEF NobodyAssumption
      <4>6. CASE d = c
        BY <3>2, <4>4, <4>5, <4>6 DEF Stored
      <4>7. CASE d # c
        <5>1. calls'[d] = calls[d]
          BY <1>2, <4>7, HandlerAlone
        <5>2. Request[d].id # Request[c].id
          BY <1>2, <4>1, <5>1 DEF AnswerInv
        <5>3. answers'[Request[d].id] = answers[Request[d].id]
          BY <1>0, <4>2, <5>2 DEF AnswersShape, Ids
        <5> QED
          BY <1>1, <1>2, <5>1, <5>3
      <4> QED
        BY <4>6, <4>7
    <3>4. CASE ~Answered(c).new
      <4>1. UNCHANGED answers
        BY <2>3, <3>4 DEF Remember
      <4>2. CASE d = c
        <5>1. answers[Request[c].id] # Nobody /\ SameRequest(c)
              /\ calls'[c].reply = answers[Request[c].id].reply
          BY <1>2, <3>2, <3>4, <4>2 DEF Answered
        <5>2. answers[Request[c].id] = Stored(c, calls'[c].reply)
          BY <5>1 DEF SameRequest, Stored
        <5> QED
          BY <4>1, <4>2, <5>1, <5>2 DEF Stored
      <4>3. CASE d # c
        BY <1>1, <1>2, <4>1, <4>3, HandlerAlone
      <4> QED
        BY <4>2, <4>3
    <3> QED
      BY <3>3, <3>4
  <2> QED
    BY <1>2, <2>1, <2>2, <2>3, AnswerMoves
<1>3. CASE UNCHANGED <<calls, answers>>
  BY <1>1, <1>3 DEF AnswerInv
<1>4. CASE RestartProcess
  BY <1>1, <1>4 DEF AnswerInv, RestartProcess
<1>5. ASSUME ~\E c \in Calls : Handle(c), ~RestartProcess PROVE UNCHANGED <<calls, answers>>
  BY <1>5 DEF RunsNext, runsVars, ExecutionStep, OpenStore, Configure, Prepare, StopBeforeStart, Start,
     StartRefused, ReportRunning, NoteStarted, SendEvent, LoopFails, SeeStop, StopHil, StopHilFails,
     Confirm, Compensate, Complete, NoteComplete, Leave, ReportFailed, NoteFailed, Free, ExecutionOnly,
     HilStops, HilPrepared, runStoreVars
<1>6. CASE \E c \in Calls : Handle(c)
  BY <1>2, <1>6 DEF AnswerInv
<1> QED
  BY <1>3, <1>4, <1>5, <1>6

LEMMA AnswersAgree == ASSUME ShapeInv, AnswerInv PROVE AnswersStand
<1>1. calls \in [Calls -> CallRecord]
  BY DEF ShapeInv, MemoryShape
<1> SUFFICES ASSUME NEW c \in Calls, NEW d \in Calls, Request[c] = Request[d],
                    calls[c].reply \notin {"none", "lost", "error"},
                    calls[d].reply \notin {"none", "lost", "error"}, At(c, "done"), At(d, "done")
             PROVE  calls[c].reply = calls[d].reply
  BY DEF AnswersStand
<1>2. SameRequest(c) = SameRequest(d)
  BY DEF SameRequest, Stored
<1>3. \A e \in Calls : answers[Request[e].id] = Stored(e, calls[e].reply) => SameRequest(e)
  BY <1>1 DEF SameRequest, CallRecord
<1>4. CASE SameRequest(c)
  <2>1. \A e \in {c, d} : answers[Request[e].id] = Stored(e, calls[e].reply)
    BY <1>2, <1>4 DEF AnswerInv
  <2>2. Stored(c, calls[c].reply) = Stored(d, calls[d].reply)
    BY <2>1
  <2> QED
    BY <2>2 DEF Stored
<1>5. CASE ~SameRequest(c)
  BY <1>2, <1>3, <1>5 DEF AnswerInv
<1> QED
  BY <1>4, <1>5

-----------------------------------------------------------------------------
(* What a step does to the facts.                                          *)

\* The steps that give r a result.
Closes(r) ==
  \/ \E c \in Calls : NoteFail(c) /\ RunOf(c) = r
  \/ (NoteComplete \/ NoteFailed) /\ Run = r
  \/ RestartProcess /\ State(r) \in InExecution

LEMMA FactsMove ==
  ASSUME ManagementAssumption, ShapeInv, [RunsNext]_runsVars, NEW r \in DOMAIN runs'
  PROVE  \/ r \notin DOMAIN runs /\ facts'[r] = << >>
         \/ /\ r \in DOMAIN runs /\ facts[r] \in Seq(Reasons)
            /\ \/ facts'[r] = facts[r]
               \/ \E new \in Seq(Reasons) :
                    /\ ~Ended(new) /\ facts'[r] = Kept(facts[r] \o new)
               \/ \E new \in Seq(Reasons) :
                    /\ Closes(r) /\ EndedOnce(new) /\ facts'[r] = Kept(facts[r] \o new)
                    /\ (\E i \in DOMAIN new : new[i] = "EXECUTION_INCOMPLETE") => NoteComplete /\ Run = r
<1> USE DEF runStoreVars
<1> DEFINE Goal ==
      \/ r \notin DOMAIN runs /\ facts'[r] = << >>
      \/ /\ r \in DOMAIN runs /\ facts[r] \in Seq(Reasons)
         /\ \/ facts'[r] = facts[r]
            \/ \E new \in Seq(Reasons) :
                 /\ ~Ended(new) /\ facts'[r] = Kept(facts[r] \o new)
            \/ \E new \in Seq(Reasons) :
                 /\ Closes(r) /\ EndedOnce(new) /\ facts'[r] = Kept(facts[r] \o new)
                 /\ (\E i \in DOMAIN new : new[i] = "EXECUTION_INCOMPLETE") => NoteComplete /\ Run = r
<1>0. /\ RunsShape /\ FactsShape /\ RunsTypeOK
      /\ runs \in Seq(RunRecord) /\ facts \in Seq(Seq(Reasons)) /\ Len(facts) = Len(runs)
  BY ShapeIsType DEF ShapeInv, RunsShape, FactsShape
<1>1. DOMAIN facts = DOMAIN runs /\ \A x \in DOMAIN runs : facts[x] \in Seq(Reasons)
  BY <1>0
<1>2. ASSUME UNCHANGED facts, r \in DOMAIN runs PROVE Goal
  BY <1>1, <1>2
<1>3. ASSUME NEW x, NEW new \in Seq(Reasons), Recorded(x, new), r \in DOMAIN runs,
             \/ ~Ended(new)
             \/ /\ Closes(x) /\ EndedOnce(new)
                /\ (\E i \in DOMAIN new : new[i] = "EXECUTION_INCOMPLETE") => NoteComplete /\ Run = x
      PROVE  Goal
  <2>1. CASE r = x
    BY <1>1, <1>3, <2>1 DEF Recorded
  <2>2. CASE r # x
    BY <1>1, <1>3, <2>2 DEF Recorded
  <2> QED
    BY <2>1, <2>2
<1>4. ASSUME NEW x, NEW reason \in Reasons \ Results, Note(x, reason), r \in DOMAIN runs
      PROVE  Goal
  <2>1. <<reason>> \in Seq(Reasons) /\ Recorded(x, <<reason>>)
    BY <1>0, <1>4, NoteRecords
  <2>2. ~Ended(<<reason>>)
    BY <1>4 DEF Ended
  <2> QED
    BY <1>3, <1>4, <2>1, <2>2
<1>5. /\ EndedOnce(<<"REJECTED", "EXECUTION_FAILED">>) /\ EndedOnce(<<"EXECUTION_INCOMPLETE">>)
      /\ EndedOnce(<<"RECOVERY_INCOMPLETE">>)
      /\ ~Ended(<<"TX", "APPLIED">>)
      /\ ~\E i \in DOMAIN <<"REJECTED", "EXECUTION_FAILED">> :
            <<"REJECTED", "EXECUTION_FAILED">>[i] = "EXECUTION_INCOMPLETE"
      /\ ~\E i \in DOMAIN <<"RECOVERY_INCOMPLETE">> :
            <<"RECOVERY_INCOMPLETE">>[i] = "EXECUTION_INCOMPLETE"
  BY DEF EndedOnce, Ended, Results
<1>6. {"START_QUEUED", "HIL_START_APPLIED", "STOP_REQUESTED", "HIL_STOP_APPLIED"} \subseteq Reasons \ Results
  BY DEF Reasons, Results
<1>7. ASSUME NEW c \in Calls, Create(c) PROVE Goal
  <2>1. CASE Creatable
    <3>1. /\ runs' = Append(runs, [state |-> "READY", rev |-> 1]) /\ facts' = Append(facts, << >>)
      BY <1>7, <2>1 DEF Create
    <3>2. /\ << >> \in Seq(Reasons)
          /\ DOMAIN runs' = 1 .. (Len(runs) + 1) /\ Len(runs) \in Nat /\ DOMAIN runs = 1 .. Len(runs)
      BY <1>0, <3>1
    <3>3. r \in 1 .. Len(facts) \/ r = Len(facts) + 1
      BY <1>0, <3>2
    <3>4. CASE r \in 1 .. Len(facts)
      <4>1. facts'[r] = facts[r]
        BY <1>0, <3>1, <3>2, <3>4
      <4> QED
        BY <1>0, <1>1, <3>2, <3>4, <4>1
    <3>5. CASE r = Len(facts) + 1
      <4>1. facts'[r] = << >>
        <5>1. Append(facts, << >>)[Len(facts) + 1] = << >>
          BY <1>0, <3>2
        <5> QED
          BY <3>1, <3>5, <5>1
      <4>2. r \notin DOMAIN runs
        BY <1>0, <3>2, <3>5
      <4> QED
        BY <4>1, <4>2
    <3> QED
      BY <3>3, <3>4, <3>5
  <2>2. CASE ~Creatable
    BY <1>2, <1>7, <2>2 DEF Create
  <2> QED
    BY <2>1, <2>2
<1>8. ASSUME NEW c \in Calls, Handle(c), ~Create(c) PROVE Goal
  <2>0. DOMAIN runs' = DOMAIN runs
    <3>1. UNCHANGED runs \/ \E x, state : Transition(x, state)
      BY <1>8 DEF Handle, Replay, CheckStart, Reserve, QueueRun, Track, NoteQueued, SubmitStart, CheckStop,
         FindOperation, StopRun, NoteStop, Signal, SignalBackend, FailRun, NoteFail, Remember, CallOnly
    <3> QED
      BY <3>1 DEF Transition
  <2>1. CASE NoteQueued(c) \/ NoteStop(c)
    BY <1>4, <1>6, <2>0, <2>1 DEF NoteQueued, NoteStop
  <2>2. CASE NoteFail(c)
    <3>1. Recorded(RunOf(c), <<"REJECTED", "EXECUTION_FAILED">>)
      BY <2>2 DEF NoteFail, NoteResult, Recorded
    <3>2. Closes(RunOf(c))
      BY <2>2 DEF Closes
    <3> QED
      BY <1>3, <1>5, <2>0, <3>1, <3>2, ReasonLists
  <2>3. CASE ~(NoteQueued(c) \/ NoteStop(c) \/ NoteFail(c))
    <3>1. UNCHANGED facts
      BY <1>8, <2>3 DEF Handle, Replay, CheckStart, Reserve, QueueRun, Track, SubmitStart, CheckStop,
         FindOperation, StopRun, Signal, SignalBackend, FailRun, Remember, CallOnly
    <3> QED
      BY <1>2, <2>0, <3>1
  <2> QED
    BY <2>1, <2>2, <2>3
<1>9. ASSUME ExecutionStep PROVE Goal
  <2>0. DOMAIN runs' = DOMAIN runs
    <3>1. UNCHANGED runs \/ \E x, state : Transition(x, state)
      BY <1>9 DEF ExecutionStep, OpenStore, Configure, Prepare, StopBeforeStart, Start, StartRefused,
         ReportRunning, NoteStarted, SendEvent, LoopFails, SeeStop, StopHil, StopHilFails, Confirm,
         Compensate, Complete, NoteComplete, Leave, ReportFailed, NoteFailed, Free, ExecutionOnly
    <3> QED
      BY <3>1 DEF Transition
  <2>1. CASE NoteStarted \/ StopHil \/ Compensate
    BY <1>2, <1>4, <1>6, <2>0, <2>1 DEF NoteStarted, StopHil, Compensate
  <2>2. CASE SendEvent
    <3>1. Recorded(Run, <<"TX", "APPLIED">>)
      BY <2>2 DEF SendEvent, Recorded
    <3> QED
      BY <1>3, <1>5, <2>0, <3>1, ReasonLists
  <2>3. CASE NoteComplete
    <3>1. Recorded(Run, <<"EXECUTION_INCOMPLETE">>)
      BY <2>3 DEF NoteComplete, NoteResult, Recorded
    <3>2. Closes(Run)
      BY <2>3 DEF Closes
    <3> QED
      BY <1>3, <1>5, <2>0, <2>3, <3>1, <3>2, ReasonLists
  <2>4. CASE NoteFailed
    <3>1. Recorded(Run, <<"REJECTED", "EXECUTION_FAILED">>)
      BY <2>4 DEF NoteFailed, NoteResult, Recorded
    <3>2. Closes(Run)
      BY <2>4 DEF Closes
    <3> QED
      BY <1>3, <1>5, <2>0, <3>1, <3>2, ReasonLists
  <2>5. CASE ~(NoteStarted \/ StopHil \/ Compensate \/ SendEvent \/ NoteComplete \/ NoteFailed)
    <3>1. UNCHANGED facts
      BY <1>9, <2>5 DEF ExecutionStep, OpenStore, Configure, Prepare, StopBeforeStart, Start, StartRefused,
         ReportRunning, LoopFails, SeeStop, StopHilFails, Confirm, Complete, Leave, ReportFailed, Free,
         ExecutionOnly
    <3> QED
      BY <1>2, <2>0, <3>1
  <2> QED
    BY <2>1, <2>2, <2>3, <2>4, <2>5
<1>10. ASSUME RestartProcess PROVE Goal
  <2>1. r \in DOMAIN runs /\ facts'[r] = RecoveredFacts(r)
    BY <1>0, <1>10, RestartShape
  <2>2. Append(facts[r], "RECOVERY_INCOMPLETE") = facts[r] \o <<"RECOVERY_INCOMPLETE">>
    BY <1>1, <2>1
  <2>3. <<"RECOVERY_INCOMPLETE">> \in Seq(Reasons)
    BY DEF Reasons
  <2>4. CASE State(r) \in InExecution
    <3>1. Closes(r)
      BY <1>10, <2>4 DEF Closes
    <3> QED
      BY <1>1, <1>5, <2>1, <2>2, <2>3, <2>4, <3>1 DEF RecoveredFacts
  <2>5. CASE State(r) \notin InExecution
    BY <1>1, <2>1, <2>5 DEF RecoveredFacts
  <2> QED
    BY <2>4, <2>5
<1>11. ASSUME HilStops \/ HilPrepared \/ UNCHANGED runsVars PROVE Goal
  <2>1. UNCHANGED <<runs, facts>>
    BY <1>11 DEF HilStops, HilPrepared, runsVars
  <2> QED
    BY <1>2, <2>1
<1> HIDE DEF Goal
<1>12. Goal
  <2>1. CASE \E c \in Calls : Handle(c)
    BY <1>7, <1>8, <2>1
  <2> QED
    BY <1>9, <1>10, <1>11, <2>1 DEF RunsNext
<1> QED
  BY <1>12 DEF Goal

-----------------------------------------------------------------------------
(* Results.                                                                *)

\* What that means for the results of a run: only a closing step gives it one,
\* and one that closes a run without a result gives it exactly one.
LEMMA ResultsMove ==
  ASSUME ManagementAssumption, ShapeInv, [RunsNext]_runsVars, NEW r \in DOMAIN runs'
  PROVE  /\ r \notin DOMAIN runs => facts'[r] = << >>
         /\ r \in DOMAIN runs /\ Ended(facts'[r]) => Ended(facts[r]) \/ Closes(r)
         /\ r \in DOMAIN runs /\ EndedOnce(facts[r]) /\ (Closes(r) => ~Ended(facts[r]))
              => EndedOnce(facts'[r])
<1>1. CASE r \notin DOMAIN runs
  BY <1>1, FactsMove
<1>2. CASE facts'[r] = facts[r]
  BY <1>1, <1>2, FactsMove
<1>3. ASSUME r \in DOMAIN runs, facts[r] \in Seq(Reasons), NEW new \in Seq(Reasons),
             ~Ended(new), facts'[r] = Kept(facts[r] \o new)
      PROVE  /\ Ended(facts'[r]) => Ended(facts[r])
             /\ EndedOnce(facts[r]) => EndedOnce(facts'[r])
  BY <1>3, KeptEnds
<1>4. ASSUME r \in DOMAIN runs, facts[r] \in Seq(Reasons), NEW new \in Seq(Reasons),
             EndedOnce(new), facts'[r] = Kept(facts[r] \o new)
      PROVE  ~Ended(facts[r]) => EndedOnce(facts'[r])
  BY <1>4, KeptEnds
<1> QED
  BY <1>1, <1>2, <1>3, <1>4, FactsMove

LEMMA EmptyEnds == ~Ended(<< >>) /\ EndedOnce(<< >>)
BY DEF Ended, EndedOnce

\* A step that closes a run finds it without a result and leaves it over.
LEMMA ClosesOnce ==
  ASSUME ManagementAssumption, ShapeInv, CallInv, ExecutionInv, ResultInv, [RunsNext]_runsVars,
         NEW r \in DOMAIN runs, Closes(r)
  PROVE  ~Ended(facts[r]) /\ runs'[r].state \in Terminal
<1>0. \A x \in DOMAIN runs : x \in DOMAIN runs' /\ (runs[x].state \in Terminal => runs'[x].state \in Terminal)
  BY StateMoves DEF InExecution, Terminal
<1>1. ASSUME NEW c \in Calls, NoteFail(c), RunOf(c) = r PROVE ~Ended(facts[r]) /\ runs'[r].state \in Terminal
  <2>1. At(c, "noteFail")
    BY <1>1 DEF NoteFail
  <2> QED
    BY <1>0, <1>1, <2>1 DEF ResultInv, State
<1>2. CASE (NoteComplete \/ NoteFailed) /\ Run = r
  <2>1. worker.stage \in {"noteComplete", "noteFailed"}
    BY <1>2 DEF NoteComplete, NoteFailed, On
  <2>2. Noting /\ Concluded
    BY <2>1 DEF ExecutionInv, Noting, On
  <2> QED
    BY <1>0, <1>2, <2>2 DEF ResultInv, ExecutionInv, Noting, State
<1>3. CASE RestartProcess /\ State(r) \in InExecution
  <2>1. RunsShape /\ FactsShape
    BY DEF ShapeInv
  <2>2. runs'[r] = Recovered(r)
    BY <1>3, <2>1, RestartShape
  <2>3. State(r) \notin Terminal
    BY <1>3 DEF InExecution, Terminal
  <2> QED
    BY <1>3, <2>2, <2>3 DEF ResultInv, Recovered, Terminal
<1> QED
  BY <1>1, <1>2, <1>3 DEF Closes

\* A call comes to note a failure when it has failed a run in execution.
LEMMA FailureMoves ==
  ASSUME ManagementAssumption, ShapeInv, CallInv, [RunsNext]_runsVars,
         NEW c \in Calls, calls'[c].stage = "noteFail"
  PROVE  \/ calls[c].stage = "noteFail" /\ ~NoteFail(c) /\ ~RestartProcess
         \/ /\ FailRun(c) /\ calls[c].stage = "fail" /\ UNCHANGED <<facts, active, worker>>
            /\ RunOf(c) \in DOMAIN runs /\ runs[RunOf(c)].state \in InExecution
            /\ runs'[RunOf(c)].state \in Terminal
<1> USE DEF At
<1>0. calls \in [Calls -> CallRecord] /\ RunsShape
  BY DEF ShapeInv, MemoryShape
<1>1. ~RestartProcess
  <2>1. RestartProcess => calls'[c].stage \in {"new", "done"}
    BY DEF RestartProcess
  <2> QED
    BY <2>1
<1>2. ~NoteFail(c)
  <2>1. NoteFail(c) => calls'[c].stage = "remember"
    BY <1>0, CallWrites DEF NoteFail, Reject
  <2> QED
    BY <2>1
<1>3. CASE calls[c].stage = "noteFail"
  BY <1>1, <1>2, <1>3
<1>4. CASE calls[c].stage # "noteFail"
  <2>1. PICK d \in Calls : Handle(d)
    BY <1>1, <1>4, OtherSteps
  <2>2. d = c
    BY <1>4, <2>1, HandlerAlone
  <2>3. FailRun(c)
    <3>1. ~(Replay(c) \/ Create(c) \/ CheckStart(c) \/ Reserve(c) \/ QueueRun(c) \/ Track(c))
      BY <1>0, CallWrites DEF Replay, Create, CheckStart, Reserve, QueueRun, Track, Reject
    <3>2. ~(NoteQueued(c) \/ SubmitStart(c) \/ CheckStop(c) \/ StopRun(c) \/ NoteStop(c) \/ Signal(c))
      BY <1>0, CallWrites DEF NoteQueued, SubmitStart, CheckStop, StopRun, NoteStop, Signal, Reject
    <3>3. ~(SignalBackend(c) \/ Remember(c))
      BY <1>0, CallWrites DEF SignalBackend, Remember, Reject
    <3>4. ~FindOperation(c)
      BY <1>0, FindWrites
    <3> QED
      BY <1>2, <2>1, <2>2, <3>1, <3>2, <3>3, <3>4 DEF Handle
  <2>4. calls[c].stage = "fail" /\ UNCHANGED <<facts, active, worker>>
    BY <2>3 DEF FailRun
  <2>5. RunOf(c) \in DOMAIN runs
    BY <2>4 DEF CallInv
  <2>6. runs[RunOf(c)].state \in InExecution /\ Transition(RunOf(c), "FAILED")
    <3>1. ~Reject(c)
      BY <1>0, CallWrites DEF Reject
    <3> QED
      BY <2>3, <3>1 DEF FailRun, Failable, State
  <2>7. runs'[RunOf(c)].state = "FAILED"
    <3>1. "FAILED" \in RunStates
      BY DEF RunStates, Terminal
    <3> QED
      BY <1>0, <2>5, <2>6, <3>1, Transits
  <2> QED
    BY <2>3, <2>4, <2>5, <2>6, <2>7 DEF Terminal
<1> QED
  BY <1>3, <1>4

\* The worker comes to note a result when it has ended a run in execution.
LEMMA NotingMoves ==
  ASSUME ManagementAssumption, ShapeInv, CallInv, ExecutionInv, [RunsNext]_runsVars, Noting'
  PROVE  /\ active # Nobody /\ Run' = Run /\ ~NoteComplete /\ ~NoteFailed /\ ~RestartProcess
         /\ \/ Noting
            \/ /\ UNCHANGED <<facts, active, calls>>
               /\ Run \in DOMAIN runs /\ runs[Run].state \in InExecution
               /\ runs'[Run].state \in Terminal
<1> USE DEF On
<1>0. /\ active \in {Nobody} \cup Executions /\ worker \in WorkerRecord /\ RunsShape
      /\ active' # Nobody /\ worker'.stage \in {"noteComplete", "noteFailed"}
  BY DEF ShapeInv, MemoryShape, Noting
<1>1. ~NoteComplete /\ ~NoteFailed /\ ~RestartProcess /\ ~Free /\ ~Leave
  <2>1. NoteComplete \/ NoteFailed => worker'.stage \in {"leave", "free"}
    BY <1>0 DEF NoteComplete, NoteFailed, Work, WorkerRecord
  <2>2. RestartProcess \/ Free => active' = Nobody
    BY DEF RestartProcess, Free
  <2>3. Leave => worker'.stage \in {"free", "report"}
    BY <1>0 DEF Leave, Work, WorkerRecord
  <2> QED
    BY <1>0, <2>1, <2>2, <2>3
<1>2. CASE Noting /\ ~\E c \in Calls : Handle(c)
  <2>1. UNCHANGED active
    BY <1>1, <1>2 DEF RunsNext, runsVars, ExecutionStep, OpenStore, Configure, Prepare, StopBeforeStart,
       Start, StartRefused, ReportRunning, NoteStarted, SendEvent, LoopFails, SeeStop, StopHil,
       StopHilFails, Confirm, Compensate, Complete, ReportFailed, ExecutionOnly, HilStops, HilPrepared
  <2> QED
    BY <1>1, <1>2, <2>1 DEF Noting, Run, RunOf
<1>3. ASSUME NEW c \in Calls, Handle(c)
      PROVE  Noting /\ active # Nobody /\ Run' = Run
  <2>1. ~SubmitStart(c) \/ active # Nobody
    <3>1. SubmitStart(c) /\ active = Nobody => worker'.stage = "enter"
      BY DEF SubmitStart, NoWorker
    <3> QED
      BY <1>0, <3>1
  <2>2. UNCHANGED worker /\ (UNCHANGED active \/ (active # Nobody /\ active' = [active EXCEPT !.stop = TRUE]))
    <3>1. UNCHANGED <<active, worker>> \/ (Signal(c) /\ active # Nobody)
      BY <1>3, <2>1, HandlerMoves
    <3>2. UNCHANGED worker
      BY <3>1 DEF Signal
    <3>3. UNCHANGED active \/ (active # Nobody /\ active' = [active EXCEPT !.stop = TRUE])
      <4>1. CASE UNCHANGED active
        BY <4>1
      <4>2. CASE Signal(c) /\ active # Nobody
        BY <4>2 DEF Signal
      <4> QED
        BY <3>1, <4>1, <4>2
    <3> QED
      BY <3>2, <3>3
  <2>3. active # Nobody /\ active'.op = active.op
    BY <1>0, <2>2 DEF Executions
  <2> QED
    BY <1>0, <2>2, <2>3 DEF Noting, Run, RunOf
<1>4. CASE ~Noting /\ ~\E c \in Calls : Handle(c)
  <2>1. Complete \/ ReportFailed
    <3>1. UNCHANGED <<active, worker>> => Noting
      BY <1>0 DEF Noting
    <3>2. ExecutionStep
      BY <1>1, <1>4, <3>1, OtherSteps
    <3>3. ~(OpenStore \/ Configure \/ StopBeforeStart \/ Start \/ StartRefused \/ ReportRunning)
      BY <1>0 DEF OpenStore, Configure, Prepare, StopBeforeStart, Start, StartRefused, ReportRunning,
         Work, Unwound, WorkerRecord
    <3>4. ~(NoteStarted \/ SendEvent \/ LoopFails \/ SeeStop \/ StopHil \/ StopHilFails \/ Confirm \/ Compensate)
      BY <1>0 DEF NoteStarted, SendEvent, LoopFails, SeeStop, StopHil, StopHilFails, Confirm, Compensate,
         Work, WorkerRecord
    <3> QED
      BY <1>1, <3>2, <3>3, <3>4 DEF ExecutionStep
  <2>2. /\ UNCHANGED <<facts, active, calls>> /\ worker.stage \in {"complete", "report"}
        /\ worker'.stage \in {"noteComplete", "noteFailed"}
    BY <1>0, <2>1 DEF Complete, ReportFailed
  <2>3. runs[Run].state \in InExecution /\ \E state \in Terminal : Transition(Run, state)
    BY <1>0, <2>1, <2>2 DEF Complete, ReportFailed, Failable, State, Terminal, WorkerRecord
  <2>4. active # Nobody /\ Run \in DOMAIN runs
    BY <2>2 DEF ExecutionInv
  <2>5. runs'[Run].state \in Terminal
    <3>1. Terminal \subseteq RunStates
      BY DEF RunStates
    <3> QED
      BY <1>0, <2>3, <2>4, <3>1, Transits
  <2>6. Run' = Run
    BY <2>2 DEF Run, RunOf
  <2> QED
    BY <1>1, <2>2, <2>3, <2>4, <2>5, <2>6
<1> QED
  BY <1>1, <1>2, <1>3, <1>4

LEMMA ResultStep ==
  ASSUME ManagementAssumption, ShapeInv, CallInv, ExecutionInv, ResultInv, [RunsNext]_runsVars
  PROVE  ResultInv'
<1> USE DEF At
<1>0. \A r \in DOMAIN runs : r \in DOMAIN runs' /\ (runs[r].state \in Terminal => runs'[r].state \in Terminal)
  BY StateMoves DEF InExecution, Terminal
<1>a. Terminal \cap InExecution = {}
  BY DEF Terminal, InExecution
<1>b. \A c \in Calls : RunOf(c)' = RunOf(c)
  BY DEF RunOf
<1>c. \A c \in Calls : calls[c].stage = "noteFail" =>
        /\ RunOf(c) \in DOMAIN runs /\ runs[RunOf(c)].state \in Terminal
        /\ ~Ended(facts[RunOf(c)]) /\ (Noting => Run # RunOf(c))
        /\ \A d \in Calls : calls[d].stage = "noteFail" /\ RunOf(d) = RunOf(c) => d = c
  BY DEF ResultInv, CallInv, State
<1>d. Noting => Run \in DOMAIN runs /\ ~Ended(facts[Run]) /\ runs[Run].state \in Terminal
  BY DEF ResultInv, ExecutionInv, Noting, State
<1>1. ASSUME NEW r \in DOMAIN runs'
      PROVE  EndedOnce(facts'[r]) /\ (runs'[r].state \notin Terminal => ~Ended(facts'[r]))
  <2>1. CASE r \notin DOMAIN runs
    BY <2>1, ResultsMove, EmptyEnds
  <2>2. CASE r \in DOMAIN runs
    <3>1. EndedOnce(facts'[r])
      BY <2>2, ResultsMove, ClosesOnce DEF ResultInv
    <3>2. ASSUME runs'[r].state \notin Terminal PROVE ~Ended(facts'[r])
      <4>1. ~Closes(r) /\ runs[r].state \notin Terminal
        BY <1>0, <2>2, <3>2, ClosesOnce
      <4>2. ~Ended(facts[r])
        BY <2>2, <4>1 DEF ResultInv, State
      <4> QED
        BY <2>2, <4>1, <4>2, ResultsMove
    <3> QED
      BY <3>1, <3>2
  <2> QED
    BY <2>1, <2>2
<1>2. ASSUME NEW c \in Calls, calls'[c].stage = "noteFail"
      PROVE  runs'[RunOf(c)].state \in Terminal /\ ~Ended(facts'[RunOf(c)])
  <2>1. CASE calls[c].stage = "noteFail" /\ ~NoteFail(c) /\ ~RestartProcess
    <3>1. ~((NoteComplete \/ NoteFailed) /\ Run = RunOf(c))
      <4>1. NoteComplete \/ NoteFailed => worker.stage \in {"noteComplete", "noteFailed"}
        BY DEF NoteComplete, NoteFailed, On
      <4>2. NoteComplete \/ NoteFailed => Noting
        BY <4>1 DEF ExecutionInv, Noting, On
      <4> QED
        BY <1>c, <2>1, <4>2
    <3>2. ASSUME NEW d \in Calls, NoteFail(d), RunOf(d) = RunOf(c) PROVE FALSE
      BY <1>c, <2>1, <3>2 DEF NoteFail
    <3>3. ~Closes(RunOf(c))
      BY <2>1, <3>1, <3>2 DEF Closes
    <3> QED
      BY <1>0, <1>c, <2>1, <3>3, ResultsMove
  <2>2. CASE /\ UNCHANGED facts /\ RunOf(c) \in DOMAIN runs /\ runs[RunOf(c)].state \in InExecution
             /\ runs'[RunOf(c)].state \in Terminal
    BY <1>a, <2>2 DEF ResultInv, State
  <2> QED
    BY <1>2, <2>1, <2>2, FailureMoves
<1>3. ASSUME NEW c \in Calls, NEW d \in Calls, calls'[c].stage = "noteFail",
             calls'[d].stage = "noteFail", RunOf(c) = RunOf(d)
      PROVE  d = c
  <2>1. CASE calls[c].stage = "noteFail" /\ calls[d].stage = "noteFail"
    BY <1>3, <1>c, <2>1
  <2>2. ASSUME NEW x \in Calls, NEW y \in Calls, calls[x].stage # "noteFail", calls'[x].stage = "noteFail",
               calls'[y].stage = "noteFail", RunOf(x) = RunOf(y)
        PROVE  x = y
    <3>1. FailRun(x) /\ Handle(x) /\ runs[RunOf(x)].state \in InExecution
      BY <2>2, FailureMoves DEF Handle
    <3>2. CASE calls[y].stage = "noteFail"
      BY <1>a, <1>c, <2>2, <3>1, <3>2
    <3>3. CASE calls[y].stage # "noteFail"
      BY <2>2, <3>1, <3>3, HandlerAlone
    <3> QED
      BY <3>2, <3>3
  <2> QED
    BY <1>3, <2>1, <2>2
<1>4. ASSUME Noting' PROVE ~Ended(facts'[Run'])
  <2>0. Run' = Run /\ ~NoteComplete /\ ~NoteFailed /\ ~RestartProcess
    BY <1>4, NotingMoves
  <2>1. CASE Noting
    <3>1. ASSUME NEW d \in Calls, NoteFail(d), RunOf(d) = Run PROVE FALSE
      BY <1>c, <2>1, <3>1 DEF NoteFail
    <3>2. ~Closes(Run)
      BY <2>0, <3>1 DEF Closes
    <3> QED
      BY <1>0, <1>d, <2>0, <2>1, <3>2, ResultsMove
  <2>2. CASE UNCHANGED facts /\ Run \in DOMAIN runs /\ runs[Run].state \in InExecution
    BY <1>a, <2>0, <2>2 DEF ResultInv, State
  <2> QED
    BY <1>4, <2>1, <2>2, NotingMoves
<1>5. ASSUME NEW c \in Calls, calls'[c].stage = "noteFail", Noting' PROVE Run' # RunOf(c)
  <2>0. Run' = Run
    BY <1>5, NotingMoves
  <2>1. CASE calls[c].stage = "noteFail" /\ Noting
    BY <1>c, <2>0, <2>1
  <2>2. CASE calls[c].stage = "noteFail" /\ ~Noting
    BY <1>5, <1>a, <1>c, <2>0, <2>2, NotingMoves
  <2>3. CASE calls[c].stage # "noteFail"
    <3>1. FailRun(c) /\ runs[RunOf(c)].state \in InExecution /\ UNCHANGED <<active, worker>>
      BY <1>5, <2>3, FailureMoves
    <3>2. Noting
      BY <1>5, <3>1 DEF Noting
    <3> QED
      BY <1>a, <1>d, <2>0, <3>1, <3>2
  <2> QED
    BY <2>1, <2>2, <2>3
<1> QED
  BY <1>1, <1>2, <1>3, <1>4, <1>5, <1>b DEF ResultInv, State

-----------------------------------------------------------------------------
(* The target.                                                             *)

\* Only Start makes the model of a run run, and it is the run of the worker.
LEMMA HilMoves ==
  ASSUME ShapeInv, [RunsNext]_runsVars, NEW r, Driven(r)'
  PROVE  \/ Driven(r)
         \/ Start /\ r = Run
<1> USE DEF runStoreVars
<1>0. hil \in [state : {"CONFIGURED", "RUNNING", "STOPPED"}, run : 0 .. MaxRuns]
  BY DEF ShapeInv, MemoryShape
<1>1. UNCHANGED hil => Driven(r)
  BY DEF Driven
<1>2. hil'.state # "STOPPED" /\ hil'.state # "CONFIGURED"
  BY DEF Driven
<1>3. ASSUME NEW c \in Calls, Handle(c) PROVE UNCHANGED hil
  BY <1>3 DEF Handle, Replay, Create, CheckStart, Reserve, QueueRun, Track, NoteQueued, SubmitStart, CheckStop,
     FindOperation, StopRun, NoteStop, Signal, SignalBackend, FailRun, NoteFail, Remember, CallOnly
<1>4. CASE StopHil \/ StopHilFails \/ Compensate \/ HilStops
  <2>1. UNCHANGED hil \/ hil' = [hil EXCEPT !.state = "STOPPED"]
    BY <1>4 DEF StopHil, StopHilFails, Compensate, HilStops
  <2> QED
    BY <1>0, <1>1, <1>2, <2>1
<1>5. CASE HilPrepared
  BY <1>2, <1>5 DEF HilPrepared
<1>6. CASE Start
  BY <1>6 DEF Start, Driven
<1>7. CASE ExecutionStep /\ ~(StopHil \/ StopHilFails \/ Compensate \/ Start)
  <2>1. UNCHANGED hil
    BY <1>7 DEF ExecutionStep, OpenStore, Configure, Prepare, StopBeforeStart, StartRefused,
       ReportRunning, NoteStarted, SendEvent, LoopFails, SeeStop, Confirm, Complete, NoteComplete, Leave,
       ReportFailed, NoteFailed, Free, ExecutionOnly
  <2> QED
    BY <1>1, <2>1
<1>8. CASE RestartProcess \/ UNCHANGED runsVars
  BY <1>1, <1>8 DEF RestartProcess, runsVars
<1> QED
  BY <1>1, <1>3, <1>4, <1>5, <1>6, <1>7, <1>8 DEF RunsNext

\* Where the worker is: it starts the target from "configured", comes to
\* "complete" from a target it has not started or seen stopped, and does not go
\* back.
LEMMA WorkerMoves ==
  ASSUME ShapeInv, CallInv, ExecutionInv, [RunsNext]_runsVars, active' # Nobody
  PROVE  \/ \E c \in Calls : SubmitStart(c) /\ active = Nobody /\ active'.op = c /\ worker'.stage = "enter"
         \/ /\ active # Nobody /\ Run' = Run
            /\ \/ UNCHANGED worker
               \/ /\ Start /\ On("configured") /\ worker'.stage \in {"started", "compensate", "leave"}
                  /\ worker'.reporter = worker.reporter
               \/ /\ worker'.stage \notin {"enter", "opened", "configured", "complete", "noteComplete"}
                  /\ worker.stage \notin {"leave", "free"}
               \/ /\ worker.stage \in {"enter", "opened", "configured"}
                  /\ worker'.stage \in {"opened", "configured", "complete"}
               \/ hil.state = "STOPPED" /\ worker.stage = "stopped" /\ worker'.stage = "complete"
               \/ worker.stage = "complete" /\ worker'.stage = "noteComplete"
               \/ NoteComplete /\ worker'.stage = "leave"
               \/ /\ worker.stage = "leave" /\ worker'.reporter = worker.reporter
                  /\ worker'.stage = IF Concluded THEN "free" ELSE "report"
<1> USE DEF On, runStoreVars
<1>0. active \in {Nobody} \cup Executions /\ worker \in WorkerRecord
  BY DEF ShapeInv, MemoryShape
<1>1. ASSUME NEW c \in Calls, Handle(c)
      PROVE  \/ SubmitStart(c) /\ active = Nobody /\ active'.op = c /\ worker'.stage = "enter"
             \/ active # Nobody /\ Run' = Run /\ UNCHANGED worker
  <2>1. CASE UNCHANGED <<active, worker>>
    BY <2>1 DEF Run, RunOf
  <2>2. CASE SubmitStart(c) /\ active = Nobody
    BY <2>2 DEF SubmitStart, NoWorker
  <2>3. CASE Signal(c) /\ active # Nobody
    <3>1. active \in Executions /\ (UNCHANGED active \/ active' = [active EXCEPT !.stop = TRUE])
      BY <1>0, <2>3 DEF Signal
    <3>2. active'.op = active.op /\ UNCHANGED worker
      BY <2>3, <3>1 DEF Signal, Executions
    <3> QED
      BY <2>3, <3>2 DEF Run, RunOf
  <2> QED
    BY <1>1, <2>1, <2>2, <2>3, HandlerMoves
<1>2. CASE ExecutionStep
  <2>0. ~Free /\ active # Nobody
    BY <1>2 DEF ExecutionInv, ExecutionStep, OpenStore, Configure, Prepare, StopBeforeStart, Start,
       StartRefused, ReportRunning, NoteStarted, SendEvent, LoopFails, SeeStop, StopHil, StopHilFails,
       Confirm, Compensate, Complete, NoteComplete, Leave, ReportFailed, NoteFailed, Free
  <2>1. Run' = Run
    <3>1. UNCHANGED active
      BY <1>2, <2>0 DEF ExecutionStep, OpenStore, Configure, Prepare, StopBeforeStart, Start,
         StartRefused, ReportRunning, NoteStarted, SendEvent, LoopFails, SeeStop, StopHil, StopHilFails,
         Confirm, Compensate, Complete, NoteComplete, Leave, ReportFailed, NoteFailed, ExecutionOnly
    <3>2. active \in Executions
      BY <1>0, <2>0
    <3>3. active'.op = active.op
      BY <3>1, <3>2 DEF Executions
    <3> QED
      BY <3>3 DEF Run, RunOf
  <2>2. CASE OpenStore \/ Configure \/ StopBeforeStart \/ StartRefused
    <3>1. /\ worker.stage \in {"enter", "opened", "configured"}
          /\ worker'.stage \in {"opened", "configured", "complete", "compensate", "leave"}
      BY <1>0, <2>2 DEF OpenStore, Configure, Prepare, StopBeforeStart, StartRefused, Work, Unwound, WorkerRecord
    <3> QED
      BY <2>0, <2>1, <3>1
  <2>3. CASE Start
    <3>1. /\ worker.stage = "configured" /\ worker'.stage \in {"started", "compensate", "leave"}
          /\ worker'.reporter = worker.reporter
      BY <1>0, <2>3 DEF Start, Work, Unwound, WorkerRecord
    <3> QED
      BY <2>0, <2>1, <2>3, <3>1
  <2>4. CASE ReportRunning \/ NoteStarted \/ SendEvent \/ LoopFails \/ SeeStop
    <3>1. /\ worker.stage \in {"started", "noteStarted", "loop"}
          /\ worker'.stage \in {"noteStarted", "loop", "compensate", "stop"}
      BY <1>0, <2>4 DEF ReportRunning, NoteStarted, SendEvent, LoopFails, SeeStop, Work, WorkerRecord
    <3> QED
      BY <2>0, <2>1, <3>1
  <2>5. CASE StopHil \/ StopHilFails \/ Compensate
    <3>1. /\ worker.stage \in {"stop", "compensate"}
          /\ worker'.stage \in {"stopped", "compensate", "leave"}
      BY <1>0, <2>5 DEF StopHil, StopHilFails, Compensate, Work, WorkerRecord
    <3> QED
      BY <2>0, <2>1, <3>1
  <2>6. CASE Confirm
    <3>1. /\ worker.stage = "stopped"
          /\ worker'.stage = "compensate" \/ (hil.state = "STOPPED" /\ worker'.stage = "complete")
      BY <1>0, <2>6 DEF Confirm, Confirmed, Work, WorkerRecord
    <3> QED
      BY <2>0, <2>1, <3>1
  <2>7. CASE Complete
    <3>1. worker.stage = "complete" /\ worker'.stage \in {"noteComplete", "leave"}
      BY <1>0, <2>7 DEF Complete, WorkerRecord
    <3> QED
      BY <2>0, <2>1, <3>1
  <2>8. CASE NoteComplete
    <3>1. worker'.stage = "leave"
      BY <1>0, <2>8 DEF NoteComplete, Work, WorkerRecord
    <3> QED
      BY <2>0, <2>1, <2>8, <3>1
  <2>9. CASE Leave
    <3>1. /\ worker.stage = "leave" /\ worker'.reporter = worker.reporter
          /\ worker'.stage = IF worker.reporter \in Terminal THEN "free" ELSE "report"
      BY <1>0, <2>9 DEF Leave, Work, WorkerRecord
    <3> QED
      BY <2>0, <2>1, <3>1 DEF Concluded
  <2>10. CASE ReportFailed \/ NoteFailed
    <3>1. worker.stage \in {"report", "noteFailed"} /\ worker'.stage \in {"noteFailed", "free"}
      BY <1>0, <2>10 DEF ReportFailed, NoteFailed, Work, WorkerRecord
    <3> QED
      BY <2>0, <2>1, <3>1
  <2> QED
    BY <1>2, <2>0, <2>2, <2>3, <2>4, <2>5, <2>6, <2>7, <2>8, <2>9, <2>10 DEF ExecutionStep
<1>3. CASE UNCHANGED <<active, worker>>
  BY <1>3 DEF Run, RunOf
<1>4. ~RestartProcess
  BY DEF RestartProcess
<1> QED
  BY <1>1, <1>2, <1>3, <1>4, OtherSteps

LEMMA LaunchMoves ==
  ASSUME ShapeInv, CallInv, [RunsNext]_runsVars, NEW c \in Calls, Launching(c)'
  PROVE  Launching(c) \/ runs[RunOf(c)].state = "READY"
<1>1. ASSUME NEW d \in Calls, Handle(d) PROVE Launching(c) \/ runs[RunOf(c)].state = "READY"
  BY <1>1, HandlerMoves DEF Launching, State
<1>2. CASE UNCHANGED calls
  BY <1>2 DEF Launching
<1>3. ~RestartProcess
  BY DEF RestartProcess, Launching
<1> QED
  BY <1>1, <1>2, <1>3, OtherSteps

\* No step makes a run unstarted, and Start ends that of the worker's.
LEMMA UnstartedMoves ==
  ASSUME ManagementAssumption, ShapeInv, CallInv, ExecutionInv, [RunsNext]_runsVars,
         NEW r \in 1 .. MaxRuns, Unstarted(r)'
  PROVE  Unstarted(r) /\ ~(Start /\ r = Run)
<1> USE DEF On
<1>0. /\ DOMAIN runs \subseteq DOMAIN runs'
      /\ \A x \in DOMAIN runs : runs[x].state # "READY" => runs'[x].state # "READY"
  BY StateMoves DEF Terminal
<1>a. Start => /\ active # Nobody /\ UNCHANGED <<calls, active>>
               /\ worker'.stage \in {"started", "compensate", "leave"}
  <2>1. worker \in WorkerRecord
    BY DEF ShapeInv, MemoryShape
  <2> QED
    BY <2>1 DEF Start, Work, Unwound, WorkerRecord, ExecutionInv
<1>b. Start => Run \in DOMAIN runs /\ runs[Run].state # "READY"
  BY <1>a DEF ExecutionInv, State
<1>1. CASE r \notin DOMAIN runs'
  BY <1>0, <1>1, <1>b DEF Unstarted
<1>2. CASE r \in DOMAIN runs' /\ runs'[r].state = "READY"
  <2>1. r \notin DOMAIN runs \/ runs[r].state = "READY"
    BY <1>0, <1>2
  <2> QED
    BY <1>b, <2>1 DEF Unstarted, State
<1>3. ASSUME NEW c \in Calls, Launching(c)', RunOf(c)' = r
      PROVE  Unstarted(r) /\ ~(Start /\ r = Run)
  <2>1. RunOf(c) = r
    BY <1>3 DEF RunOf
  <2>2. Launching(c) \/ runs[r].state = "READY"
    BY <1>3, <2>1, LaunchMoves
  <2>3. Start => Launching(c)
    BY <1>3, <1>a DEF Launching
  <2> QED
    BY <1>a, <2>1, <2>2, <2>3 DEF Unstarted, State, ExecutionInv
<1>4. CASE active' # Nobody /\ Run' = r /\ worker'.stage \in {"enter", "opened", "configured"}
  <2>1. ~Start
    BY <1>4, <1>a
  <2>2. ASSUME NEW c \in Calls, SubmitStart(c), active'.op = c PROVE Unstarted(r)
    <3>1. RunOf(c) = r /\ Launching(c)
      BY <1>4, <2>2 DEF Run, RunOf, SubmitStart, At, Launching
    <3> QED
      BY <3>1 DEF Unstarted
  <2>3. CASE active # Nobody /\ Run' = Run /\ worker.stage \in {"enter", "opened", "configured"}
    BY <1>4, <2>1, <2>3 DEF Unstarted
  <2> QED
    BY <1>4, <2>1, <2>2, <2>3, WorkerMoves
<1> QED
  BY <1>1, <1>2, <1>3, <1>4 DEF Unstarted, State

\* Only NoteComplete records that a run was completed.
LEMMA HasMoves ==
  ASSUME ManagementAssumption, ShapeInv, [RunsNext]_runsVars,
         NEW r \in DOMAIN runs', Has(r, "EXECUTION_INCOMPLETE")'
  PROVE  r \in DOMAIN runs /\ (Has(r, "EXECUTION_INCOMPLETE") \/ (NoteComplete /\ Run = r))
<1>1. PICK i \in DOMAIN facts'[r] : facts'[r][i] = "EXECUTION_INCOMPLETE"
  BY DEF Has
<1>2. facts'[r] # << >>
  BY <1>1
<1>3. CASE facts'[r] = facts[r]
  BY <1>1, <1>2, <1>3, FactsMove DEF Has
<1>4. ASSUME r \in DOMAIN runs, facts[r] \in Seq(Reasons), NEW new \in Seq(Reasons),
             facts'[r] = Kept(facts[r] \o new)
      PROVE  Has(r, "EXECUTION_INCOMPLETE") \/ \E j \in DOMAIN new : new[j] = "EXECUTION_INCOMPLETE"
  BY <1>1, <1>4, KeptFrom DEF Has
<1>5. \A new : ~Ended(new) => ~\E j \in DOMAIN new : new[j] = "EXECUTION_INCOMPLETE"
  BY DEF Ended, Results
<1> QED
  BY <1>2, <1>3, <1>4, <1>5, FactsMove

LEMMA TargetStep ==
  ASSUME ManagementAssumption, ShapeInv, CallInv, ExecutionInv, TargetInv, [RunsNext]_runsVars
  PROVE  TargetInv'
<1> USE DEF On
<1>0. /\ DOMAIN runs \subseteq DOMAIN runs'
      /\ \A x \in DOMAIN runs : runs[x].state \in Terminal => runs'[x].state \in Terminal
  BY StateMoves DEF Terminal, InExecution
<1>a. /\ active # Nobody => Run \in 1 .. MaxRuns
      /\ \A c \in Calls : RunOf(c)' = RunOf(c)
  <2>1. runs \in Seq(RunRecord) /\ Len(runs) <= MaxRuns /\ MaxRuns \in Nat
    BY DEF ShapeInv, RunsShape, ManagementAssumption
  <2>2. DOMAIN runs \subseteq 1 .. MaxRuns
    BY <2>1
  <2> QED
    BY <2>2 DEF ExecutionInv, RunOf
<1>b. Start => worker.stage = "configured" /\ active # Nobody
      /\ worker'.stage \in {"started", "compensate", "leave"}
  <2>1. worker \in WorkerRecord
    BY DEF ShapeInv, MemoryShape
  <2> QED
    BY <2>1 DEF Start, Work, Unwound, WorkerRecord, ExecutionInv
<1>c. NoteComplete => /\ worker.stage = "noteComplete" /\ active # Nobody
                      /\ UNCHANGED calls /\ worker'.stage = "leave" /\ worker'.reporter = worker.reporter
  <2>1. worker \in WorkerRecord
    BY DEF ShapeInv, MemoryShape
  <2> QED
    BY <2>1 DEF NoteComplete, Work, WorkerRecord, ExecutionInv
<1>1. ASSUME NEW r \in 1 .. MaxRuns, Unstarted(r)' PROVE ~Driven(r)'
  BY <1>1, UnstartedMoves, HilMoves DEF TargetInv
<1>2. ASSUME (active # Nobody /\ worker.stage \in {"complete", "noteComplete"} /\ Driven(Run))'
      PROVE FALSE
  <2>1. active # Nobody /\ Run' = Run
    BY <1>2, WorkerMoves
  <2>2. Driven(Run)
    <3>1. PICK r \in 1 .. MaxRuns : r = Run
      BY <1>a, <2>1
    <3>2. Driven(r)'
      BY <1>2, <2>1, <3>1 DEF Driven
    <3>3. Driven(r)
      BY <1>2, <1>b, <3>2, HilMoves
    <3> QED
      BY <3>1, <3>3
  <2>3. worker.stage \notin {"complete", "noteComplete", "enter", "opened", "configured"}
    BY <1>a, <2>1, <2>2 DEF TargetInv, Unstarted
  <2>4. hil.state # "STOPPED"
    BY <2>2 DEF Driven
  <2> QED
    BY <1>2, <2>3, <2>4, WorkerMoves
<1>3. ASSUME NEW r \in DOMAIN runs', Has(r, "EXECUTION_INCOMPLETE")'
      PROVE  /\ ~Driven(r)' /\ runs'[r].state \in Terminal
             /\ \A c \in Calls : Launching(c)' => RunOf(c) # r
             /\ (active # Nobody /\ Run = r => worker.stage \in {"leave", "free"} /\ Concluded)'
  <2>1. CASE r \in DOMAIN runs /\ Has(r, "EXECUTION_INCOMPLETE")
    <3>1. /\ ~Driven(r) /\ runs[r].state \in Terminal
          /\ \A c \in Calls : Launching(c) => RunOf(c) # r
          /\ active # Nobody /\ Run = r => worker.stage \in {"leave", "free"} /\ Concluded
      BY <2>1 DEF TargetInv, State
    <3>2. ~Driven(r)'
      BY <1>b, <3>1, HilMoves
    <3>3. \A c \in Calls : Launching(c)' => RunOf(c) # r
      BY <3>1, LaunchMoves DEF Terminal
    <3>4. ASSUME active' # Nobody, Run' = r PROVE worker'.stage \in {"leave", "free"} /\ Concluded'
      <4>1. ASSUME NEW c \in Calls, SubmitStart(c), active'.op = c PROVE FALSE
        BY <3>1, <3>4, <4>1 DEF Run, RunOf, SubmitStart, At, Launching
      <4>2. CASE active # Nobody /\ Run = r
        <5>1. worker.stage \in {"leave", "free"} /\ Concluded
          BY <3>1, <4>2
        <5>2. \/ UNCHANGED worker
              \/ worker'.reporter = worker.reporter /\ worker'.stage = "free"
          BY <1>c, <3>4, <4>1, <5>1, WorkerMoves
        <5> QED
          BY <5>1, <5>2 DEF Concluded
      <4> QED
        BY <3>4, <4>1, <4>2, WorkerMoves
    <3> QED
      BY <1>0, <2>1, <3>1, <3>2, <3>3, <3>4
  <2>2. CASE r \in DOMAIN runs /\ NoteComplete /\ Run = r
    <3>1. /\ ~Driven(r) /\ runs[r].state \in Terminal /\ Concluded
          /\ \A c \in Calls : Launching(c) => RunOf(c) # r
      BY <1>c, <2>2 DEF TargetInv, ExecutionInv, State
    <3>2. ~Driven(r)'
      BY <1>b, <1>c, <2>2, <3>1, HilMoves
    <3>3. \A c \in Calls : Launching(c)' => RunOf(c) # r
      BY <1>c, <2>2, <3>1 DEF Launching
    <3>4. worker'.stage = "leave" /\ Concluded'
      BY <1>c, <2>2, <3>1 DEF Concluded
    <3> QED
      BY <1>0, <2>2, <3>1, <3>2, <3>3, <3>4
  <2> QED
    BY <1>3, <2>1, <2>2, HasMoves
<1> QED
  BY <1>1, <1>2, <1>3, <1>a DEF TargetInv, State

-----------------------------------------------------------------------------
(* The theorems.                                                           *)

RunsInv ==
  /\ ShapeInv /\ ControlInv /\ OneOpen /\ TargetInv /\ ResultInv /\ AnswerInv

LEMMA RunsStart == ASSUME ManagementAssumption, RunsInit PROVE RunsInv
<1>1. ShapeInv
  BY ShapeInit
<1>2. DOMAIN runs = {}
  BY DEF RunsInit
<1>3. /\ active = Nobody /\ worker.stage = "none" /\ worker.reporter = "WAITING"
      /\ \A c \in Calls : calls[c].stage = "new"
  BY DEF RunsInit, NoWorker
<1>4. hil.state = "CONFIGURED"
  BY DEF RunsInit
<1>5. ControlInv /\ OneOpen
  BY <1>2, <1>3 DEF ControlInv, CallInv, ExecutionInv, NobodyForgotten, OneOpen, Launching, Concluded,
     On, Terminal
<1>6. TargetInv
  BY <1>2, <1>3, <1>4 DEF TargetInv, Driven
<1>7. ResultInv /\ AnswerInv
  BY <1>2, <1>3 DEF ResultInv, AnswerInv, Noting, At
<1> QED
  BY <1>1, <1>5, <1>6, <1>7 DEF RunsInv

LEMMA RunsInductive ==
  ASSUME ManagementAssumption, NobodyAssumption, RunsInv, [RunsNext]_runsVars
  PROVE  RunsInv'
BY ShapeStep, CallStep, ExecutionHolds, NobodyStep, OpenStep, TargetStep, ResultStep, AnswerStep
   DEF RunsInv, ControlInv

LEMMA RunsInvariant == RunsSpec => []RunsInv
<1>1. RunsInit => RunsInv
  BY ManagementAssumption, RunsStart
<1>2. RunsInv /\ [RunsNext]_runsVars => RunsInv'
  BY ManagementAssumption, NobodyAssumption, RunsInductive
<1> QED
  BY <1>1, <1>2, PTL DEF RunsSpec

\* Type correctness of the store, of the threads and of the target.
THEOREM RunsTypeCorrect == RunsSpec => []RunsTypeOK
<1>1. RunsInv => RunsTypeOK
  BY ShapeIsType DEF RunsInv
<1> QED
  BY <1>1, RunsInvariant, PTL

\* At most one run is not over (run_store.create refuses the next one,
\* run_service._create), whatever number of callers ask at once.
THEOREM OneAtATime == RunsSpec => []OneRunAtATime
<1>1. RunsInv => OneRunAtATime
  BY OneIsOne DEF RunsInv
<1> QED
  BY <1>1, RunsInvariant, PTL

\* A run in execution is the worker's, or that of a call that still has to submit
\* it or to fail it: none is left for nobody to end.
THEOREM NoRunForgotten == RunsSpec => []NobodyForgotten
<1>1. RunsInv => NobodyForgotten
  BY DEF RunsInv, ControlInv
<1> QED
  BY <1>1, RunsInvariant, PTL

\* A run its worker completed has left no model running.
THEOREM CompletedHasStopped == RunsSpec => []CompletedIsStopped
<1>1. RunsInv => CompletedIsStopped
  <2> SUFFICES ASSUME RunsInv, NEW r \in DOMAIN runs, Has(r, "EXECUTION_INCOMPLETE")
               PROVE  ~(hil.state = "RUNNING" /\ hil.run = r)
    BY DEF CompletedIsStopped
  <2> QED
    BY DEF RunsInv, TargetInv, Driven
<1> QED
  BY <1>1, RunsInvariant, PTL

\* A run is given at most one result, though its worker, the calls that fail and
\* the restart may all give it one.
THEOREM OneResult == RunsSpec => []ResultOnce
<1>1. RunsInv => ResultOnce
  <2> SUFFICES ASSUME RunsInv, NEW r \in DOMAIN runs
               PROVE  Cardinality({i \in DOMAIN facts[r] : facts[r][i] \in Results}) <= 1
    BY DEF ResultOnce
  <2> DEFINE Found == {i \in DOMAIN facts[r] : facts[r][i] \in Results}
  <2>1. EndedOnce(facts[r])
    BY DEF RunsInv, ResultInv
  <2>2. CASE Found = {}
    <3>1. Cardinality(Found) = 0
      BY <2>2, FS_EmptySet
    <3> QED
      BY <3>1
  <2>3. CASE Found # {}
    <3>1. PICK i \in Found : TRUE
      BY <2>3
    <3>2. Found = {i}
      BY <2>1, <3>1 DEF EndedOnce
    <3>3. Cardinality(Found) = 1
      BY <3>2, FS_Singleton
    <3> QED
      BY <3>3
  <2> QED
    BY <2>2, <2>3
<1> QED
  BY <1>1, RunsInvariant, PTL

\* Calls that repeat a request are given the same answer, across restarts too.
THEOREM RepeatsAgree == RunsSpec => []AnswersStand
<1>1. RunsInv => AnswersStand
  BY AnswersAgree DEF RunsInv
<1> QED
  BY <1>1, RunsInvariant, PTL

\* The store, the calls and the worker agree on every run.
THEOREM RunsAreSound == RunsSpec => []RunsSound
BY RunsTypeCorrect, OneAtATime, NoRunForgotten, OneResult, CompletedHasStopped, RepeatsAgree,
   PTL DEF RunsSound
-----------------------------------------------------------------------------
(* The storage of resources.  The invariant is in parts, each about one     *)
(* thing that crosses the thread boundary; a lemma for a part says which    *)
(* other parts it needs.                                                   *)

\* The stages in which the thread has a job of the queue.
Working == {"look", "store", "publish", "judge", "late", "report"}

\* The thread's job is what its stage needs, and a process that has ended has
\* neither a thread at work nor uploads.
ThreadInv ==
  /\ thread.stage \in Working => thread.job \in Requests
  /\ thread.stage = "abort" => thread.job \in Sessions
  /\ ~up => thread = IdleWorker /\ Held = {}

\* What is owed was admitted, of a session that was opened, and is owed until
\* the deadline of the request.
AdmissionInv ==
  /\ live \subseteq ids
  /\ \A r \in Requests : taken[r] # Absent => r.sid \in ids
  /\ offering # Absent => taken[offering] # Absent
  /\ \A r \in Requests : owed[r] # Absent => taken[r] # Absent /\ owed[r] = Deadline(r)

\* The abort records are enough for the uploads there are, of which there are
\* finitely many.
FitInv == IsFiniteSet(Held) /\ AbortsFit

\* A running worker has the lock over an empty staging area.
LockInv ==
  /\ up => leftover = {}
  /\ up /\ ~Stopped => lockFile
  /\ RemainsAreLocked

\* Between two jobs the worker knows every session with uploads.
WatchInv ==
  thread.stage \in {"idle", "abort", "drain"} => \A s \in Held : uploads[s].sid \in dirty

InQueue(r) == \E i \in DOMAIN queue : queue[i] = r
AtWork(r) == thread.stage \in Working /\ thread.job = r

\* Every job is finished, queued or being worked on.
JobInv ==
  /\ IsFiniteSet(jobs) /\ Cardinality(jobs) <= Capacity
  /\ \A r \in jobs : results[r] # Absent \/ InQueue(r) \/ AtWork(r) \/ fatal

\* An upload in progress lacks a chunk, except while it is about to be published
\* or after the thread has failed.
Partial(x) == uploads[x].parts < Parts[x]
PartialInv ==
  /\ thread.stage \notin {"publish", "stopping", "stopped"} => \A x \in Held : Partial(x)
  /\ thread.stage = "publish" =>
       thread.job.res \in Held /\ \A x \in Held : x # thread.job.res => Partial(x)

\* A good result of a last chunk means that the resource is published.
PublishedInv ==
  /\ thread.stage \in {"judge", "late", "report"} /\ thread.error = "OK" =>
       (Final(thread.job) => thread.job.res \in objects)
  /\ \A r \in Requests : results[r] = "OK" => (Final(r) => r.res \in objects)
  /\ \A r \in Requests : told[r] = "committed" => (Final(r) => r.res \in objects)

StorageInv ==
  /\ TypeOK /\ ThreadInv /\ AdmissionInv /\ FitInv /\ LockInv /\ WatchInv
  /\ JobInv /\ OwedIsWorked /\ PartialInv /\ PublishedInv

-----------------------------------------------------------------------------
(* Who changes what, and types.                                            *)

LEMMA DeadlineType ==
  ASSUME StorageAssumption, NEW r \in Requests, taken[r] \in Nat
  PROVE  Deadline(r) \in Nat
<1>1. Commit \in Nat /\ Valid \in Nat
  BY StorageAssumption DEF StorageAssumption
<1> QED BY <1>1 DEF Deadline

LEMMA OwnerFrame ==
  ASSUME OwnerStep
  PROVE  /\ UNCHANGED <<thread, storeVars, up, dirty, fatal>>
         /\ UNCHANGED results \/ \E r \in Requests : Deliver(r)
BY DEF OwnerStep, Deliver, OpenSession, EndSession, Synchronize, Receive, Submit, SubmitRefused, AskDrain,
       Close, ownerVars, sharedVars, storeVars

LEMMA WorkerFrame == ASSUME WorkerStep PROVE UNCHANGED <<now, ownerVars>> /\ up
BY DEF WorkerStep, WorkerOnly, AtRest, AtStore, ChooseAbort, ChooseDrain, ChooseJob, ChooseEnd,
       AbortSession, DrainAborted, Look, StoreKnown, StoreRefused, StoreWritten, StoreSpoilt,
       Publish, PublishFails, Judge, AbortLate, Report, Fail, Stop

OwnerTypes ==
  /\ now \in Nat /\ up \in BOOLEAN
  /\ live \subseteq Sessions /\ ids \subseteq Sessions
  /\ taken \in [Requests -> Nat \cup {Absent}]
  /\ owed \in [Requests -> Nat \cup {Absent}]
  /\ told \in [Requests -> Answers]
  /\ offering \in Requests \cup {Absent}

SharedTypes ==
  /\ jobs \in SUBSET Requests /\ queue \in Seq(Requests)
  /\ due \in [Requests -> Nat]
  /\ results \in [Requests -> Errors \cup {Absent}]
  /\ wlive \subseteq Sessions /\ dirty \subseteq Sessions
  /\ closing \in BOOLEAN /\ fatal \in BOOLEAN
  /\ drain \in BOOLEAN /\ nextDue \in Nat

ThreadTypes ==
  thread \in [stage : Stages, job : Requests \cup Sessions \cup {Absent}, error : Errors]

StoreTypes ==
  /\ uploads \in [Resources -> Upload \cup {Absent}]
  /\ aborted \in Nat
  /\ objects \subseteq Resources /\ lockFile \in BOOLEAN /\ leftover \subseteq Resources

Types == OwnerTypes /\ SharedTypes /\ ThreadTypes /\ StoreTypes

LEMMA OwnerTypesStep ==
  ASSUME StorageAssumption, AbsentAssumption, AdmissionInv, OwnerTypes, [Next]_vars
  PROVE  OwnerTypes'
<1> USE StorageAssumption DEF OwnerTypes, StorageAssumption
<1>1. ASSUME NEW s \in Sessions, OpenSession(s) PROVE OwnerTypes'
  BY <1>1 DEF OpenSession, ownerVars
<1>2. ASSUME NEW s \in Sessions, EndSession(s) PROVE OwnerTypes'
  BY <1>2 DEF EndSession, ownerVars
<1>3. CASE Synchronize
  BY <1>3 DEF Synchronize, ownerVars
<1>4. ASSUME NEW r \in Requests, Receive(r) PROVE OwnerTypes'
  BY <1>4 DEF Receive, Tell, Answers
<1>5. ASSUME NEW r \in Requests, Submit(r) PROVE OwnerTypes'
  <2>1. taken[r] \in Nat
    BY <1>5, AbsentAssumption DEF Submit, AdmissionInv
  <2>2. Deadline(r) \in Nat
    BY <2>1, DeadlineType
  <2> QED BY <1>5, <2>2 DEF Submit, Tell, Answers
<1>6. ASSUME NEW r \in Requests, SubmitRefused(r) PROVE OwnerTypes'
  BY <1>6 DEF SubmitRefused, Tell, Answers, sharedVars
<1>7. ASSUME NEW r \in Requests, Deliver(r) PROVE OwnerTypes'
  BY <1>7 DEF Deliver, Tell, Answers
<1>8. CASE AskDrain
  BY <1>8 DEF AskDrain, ownerVars
<1>9. CASE Close
  BY <1>9 DEF Close, ownerVars
<1>10. CASE Crash
  BY <1>10 DEF Crash, ownerVars
<1>11. CASE Restart
  BY <1>11 DEF Restart, ownerVars
<1>12. CASE Recover
  BY <1>12 DEF Recover, ownerVars
<1>13. CASE Tick
  BY <1>13 DEF Tick, ownerVars
<1>w. CASE WorkerStep
  BY <1>w, WorkerFrame DEF ownerVars
<1>u. CASE UNCHANGED vars
  BY <1>u DEF vars, ownerVars
<1> QED
  BY <1>1, <1>2, <1>3, <1>4, <1>5, <1>6, <1>7, <1>8, <1>9, <1>10, <1>11, <1>12, <1>13, <1>w, <1>u DEF Next, OwnerStep

LEMMA SharedTypesStep ==
  ASSUME StorageAssumption, Types, ThreadInv, [Next]_vars
  PROVE  SharedTypes'
<1> USE StorageAssumption DEF Types, SharedTypes, StorageAssumption
<1>1. ASSUME NEW s \in Sessions, OpenSession(s) PROVE SharedTypes'
  BY <1>1 DEF OpenSession, sharedVars
<1>2. ASSUME NEW s \in Sessions, EndSession(s) PROVE SharedTypes'
  BY <1>2 DEF EndSession
<1>3. CASE Synchronize
  BY <1>3 DEF Synchronize, OwnerTypes
<1>4. ASSUME NEW r \in Requests, Receive(r) PROVE SharedTypes'
  BY <1>4 DEF Receive, sharedVars
<1>5. ASSUME NEW r \in Requests, Submit(r) PROVE SharedTypes'
  BY <1>5 DEF Submit, DueAt, OwnerTypes
<1>6. ASSUME NEW r \in Requests, SubmitRefused(r) PROVE SharedTypes'
  BY <1>6 DEF SubmitRefused, sharedVars
<1>7. ASSUME NEW r \in Requests, Deliver(r) PROVE SharedTypes'
  BY <1>7 DEF Deliver, sharedVars
<1>8. CASE AskDrain
  BY <1>8 DEF AskDrain, sharedVars
<1>9. CASE Close
  BY <1>9 DEF Close, sharedVars
<1>10. ASSUME NEW s \in Sessions, ChooseAbort(s) PROVE SharedTypes'
  BY <1>10 DEF ChooseAbort, sharedVars
<1>11. CASE ChooseDrain
  BY <1>11 DEF ChooseDrain, sharedVars
<1>12. CASE ChooseJob
  BY <1>12, HeadTailProperties DEF ChooseJob
<1>13. CASE ChooseEnd
  BY <1>13 DEF ChooseEnd, sharedVars
<1>14. CASE AbortSession
  BY <1>14 DEF AbortSession, sharedVars
<1>15. CASE DrainAborted
  BY <1>15 DEF DrainAborted, sharedVars
<1>16. CASE Look
  BY <1>16 DEF Look, sharedVars
<1>17. ASSUME NEW r \in Requests, StoreKnown(r) PROVE SharedTypes'
  BY <1>17 DEF StoreKnown, sharedVars
<1>18. ASSUME NEW r \in Requests, StoreRefused(r) PROVE SharedTypes'
  BY <1>18 DEF StoreRefused, sharedVars
<1>19. ASSUME NEW r \in Requests, StoreWritten(r) PROVE SharedTypes'
  BY <1>19 DEF StoreWritten, sharedVars
<1>20. ASSUME NEW r \in Requests, StoreSpoilt(r) PROVE SharedTypes'
  BY <1>20 DEF StoreSpoilt, sharedVars
<1>21. CASE Publish
  BY <1>21 DEF Publish, sharedVars
<1>22. CASE PublishFails
  BY <1>22 DEF PublishFails, sharedVars
<1>23. CASE Judge
  BY <1>23 DEF Judge, sharedVars
<1>24. CASE AbortLate
  BY <1>24 DEF AbortLate, sharedVars
<1>25. CASE Report
  <2>1. DirtyNow \in SUBSET Sessions
    BY DEF DirtyNow, Held, StoreTypes, Upload
  <2>2. results' \in [Requests -> Errors \cup {Absent}]
    BY <1>25 DEF Report, ThreadInv, Working, ThreadTypes
  <2> QED BY <1>25, <2>1, <2>2 DEF Report
<1>26. CASE Fail
  <2>1. results' \in [Requests -> Errors \cup {Absent}]
    BY <1>26 DEF Fail, Errors
  <2> QED BY <1>26, <2>1 DEF Fail
<1>27. CASE Stop
  BY <1>27 DEF Stop, sharedVars
<1>28. CASE Crash
  <2>1. results' \in [Requests -> Errors \cup {Absent}] /\ due' \in [Requests -> Nat]
    BY <1>28 DEF Crash
  <2>2. queue' \in Seq(Requests) /\ jobs' \in SUBSET Requests
    BY <1>28 DEF Crash
  <2> QED BY <1>28, <2>1, <2>2 DEF Crash
<1>29. CASE Restart
  BY <1>29 DEF Restart, sharedVars
<1>30. CASE Recover
  BY <1>30 DEF Recover, sharedVars
<1>31. CASE Tick
  BY <1>31 DEF Tick, sharedVars
<1>u. CASE UNCHANGED vars
  BY <1>u DEF vars, sharedVars
<1> QED
  BY <1>1, <1>2, <1>3, <1>4, <1>5, <1>6, <1>7, <1>8, <1>9, <1>10, <1>11, <1>12, <1>13, <1>14, <1>15, <1>16, <1>17, <1>18, <1>19, <1>20, <1>21, <1>22, <1>23, <1>24, <1>25, <1>26, <1>27, <1>28, <1>29, <1>30, <1>31, <1>u DEF Next, OwnerStep, WorkerStep

LEMMA ThreadTypesStep ==
  ASSUME Types, [Next]_vars
  PROVE  ThreadTypes'
<1> USE DEF Types, ThreadTypes, Stages, Errors, IdleWorker, Move, Err
<1>1. ASSUME NEW s \in Sessions, ChooseAbort(s) PROVE ThreadTypes'
  BY <1>1 DEF ChooseAbort
<1>2. CASE ChooseDrain
  BY <1>2 DEF ChooseDrain
<1>3. CASE ChooseJob
  BY <1>3, HeadTailProperties DEF ChooseJob, SharedTypes
<1>4. CASE ChooseEnd
  BY <1>4 DEF ChooseEnd
<1>5. CASE AbortSession
  BY <1>5 DEF AbortSession
<1>6. CASE DrainAborted
  BY <1>6 DEF DrainAborted
<1>7. CASE Look
  BY <1>7 DEF Look, Cause
<1>8. ASSUME NEW r \in Requests, StoreKnown(r) PROVE ThreadTypes'
  BY <1>8 DEF StoreKnown
<1>9. ASSUME NEW r \in Requests, StoreRefused(r) PROVE ThreadTypes'
  BY <1>9 DEF StoreRefused
<1>10. ASSUME NEW r \in Requests, StoreWritten(r) PROVE ThreadTypes'
  BY <1>10 DEF StoreWritten
<1>11. ASSUME NEW r \in Requests, StoreSpoilt(r) PROVE ThreadTypes'
  BY <1>11 DEF StoreSpoilt
<1>12. CASE Publish
  BY <1>12 DEF Publish
<1>13. CASE PublishFails
  BY <1>13 DEF PublishFails
<1>14. CASE Judge
  BY <1>14 DEF Judge, Verdict, Cause
<1>15. CASE AbortLate
  BY <1>15 DEF AbortLate
<1>16. CASE Report
  BY <1>16 DEF Report
<1>17. CASE Fail
  BY <1>17 DEF Fail
<1>18. CASE Stop
  BY <1>18 DEF Stop
<1>19. CASE Crash
  BY <1>19 DEF Crash
<1>20. CASE Restart
  BY <1>20 DEF Restart
<1>21. CASE Recover
  BY <1>21 DEF Recover
<1>22. CASE Tick
  BY <1>22 DEF Tick
<1>o. CASE OwnerStep
  BY <1>o, OwnerFrame DEF storeVars
<1>u. CASE UNCHANGED vars
  BY <1>u DEF vars, storeVars
<1> QED
  BY <1>1, <1>2, <1>3, <1>4, <1>5, <1>6, <1>7, <1>8, <1>9, <1>10, <1>11, <1>12, <1>13, <1>14, <1>15, <1>16, <1>17, <1>18, <1>19, <1>20, <1>21, <1>22, <1>o, <1>u DEF Next, WorkerStep

LEMMA StoreTypesStep ==
  ASSUME StorageAssumption, Types, ThreadInv, FitInv, [Next]_vars
  PROVE  StoreTypes'
<1> USE StorageAssumption DEF Types, StoreTypes, ThreadTypes, ThreadInv, Working, StorageAssumption
<1>1. ASSUME NEW s \in Sessions, ChooseAbort(s) PROVE StoreTypes'
  BY <1>1 DEF ChooseAbort, storeVars
<1>2. CASE ChooseDrain
  BY <1>2 DEF ChooseDrain, storeVars
<1>3. CASE ChooseJob
  BY <1>3 DEF ChooseJob, storeVars
<1>4. CASE ChooseEnd
  BY <1>4 DEF ChooseEnd, storeVars
<1>5. CASE AbortSession
  <2>1. HeldBy(thread.job) \subseteq Held
    BY DEF HeldBy
  <2>2. Cardinality(HeldBy(thread.job)) \in Nat
    BY <2>1, FS_Subset, FS_CardinalityType DEF FitInv
  <2>3. uploads' \in [Resources -> Upload \cup {Absent}]
    BY <1>5 DEF AbortSession, Without
  <2> QED BY <1>5, <2>2, <2>3 DEF AbortSession
<1>6. CASE DrainAborted
  BY <1>6 DEF DrainAborted, storeVars
<1>7. CASE Look
  BY <1>7 DEF Look, storeVars
<1>8. ASSUME NEW r \in Requests, StoreKnown(r) PROVE StoreTypes'
  BY <1>8 DEF StoreKnown, storeVars
<1>9. ASSUME NEW r \in Requests, StoreRefused(r) PROVE StoreTypes'
  BY <1>9 DEF StoreRefused, storeVars
<1>10. ASSUME NEW r \in Requests, StoreWritten(r) PROVE StoreTypes'
  BY <1>10 DEF StoreWritten, Written, Upload, AtStore
<1>11. ASSUME NEW r \in Requests, StoreSpoilt(r) PROVE StoreTypes'
  <2>1. uploads' \in [Resources -> Upload \cup {Absent}]
    BY <1>11 DEF StoreSpoilt, Without
  <2>2. aborted' \in Nat
    BY <1>11 DEF StoreSpoilt
  <2> QED BY <1>11, <2>1, <2>2 DEF StoreSpoilt
<1>12. CASE Publish
  <2>1. uploads' \in [Resources -> Upload \cup {Absent}]
    BY <1>12 DEF Publish, Without
  <2> QED BY <1>12, <2>1 DEF Publish
<1>13. CASE PublishFails
  <2>1. uploads' \in [Resources -> Upload \cup {Absent}]
    BY <1>13 DEF PublishFails, Without
  <2>2. aborted' \in Nat
    BY <1>13 DEF PublishFails
  <2> QED BY <1>13, <2>1, <2>2 DEF PublishFails
<1>14. CASE Judge
  BY <1>14 DEF Judge, storeVars
<1>15. CASE AbortLate
  <2>1. uploads' \in [Resources -> Upload \cup {Absent}]
    BY <1>15 DEF AbortLate, Without
  <2>2. aborted' \in Nat
    BY <1>15 DEF AbortLate
  <2> QED BY <1>15, <2>1, <2>2 DEF AbortLate
<1>16. CASE Report
  BY <1>16 DEF Report, storeVars
<1>17. CASE Fail
  BY <1>17 DEF Fail, storeVars
<1>18. CASE Stop
  <2>1. PICK removed \in SUBSET Held : uploads' = Without(removed)
    BY <1>18 DEF Stop, CloseStore
  <2>2. uploads' \in [Resources -> Upload \cup {Absent}]
    BY <2>1 DEF Without
  <2> QED BY <1>18, <2>2 DEF Stop, CloseStore
<1>19. CASE Crash
  BY <1>19 DEF Crash, Held
<1>20. CASE Restart
  BY <1>20 DEF Restart, storeVars
<1>21. CASE Recover
  BY <1>21 DEF Recover, storeVars
<1>22. CASE Tick
  BY <1>22 DEF Tick, storeVars
<1>o. CASE OwnerStep
  BY <1>o, OwnerFrame DEF storeVars
<1>u. CASE UNCHANGED vars
  BY <1>u DEF vars, storeVars
<1> QED
  BY <1>1, <1>2, <1>3, <1>4, <1>5, <1>6, <1>7, <1>8, <1>9, <1>10, <1>11, <1>12, <1>13, <1>14, <1>15, <1>16, <1>17, <1>18, <1>19, <1>20, <1>21, <1>22, <1>o, <1>u DEF Next, WorkerStep

-----------------------------------------------------------------------------
(* What the store's changes do to the uploads in progress.                 *)

LEMMA Removed ==
  ASSUME StoreTypes, NEW set, uploads' = Without(set)
  PROVE  Held' = Held \ set /\ \A x \in Held' : uploads'[x] = uploads[x]
BY DEF StoreTypes, Without, Held

LEMMA Added ==
  ASSUME StorageAssumption, AbsentAssumption, StoreTypes, NEW r \in Requests, Written(r)
  PROVE  /\ Held' = Held \cup {r.res}
         /\ uploads'[r.res] = [sid |-> r.sid, parts |-> r.part]
         /\ \A x \in Held : x # r.res => uploads'[x] = uploads[x]
<1>1. r.res \in Resources /\ [sid |-> r.sid, parts |-> r.part] \in Upload
  BY StorageAssumption DEF StorageAssumption, Upload
<1> QED BY <1>1, AbsentAssumption DEF StoreTypes, Written, Held

LEMMA ClosedStore ==
  ASSUME StoreTypes, CloseStore
  PROVE  Held' \subseteq Held /\ (Held' # {} => lockFile' = lockFile)
<1>1. \E removed \in SUBSET Held :
        uploads' = Without(removed) /\ (removed = Held \/ lockFile' = lockFile)
  BY DEF CloseStore
<1>2. PICK removed \in SUBSET Held :
        uploads' = Without(removed) /\ (removed = Held \/ lockFile' = lockFile)
  BY <1>1
<1>3. Held' = Held \ removed
  BY <1>2, Removed
<1> QED BY <1>2, <1>3

LEMMA Spared ==
  ASSUME UNCHANGED uploads
  PROVE  Held' = Held /\ \A x \in Held' : uploads'[x] = uploads[x]
BY DEF Held

-----------------------------------------------------------------------------
(* The parts of the invariant, one by one.                                 *)

LEMMA ThreadStep ==
  ASSUME Types, ThreadInv, [Next]_vars
  PROVE  ThreadInv'
<1> USE DEF ThreadInv, Working, Types, IdleWorker, Move, Err, WorkerOnly, ownerVars, AtRest
<1>1. ASSUME NEW s \in Sessions, ChooseAbort(s) PROVE ThreadInv'
  BY <1>1 DEF ChooseAbort, AtStore, storeVars
<1>2. CASE ChooseDrain
  BY <1>2 DEF ChooseDrain, AtStore, storeVars
<1>3. CASE ChooseJob
  BY <1>3, HeadTailProperties DEF ChooseJob, SharedTypes
<1>4. CASE ChooseEnd
  BY <1>4 DEF ChooseEnd
<1>5. CASE AbortSession
  BY <1>5 DEF AbortSession, AtStore, storeVars
<1>6. CASE DrainAborted
  BY <1>6 DEF DrainAborted, AtStore, storeVars
<1>7. CASE Look
  <2>1. thread'.job = thread.job /\ thread'.stage \in Working
    BY <1>7 DEF Look, ThreadTypes
  <2> QED BY <1>7, <2>1, WorkerFrame DEF Look
<1>8. ASSUME NEW r \in Requests, StoreKnown(r) PROVE ThreadInv'
  BY <1>8 DEF StoreKnown, AtStore, storeVars
<1>9. ASSUME NEW r \in Requests, StoreRefused(r) PROVE ThreadInv'
  BY <1>9 DEF StoreRefused, AtStore, storeVars
<1>10. ASSUME NEW r \in Requests, StoreWritten(r) PROVE ThreadInv'
  <2>1. thread'.job = thread.job /\ thread'.stage \in Working
    BY <1>10 DEF StoreWritten, ThreadTypes, AtStore
  <2> QED BY <1>10, <2>1 DEF StoreWritten, AtStore
<1>11. ASSUME NEW r \in Requests, StoreSpoilt(r) PROVE ThreadInv'
  BY <1>11 DEF StoreSpoilt, AtStore, storeVars
<1>12. CASE Publish
  BY <1>12 DEF Publish, AtStore, storeVars
<1>13. CASE PublishFails
  BY <1>13 DEF PublishFails, AtStore, storeVars
<1>14. CASE Judge
  BY <1>14 DEF Judge, AtStore, storeVars
<1>15. CASE AbortLate
  BY <1>15 DEF AbortLate, AtStore, storeVars
<1>16. CASE Report
  BY <1>16 DEF Report, AtStore, storeVars
<1>17. CASE Fail
  BY <1>17 DEF Fail, AtStore, storeVars
<1>18. CASE Stop
  BY <1>18 DEF Stop, AtStore, storeVars
<1>19. CASE Crash
  BY <1>19 DEF Crash, Held
<1>20. CASE Restart
  BY <1>20 DEF Restart, sharedVars
<1>21. CASE Recover
  BY <1>21 DEF Recover, sharedVars, Held
<1>22. CASE Tick
  BY <1>22 DEF Tick, storeVars, Held
<1>o. CASE OwnerStep
  BY <1>o, OwnerFrame DEF storeVars, Held
<1>u. CASE UNCHANGED vars
  BY <1>u DEF vars, storeVars, ownerVars, Held
<1> QED
  BY <1>1, <1>2, <1>3, <1>4, <1>5, <1>6, <1>7, <1>8, <1>9, <1>10, <1>11, <1>12, <1>13, <1>14, <1>15, <1>16, <1>17, <1>18, <1>19, <1>20, <1>21, <1>22, <1>o, <1>u DEF Next, WorkerStep

LEMMA AdmissionStep ==
  ASSUME AbsentAssumption, Types, AdmissionInv, [Next]_vars
  PROVE  AdmissionInv'
<1> USE DEF AdmissionInv, Types, OwnerTypes
<1>1. ASSUME NEW s \in Sessions, OpenSession(s) PROVE AdmissionInv'
  BY <1>1 DEF OpenSession, ownerVars, Deadline, Final
<1>2. ASSUME NEW s \in Sessions, EndSession(s) PROVE AdmissionInv'
  BY <1>2 DEF EndSession, ownerVars, Deadline, Final
<1>3. CASE Synchronize
  BY <1>3 DEF Synchronize, ownerVars, Deadline, Final
<1>4. ASSUME NEW r \in Requests, Receive(r) PROVE AdmissionInv'
  <2>1. now # Absent /\ r.sid \in ids
    BY <1>4, AbsentAssumption DEF Receive
  <2>2. \A q \in Requests : owed[q] # Absent => taken'[q] = taken[q]
    BY <1>4 DEF Receive
  <2> QED BY <1>4, <2>1, <2>2 DEF Receive, Deadline, Final
<1>5. ASSUME NEW r \in Requests, Submit(r) PROVE AdmissionInv'
  <2>1. taken[r] # Absent /\ owed' = [owed EXCEPT ![r] = Deadline(r)]
    BY <1>5, AbsentAssumption DEF Submit
  <2> QED BY <1>5, <2>1 DEF Submit, Deadline, Final
<1>6. ASSUME NEW r \in Requests, SubmitRefused(r) PROVE AdmissionInv'
  BY <1>6 DEF SubmitRefused, sharedVars, Deadline, Final
<1>7. ASSUME NEW r \in Requests, Deliver(r) PROVE AdmissionInv'
  BY <1>7 DEF Deliver, Deadline, Final
<1>8. CASE AskDrain
  BY <1>8 DEF AskDrain, ownerVars, Deadline, Final
<1>9. CASE Close
  BY <1>9 DEF Close, Deadline, Final
<1>10. CASE Crash
  BY <1>10 DEF Crash, Deadline, Final
<1>11. CASE Restart
  BY <1>11 DEF Restart, ownerVars, Deadline, Final
<1>12. CASE Recover
  BY <1>12 DEF Recover, ownerVars, Deadline, Final
<1>13. CASE Tick
  BY <1>13 DEF Tick, ownerVars, Deadline, Final
<1>w. CASE WorkerStep
  BY <1>w, WorkerFrame DEF ownerVars, Deadline, Final
<1>u. CASE UNCHANGED vars
  BY <1>u DEF vars, ownerVars, Deadline, Final
<1> QED
  BY <1>1, <1>2, <1>3, <1>4, <1>5, <1>6, <1>7, <1>8, <1>9, <1>10, <1>11, <1>12, <1>13, <1>w, <1>u DEF Next, OwnerStep

LEMMA LockStep ==
  ASSUME Types, ThreadInv, LockInv, StorageAssumption, AbsentAssumption, [Next]_vars
  PROVE  LockInv'
<1> USE DEF LockInv, RemainsAreLocked, Stopped, Types, IdleWorker, Move, Err, WorkerOnly, ownerVars, ThreadInv, AtRest
<1>1. ASSUME NEW s \in Sessions, ChooseAbort(s) PROVE LockInv'
  BY <1>1 DEF ChooseAbort, AtStore, storeVars, Held
<1>2. CASE ChooseDrain
  BY <1>2 DEF ChooseDrain, AtStore, storeVars, Held
<1>3. CASE ChooseJob
  BY <1>3 DEF ChooseJob, AtStore, storeVars, Held
<1>4. CASE ChooseEnd
  BY <1>4 DEF ChooseEnd, AtStore, storeVars, Held
<1>5. CASE AbortSession
  BY <1>5, Removed DEF AbortSession
<1>6. CASE DrainAborted
  BY <1>6 DEF DrainAborted, AtStore, storeVars, Held
<1>7. CASE Look
  BY <1>7 DEF Look, AtStore, storeVars, Held
<1>8. ASSUME NEW r \in Requests, StoreKnown(r) PROVE LockInv'
  BY <1>8 DEF StoreKnown, AtStore, storeVars, Held
<1>9. ASSUME NEW r \in Requests, StoreRefused(r) PROVE LockInv'
  BY <1>9 DEF StoreRefused, AtStore, storeVars, Held
<1>10. ASSUME NEW r \in Requests, StoreWritten(r) PROVE LockInv'
  BY <1>10, Added DEF StoreWritten, AtStore
<1>11. ASSUME NEW r \in Requests, StoreSpoilt(r) PROVE LockInv'
  BY <1>11, Removed DEF StoreSpoilt, AtStore
<1>12. CASE Publish
  BY <1>12, Removed DEF Publish
<1>13. CASE PublishFails
  BY <1>13, Removed DEF PublishFails
<1>14. CASE Judge
  BY <1>14 DEF Judge, AtStore, storeVars, Held
<1>15. CASE AbortLate
  BY <1>15, Removed DEF AbortLate, Held
<1>16. CASE Report
  BY <1>16 DEF Report, AtStore, storeVars, Held
<1>17. CASE Fail
  BY <1>17 DEF Fail, AtStore, storeVars, Held
<1>18. CASE Stop
  BY <1>18, ClosedStore DEF Stop
<1>19. CASE Crash
  BY <1>19 DEF Crash, Held
<1>20. CASE Restart
  BY <1>20 DEF Restart, Openable, Held
<1>21. CASE Recover
  BY <1>21 DEF Recover, Held
<1>22. CASE Tick
  BY <1>22 DEF Tick, AtStore, storeVars, Held
<1>o. CASE OwnerStep
  BY <1>o, OwnerFrame DEF storeVars, Held
<1>u. CASE UNCHANGED vars
  BY <1>u DEF vars, ownerVars, storeVars, Held
<1> QED
  BY <1>1, <1>2, <1>3, <1>4, <1>5, <1>6, <1>7, <1>8, <1>9, <1>10, <1>11, <1>12, <1>13, <1>14, <1>15, <1>16, <1>17, <1>18, <1>19, <1>20, <1>21, <1>22, <1>o, <1>u DEF Next, WorkerStep

LEMMA WatchStep ==
  ASSUME StorageAssumption, AbsentAssumption, Types, WatchInv, [Next]_vars
  PROVE  WatchInv'
<1> USE DEF WatchInv, Types, IdleWorker, Move, Err, WorkerOnly, AtRest
<1>1. ASSUME NEW s \in Sessions, ChooseAbort(s) PROVE WatchInv'
  BY <1>1 DEF ChooseAbort, AtStore, storeVars, sharedVars, Held, ThreadTypes
<1>2. CASE ChooseDrain
  BY <1>2 DEF ChooseDrain, AtStore, storeVars, sharedVars, Held, ThreadTypes
<1>3. CASE ChooseJob
  BY <1>3 DEF ChooseJob, AtStore, storeVars, sharedVars, Held, ThreadTypes
<1>4. CASE ChooseEnd
  BY <1>4 DEF ChooseEnd, AtStore, storeVars, sharedVars, Held, ThreadTypes
<1>5. CASE AbortSession
  <2>1. Held' = Held \ HeldBy(thread.job) /\ \A x \in Held' : uploads'[x] = uploads[x]
    BY <1>5, Removed DEF AbortSession
  <2> QED BY <1>5, <2>1 DEF AbortSession, HeldBy
<1>6. CASE DrainAborted
  BY <1>6 DEF DrainAborted, Held
<1>7. CASE Look
  BY <1>7 DEF Look, ThreadTypes
<1>8. ASSUME NEW r \in Requests, StoreKnown(r) PROVE WatchInv'
  BY <1>8 DEF StoreKnown, AtStore, storeVars, sharedVars, Held, ThreadTypes
<1>9. ASSUME NEW r \in Requests, StoreRefused(r) PROVE WatchInv'
  BY <1>9 DEF StoreRefused, AtStore, storeVars, sharedVars, Held, ThreadTypes
<1>10. ASSUME NEW r \in Requests, StoreWritten(r) PROVE WatchInv'
  BY <1>10 DEF StoreWritten, AtStore, ThreadTypes
<1>11. ASSUME NEW r \in Requests, StoreSpoilt(r) PROVE WatchInv'
  BY <1>11 DEF StoreSpoilt, AtStore, ThreadTypes
<1>12. CASE Publish
  BY <1>12 DEF Publish, ThreadTypes
<1>13. CASE PublishFails
  BY <1>13 DEF PublishFails, ThreadTypes
<1>14. CASE Judge
  BY <1>14 DEF Judge, ThreadTypes
<1>15. CASE AbortLate
  BY <1>15 DEF AbortLate, ThreadTypes
<1>16. CASE Report
  <2>1. dirty' = {uploads'[x].sid : x \in Held'}
    BY <1>16, Spared DEF Report, storeVars, DirtyNow
  <2> QED BY <2>1
<1>17. CASE Fail
  BY <1>17 DEF Fail, ThreadTypes
<1>18. CASE Stop
  BY <1>18 DEF Stop, ThreadTypes
<1>19. CASE Crash
  BY <1>19 DEF Crash, Held
<1>20. CASE Restart
  BY <1>20 DEF Restart, AtStore, storeVars, sharedVars, Held, ThreadTypes
<1>21. CASE Recover
  BY <1>21 DEF Recover, AtStore, storeVars, sharedVars, Held, ThreadTypes
<1>22. CASE Tick
  BY <1>22 DEF Tick, AtStore, storeVars, sharedVars, Held, ThreadTypes
<1>o. CASE OwnerStep
  BY <1>o, OwnerFrame DEF storeVars, Held
<1>u. CASE UNCHANGED vars
  BY <1>u DEF vars, storeVars, sharedVars, Held
<1> QED
  BY <1>1, <1>2, <1>3, <1>4, <1>5, <1>6, <1>7, <1>8, <1>9, <1>10, <1>11, <1>12, <1>13, <1>14, <1>15, <1>16, <1>17, <1>18, <1>19, <1>20, <1>21, <1>22, <1>o, <1>u DEF Next, WorkerStep

LEMMA FitStep ==
  ASSUME StorageAssumption, AbsentAssumption, Types, ThreadInv, FitInv, PartialInv, [Next]_vars
  PROVE  FitInv'
<1>z. aborted \in Nat /\ MaxAborts \in Nat /\ Cardinality(Held) \in Nat /\ Cardinality(Held) + aborted <= MaxAborts
  BY StorageAssumption, FS_CardinalityType DEF StorageAssumption, Types, StoreTypes, FitInv, AbortsFit
<1> USE <1>z DEF FitInv, AbortsFit, WorkerOnly, Types
<1>1. ASSUME NEW s \in Sessions, ChooseAbort(s) PROVE FitInv'
  BY <1>1 DEF ChooseAbort, Held, storeVars, AtStore
<1>2. CASE ChooseDrain
  BY <1>2 DEF ChooseDrain, Held, storeVars, AtStore
<1>3. CASE ChooseJob
  BY <1>3 DEF ChooseJob, Held, storeVars, AtStore
<1>4. CASE ChooseEnd
  BY <1>4 DEF ChooseEnd, Held, storeVars, AtStore
<1>5. CASE AbortSession
  <2>1. Held' = Held \ HeldBy(thread.job)
    BY <1>5, Removed DEF AbortSession
  <2>2. Held \cap HeldBy(thread.job) = HeldBy(thread.job)
    BY DEF HeldBy
  <2>3. /\ IsFiniteSet(Held')
        /\ Cardinality(Held') = Cardinality(Held) - Cardinality(HeldBy(thread.job))
    BY <2>1, <2>2, FS_Difference
  <2>4. Cardinality(HeldBy(thread.job)) \in Nat
    BY <2>2, FS_Intersection, FS_CardinalityType
  <2>5. aborted' = aborted + Cardinality(HeldBy(thread.job))
    BY <1>5 DEF AbortSession
  <2> QED BY <2>3, <2>4, <2>5
<1>6. CASE DrainAborted
  BY <1>6, Spared DEF DrainAborted
<1>7. CASE Look
  BY <1>7 DEF Look, Held, storeVars, AtStore
<1>8. ASSUME NEW r \in Requests, StoreKnown(r) PROVE FitInv'
  BY <1>8 DEF StoreKnown, Held, storeVars, AtStore
<1>9. ASSUME NEW r \in Requests, StoreRefused(r) PROVE FitInv'
  BY <1>9 DEF StoreRefused, Held, storeVars, AtStore
<1>10. ASSUME NEW r \in Requests, StoreWritten(r) PROVE FitInv'
  <2>1. Held' = Held \cup {r.res} /\ aborted' = aborted
    BY <1>10, Added DEF StoreWritten
  <2>2. Continues(r) => r.res \in Held
    BY StorageAssumption DEF StorageAssumption, Continues, Held
  <2>3. Starts(r) => Cardinality(Held) + aborted < MaxAborts
    BY DEF Starts
  <2>4. /\ IsFiniteSet(Held')
        /\ Cardinality(Held') = IF r.res \in Held THEN Cardinality(Held) ELSE Cardinality(Held) + 1
    BY <2>1, FS_AddElement
  <2> QED BY <1>10, <2>1, <2>2, <2>3, <2>4 DEF StoreWritten
<1>11. ASSUME NEW r \in Requests, StoreSpoilt(r) PROVE FitInv'
  <2>1. Held' = Held \ {r.res} /\ aborted' = aborted + 1
    BY <1>11, Removed DEF StoreSpoilt
  <2>2. Continues(r) => r.res \in Held
    BY StorageAssumption DEF StorageAssumption, Continues, Held
  <2>3. Starts(r) => Cardinality(Held) + aborted < MaxAborts
    BY DEF Starts
  <2>4. /\ IsFiniteSet(Held')
        /\ Cardinality(Held') = IF r.res \in Held THEN Cardinality(Held) - 1 ELSE Cardinality(Held)
    BY <2>1, FS_RemoveElement
  <2> QED BY <1>11, <2>1, <2>2, <2>3, <2>4 DEF StoreSpoilt
<1>12. CASE Publish
  <2>1. Held' = Held \ {thread.job.res} /\ aborted' = aborted
    BY <1>12, Removed DEF Publish
  <2>2. /\ IsFiniteSet(Held')
        /\ Cardinality(Held') = IF thread.job.res \in Held THEN Cardinality(Held) - 1 ELSE Cardinality(Held)
    BY <2>1, FS_RemoveElement
  <2> QED BY <2>1, <2>2
<1>13. CASE PublishFails
  <2>1. Held' = Held \ {thread.job.res} /\ aborted' = aborted + 1
    BY <1>13, Removed DEF PublishFails
  <2>2. thread.job.res \in Held
    BY <1>13 DEF PublishFails, PartialInv
  <2>3. IsFiniteSet(Held') /\ Cardinality(Held') = Cardinality(Held) - 1
    BY <2>1, <2>2, FS_RemoveElement
  <2> QED BY <2>1, <2>3
<1>14. CASE Judge
  BY <1>14 DEF Judge, Held, storeVars, AtStore
<1>15. CASE AbortLate
  <2> DEFINE mine == uploads[thread.job.res] # Absent /\ uploads[thread.job.res].sid = thread.job.sid
  <2>1. CASE mine
    <3>1. Held' = Held \ {thread.job.res} /\ aborted' = aborted + 1
      BY <1>15, <2>1, Removed DEF AbortLate
    <3>2. thread.job.res \in Held
      BY <1>15, <2>1, StorageAssumption DEF StorageAssumption, AbortLate, ThreadInv, Working, Held
    <3>3. IsFiniteSet(Held') /\ Cardinality(Held') = Cardinality(Held) - 1
      BY <3>1, <3>2, FS_RemoveElement
    <3> QED BY <3>1, <3>3
  <2>2. CASE ~mine
    BY <1>15, <2>2, Spared DEF AbortLate
  <2> QED BY <2>1, <2>2
<1>16. CASE Report
  BY <1>16 DEF Report, Held, storeVars, AtStore
<1>17. CASE Fail
  BY <1>17 DEF Fail, Held, storeVars, AtStore
<1>18. CASE Stop
  <2>1. Held' \subseteq Held /\ aborted' = 0
    BY <1>18, ClosedStore DEF Stop
  <2>2. IsFiniteSet(Held') /\ Cardinality(Held') <= Cardinality(Held) /\ Cardinality(Held') \in Nat
    BY <2>1, FS_Subset, FS_CardinalityType
  <2> QED BY <2>1, <2>2
<1>19. CASE Crash
  <2>1. Held' = {} /\ aborted' = 0
    BY <1>19 DEF Crash, Held
  <2> QED BY <2>1, FS_EmptySet
<1>20. CASE Restart
  BY <1>20 DEF Restart, Held, storeVars, AtStore
<1>21. CASE Recover
  BY <1>21 DEF Recover, Held, storeVars, AtStore
<1>22. CASE Tick
  BY <1>22 DEF Tick, Held, storeVars, AtStore
<1>o. CASE OwnerStep
  BY <1>o, OwnerFrame DEF storeVars, Held
<1>u. CASE UNCHANGED vars
  BY <1>u DEF vars, storeVars, Held
<1> QED
  BY <1>1, <1>2, <1>3, <1>4, <1>5, <1>6, <1>7, <1>8, <1>9, <1>10, <1>11, <1>12, <1>13, <1>14, <1>15, <1>16, <1>17, <1>18, <1>19, <1>20, <1>21, <1>22, <1>o, <1>u DEF Next, WorkerStep

LEMMA QueueAppend ==
  ASSUME queue \in Seq(Requests), NEW r \in Requests
  PROVE  /\ \A i \in DOMAIN queue : i \in DOMAIN Append(queue, r) /\ Append(queue, r)[i] = queue[i]
         /\ \E i \in DOMAIN Append(queue, r) : Append(queue, r)[i] = r
<1>1. /\ Append(queue, r) \in Seq(Requests)
      /\ Len(Append(queue, r)) = Len(queue) + 1
      /\ \A i \in 1..Len(queue) : Append(queue, r)[i] = queue[i]
      /\ Append(queue, r)[Len(queue) + 1] = r
  BY AppendProperties
<1>2. DOMAIN queue = 1..Len(queue) /\ DOMAIN Append(queue, r) = 1..Len(Append(queue, r)) /\ Len(queue) \in Nat
  BY <1>1
<1> QED BY <1>1, <1>2

LEMMA QueueTail ==
  ASSUME queue \in Seq(Requests), queue # <<>>, NEW i \in DOMAIN queue
  PROVE  queue[i] = Head(queue) \/ \E j \in DOMAIN Tail(queue) : Tail(queue)[j] = queue[i]
<1>1. CASE i = 1
  BY <1>1, HeadTailProperties
<1>2. CASE i # 1
  <2>1. i \in 2..Len(queue)
    BY <1>2
  <2>2. i - 1 \in 1..Len(Tail(queue)) /\ Tail(queue)[i - 1] = queue[i]
    BY <2>1, HeadTailProperties
  <2> QED BY <2>2
<1> QED BY <1>1, <1>2

LEMMA JobStep ==
  ASSUME StorageAssumption, AbsentAssumption, Types, JobInv, [Next]_vars
  PROVE  JobInv'
<1> USE DEF JobInv, Types, SharedTypes, OwnerTypes, WorkerOnly, InQueue, AtWork
<1>1. ASSUME NEW s \in Sessions, OpenSession(s) PROVE JobInv'
  BY <1>1 DEF OpenSession, sharedVars
<1>2. ASSUME NEW s \in Sessions, EndSession(s) PROVE JobInv'
  BY <1>2 DEF EndSession, sharedVars
<1>3. CASE Synchronize
  BY <1>3 DEF Synchronize, sharedVars
<1>4. ASSUME NEW r \in Requests, Receive(r) PROVE JobInv'
  BY <1>4 DEF Receive, sharedVars
<1>5. ASSUME NEW r \in Requests, Submit(r) PROVE JobInv'
  <2>1. Cardinality(jobs) < Capacity /\ jobs' = jobs \cup {r}
    BY <1>5 DEF Submit, HasRoom
  <2>2. IsFiniteSet(jobs') /\ Cardinality(jobs') <= Cardinality(jobs) + 1
    <3>1. Cardinality(jobs) \in Nat
      BY FS_CardinalityType
    <3>2. /\ IsFiniteSet(jobs \cup {r})
          /\ Cardinality(jobs \cup {r}) = IF r \in jobs THEN Cardinality(jobs) ELSE Cardinality(jobs) + 1
      BY FS_AddElement
    <3> QED BY <2>1, <3>1, <3>2
  <2>3. Cardinality(jobs) \in Nat /\ Cardinality(jobs') \in Nat /\ Capacity \in Nat
    BY <2>2, FS_CardinalityType, StorageAssumption DEF StorageAssumption
  <2>4. queue' = Append(queue, r) /\ UNCHANGED <<results, thread, fatal>>
    BY <1>5 DEF Submit
  <2>5. \A q \in jobs' : InQueue(q) => InQueue(q)'
    BY <2>4, QueueAppend
  <2>6. InQueue(r)'
    BY <2>4, QueueAppend
  <2>7. IsFiniteSet(jobs') /\ Cardinality(jobs') <= Capacity
    BY <2>1, <2>2, <2>3
  <2>8. \A q \in jobs' : results'[q] # Absent \/ InQueue(q)' \/ AtWork(q)' \/ fatal'
    BY <2>1, <2>4, <2>5, <2>6
  <2> QED BY <2>7, <2>8
<1>6. ASSUME NEW r \in Requests, SubmitRefused(r) PROVE JobInv'
  BY <1>6 DEF SubmitRefused, sharedVars
<1>7. ASSUME NEW r \in Requests, Deliver(r) PROVE JobInv'
  <2>1. jobs' = jobs \ {r} /\ \A q \in jobs' : results'[q] = results[q]
    BY <1>7 DEF Deliver
  <2>2. IsFiniteSet(jobs') /\ Cardinality(jobs') <= Cardinality(jobs)
    BY <2>1, FS_Subset
  <2>3. Cardinality(jobs) \in Nat /\ Cardinality(jobs') \in Nat /\ Capacity \in Nat
    BY <2>2, FS_CardinalityType, StorageAssumption DEF StorageAssumption
  <2>4. UNCHANGED <<queue, thread, fatal>>
    BY <1>7 DEF Deliver
  <2> QED BY <2>1, <2>2, <2>3, <2>4
<1>8. CASE AskDrain
  BY <1>8 DEF AskDrain, sharedVars
<1>9. CASE Close
  BY <1>9 DEF Close, sharedVars
<1>10. ASSUME NEW s \in Sessions, ChooseAbort(s) PROVE JobInv'
  BY <1>10 DEF ChooseAbort, sharedVars, AtRest, Working, Move
<1>11. CASE ChooseDrain
  BY <1>11 DEF ChooseDrain, sharedVars, AtRest, Working, Move
<1>12. CASE ChooseJob
  <2>1. queue # <<>> /\ queue' = Tail(queue) /\ ~AtWork(Head(queue)) /\ UNCHANGED <<jobs, results, fatal>>
    BY <1>12 DEF ChooseJob, AtRest, Working
  <2>2. thread'.stage \in Working /\ thread'.job = Head(queue)
    BY <1>12 DEF ChooseJob, Working
  <2>3. \A q \in Requests : InQueue(q) => q = Head(queue) \/ InQueue(q)'
    BY <2>1, QueueTail
  <2>4. \A q \in Requests : ~AtWork(q)
    BY <1>12 DEF ChooseJob, AtRest, Working
  <2> QED BY <2>1, <2>2, <2>3, <2>4
<1>13. CASE ChooseEnd
  BY <1>13 DEF ChooseEnd, sharedVars, AtRest, Working, Move
<1>14. CASE AbortSession
  BY <1>14 DEF AbortSession, sharedVars, Working
<1>15. CASE DrainAborted
  BY <1>15 DEF DrainAborted, sharedVars, Working
<1>16. CASE Look
  BY <1>16 DEF Look, sharedVars, ThreadTypes, Move, Err, Working, AtStore
<1>17. ASSUME NEW r \in Requests, StoreKnown(r) PROVE JobInv'
  BY <1>17 DEF StoreKnown, sharedVars, ThreadTypes, Move, Err, Working, AtStore
<1>18. ASSUME NEW r \in Requests, StoreRefused(r) PROVE JobInv'
  BY <1>18 DEF StoreRefused, sharedVars, ThreadTypes, Move, Err, Working, AtStore
<1>19. ASSUME NEW r \in Requests, StoreWritten(r) PROVE JobInv'
  <2>1. thread.stage = "store" /\ UNCHANGED sharedVars
    BY <1>19 DEF StoreWritten, AtStore
  <2>2. thread'.stage \in Working /\ thread'.job = thread.job
    BY <1>19, <2>1 DEF StoreWritten, ThreadTypes, Move, Err, Working
  <2> QED BY <2>1, <2>2 DEF sharedVars, Working
<1>20. ASSUME NEW r \in Requests, StoreSpoilt(r) PROVE JobInv'
  BY <1>20 DEF StoreSpoilt, sharedVars, ThreadTypes, Move, Err, Working, AtStore
<1>21. CASE Publish
  BY <1>21 DEF Publish, sharedVars, ThreadTypes, Move, Err, Working, AtStore
<1>22. CASE PublishFails
  BY <1>22 DEF PublishFails, sharedVars, ThreadTypes, Move, Err, Working, AtStore
<1>23. CASE Judge
  BY <1>23 DEF Judge, sharedVars, ThreadTypes, Move, Err, Working, AtStore
<1>24. CASE AbortLate
  BY <1>24 DEF AbortLate, sharedVars, ThreadTypes, Move, Err, Working, AtStore
<1>25. CASE Report
  <2>1. results' = [results EXCEPT ![thread.job] = thread.error] /\ UNCHANGED <<jobs, queue, fatal>>
    BY <1>25 DEF Report
  <2>2. thread.error # Absent
    BY AbsentAssumption DEF ThreadTypes
  <2>3. \A q \in jobs : results[q] # Absent \/ AtWork(q) => results'[q] # Absent
    BY <2>1, <2>2
  <2> QED BY <2>1, <2>3
<1>26. CASE Fail
  BY <1>26 DEF Fail
<1>27. CASE Stop
  BY <1>27 DEF Stop, sharedVars, Working
<1>28. CASE Crash
  <2>1. jobs' = {}
    BY <1>28 DEF Crash
  <2>2. Capacity \in Nat
    BY StorageAssumption DEF StorageAssumption
  <2> QED BY <2>1, <2>2, FS_EmptySet
<1>29. CASE Restart
  BY <1>29 DEF Restart, sharedVars
<1>30. CASE Recover
  BY <1>30 DEF Recover, sharedVars
<1>31. CASE Tick
  BY <1>31 DEF Tick, sharedVars
<1>u. CASE UNCHANGED vars
  BY <1>u DEF vars, sharedVars
<1> QED
  BY <1>1, <1>2, <1>3, <1>4, <1>5, <1>6, <1>7, <1>8, <1>9, <1>10, <1>11, <1>12, <1>13, <1>14, <1>15, <1>16, <1>17, <1>18, <1>19, <1>20, <1>21, <1>22, <1>23, <1>24, <1>25, <1>26, <1>27, <1>28, <1>29, <1>30, <1>31, <1>u DEF Next, OwnerStep, WorkerStep

LEMMA WorkerKeepsJobs == ASSUME WorkerStep PROVE jobs' = jobs
BY DEF WorkerStep, sharedVars, ChooseAbort, ChooseDrain, ChooseJob, ChooseEnd, AbortSession,
       DrainAborted, Look, StoreKnown, StoreRefused, StoreWritten, StoreSpoilt, Publish,
       PublishFails, Judge, AbortLate, Report, Fail, Stop

LEMMA OwedStep ==
  ASSUME StorageAssumption, AbsentAssumption, Types, AdmissionInv, OwedIsWorked, [Next]_vars
  PROVE  OwedIsWorked'
<1> USE DEF OwedIsWorked, Types, OwnerTypes
<1>1. ASSUME NEW s \in Sessions, OpenSession(s) PROVE OwedIsWorked'
  <2>1. \A q \in Requests : owed[q] # Absent => q.sid # s
    BY <1>1 DEF OpenSession, AdmissionInv
  <2>2. live' = live \cup {s} /\ UNCHANGED <<now, owed, jobs>>
    BY <1>1 DEF OpenSession, sharedVars
  <2> QED BY <2>1, <2>2
<1>2. ASSUME NEW s \in Sessions, EndSession(s) PROVE OwedIsWorked'
  BY <1>2 DEF EndSession
<1>3. CASE Synchronize
  BY <1>3 DEF Synchronize, ownerVars, sharedVars
<1>4. ASSUME NEW r \in Requests, Receive(r) PROVE OwedIsWorked'
  BY <1>4 DEF Receive, ownerVars, sharedVars
<1>5. ASSUME NEW r \in Requests, Submit(r) PROVE OwedIsWorked'
  BY <1>5 DEF Submit
<1>6. ASSUME NEW r \in Requests, SubmitRefused(r) PROVE OwedIsWorked'
  BY <1>6 DEF SubmitRefused, ownerVars, sharedVars
<1>7. ASSUME NEW r \in Requests, Deliver(r) PROVE OwedIsWorked'
  <2>1. jobs' = jobs \ {r} /\ UNCHANGED <<now, live>>
    BY <1>7 DEF Deliver
  <2>2. \A q \in Requests : owed'[q] # Absent => owed'[q] = owed[q]
    BY <1>7 DEF Deliver
  <2>3. ~(owed'[r] # Absent /\ now < owed'[r] /\ r.sid \in live)
    BY <1>7 DEF Deliver, Finishable
  <2> QED BY <2>1, <2>2, <2>3
<1>8. CASE AskDrain
  BY <1>8 DEF AskDrain, ownerVars, sharedVars
<1>9. CASE Close
  BY <1>9 DEF Close
<1>10. CASE Crash
  BY <1>10 DEF Crash
<1>11. CASE Restart
  BY <1>11 DEF Restart, ownerVars, sharedVars
<1>12. CASE Recover
  BY <1>12 DEF Recover, ownerVars, sharedVars
<1>13. CASE Tick
  BY <1>13, AbsentAssumption DEF Tick, ownerVars, sharedVars
<1>w. CASE WorkerStep
  BY <1>w, WorkerFrame, WorkerKeepsJobs DEF ownerVars
<1>u. CASE UNCHANGED vars
  BY <1>u DEF vars, ownerVars, sharedVars
<1> QED
  BY <1>1, <1>2, <1>3, <1>4, <1>5, <1>6, <1>7, <1>8, <1>9, <1>10, <1>11, <1>12, <1>13, <1>w, <1>u DEF Next, OwnerStep

LEMMA PartialStep ==
  ASSUME StorageAssumption, AbsentAssumption, Types, ThreadInv, PartialInv, [Next]_vars
  PROVE  PartialInv'
<1> USE DEF PartialInv, Partial, Types, IdleWorker, Move, Err, AtRest
<1>1. ASSUME NEW s \in Sessions, ChooseAbort(s) PROVE PartialInv'
  BY <1>1, Spared DEF ChooseAbort, AtStore, storeVars, ThreadTypes
<1>2. CASE ChooseDrain
  BY <1>2, Spared DEF ChooseDrain, AtStore, storeVars, ThreadTypes
<1>3. CASE ChooseJob
  BY <1>3, Spared DEF ChooseJob, AtStore, storeVars, ThreadTypes
<1>4. CASE ChooseEnd
  BY <1>4, Spared DEF ChooseEnd, AtStore, storeVars, ThreadTypes
<1>5. CASE AbortSession
  <2>1. \A x \in Held' : x \in Held /\ uploads'[x] = uploads[x]
    BY <1>5, Removed DEF AbortSession
  <2> QED BY <1>5, <2>1 DEF AbortSession
<1>6. CASE DrainAborted
  BY <1>6, Spared DEF DrainAborted, AtStore, storeVars, ThreadTypes
<1>7. CASE Look
  BY <1>7, Spared DEF Look, AtStore, storeVars, ThreadTypes
<1>8. ASSUME NEW r \in Requests, StoreKnown(r) PROVE PartialInv'
  BY <1>8, Spared DEF StoreKnown, AtStore, storeVars, ThreadTypes
<1>9. ASSUME NEW r \in Requests, StoreRefused(r) PROVE PartialInv'
  BY <1>9, Spared DEF StoreRefused, AtStore, storeVars, ThreadTypes
<1>10. ASSUME NEW r \in Requests, StoreWritten(r) PROVE PartialInv'
  <2>1. /\ Held' = Held \cup {r.res} /\ uploads'[r.res].parts = r.part
        /\ \A x \in Held : x # r.res => uploads'[x] = uploads[x]
    <3> HIDE DEF Partial, PartialInv
    <3>1. Written(r)
      BY <1>10 DEF StoreWritten
    <3>2. uploads'[r.res] = [sid |-> r.sid, parts |-> r.part]
      BY <3>1, Added
    <3> QED BY <3>1, <3>2, Added
  <2>2. \A x \in Held' : x # r.res => Partial(x)'
    BY <1>10, <2>1 DEF StoreWritten, AtStore
  <2>3. CASE Final(r)
    <3>1. thread'.stage = "publish" /\ thread'.job = r
      BY <1>10, <2>3 DEF StoreWritten, AtStore, ThreadTypes
    <3> QED BY <2>1, <2>2, <3>1
  <2>4. CASE ~Final(r)
    <3>1. r.part < Parts[r.res]
      BY <2>4, StorageAssumption DEF StorageAssumption, Final
    <3>2. thread'.stage = "judge"
      BY <1>10, <2>4 DEF StoreWritten, AtStore, ThreadTypes
    <3> QED BY <2>1, <2>2, <3>1, <3>2
  <2> QED BY <2>3, <2>4
<1>11. ASSUME NEW r \in Requests, StoreSpoilt(r) PROVE PartialInv'
  <2>0. uploads' = Without({thread.job.res})
    BY <1>11 DEF StoreSpoilt, AtStore
  <2>1. \A x \in Held' : x \in Held /\ x # thread.job.res /\ uploads'[x] = uploads[x]
    <3> HIDE DEF Partial, PartialInv
    <3>1. Held' = Held \ {thread.job.res} /\ \A x \in Held' : uploads'[x] = uploads[x]
      BY <2>0, Removed
    <3> QED BY <3>1
  <2> QED BY <1>11, <2>1 DEF StoreSpoilt, AtStore, ThreadTypes
<1>12. CASE Publish
  <2>0. uploads' = Without({thread.job.res})
    BY <1>12 DEF Publish, AtStore
  <2>1. \A x \in Held' : x \in Held /\ x # thread.job.res /\ uploads'[x] = uploads[x]
    <3> HIDE DEF Partial, PartialInv
    <3>1. Held' = Held \ {thread.job.res} /\ \A x \in Held' : uploads'[x] = uploads[x]
      BY <2>0, Removed
    <3> QED BY <3>1
  <2> QED BY <1>12, <2>1 DEF Publish, AtStore, ThreadTypes
<1>13. CASE PublishFails
  <2>0. uploads' = Without({thread.job.res})
    BY <1>13 DEF PublishFails, AtStore
  <2>1. \A x \in Held' : x \in Held /\ x # thread.job.res /\ uploads'[x] = uploads[x]
    <3> HIDE DEF Partial, PartialInv
    <3>1. Held' = Held \ {thread.job.res} /\ \A x \in Held' : uploads'[x] = uploads[x]
      BY <2>0, Removed
    <3> QED BY <3>1
  <2> QED BY <1>13, <2>1 DEF PublishFails, AtStore, ThreadTypes
<1>14. CASE Judge
  BY <1>14, Spared DEF Judge, AtStore, storeVars, ThreadTypes
<1>15. CASE AbortLate
  <2>1. \A x \in Held' : x \in Held /\ uploads'[x] = uploads[x]
    BY <1>15, Removed, Spared DEF AbortLate
  <2> QED BY <1>15, <2>1 DEF AbortLate, ThreadTypes
<1>16. CASE Report
  BY <1>16, Spared DEF Report, AtStore, storeVars, ThreadTypes
<1>17. CASE Fail
  BY <1>17, Spared DEF Fail, AtStore, storeVars, ThreadTypes
<1>18. CASE Stop
  BY <1>18 DEF Stop
<1>19. CASE Crash
  BY <1>19 DEF Crash, Held
<1>20. CASE Restart
  BY <1>20, Spared DEF Restart, AtStore, storeVars, ThreadTypes
<1>21. CASE Recover
  BY <1>21, Spared DEF Recover, AtStore, storeVars, ThreadTypes
<1>22. CASE Tick
  BY <1>22, Spared DEF Tick, AtStore, storeVars, ThreadTypes
<1>o. CASE OwnerStep
  BY <1>o, OwnerFrame DEF storeVars, Held
<1>u. CASE UNCHANGED vars
  BY <1>u DEF vars, storeVars, Held
<1> QED
  BY <1>1, <1>2, <1>3, <1>4, <1>5, <1>6, <1>7, <1>8, <1>9, <1>10, <1>11, <1>12, <1>13, <1>14, <1>15, <1>16, <1>17, <1>18, <1>19, <1>20, <1>21, <1>22, <1>o, <1>u DEF Next, WorkerStep

\* Nothing that is published is ever removed.
LEMMA ObjectsGrow == ASSUME [Next]_vars PROVE objects \subseteq objects'
<1>1. CASE OwnerStep
  BY <1>1, OwnerFrame DEF storeVars
<1>2. CASE WorkerStep
  BY <1>2 DEF WorkerStep, storeVars, ChooseAbort, ChooseDrain, ChooseJob, ChooseEnd, AbortSession,
     DrainAborted, Look, StoreKnown, StoreRefused, StoreWritten, StoreSpoilt, Publish, PublishFails,
     Judge, AbortLate, Report, Fail, Stop
<1>3. CASE Crash \/ Restart \/ Recover \/ Tick \/ UNCHANGED vars
  BY <1>3 DEF Crash, Restart, Recover, Tick, vars, storeVars
<1> QED BY <1>1, <1>2, <1>3 DEF Next

\* What the thread has found out about its job.
JobPublished ==
  thread.stage \in {"judge", "late", "report"} /\ thread.error = "OK" =>
    (Final(thread.job) => thread.job.res \in objects)
ResultPublished == \A r \in Requests : results[r] = "OK" => (Final(r) => r.res \in objects)
ToldPublished == \A r \in Requests : told[r] = "committed" => (Final(r) => r.res \in objects)

LEMMA JobPublishedStep ==
  ASSUME StorageAssumption, AbsentAssumption, Types, PartialInv, JobPublished, [Next]_vars
  PROVE  JobPublished'
<1> USE DEF JobPublished, Types, IdleWorker
<1>1. ASSUME NEW s \in Sessions, ChooseAbort(s) PROVE JobPublished'
  BY <1>1 DEF ChooseAbort, ThreadTypes, AtRest, Move
<1>2. CASE ChooseDrain
  BY <1>2 DEF ChooseDrain, ThreadTypes, AtRest, Move
<1>3. CASE ChooseJob
  BY <1>3 DEF ChooseJob, ThreadTypes, AtRest, Move
<1>4. CASE ChooseEnd
  BY <1>4 DEF ChooseEnd, ThreadTypes, AtRest, Move
<1>5. CASE AbortSession
  BY <1>5 DEF AbortSession, ThreadTypes, AtRest, Move
<1>6. CASE DrainAborted
  BY <1>6 DEF DrainAborted, ThreadTypes, AtRest, Move
<1>7. CASE Look
  BY <1>7 DEF Look, Cause, ThreadTypes, Err, Move
<1>8. ASSUME NEW r \in Requests, StoreKnown(r) PROVE JobPublished'
  <2>1. HasPart(r) /\ r = thread.job /\ thread.stage = "store"
    BY <1>8 DEF StoreKnown, AtStore
  <2>2. r.res \in Resources /\ r.part \in Nat /\ Parts[r.res] \in Nat
    BY StorageAssumption DEF StorageAssumption
  <2>3. ASSUME r.res \notin objects PROVE uploads[r.res].parts < Parts[r.res] /\ r.part <= uploads[r.res].parts
    BY <2>1, <2>2, <2>3 DEF HasPart, PartialInv, Partial, Held
  <2>4. uploads[r.res] # Absent => uploads[r.res].parts \in Nat
    BY <2>2 DEF StoreTypes, Upload
  <2>5. r.res \notin objects => ~Final(r)
    BY <2>1, <2>2, <2>3, <2>4 DEF Final, HasPart
  <2>6. thread'.job = r
    BY <1>8, <2>1 DEF StoreKnown, Err, ThreadTypes
  <2> QED BY <2>5, <2>6, ObjectsGrow DEF Final
<1>9. ASSUME NEW r \in Requests, StoreRefused(r) PROVE JobPublished'
  BY <1>9 DEF StoreRefused, Err, ThreadTypes
<1>10. ASSUME NEW r \in Requests, StoreWritten(r) PROVE JobPublished'
  BY <1>10 DEF StoreWritten, Err, Move, ThreadTypes, AtStore, Final
<1>11. ASSUME NEW r \in Requests, StoreSpoilt(r) PROVE JobPublished'
  BY <1>11 DEF StoreSpoilt, Err, ThreadTypes
<1>12. CASE Publish
  BY <1>12 DEF Publish, Err, ThreadTypes
<1>13. CASE PublishFails
  BY <1>13 DEF PublishFails, Err, ThreadTypes
<1>14. CASE Judge
  <2>1. thread'.error = "OK" => thread.error = "OK"
    BY <1>14 DEF Judge, Verdict, Cause, Err, ThreadTypes
  <2>2. thread.stage = "judge" /\ thread'.job = thread.job
    BY <1>14 DEF Judge, Err, ThreadTypes
  <2> QED BY <2>1, <2>2, ObjectsGrow DEF Final
<1>15. CASE AbortLate
  <2>1. thread.stage = "late" /\ thread'.job = thread.job /\ thread'.error = thread.error
    BY <1>15 DEF AbortLate, Move, ThreadTypes
  <2> QED BY <2>1, ObjectsGrow DEF Final
<1>16. CASE Report
  BY <1>16 DEF Report, ThreadTypes, AtRest, Move
<1>17. CASE Fail
  BY <1>17 DEF Fail, Err, ThreadTypes
<1>18. CASE Stop
  BY <1>18 DEF Stop, ThreadTypes, AtRest, Move
<1>19. CASE Crash
  BY <1>19 DEF Crash, ThreadTypes, AtRest, Move
<1>20. CASE Restart
  BY <1>20 DEF Restart, Final
<1>21. CASE Recover
  BY <1>21 DEF Recover, Final
<1>22. CASE Tick
  BY <1>22 DEF Tick, storeVars, Final
<1>o. CASE OwnerStep
  BY <1>o, OwnerFrame DEF storeVars, Final
<1>u. CASE UNCHANGED vars
  BY <1>u DEF vars, storeVars, Final
<1> QED
  BY <1>1, <1>2, <1>3, <1>4, <1>5, <1>6, <1>7, <1>8, <1>9, <1>10, <1>11, <1>12, <1>13, <1>14, <1>15, <1>16, <1>17, <1>18, <1>19, <1>20, <1>21, <1>22, <1>o, <1>u DEF Next, WorkerStep

LEMMA WorkerResults == ASSUME WorkerStep PROVE results' = results \/ Report \/ Fail
BY DEF WorkerStep, sharedVars, ChooseAbort, ChooseDrain, ChooseJob, ChooseEnd, AbortSession,
       DrainAborted, Look, StoreKnown, StoreRefused, StoreWritten, StoreSpoilt, Publish,
       PublishFails, Judge, AbortLate, Stop

LEMMA ResultPublishedStep ==
  ASSUME AbsentAssumption, Types, JobPublished, ResultPublished, [Next]_vars
  PROVE  ResultPublished'
<1>1. objects \subseteq objects'
  BY ObjectsGrow
<1>2. \A r \in Requests : results'[r] = "OK" => results[r] = "OK" \/ (Report /\ r = thread.job /\ thread.error = "OK")
  <2> USE DEF Types, SharedTypes
  <2>1. CASE UNCHANGED results
    BY <2>1
  <2>2. ASSUME NEW r \in Requests, Deliver(r) PROVE <1>2
    BY <2>2, AbsentAssumption DEF Deliver, Errors
  <2>3. CASE Report
    BY <2>3 DEF Report
  <2>4. CASE Fail
    BY <2>4 DEF Fail
  <2>5. CASE Crash
    BY <2>5, AbsentAssumption DEF Crash, Errors
  <2>6. Restart \/ Recover \/ Tick \/ UNCHANGED vars => UNCHANGED results
    BY DEF Restart, Recover, Tick, vars, sharedVars
  <2> QED BY <2>1, <2>2, <2>3, <2>4, <2>5, <2>6, OwnerFrame, WorkerResults DEF Next
<1>3. Report /\ thread.error = "OK" => (Final(thread.job) => thread.job.res \in objects)
  BY DEF Report, JobPublished
<1> QED BY <1>1, <1>2, <1>3 DEF ResultPublished, Final

\* A new commit is told by Deliver only, from a good result in time.
LEMMA NewlyTold ==
  ASSUME Types, [Next]_vars, NEW r \in Requests, told'[r] = "committed", told[r] # "committed"
  PROVE  Deliver(r) /\ Finishable(r) /\ results[r] = "OK"
<1> USE DEF Types, OwnerTypes
<1>1. ASSUME NEW q \in Requests, Receive(q) PROVE FALSE
  BY <1>1 DEF Receive, Tell
<1>2. ASSUME NEW q \in Requests, Submit(q) PROVE FALSE
  BY <1>2 DEF Submit, Tell
<1>3. ASSUME NEW q \in Requests, SubmitRefused(q) PROVE FALSE
  BY <1>3 DEF SubmitRefused, Tell
<1>4. ASSUME NEW q \in Requests, Deliver(q) PROVE Deliver(r) /\ Finishable(r) /\ results[r] = "OK"
  BY <1>4 DEF Deliver, Tell
<1>5. ASSUME NEW s \in Sessions, OpenSession(s) \/ EndSession(s) PROVE FALSE
  BY <1>5 DEF OpenSession, EndSession
<1>6. ~(Synchronize \/ AskDrain \/ Close)
  BY DEF Synchronize, AskDrain, Close, ownerVars
<1>7. ~WorkerStep
  BY WorkerFrame DEF ownerVars
<1>8. ~(Crash \/ Restart \/ Recover \/ Tick \/ UNCHANGED vars)
  BY DEF Crash, Restart, Recover, Tick, vars, ownerVars
<1> QED BY <1>1, <1>2, <1>3, <1>4, <1>5, <1>6, <1>7, <1>8 DEF Next, OwnerStep

LEMMA ToldPublishedStep ==
  ASSUME Types, ResultPublished, ToldPublished, [Next]_vars
  PROVE  ToldPublished'
<1>1. objects \subseteq objects'
  BY ObjectsGrow
<1>2. ASSUME NEW r \in Requests, told'[r] = "committed", told[r] # "committed"
      PROVE  Final(r) => r.res \in objects
  BY <1>2, NewlyTold DEF ResultPublished
<1> QED BY <1>1, <1>2 DEF ToldPublished, Final

-----------------------------------------------------------------------------
(* The theorems.                                                           *)

LEMMA PublishedParts == PublishedInv <=> JobPublished /\ ResultPublished /\ ToldPublished
BY DEF PublishedInv, JobPublished, ResultPublished, ToldPublished

LEMMA TypeParts == TypeOK => Types
BY DEF TypeOK, Types, OwnerTypes, SharedTypes, ThreadTypes, StoreTypes

LEMMA TypeWhole ==
  ASSUME StorageAssumption, Types, FitInv
  PROVE  TypeOK
<1>1. aborted \in Nat /\ MaxAborts \in Nat /\ Cardinality(Held) \in Nat
  BY StorageAssumption, FS_CardinalityType DEF Types, StoreTypes, StorageAssumption, FitInv
<1>2. aborted \in 0..MaxAborts
  BY <1>1 DEF FitInv, AbortsFit
<1> QED BY <1>2 DEF TypeOK, Types, OwnerTypes, SharedTypes, ThreadTypes, StoreTypes

LEMMA StorageInvInit == ASSUME StorageAssumption, AbsentAssumption, Init PROVE StorageInv
<1> USE DEF Init
<1>1. Held = {}
  BY DEF Held
<1>2. Types
  <2>1. OwnerTypes
    BY DEF OwnerTypes, Answers
  <2>2. SharedTypes
    <3>1. queue \in Seq(Requests)
      OBVIOUS
    <3>2. results \in [Requests -> Errors \cup {Absent}] /\ due \in [Requests -> Nat]
      OBVIOUS
    <3> QED BY <3>1, <3>2 DEF SharedTypes
  <2>3. ThreadTypes
    BY DEF ThreadTypes, IdleWorker, Stages, Errors
  <2>4. StoreTypes
    BY DEF StoreTypes
  <2> QED BY <2>1, <2>2, <2>3, <2>4 DEF Types
<1>3. FitInv
  BY <1>1, FS_EmptySet, StorageAssumption DEF FitInv, AbortsFit, StorageAssumption
<1>4. TypeOK
  BY <1>2, <1>3, StorageAssumption, TypeWhole
<1>5. JobInv
  BY FS_EmptySet, StorageAssumption DEF JobInv, StorageAssumption
<1>6. ThreadInv /\ AdmissionInv /\ LockInv /\ WatchInv /\ OwedIsWorked /\ PartialInv
  BY <1>1 DEF ThreadInv, Working, IdleWorker, AdmissionInv, LockInv, RemainsAreLocked, WatchInv, OwedIsWorked, PartialInv
<1>7. PublishedInv
  BY AbsentAssumption DEF PublishedInv, IdleWorker, Errors
<1> QED BY <1>3, <1>4, <1>5, <1>6, <1>7 DEF StorageInv

LEMMA StorageInvStep ==
  ASSUME StorageAssumption, AbsentAssumption, StorageInv, [Next]_vars
  PROVE  StorageInv'
<1>1. Types /\ JobPublished /\ ResultPublished /\ ToldPublished
  BY TypeParts, PublishedParts DEF StorageInv
<1>2. Types'
  BY <1>1, OwnerTypesStep, SharedTypesStep, ThreadTypesStep, StoreTypesStep, StorageAssumption, AbsentAssumption
     DEF StorageInv, Types
<1>3. FitInv'
  BY <1>1, FitStep, StorageAssumption, AbsentAssumption DEF StorageInv
<1>4. TypeOK'
  <2>1. aborted' \in Nat /\ MaxAborts \in Nat /\ Cardinality(Held') \in Nat
    BY <1>2, <1>3, StorageAssumption, FS_CardinalityType DEF Types, StoreTypes, StorageAssumption, FitInv
  <2>2. aborted' \in 0..MaxAborts
    BY <2>1, <1>3 DEF FitInv, AbortsFit
  <2> QED BY <1>2, <2>2 DEF TypeOK, Types, OwnerTypes, SharedTypes, ThreadTypes, StoreTypes
<1>5. ThreadInv' /\ AdmissionInv' /\ LockInv'
  BY <1>1, ThreadStep, AdmissionStep, LockStep, StorageAssumption, AbsentAssumption DEF StorageInv
<1>6. WatchInv' /\ JobInv' /\ OwedIsWorked' /\ PartialInv'
  BY <1>1, WatchStep, JobStep, OwedStep, PartialStep, StorageAssumption, AbsentAssumption DEF StorageInv
<1>7. JobPublished' /\ ResultPublished' /\ ToldPublished'
  BY <1>1, JobPublishedStep, ResultPublishedStep, ToldPublishedStep, StorageAssumption, AbsentAssumption
     DEF StorageInv
<1>8. PublishedInv'
  BY <1>7 DEF PublishedInv, JobPublished, ResultPublished, ToldPublished
<1> QED BY <1>3, <1>4, <1>5, <1>6, <1>8 DEF StorageInv

LEMMA StorageInvariant == Spec => []StorageInv
<1>1. Init => StorageInv
  BY StorageInvInit, StorageAssumption, AbsentAssumption
<1>2. StorageInv /\ [Next]_vars => StorageInv'
  BY StorageInvStep, StorageAssumption, AbsentAssumption
<1> QED BY <1>1, <1>2, PTL DEF Spec

\* The inductive invariant implies what is promised.
LEMMA StorageInvSound == StorageInv => StorageSound
<1> SUFFICES ASSUME StorageInv PROVE StorageSound
  OBVIOUS
<1>1. TypeOK /\ OwedIsWorked /\ AbortsFit /\ RemainsAreLocked
  BY DEF StorageInv, FitInv, LockInv
<1>2. CommittedIsPublished
  BY DEF StorageInv, PublishedInv, CommittedIsPublished
<1>3. UploadsAreWatched
  BY DEF StorageInv, WatchInv, UploadsAreWatched
<1>4. JobsAccounted
  BY DEF StorageInv, JobInv, JobsAccounted, InQueue, AtWork
<1> QED BY <1>1, <1>2, <1>3, <1>4 DEF StorageSound

\* A source that was told its last chunk is committed finds the resource published,
\* whatever failed, and also after a crash: resources.py publishes before the worker
\* reports, and nothing published is removed.
THEOREM CommitsArePublished == Spec => []CommittedIsPublished
<1>1. StorageInv => CommittedIsPublished
  BY StorageInvSound DEF StorageSound
<1> QED BY <1>1, StorageInvariant, PTL

\* Owner, worker and disk agree: types, published commits, owed results that are
\* worked on, uploads the worker knows of and has abort records for, jobs within the
\* capacity and none of them lost, remains that keep the lock.
THEOREM StorageIsSound == Spec => []StorageSound
BY StorageInvSound, StorageInvariant, PTL

\* finish_resource_response tells success in time only, and to a session that is
\* still there.
THEOREM CommitsInTime == Spec => CommitInTime
<1> DEFINE InTime == \A r \in Requests :
       told'[r] = "committed" /\ told[r] # "committed" => now < Deadline(r) /\ r.sid \in live
<1>1. StorageInv /\ [Next]_vars => [InTime]_vars
  <2> SUFFICES ASSUME StorageInv, [Next]_vars, NEW r \in Requests,
                      told'[r] = "committed", told[r] # "committed"
               PROVE  now < Deadline(r) /\ r.sid \in live
    OBVIOUS
  <2>1. Types
    BY TypeParts DEF StorageInv
  <2>2. Finishable(r) /\ results[r] = "OK"
    BY <2>1, NewlyTold
  <2>3. owed[r] = Deadline(r)
    BY <2>2 DEF StorageInv, AdmissionInv, Finishable
  <2> QED BY <2>2, <2>3 DEF Finishable
<1> QED BY <1>1, StorageInvariant, PTL DEF Spec, CommitInTime
==============================================================================
