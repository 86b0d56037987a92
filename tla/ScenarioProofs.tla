--------------------------- MODULE ScenarioProofs ---------------------------
(***************************************************************************)
(* Theorems about what a scenario source concludes from the feedback it     *)
(* reads and about how its records are saved, for any clock, time-outs,     *)
(* validities, fragments, streams and numbers of requests: the step it      *)
(* shows, the lease of control it counts on, and the rows on disk and in    *)
(* memory.                                                                  *)
(***************************************************************************)
EXTENDS ScenarioRun, EvidenceRecorder, SourceClock, SequenceTheorems,
        WellFoundedInduction, TLAPS

(* What a source believes: ClockSound of SourceClock.                       *)

ModelSteps == 0..LastModelStep
ModelStates == {"PAUSED", "RUNNING"}
Replied == [verdict : {"STATUS", "APPLIED", "VALIDATED", "FAILED"}, step : ModelSteps,
            state : ModelStates, ours : BOOLEAN]
Sent == [kind : Kinds \cup {"DONE"}, at : Nat, target : ModelSteps, answer : {Unset} \cup Replied]
Observed == [seq : Nat, step : ModelSteps, state : ModelStates, ours : BOOLEAN, until : Nat]
Leases == [seq : Nat, owner : Nat, at : Nat, until : Nat]

Approvals ==
  {NoGuard} \cup [pc : {"reading"}, status : Observed]
  \cup [pc : {"approved", "sending"}, status : Observed, control : Leases, until : Nat, seq : Nat,
        left : Nat, after : Nat]

\* The types of what is observed.
ClockTypes ==
  /\ clock \in 0..LastClock
  /\ core \in [step : ModelSteps, state : ModelStates, ours : BOOLEAN]
  /\ requests \in Seq(Sent)
  /\ status \in {Unset} \cup Observed
  /\ stepFloor \in Nat /\ retired \in BOOLEAN
  /\ controlBoundary \in 0..Len(requests) /\ requested \in BOOLEAN
  /\ controlLease \in {Unset} \cup Leases
  /\ shown \in ModelSteps /\ revokedAfter \in 0..Len(requests)
  /\ approval \in Approvals /\ revocations \in Nat

\* The floor is above the Status that is held and above what was shown.
FloorInv ==
  /\ shown <= stepFloor
  /\ status # Unset => /\ status.step <= stepFloor
                       /\ status.seq \in DOMAIN requests /\ requests[status.seq] = Done

\* A request for control that is in force was sent after the last revocation, and
\* a lease comes from it.
LeaseInv ==
  /\ requested => controlBoundary > revokedAfter
  /\ controlLease # Unset =>
       /\ controlLease.owner = controlBoundary /\ requested
       /\ controlLease.seq \in DOMAIN requests /\ controlLease.owner <= controlLease.seq

ClockInv == ClockTypes /\ FloorInv /\ LeaseInv

LEMMA ClockBounds == \A n \in {StatusValid, ControlTimeout, SampleValid, Fragments, LastClock, LastModelStep} : n \in Nat
BY ClockAssumption DEF ClockAssumption

LEMMA ClockInvSound == ASSUME ClockInv PROVE ClockSound
<1> USE ClockBounds DEF ClockInv, ClockTypes
<1>1. core.step \in 0..LastModelStep /\ shown \in 0..LastModelStep
  BY DEF ModelSteps
<1>2. \A i \in DOMAIN requests : requests[i].kind \in Kinds \cup {"DONE"}
  <2>1. \A i \in DOMAIN requests : requests[i] \in Sent
    OBVIOUS
  <2> QED BY <2>1 DEF Sent
<1>3. approval.pc \in {"none", "reading", "approved", "sending"}
  BY DEF Approvals, NoGuard
<1>4. ClockTypeOK
  BY <1>1, <1>2, <1>3 DEF ClockTypeOK, FloorInv, LeaseInv
<1>5. ShownNeverBack
  <2>1. status # Unset => status.step \in Nat
    BY DEF Observed, ModelSteps
  <2>2. stepFloor \in Nat /\ shown \in Nat
    BY DEF ModelSteps
  <2>3. shown <= stepFloor
    BY DEF FloorInv
  <2> QED BY <2>1, <2>2, <2>3 DEF ShownNeverBack, Shows
<1>6. LeaseAfterRevocation /\ LeaseOfNewestOwner
  BY DEF LeaseAfterRevocation, LeaseOfNewestOwner, LeaseInv
<1> QED BY <1>4, <1>5, <1>6 DEF ClockSound

LEMMA ClockInvInit == ASSUME ClockInit PROVE ClockInv
<1>1. /\ 0 \in ModelSteps /\ 0 \in 0..LastClock /\ StatusValid \in Nat /\ ControlTimeout \in Nat
  BY ClockBounds DEF ModelSteps
<1>2. /\ clock = 0 /\ stepFloor = 0 /\ retired = FALSE /\ approval = NoGuard
      /\ shown = 0 /\ revocations = 0 /\ revokedAfter = 0
  BY DEF ClockInit
<1>3. approval \in Approvals
  BY <1>2 DEF Approvals
<1>4. CASE /\ core = [step |-> 0, state |-> "PAUSED", ours |-> FALSE]
           /\ requests = <<>> /\ status = Unset
           /\ controlBoundary = 0 /\ requested = FALSE /\ controlLease = Unset
  <2>1. core \in [step : ModelSteps, state : ModelStates, ours : BOOLEAN]
    BY <1>1, <1>4 DEF ModelStates
  <2>2. requests \in Seq(Sent) /\ Len(requests) = 0
    BY <1>4
  <2>3. ClockTypes
    <3>1. /\ controlBoundary \in 0..Len(requests) /\ revokedAfter \in 0..Len(requests)
          /\ stepFloor \in Nat /\ revocations \in Nat
      BY <1>2, <1>4, <2>2
    <3>2. retired \in BOOLEAN /\ requested \in BOOLEAN
      BY <1>2, <1>4
    <3> QED BY <1>1, <1>2, <1>3, <1>4, <2>1, <2>2, <3>1, <3>2 DEF ClockTypes
  <2> QED BY <1>2, <1>4, <2>3 DEF ClockInv, FloorInv, LeaseInv
<1>5. CASE /\ core = [step |-> 0, state |-> "PAUSED", ours |-> TRUE]
           /\ requests = <<Done, Done, Done>>
           /\ status = [seq |-> 3, step |-> 0, state |-> "PAUSED", ours |-> TRUE, until |-> StatusValid]
           /\ controlBoundary = 2 /\ requested = TRUE
           /\ controlLease = [seq |-> 2, owner |-> 2, at |-> 0, until |-> ControlTimeout]
  <2>1. core \in [step : ModelSteps, state : ModelStates, ours : BOOLEAN]
    BY <1>1, <1>5 DEF ModelStates
  <2>2. Done \in Sent
    BY <1>1 DEF Done, Sent
  <2>3. requests \in Seq(Sent) /\ Len(requests) = 3 /\ DOMAIN requests = 1..3 /\ requests[3] = Done
    BY <1>5, <2>2
  <2>4. status \in Observed
    BY <1>1, <1>5 DEF ModelStates, Observed
  <2>5. controlLease \in Leases
    BY <1>1, <1>5 DEF Leases
  <2>6. controlBoundary \in 0..Len(requests) /\ revokedAfter \in 0..Len(requests)
    BY <1>2, <1>5, <2>3
  <2>7. ClockTypes
    BY <1>1, <1>2, <1>3, <1>5, <2>1, <2>3, <2>4, <2>5, <2>6 DEF ClockTypes
  <2>8. status.step = 0 /\ status.seq = 3 /\ controlLease.seq = 2 /\ controlLease.owner = 2
    BY <1>5
  <2> QED BY <1>2, <1>5, <2>3, <2>7, <2>8 DEF ClockInv, FloorInv, LeaseInv
<1> QED BY <1>4, <1>5 DEF ClockInit

\* What a request of the sequence that is appended or replaced leaves.
LEMMA RequestsAppend ==
  ASSUME NEW S, NEW q \in Seq(S), NEW e \in S
  PROVE  /\ Append(q, e) \in Seq(S) /\ Len(Append(q, e)) = Len(q) + 1 /\ Len(q) \in Nat
         /\ \A i \in DOMAIN q : i \in DOMAIN Append(q, e) /\ Append(q, e)[i] = q[i]
OBVIOUS

LEMMA RequestsExcept ==
  ASSUME NEW S, NEW q \in Seq(S), NEW e \in S, NEW i \in DOMAIN q
  PROVE  /\ [q EXCEPT ![i] = e] \in Seq(S) /\ Len([q EXCEPT ![i] = e]) = Len(q)
         /\ DOMAIN [q EXCEPT ![i] = e] = DOMAIN q
         /\ [q EXCEPT ![i] = e][i] = e
         /\ \A j \in DOMAIN q \ {i} : [q EXCEPT ![i] = e][j] = q[j]
OBVIOUS

LEMMA SendClock ==
  ASSUME ClockInv, NEW kind \in Kinds, Send(kind)
  PROVE  ClockInv'
<1> USE ClockBounds DEF ClockInv, ClockTypes
<1> DEFINE e == Unanswered(kind, IF status = Unset THEN 0 ELSE status.step)
<1>1. e \in Sent
  BY DEF Unanswered, Sent, Observed, ModelSteps
<1>2. requests' = Append(requests, e)
  BY DEF Send
<1>3. requests' \in Seq(Sent) /\ Len(requests') = Len(requests) + 1 /\ Len(requests) \in Nat
      /\ \A i \in DOMAIN requests : i \in DOMAIN requests' /\ requests'[i] = requests[i]
  BY <1>1, <1>2, RequestsAppend
<1> HIDE DEF e
<1>4. UNCHANGED <<clock, core, status, stepFloor, retired, approval, shown, revokedAfter, revocations>>
  BY DEF Send, historyVars
<1>5. /\ kind \in Boundaries =>
          controlBoundary' = Len(requests) + 1 /\ controlLease' = Unset /\ requested' = (kind = "OWNER")
      /\ kind \notin Boundaries => UNCHANGED <<controlBoundary, requested, controlLease>>
  BY DEF Send, Claim
<1>6. ClockTypes'
  <2>1. controlBoundary' \in 0..Len(requests') /\ revokedAfter' \in 0..Len(requests')
    BY <1>3, <1>4, <1>5
  <2>2. requested' \in BOOLEAN /\ controlLease' \in {Unset} \cup Leases
    BY <1>5
  <2> QED BY <1>3, <1>4, <2>1, <2>2
<1>7. FloorInv'
  BY <1>3, <1>4 DEF FloorInv
<1>8. LeaseInv'
  BY <1>3, <1>4, <1>5 DEF LeaseInv
<1> QED BY <1>6, <1>7, <1>8

LEMMA AnswerClock ==
  ASSUME ClockInv, NEW i \in DOMAIN requests, Answer(i)
  PROVE  ClockInv'
<1> USE ClockBounds DEF ClockInv, ClockTypes
<1>1. PICK v \in Verdict(requests[i]) :
        /\ requests' = [requests EXCEPT ![i].answer =
             [verdict |-> v, step |-> core.step, state |-> core.state, ours |-> core.ours]]
        /\ core' = IF v = "APPLIED" THEN Applied(requests[i].kind) ELSE core
  BY DEF Answer
<1>2. requests[i] \in Sent /\ requests[i].kind # "DONE" /\ requests[i].kind \in Kinds
  <2>1. requests[i] \in Sent
    OBVIOUS
  <2> QED BY <2>1 DEF Answer, Sent
<1>3. v \in {"STATUS", "APPLIED", "VALIDATED", "FAILED"}
  BY <1>2 DEF Verdict, Kinds, Boundaries, Retiring
<1> DEFINE e == [requests[i] EXCEPT !.answer =
                   [verdict |-> v, step |-> core.step, state |-> core.state, ours |-> core.ours]]
<1>4. e \in Sent
  BY <1>2, <1>3 DEF Sent, Replied
<1>5. requests' = [requests EXCEPT ![i] = e]
  BY <1>1
<1> HIDE DEF e
<1>6. requests' \in Seq(Sent) /\ Len(requests') = Len(requests) /\ DOMAIN requests' = DOMAIN requests
      /\ \A j \in DOMAIN requests \ {i} : requests'[j] = requests[j]
  BY <1>4, <1>5, RequestsExcept
<1>7. requests[i] # Done
  BY <1>2 DEF Done
<1>8. core' \in [step : ModelSteps, state : ModelStates, ours : BOOLEAN]
  <2>1. \/ core' = core \/ core' = [core EXCEPT !.ours = TRUE]
        \/ core' = [core EXCEPT !.state = "PAUSED", !.ours = FALSE]
        \/ core' = [core EXCEPT !.state = "RUNNING", !.ours = FALSE]
        \/ core' = [step |-> 0, state |-> "PAUSED", ours |-> FALSE]
    BY <1>1 DEF Applied
  <2>2. CASE core' = [core EXCEPT !.ours = TRUE]
    BY <2>2
  <2>3. CASE core' = [step |-> 0, state |-> "PAUSED", ours |-> FALSE]
    BY <2>3 DEF ModelSteps, ModelStates
  <2>4. CASE core' = [core EXCEPT !.state = "PAUSED", !.ours = FALSE]
    BY <2>4 DEF ModelStates
  <2>5. CASE core' = [core EXCEPT !.state = "RUNNING", !.ours = FALSE]
    BY <2>5 DEF ModelStates
  <2> QED BY <2>1, <2>2, <2>3, <2>4, <2>5
<1>9. UNCHANGED <<clock, status, stepFloor, retired, controlBoundary, requested, controlLease, approval,
                  shown, revokedAfter, revocations>>
  BY DEF Answer, sessionVars, historyVars
<1>10. ClockTypes'
  BY <1>6, <1>8, <1>9
<1>11. FloorInv'
  BY <1>6, <1>7, <1>9 DEF FloorInv
<1>12. LeaseInv'
  BY <1>6, <1>9 DEF LeaseInv
<1> QED BY <1>10, <1>11, <1>12

LEMMA ArriveClock ==
  ASSUME ClockInv, NEW i \in DOMAIN requests, Arrive(i)
  PROVE  ClockInv'
<1> DEFINE r == requests[i]
           a == r.answer
<1> USE ClockBounds DEF ClockInv, ClockTypes
<1>1. r \in Sent /\ a \in Replied /\ r.at \in Nat /\ i \in 1..Len(requests) /\ Len(requests) \in Nat
  <2>1. r \in Sent
    OBVIOUS
  <2>2. a # Unset
    BY DEF Arrive
  <2> HIDE DEF r
  <2> QED BY <2>1, <2>2 DEF Sent
<1>2. Done \in Sent
  BY DEF Done, Sent, ModelSteps
<1>3. requests' \in Seq(Sent) /\ Len(requests') = Len(requests) /\ DOMAIN requests' = DOMAIN requests
      /\ requests'[i] = Done /\ \A j \in DOMAIN requests \ {i} : requests'[j] = requests[j]
  BY <1>2, RequestsExcept DEF Arrive
<1>4. UNCHANGED <<clock, core, approval>>
  BY DEF Arrive
<1>5. \/ r.kind = "STATUS" /\ TakeStatus(i, a) /\ (Revoked(i) \/ Ignore)
      \/ /\ r.kind \in {"OWNER", "INPUT", "HALT"} /\ UNCHANGED <<status, stepFloor, retired>>
         /\ Ignore \/ TakeControl(i, a)
      \/ /\ r.kind \in Retiring /\ UNCHANGED stepFloor /\ Ignore
         /\ retired' = (retired \/ a.verdict = "APPLIED")
         /\ status' = IF retired' THEN Unset ELSE status
  BY DEF Arrive
<1>6. /\ status' \in {Unset, status} \/ (status' \in Observed /\ status'.seq = i /\ status'.step <= stepFloor')
      /\ stepFloor' \in Nat /\ stepFloor' >= stepFloor /\ retired' \in BOOLEAN
  <2>1. CASE TakeStatus(i, a)
    <3>1. a.step \in Nat /\ a.step \in ModelSteps
      BY <1>1 DEF Replied, ModelSteps
    <3>2. stepFloor' \in Nat /\ stepFloor' >= stepFloor /\ stepFloor' >= a.step
      BY <2>1, <3>1, SMTT(30) DEF TakeStatus, RaiseFloor, Greater
    <3>3. retired' \in BOOLEAN
      BY <2>1 DEF TakeStatus
    <3>4. status' = status \/ status' = [seq |-> i, step |-> a.step, state |-> a.state, ours |-> a.ours,
                                         until |-> requests[i].at + StatusValid]
      BY <2>1 DEF TakeStatus
    <3>5. [seq |-> i, step |-> a.step, state |-> a.state, ours |-> a.ours,
           until |-> requests[i].at + StatusValid] \in Observed
      <4>1. i \in Nat /\ requests[i].at + StatusValid \in Nat
        BY <1>1
      <4>2. a.step \in ModelSteps /\ a.state \in ModelStates /\ a.ours \in BOOLEAN
        BY <1>1 DEF Replied
      <4> HIDE DEF r, a, ClockInv, ClockTypes
      <4> QED BY <4>1, <4>2 DEF Observed
    <3>6. CASE status' = [seq |-> i, step |-> a.step, state |-> a.state, ours |-> a.ours,
                          until |-> requests[i].at + StatusValid]
      <4>1. status'.seq = i /\ status'.step = a.step
        BY <3>6
      <4> QED BY <3>1, <3>2, <3>3, <3>5, <3>6, <4>1
    <3> QED BY <3>2, <3>3, <3>4, <3>6
  <2>2. CASE UNCHANGED <<status, stepFloor, retired>>
    BY <2>2
  <2>3. CASE UNCHANGED stepFloor /\ retired' = (retired \/ a.verdict = "APPLIED")
             /\ status' = IF retired' THEN Unset ELSE status
    <3>1. retired' \in BOOLEAN
      BY <2>3, Zenon
    <3>2. status' \in {Unset, status} /\ stepFloor' = stepFloor
      BY <2>3
    <3> QED BY <3>1, <3>2
  <2> QED BY <1>5, <2>1, <2>2, <2>3
<1>7. /\ \/ UNCHANGED <<controlBoundary, requested, controlLease, revokedAfter>>
         \/ /\ controlLease' = Unset /\ requested' = FALSE /\ revokedAfter' = Len(requests)
            /\ controlBoundary' \in {controlBoundary, i}
         \/ /\ UNCHANGED <<controlBoundary, requested, revokedAfter>>
            /\ controlLease' = Lease(i, i) /\ i = controlBoundary /\ requested
         \/ /\ UNCHANGED <<controlBoundary, requested, revokedAfter>>
            /\ controlLease # Unset /\ i > controlLease.seq /\ controlLease' = Lease(i, controlLease.owner)
      /\ shown' = shown /\ revocations' \in {revocations, revocations + 1}
  BY <1>5 DEF Revoked, Revoke, Greater, Ignore, TakeControl, GrantsLease, RenewsLease, historyVars
<1>8. \A owner \in Nat : /\ Lease(i, owner) \in Leases
                         /\ Lease(i, owner).seq = i /\ Lease(i, owner).owner = owner
  BY <1>1 DEF Lease, Leases
<1> HIDE DEF r, a
<1>9. ClockTypes'
  <2>1. status' \in {Unset} \cup Observed
    BY <1>6
  <2>2. controlLease' \in {Unset} \cup Leases
    <3>1. controlLease # Unset => controlLease.owner \in Nat
      BY DEF Leases
    <3> QED BY <1>1, <1>7, <1>8, <3>1
  <2>3. /\ controlBoundary' \in 0..Len(requests') /\ requested' \in BOOLEAN
        /\ revokedAfter' \in 0..Len(requests') /\ revocations' \in Nat
    <3>1. Len(requests) \in Nat /\ i <= Len(requests) /\ i \in Nat /\ Len(requests') = Len(requests)
          /\ controlBoundary \in 0..Len(requests) /\ revokedAfter \in 0..Len(requests)
          /\ requested \in BOOLEAN /\ revocations \in Nat
      BY <1>1, <1>3
    <3> HIDE ClockBounds DEF ClockInv, ClockTypes
    <3>2. revocations' \in Nat /\ requested' \in BOOLEAN
      <4>1. requested' = requested \/ requested' = FALSE
        BY <1>7
      <4>2. revocations' \in Nat
        BY <3>1, <1>7
      <4> QED BY <3>1, <4>1, <4>2
    <3>3. revokedAfter' \in 0..Len(requests)
      BY <3>1, <1>7
    <3>4. controlBoundary' \in {controlBoundary, i}
      BY <1>7
    <3> QED BY <3>1, <3>2, <3>3, <3>4
  <2> QED BY <1>3, <1>4, <1>6, <1>7, <2>1, <2>2, <2>3
<1>10. FloorInv'
  <2>1. shown' <= stepFloor'
    BY <1>6, <1>7 DEF FloorInv, ModelSteps
  <2>2. CASE status' = Unset
    BY <2>1, <2>2 DEF FloorInv
  <2>3. CASE status' = status /\ status # Unset
    <3>1. status.step \in Nat /\ status.step <= stepFloor'
      BY <1>6, <2>3 DEF FloorInv, Observed, ModelSteps
    <3>2. status.seq \in DOMAIN requests' /\ requests'[status.seq] = Done
      BY <1>3, <2>3 DEF FloorInv
    <3> QED BY <2>1, <2>3, <3>1, <3>2 DEF FloorInv
  <2>4. CASE status'.seq = i /\ status'.step <= stepFloor'
    BY <1>3, <2>1, <2>4 DEF FloorInv
  <2> QED BY <1>6, <2>2, <2>3, <2>4
<1>11. LeaseInv'
  <2>1. CASE UNCHANGED <<controlBoundary, requested, controlLease, revokedAfter>>
    BY <1>3, <2>1 DEF LeaseInv
  <2>2. CASE controlLease' = Unset /\ requested' = FALSE
    BY <2>2 DEF LeaseInv
  <2>3. CASE /\ UNCHANGED <<controlBoundary, requested, revokedAfter>>
             /\ controlLease' = Lease(i, i) /\ i = controlBoundary /\ requested
    BY <1>1, <1>3, <1>8, <2>3 DEF LeaseInv
  <2>4. CASE /\ UNCHANGED <<controlBoundary, requested, revokedAfter>>
             /\ controlLease # Unset /\ i > controlLease.seq /\ controlLease' = Lease(i, controlLease.owner)
    <3>1. controlLease.seq \in Nat /\ controlLease.owner \in Nat
      BY <2>4 DEF Leases
    <3>2. controlLease'.seq = i /\ controlLease'.owner = controlLease.owner
      BY <1>8, <2>4, <3>1
    <3> QED BY <1>1, <1>3, <2>4, <3>1, <3>2 DEF LeaseInv
  <2> QED BY <1>7, <2>1, <2>2, <2>3, <2>4
<1> QED BY <1>9, <1>10, <1>11

\* The inputs of a source that has an approval: nothing of the session changes.
LEMMA AllocateClock == ASSUME ClockInv, Allocate PROVE ClockInv'
<1> USE ClockBounds DEF ClockInv, ClockTypes
<1>1. UNCHANGED <<clock, core, status, stepFloor, retired, controlBoundary, requested, controlLease, shown,
                  revokedAfter>>
  BY DEF Allocate, sessionVars, historyVars
<1>2. approval' \in Approvals /\ revocations' = revocations
  <2>1. CASE approval' = NoGuard
    BY <2>1 DEF Allocate, historyVars, Approvals
  <2>2. CASE approval' = [approval EXCEPT !.pc = "sending", !.seq = Len(requests) + 1]
    <3>1. approval.pc = "approved" /\ Len(requests) + 1 \in Nat /\ revocations' = revocations
      BY <2>2 DEF Allocate, historyVars
    <3>2. approval \in [pc : {"approved", "sending"}, status : Observed, control : Leases, until : Nat,
                       seq : Nat, left : Nat, after : Nat]
      BY <3>1 DEF Approvals, NoGuard
    <3> QED BY <2>2, <3>1, <3>2 DEF Approvals
  <2> QED BY <2>1, <2>2 DEF Allocate
<1>3. CASE UNCHANGED requests
  BY <1>1, <1>2, <1>3 DEF FloorInv, LeaseInv
<1>4. CASE status = approval.status /\ requests' = Append(requests, Unanswered("INPUT", status.step))
  <2>1. status \in Observed
    BY <1>4 DEF Allocate, Approvals, NoGuard
  <2>2. Unanswered("INPUT", status.step) \in Sent
    BY <2>1 DEF Unanswered, Sent, Observed, ModelSteps, Kinds
  <2>3. requests' \in Seq(Sent) /\ Len(requests') = Len(requests) + 1 /\ Len(requests) \in Nat
        /\ \A i \in DOMAIN requests : i \in DOMAIN requests' /\ requests'[i] = requests[i]
    BY <2>2, <1>4, RequestsAppend
  <2>4. ClockTypes'
    BY <1>1, <1>2, <2>3
  <2>5. FloorInv' /\ LeaseInv'
    BY <1>1, <2>3 DEF FloorInv, LeaseInv
  <2> QED BY <2>4, <2>5
<1> QED BY <1>3, <1>4 DEF Allocate, GuardPasses

LEMMA ApprovalClock ==
  ASSUME ClockInv, StartApproval \/ FinishApproval \/ Transmit
  PROVE  ClockInv'
<1> USE ClockBounds DEF ClockInv, ClockTypes
<1>1. UNCHANGED <<clock, core, requests, status, stepFloor, retired, controlBoundary, requested,
                  controlLease, shown, revokedAfter, revocations>>
  BY DEF StartApproval, FinishApproval, Transmit, sessionVars, historyVars
<1>2. approval' \in Approvals
  <2>1. CASE StartApproval
    BY <2>1 DEF StartApproval, Shows, Approvals
  <2>2. CASE FinishApproval
    BY <2>2 DEF FinishApproval, Shows, ShowsControl, Approvals
  <2>3. CASE Transmit
    <3>1. approval.pc = "sending"
      BY <2>3 DEF Transmit
    <3>2. approval \in [pc : {"approved", "sending"}, status : Observed, control : Leases, until : Nat,
                       seq : Nat, left : Nat, after : Nat]
      BY <3>1 DEF Approvals, NoGuard
    <3>3. approval' = NoGuard \/ (approval.left > 1 /\ approval' = [approval EXCEPT !.left = @ - 1])
      BY <2>3 DEF Transmit
    <3> HIDE ClockBounds DEF ClockInv, ClockTypes
    <3>4. CASE approval.left > 1 /\ approval' = [approval EXCEPT !.left = @ - 1]
      <4>1. approval.left \in Nat
        BY <3>2
      <4>2. approval.left - 1 \in Nat
        BY <4>1, <3>4
      <4> QED BY <3>2, <3>4, <4>2 DEF Approvals
    <3> QED BY <3>3, <3>4 DEF Approvals
  <2> QED BY <2>1, <2>2, <2>3
<1> QED BY <1>1, <1>2 DEF FloorInv, LeaseInv

LEMMA ModelClock ==
  ASSUME ClockInv, CoreMoves \/ ClockTicks \/ ReadFeedback
  PROVE  ClockInv'
<1> USE ClockBounds DEF ClockInv, ClockTypes
<1>1. CASE CoreMoves
  <2>1. core' \in [step : ModelSteps, state : ModelStates, ours : BOOLEAN]
    <3>0. core \in [step : ModelSteps, state : ModelStates, ours : BOOLEAN] /\ LastModelStep \in Nat
      OBVIOUS
    <3> HIDE ClockBounds DEF ClockInv, ClockTypes
    <3>1. CASE core.step < LastModelStep /\ core' = [core EXCEPT !.step = @ + 1]
      BY <3>0, <3>1 DEF ModelSteps
    <3>2. CASE core' = [core EXCEPT !.state = IF @ = "RUNNING" THEN "PAUSED" ELSE "RUNNING"]
      BY <3>0, <3>2 DEF ModelStates
    <3>3. CASE core' = [step |-> 0, state |-> "PAUSED", ours |-> FALSE]
      BY <3>0, <3>3 DEF ModelSteps, ModelStates
    <3> QED BY <1>1, <3>1, <3>2, <3>3 DEF CoreMoves
  <2> QED BY <1>1, <2>1 DEF CoreMoves, sessionVars, historyVars, FloorInv, LeaseInv
<1>2. CASE ClockTicks
  BY <1>2 DEF ClockTicks, sessionVars, historyVars, FloorInv, LeaseInv
<1>3. CASE ReadFeedback
  BY <1>3 DEF ReadFeedback, Shows, Observed, sessionVars, FloorInv, LeaseInv
<1> QED BY <1>1, <1>2, <1>3

LEMMA ClockInvStep == ASSUME ClockInv, [ClockNext]_clockVars PROVE ClockInv'
<1>1. CASE UNCHANGED clockVars
  BY <1>1 DEF clockVars, sessionVars, historyVars, ClockInv, ClockTypes, FloorInv, LeaseInv
<1> QED BY <1>1, SendClock, AnswerClock, ArriveClock, AllocateClock, ApprovalClock, ModelClock
        DEF ClockNext

\* A source believes what it was told, in whatever order replies arrive: the step
\* it shows never goes back although others reset the model, and a lease is of the
\* newest owner request, which was sent after control was last taken away
\* (model_clock.py, session.py).
THEOREM SourceClockIsSound == ClockSpec => []ClockSound
<1>1. ClockInit => ClockInv
  BY ClockInvInit
<1>2. ClockInv /\ [ClockNext]_clockVars => ClockInv'
  BY ClockInvStep
<1>3. ClockInv => ClockSound
  BY ClockInvSound
<1> QED BY <1>1, <1>2, <1>3, PTL DEF ClockSpec

\* An approval whose lease was revoked has a lease of before the revocation.
ApprovalInv ==
  approval.pc \in {"approved", "sending"} =>
    /\ approval.control # Unset /\ approval.control.owner <= Len(requests)
    /\ approval.after # revocations => approval.control.owner <= revokedAfter

Guarded == [pc : {"approved", "sending"}, status : Observed, control : Leases, until : Nat, seq : Nat,
            left : Nat, after : Nat]

LEMMA ApprovalKinds ==
  ASSUME ClockInv
  PROVE  approval.pc \in {"approved", "sending"} => approval \in Guarded /\ approval.control.owner \in Nat
BY DEF ClockInv, ClockTypes, Approvals, NoGuard, Guarded, Leases

\* The steps that leave the approval leave what is said of it.
LEMMA ApprovalKept ==
  ASSUME ClockInv, ApprovalInv, UNCHANGED approval,
         Len(requests') \in Nat, Len(requests') >= Len(requests),
         \/ UNCHANGED <<revocations, revokedAfter>>
         \/ revocations' = revocations + 1 /\ revokedAfter' = Len(requests)
  PROVE  ApprovalInv'
<1>1. Len(requests) \in Nat /\ revokedAfter \in Nat
  BY DEF ClockInv, ClockTypes
<1>2. approval.pc \in {"approved", "sending"} => approval.control.owner \in Nat
  BY ApprovalKinds
<1> QED BY <1>1, <1>2 DEF ApprovalInv

LEMMA ApprovalStep ==
  ASSUME ClockInv, ApprovalInv, [ClockNext]_clockVars
  PROVE  ApprovalInv'
<1>0. Len(requests) \in Nat /\ requests \in Seq(Sent)
  BY DEF ClockInv, ClockTypes
<1>1. ASSUME NEW kind \in Kinds, Send(kind) PROVE ApprovalInv'
  <2>1. UNCHANGED <<approval, revocations, revokedAfter>> /\ Len(requests') = Len(requests) + 1
    BY <1>0, <1>1 DEF Send, historyVars
  <2> QED BY <1>0, <2>1, ApprovalKept
<1>2. ASSUME NEW i \in DOMAIN requests, Answer(i) PROVE ApprovalInv'
  <2>1. UNCHANGED <<approval, revocations, revokedAfter>> /\ Len(requests') = Len(requests)
    BY <1>0, <1>2 DEF Answer, historyVars
  <2> QED BY <1>0, <2>1, ApprovalKept
<1>3. ASSUME NEW i \in DOMAIN requests, Arrive(i) PROVE ApprovalInv'
  <2>1. UNCHANGED approval /\ Len(requests') = Len(requests)
    BY <1>0, <1>3 DEF Arrive
  <2>2. \/ UNCHANGED <<revocations, revokedAfter>>
        \/ revocations' = revocations + 1 /\ revokedAfter' = Len(requests)
    BY <1>3 DEF Arrive, Revoked, Ignore, TakeControl, historyVars
  <2> QED BY <1>0, <2>1, <2>2, ApprovalKept
<1>4. CASE StartApproval
  BY <1>4 DEF StartApproval, ApprovalInv
<1>5. CASE FinishApproval
  <2>1. UNCHANGED <<requests, revocations, revokedAfter>>
    BY <1>5 DEF FinishApproval, historyVars
  <2>2. CASE approval' = NoGuard
    BY <2>2 DEF ApprovalInv, NoGuard
  <2>3. CASE /\ controlLease # Unset
             /\ approval' = [pc |-> "approved", status |-> status, control |-> controlLease,
                             until |-> clock + SampleValid, seq |-> 0, left |-> Fragments,
                             after |-> revocations]
    <3>1. controlLease.owner <= Len(requests)
      BY <2>3 DEF ClockInv, ClockTypes, LeaseInv
    <3>2. approval'.control = controlLease /\ approval'.after = revocations
      BY <2>3
    <3> QED BY <2>1, <2>3, <3>1, <3>2 DEF ApprovalInv
  <2> QED BY <1>5, <2>2, <2>3 DEF FinishApproval, ShowsControl
<1>6. CASE Allocate
  <2>1. UNCHANGED <<revocations, revokedAfter>> /\ Len(requests') \in Nat /\ Len(requests') >= Len(requests)
    BY <1>0, <1>6 DEF Allocate, historyVars
  <2>2. CASE approval' = NoGuard
    BY <2>2 DEF ApprovalInv, NoGuard
  <2>3. CASE approval' = [approval EXCEPT !.pc = "sending", !.seq = Len(requests) + 1]
    <3>1. approval.pc = "approved"
      BY <1>6 DEF Allocate
    <3>2. approval \in Guarded /\ approval.control.owner \in Nat
      BY <3>1, ApprovalKinds
    <3>3. approval'.control = approval.control /\ approval'.after = approval.after
      BY <2>3, <3>2 DEF Guarded
    <3> QED BY <1>0, <2>1, <3>1, <3>2, <3>3 DEF ApprovalInv
  <2> QED BY <1>6, <2>2, <2>3 DEF Allocate
<1>7. CASE Transmit
  <2>1. UNCHANGED <<requests, revocations, revokedAfter>> /\ approval.pc = "sending"
    BY <1>7 DEF Transmit, historyVars
  <2>2. CASE approval' = NoGuard
    BY <2>2 DEF ApprovalInv, NoGuard
  <2>3. CASE approval' = [approval EXCEPT !.left = @ - 1]
    <3>1. approval \in Guarded
      BY <2>1, ApprovalKinds
    <3>2. approval'.control = approval.control /\ approval'.after = approval.after
      BY <2>3, <3>1 DEF Guarded
    <3> QED BY <2>1, <3>2 DEF ApprovalInv
  <2> QED BY <1>7, <2>2, <2>3 DEF Transmit
<1>8. CASE CoreMoves \/ ClockTicks \/ ReadFeedback \/ UNCHANGED clockVars
  BY <1>8 DEF CoreMoves, ClockTicks, ReadFeedback, clockVars, sessionVars, historyVars, ApprovalInv
<1> QED BY <1>1, <1>2, <1>3, <1>4, <1>5, <1>6, <1>7, <1>8 DEF ClockNext

\* No fragment of a controller input leaves after feedback has taken the control
\* away: the lease of an approval does not come back (runtime_targets.py).
THEOREM NothingSentRevoked == ClockSpec => TransmitNotRevoked
<1>1. ClockInit => ClockInv /\ ApprovalInv
  <2>1. ClockInit => approval = NoGuard
    BY DEF ClockInit
  <2> QED BY <2>1, ClockInvInit DEF ApprovalInv, NoGuard
<1>2. ClockInv /\ ApprovalInv /\ [ClockNext]_clockVars => ClockInv' /\ ApprovalInv'
  BY ClockInvStep, ApprovalStep
<1>3. ClockInv /\ ApprovalInv /\ [ClockNext]_clockVars =>
        [approval.pc = "sending" /\ approval'.pc = "sending" /\ approval' # approval
         => revocations = approval.after]_clockVars
  <2> SUFFICES ASSUME ClockInv, ApprovalInv, ClockNext, approval.pc = "sending",
                      approval'.pc = "sending", approval' # approval
               PROVE  revocations = approval.after
    OBVIOUS
  <2>1. Transmit
    BY DEF ClockNext, CoreMoves, ClockTicks, ReadFeedback, Send, Answer, Arrive, StartApproval,
           FinishApproval, Allocate, NoGuard
  <2>2. controlLease = approval.control
    BY <2>1 DEF Transmit, NoGuard, GuardPasses
  <2>3. approval \in Guarded /\ approval.control.owner \in Nat
    BY ApprovalKinds
  <2>4. controlLease \in Leases /\ revokedAfter \in Nat
    BY <2>2, <2>3 DEF Guarded, ClockInv, ClockTypes
  <2>5. controlLease # Unset => controlLease.owner > revokedAfter
    BY <2>4 DEF ClockInv, ClockTypes, LeaseInv, Leases
  <2>6. /\ approval.control # Unset
        /\ approval.after # revocations => approval.control.owner <= revokedAfter
    BY DEF ApprovalInv
  <2> QED BY <2>2, <2>3, <2>4, <2>5, <2>6
<1> QED BY <1>1, <1>2, <1>3, PTL DEF ClockSpec, TransmitNotRevoked
-----------------------------------------------------------------------------
(* Sequences of sequences.  What FlattenSeq computes is defined by recursion *)
(* over the sequence; its equations follow by the least number at which they *)
(* would fail.                                                             *)

LEMMA LeastNumber ==
  ASSUME NEW T \in SUBSET Nat, T # {}
  PROVE  \E m \in T : \A n \in T : m <= n
<1> DEFINE R == {ss \in Nat \X Nat : ss[1] < ss[2]}
<1>1. IsWellFoundedOn(R, Nat)
  BY NatLessThanWellFounded DEF OpToRel
<1>2. \E x \in T : \A y \in T : ~ (<<y, x>> \in R)
  <2> HIDE DEF R
  <2> QED BY <1>1, WFMin
<1>3. PICK x \in T : \A y \in T : ~ (<<y, x>> \in R)
  BY <1>2
<1>4. \A y \in T : x <= y
  <2> TAKE y \in T
  <2>1. <<y, x>> \in Nat \X Nat
    OBVIOUS
  <2>2. ~(y < x)
    BY <2>1, <1>3
  <2> QED BY <2>2
<1> QED BY <1>4

\* f flattens the first n sequences of q, one more at each index.
Flattens(f, q, n) == f = [i \in 1..n |-> IF i = 1 THEN q[i] ELSE f[i - 1] \o q[i]]

LEMMA FlattensExists == ASSUME NEW q, NEW n \in Nat PROVE \E f : Flattens(f, q, n)
<1> DEFINE T == {m \in Nat : ~\E f : Flattens(f, q, m)}
<1> SUFFICES ASSUME T # {} PROVE FALSE
  OBVIOUS
<1>1. PICK m \in T : \A k \in T : m <= k
  BY LeastNumber
<1>2. m \in Nat /\ ~\E f : Flattens(f, q, m)
  OBVIOUS
<1>3. CASE m = 0
  <2> DEFINE f == [i \in 1..0 |-> i]
  <2>1. Flattens(f, q, 0)
    BY DEF Flattens
  <2> QED BY <1>2, <1>3, <2>1
<1>4. CASE m # 0
  <2>1. m - 1 \in Nat /\ m - 1 \notin T
    BY <1>1, <1>2, <1>4
  <2>2. PICK f : Flattens(f, q, m - 1)
    BY <2>1
  <2> DEFINE g == [i \in 1..m |-> IF i < m THEN f[i] ELSE IF i = 1 THEN q[i] ELSE f[i - 1] \o q[i]]
  <2>3. \A i \in 1..m : g[i] = IF i = 1 THEN q[i] ELSE g[i - 1] \o q[i]
    <3> TAKE i \in 1..m
    <3>1. i # 1 => i - 1 \in 1..m /\ i - 1 < m
      BY <1>2
    <3>2. i < m => i \in 1..(m - 1)
      BY <1>2
    <3>3. i < m => f[i] = IF i = 1 THEN q[i] ELSE f[i - 1] \o q[i]
      BY <3>2, <2>2 DEF Flattens
    <3>4. i # 1 => g[i - 1] = f[i - 1]
      BY <3>1
    <3> QED BY <3>3, <3>4
  <2>4. Flattens(g, q, m)
    <3> HIDE DEF g
    <3>1. g = [i \in 1..m |-> g[i]]
      BY DEF g
    <3> QED BY <2>3, <3>1 DEF Flattens
  <2> QED BY <1>2, <2>4
<1> QED BY <1>3, <1>4

Agree(f, g, n) == \A i \in 1..n : f[i] = g[i]

LEMMA FlattensOne ==
  ASSUME NEW q, NEW r, NEW n \in Nat, NEW m \in Nat, n <= m, NEW f, NEW g,
         Flattens(f, q, n), Flattens(g, r, m), Agree(q, r, n)
  PROVE  Agree(f, g, n)
<1> USE DEF Agree
<1> DEFINE T == {i \in 1..n : f[i] # g[i]}
<1> SUFFICES ASSUME T # {} PROVE FALSE
  OBVIOUS
<1>1. T \in SUBSET Nat
  OBVIOUS
<1>2. PICK i \in T : \A k \in T : i <= k
  BY <1>1, LeastNumber
<1>3. i \in 1..n /\ i \in 1..m /\ f[i] # g[i]
  OBVIOUS
<1>4. f[i] = IF i = 1 THEN q[i] ELSE f[i - 1] \o q[i]
  BY <1>3 DEF Flattens
<1>a. g[i] = IF i = 1 THEN r[i] ELSE g[i - 1] \o r[i]
  BY <1>3 DEF Flattens
<1>5. i # 1 => i - 1 \in 1..n /\ i - 1 \notin T
  BY <1>2, <1>3
<1>6. i # 1 => f[i - 1] = g[i - 1]
  BY <1>5
<1> QED BY <1>3, <1>4, <1>a, <1>6

LEMMA FlattenIs ==
  ASSUME NEW q, Len(q) \in Nat, Len(q) # 0
  PROVE  \E f : Flattens(f, q, Len(q)) /\ FlattenSeq(q) = f[Len(q)]
<1> DEFINE c == CHOOSE f : Flattens(f, q, Len(q))
<1>1. FlattenSeq(q) = c[Len(q)]
  BY DEF FlattenSeq, Flattens
<1>2. Flattens(c, q, Len(q))
  <2>1. \E f : Flattens(f, q, Len(q))
    BY FlattensExists
  <2> QED BY <2>1
<1> QED BY <1>1, <1>2

\* A function from 1..n is a sequence of that length.
LEMMA ListIsSeq ==
  ASSUME NEW S, NEW n \in Nat, NEW q \in [1..n -> S]
  PROVE  q \in Seq(S) /\ Len(q) = n /\ DOMAIN q = 1..n
<1>1. q \in Seq(S)
  BY SeqDef
<1>2. DOMAIN q = 1..Len(q) /\ Len(q) \in Nat
  BY <1>1, LenProperties
<1> QED BY <1>1, <1>2

LEMMA FlattensAt ==
  ASSUME NEW q, NEW n \in Nat, NEW f, Flattens(f, q, n), NEW i \in 1..n
  PROVE  f[i] = IF i = 1 THEN q[i] ELSE f[i - 1] \o q[i]
BY DEF Flattens

\* The last sequence comes behind the others.
LEMMA FlattenLast ==
  ASSUME NEW S, NEW n \in Nat, NEW m \in Nat, m = n + 1,
         NEW q \in [1..m -> Seq(S)], NEW p \in [1..n -> Seq(S)],
         \A i \in 1..n : p[i] = q[i], FlattenSeq(p) \in Seq(S)
  PROVE  FlattenSeq(q) = FlattenSeq(p) \o q[m]
<1>1. Len(q) = m /\ Len(p) = n
  BY ListIsSeq
<1>2. PICK f : Flattens(f, q, m) /\ FlattenSeq(q) = f[m]
  <2>1. Len(q) \in Nat /\ Len(q) # 0
    BY <1>1
  <2> QED BY <1>1, <2>1, FlattenIs
<1>3. f[m] = IF m = 1 THEN q[m] ELSE f[m - 1] \o q[m]
  <2>1. m \in 1..m
    OBVIOUS
  <2> QED BY <1>2, <2>1, FlattensAt
<1>4. CASE n = 0
  <2>1. FlattenSeq(p) = <<>>
    <3>1. FlattenSeq(p) = p
      BY <1>1, <1>4 DEF FlattenSeq
    <3>2. p = <<>>
      BY <1>1, <1>4, ListIsSeq, EmptySeq
    <3> QED BY <3>1, <3>2
  <2>2. q[1] \in Seq(S) /\ m = 1
    BY <1>4
  <2>3. <<>> \o q[1] = q[1]
    BY <2>2, ConcatEmptySeq
  <2> QED BY <1>2, <1>3, <2>1, <2>2, <2>3
<1>5. CASE n # 0
  <2>1. PICK g : Flattens(g, p, n) /\ FlattenSeq(p) = g[n]
    <3>1. Len(p) \in Nat /\ Len(p) # 0
      BY <1>1, <1>5
    <3> QED BY <1>1, <3>1, FlattenIs
  <2>2. Agree(g, f, n)
    <3>1. n <= m /\ Agree(p, q, n)
      BY DEF Agree
    <3> QED BY <2>1, <1>2, <3>1, FlattensOne
  <2>3. g[n] = f[n]
    BY <1>5, <2>2 DEF Agree
  <2>4. m # 1 /\ m - 1 = n
    BY <1>5
  <2> QED BY <1>2, <1>3, <2>1, <2>3, <2>4
<1> QED BY <1>4, <1>5
-----------------------------------------------------------------------------
(* The recorder: RecorderSound of EvidenceRecorder.                         *)

\* The rows after a, up to b.
RowsIn(a, b) == [j \in 1..(b - a) |-> a + j]

RowNumber == 1..MaxRows
PartNames == {"directory", "records", "manifest", "archive", "pending", "final"}
Segments == [part : PartNames, content : Contents]
Turns == {"idle", "verified", "join", "joined", "seal", "publish", "detach", "verifiedToClose"}

Job == [rows : RowLists, state : {"none", "running", "ended"}, error : BOOLEAN]
Recorder == [commits : 0..MaxSegments, previous : Seq(RowLists), counts : [Streams -> Nat],
             kept : [Retained -> Nat], used : [Reclaimed -> Nat],
             failed : {"none", "STATE", "RESOURCE"}, attached : BOOLEAN, sealed : BOOLEAN,
             closed : BOOLEAN]

Checkpoint == [part : {"none", "pending", "final"}, segments : 0..MaxSegments, tip : Seq(RowLists),
               counts : [Streams -> Nat]]

RecorderTypes ==
  /\ observed \in [Streams -> 0..MaxRows] /\ live \in RowLists
  /\ action \in {"none", "sent", "answered", "finished"}
  /\ disk \in Seq(Segments)
  /\ checkpoint \in Checkpoint
  /\ job \in Job /\ rec \in Recorder
  /\ Len(rec.previous) = rec.commits
  /\ turn \in Turns

\* What is counted is saved, and the owners hold the rest.
RowsInv ==
  /\ \A s \in Streams : rec.counts[s] <= observed[s]
  /\ \A s \in Reclaimed : /\ live[s] = RowsIn(rec.counts[s], observed[s])
                          /\ rec.used[s] = observed[s] - rec.counts[s]
  /\ \A s \in Retained : live[s] = RowsIn(0, observed[s]) /\ rec.kept[s] = rec.counts[s]

\* The job has the rows that follow what is counted.
JobInv ==
  job.state # "none" =>
    /\ rec.commits < MaxSegments
    /\ \A s \in Streams :
         /\ rec.counts[s] + Len(job.rows[s]) <= observed[s]
         /\ job.rows[s] = RowsIn(rec.counts[s], rec.counts[s] + Len(job.rows[s]))

\* The segments counted are whole and hold the rows counted; there is one more
\* at most, which is the job's, and it is whole when the job ended well.
DiskInv ==
  /\ Len(disk) \in {rec.commits, rec.commits + 1}
  /\ \A i \in 1..rec.commits : disk[i].part = "final"
  /\ \A s \in Streams : SavedRows(s) = RowsIn(0, rec.counts[s])
  /\ Len(disk) = rec.commits + 1 => /\ job.state # "none"
                                    /\ disk[rec.commits + 1].content.rows = job.rows
  /\ job.state = "ended" /\ ~job.error => /\ Len(disk) = rec.commits + 1
                                          /\ disk[rec.commits + 1].part = "final"
  /\ turn \in {"verified", "verifiedToClose"} => job.state = "ended" /\ ~job.error

RecorderInv == RecorderTypes /\ RowsInv /\ JobInv /\ DiskInv /\ FeedbackKept

LEMMA RecorderBounds ==
  /\ MaxRows \in Nat /\ MaxSegments \in Nat \ {0} /\ Dispatch \in Reclaimed
  /\ Reclaimed \subseteq Streams /\ Retained \subseteq Streams
  /\ Streams = Reclaimed \cup Retained /\ Reclaimed \cap Retained = {}
BY RecorderAssumption DEF RecorderAssumption, Streams

LEMMA RowsInType ==
  ASSUME NEW a \in Nat, NEW b \in Nat, a <= b
  PROVE  /\ RowsIn(a, b) \in [1..(b - a) -> Nat] /\ Len(RowsIn(a, b)) = b - a
         /\ DOMAIN RowsIn(a, b) = 1..(b - a)
         /\ RowsIn(a, b) \in Seq(Nat)
         /\ \A j \in 1..(b - a) : RowsIn(a, b)[j] = a + j
<1>1. b - a \in Nat
  OBVIOUS
<1>2. RowsIn(a, b) \in [1..(b - a) -> Nat]
  BY DEF RowsIn
<1>3. \A j \in 1..(b - a) : RowsIn(a, b)[j] = a + j
  BY DEF RowsIn
<1> QED BY <1>1, <1>2, <1>3, ListIsSeq

LEMMA RowsInRow ==
  ASSUME NEW a \in Nat, NEW b \in Nat, a <= b, b <= MaxRows
  PROVE  RowsIn(a, b) \in Seq(RowNumber)
<1>1. b - a \in Nat /\ RowsIn(a, b) \in [1..(b - a) -> RowNumber]
  BY RecorderBounds DEF RowsIn, RowNumber
<1> QED BY <1>1, ListIsSeq

LEMMA RowsInJoin ==
  ASSUME NEW a \in Nat, NEW b \in Nat, NEW c \in Nat, a <= b, b <= c
  PROVE  RowsIn(a, b) \o RowsIn(b, c) = RowsIn(a, c)
<1> DEFINE p == RowsIn(a, b)
           q == RowsIn(b, c)
           r == RowsIn(a, c)
<1>1. /\ p \in Seq(Nat) /\ Len(p) = b - a /\ \A j \in 1..(b - a) : p[j] = a + j
      /\ q \in Seq(Nat) /\ Len(q) = c - b /\ \A j \in 1..(c - b) : q[j] = b + j
      /\ r \in Seq(Nat) /\ Len(r) = c - a /\ \A j \in 1..(c - a) : r[j] = a + j
  <2>1. p \in Seq(Nat) /\ Len(p) = b - a /\ \A j \in 1..(b - a) : p[j] = a + j
    BY RowsInType
  <2>2. q \in Seq(Nat) /\ Len(q) = c - b /\ \A j \in 1..(c - b) : q[j] = b + j
    BY RowsInType
  <2>3. a <= c
    OBVIOUS
  <2>4. r \in Seq(Nat) /\ Len(r) = c - a /\ \A j \in 1..(c - a) : r[j] = a + j
    BY <2>3, RowsInType
  <2> QED BY <2>1, <2>2, <2>4
<1> HIDE DEF p, q, r
<1>2. /\ p \o q \in Seq(Nat) /\ Len(p \o q) = c - a
      /\ \A j \in 1..(c - a) : (p \o q)[j] = IF j <= b - a THEN p[j] ELSE q[j - (b - a)]
  <2>1. /\ p \o q \in Seq(Nat) /\ Len(p \o q) = Len(p) + Len(q)
        /\ \A j \in 1..(Len(p) + Len(q)) : (p \o q)[j] = IF j <= Len(p) THEN p[j] ELSE q[j - Len(p)]
    BY <1>1, ConcatProperties
  <2>2. Len(p) + Len(q) = c - a
    BY <1>1
  <2> QED BY <1>1, <2>1, <2>2
<1>3. \A j \in 1..(c - a) : (p \o q)[j] = r[j]
  <2> TAKE j \in 1..(c - a)
  <2>1. CASE j <= b - a
    <3>1. j \in 1..(b - a)
      BY <2>1
    <3> QED BY <1>1, <1>2, <2>1, <3>1
  <2>2. CASE ~(j <= b - a)
    <3>1. j - (b - a) \in 1..(c - b) /\ b + (j - (b - a)) = a + j
      BY <2>2
    <3> QED BY <1>1, <1>2, <2>2, <3>1
  <2> QED BY <2>1, <2>2
<1>4. p \o q = r
  BY <1>1, <1>2, <1>3, SeqEqual
<1> QED BY <1>4 DEF p, q, r

LEMMA RowsInMore ==
  ASSUME NEW a \in Nat, NEW b \in Nat, a <= b
  PROVE  Append(RowsIn(a, b), b + 1) = RowsIn(a, b + 1)
<1> DEFINE p == RowsIn(a, b)
           r == RowsIn(a, b + 1)
<1>1. /\ p \in Seq(Nat) /\ Len(p) = b - a /\ \A j \in 1..(b - a) : p[j] = a + j
      /\ r \in Seq(Nat) /\ Len(r) = b + 1 - a /\ \A j \in 1..(b + 1 - a) : r[j] = a + j
  <2>1. p \in Seq(Nat) /\ Len(p) = b - a /\ \A j \in 1..(b - a) : p[j] = a + j
    BY RowsInType
  <2>2. b + 1 \in Nat /\ a <= b + 1
    OBVIOUS
  <2>3. r \in Seq(Nat) /\ Len(r) = b + 1 - a /\ \A j \in 1..(b + 1 - a) : r[j] = a + j
    BY <2>2, RowsInType
  <2> QED BY <2>1, <2>3
<1> HIDE DEF p, r
<1>2. /\ Append(p, b + 1) \in Seq(Nat) /\ Len(Append(p, b + 1)) = b - a + 1
      /\ \A j \in 1..(b - a) : Append(p, b + 1)[j] = p[j]
      /\ Append(p, b + 1)[b - a + 1] = b + 1
  <2>1. PICK e \in Nat : e = b + 1
    OBVIOUS
  <2>2. /\ Append(p, e) \in Seq(Nat) /\ Len(Append(p, e)) = Len(p) + 1
        /\ \A j \in 1..Len(p) : Append(p, e)[j] = p[j]
        /\ Append(p, e)[Len(p) + 1] = e
    BY <1>1, AppendProperties
  <2> QED BY <1>1, <2>1, <2>2
<1>3. \A j \in 1..(b + 1 - a) : Append(p, b + 1)[j] = r[j]
  <2> TAKE j \in 1..(b + 1 - a)
  <2>1. CASE j \in 1..(b - a)
    BY <1>1, <1>2, <2>1
  <2>2. CASE j = b - a + 1
    <3>1. r[j] = a + j
      BY <1>1
    <3>2. a + j = b + 1
      BY <2>2
    <3> QED BY <1>2, <2>2, <3>1, <3>2
  <2>3. j \in 1..(b - a) \/ j = b - a + 1
    OBVIOUS
  <2> QED BY <2>1, <2>2, <2>3
<1>4. Append(p, b + 1) = r
  BY <1>1, <1>2, <1>3, SeqEqual
<1> QED BY <1>4 DEF p, r

LEMMA RowsInRest ==
  ASSUME NEW a \in Nat, NEW b \in Nat, NEW k \in Nat, a + k <= b
  PROVE  SubSeq(RowsIn(a, b), k + 1, Len(RowsIn(a, b))) = RowsIn(a + k, b)
<1> DEFINE p == RowsIn(a, b)
           r == RowsIn(a + k, b)
<1>1. /\ p \in Seq(Nat) /\ Len(p) = b - a /\ \A j \in 1..(b - a) : p[j] = a + j
      /\ r \in Seq(Nat) /\ Len(r) = b - (a + k) /\ \A j \in 1..(b - (a + k)) : r[j] = a + k + j
  <2>1. a <= b /\ a + k \in Nat
    OBVIOUS
  <2>2. p \in Seq(Nat) /\ Len(p) = b - a /\ \A j \in 1..(b - a) : p[j] = a + j
    BY <2>1, RowsInType
  <2>3. r \in Seq(Nat) /\ Len(r) = b - (a + k) /\ \A j \in 1..(b - (a + k)) : r[j] = a + k + j
    BY <2>1, RowsInType
  <2> QED BY <2>2, <2>3
<1> HIDE DEF p, r
<1>2. \A i \in (k + 1)..Len(p) : i \in 1..Len(p)
  BY <1>1
<1>3. /\ SubSeq(p, k + 1, Len(p)) \in Seq(Nat)
      /\ Len(SubSeq(p, k + 1, Len(p))) = IF k + 1 <= Len(p) THEN Len(p) - (k + 1) + 1 ELSE 0
      /\ \A i \in 1..(Len(p) - (k + 1) + 1) : SubSeq(p, k + 1, Len(p))[i] = p[k + 1 + i - 1]
  BY <1>1, <1>2, SubSeqProperties
<1>4. Len(SubSeq(p, k + 1, Len(p))) = Len(r)
  BY <1>1, <1>3
<1>5. \A i \in 1..Len(r) : SubSeq(p, k + 1, Len(p))[i] = r[i]
  <2> TAKE i \in 1..Len(r)
  <2>1. i \in 1..(Len(p) - (k + 1) + 1) /\ k + 1 + i - 1 \in 1..(b - a) /\ i \in 1..(b - (a + k))
    BY <1>1
  <2>2. p[k + 1 + i - 1] = a + (k + 1 + i - 1) /\ r[i] = a + k + i
    BY <1>1, <2>1
  <2> QED BY <1>3, <2>1, <2>2
<1>6. SubSeq(p, k + 1, Len(p)) = r
  BY <1>1, <1>3, <1>4, <1>5, SeqEqual
<1> QED BY <1>6 DEF p, r

LEMMA RecorderFacts ==
  ASSUME RecorderTypes
  PROVE  /\ observed \in [Streams -> 0..MaxRows]
         /\ rec.commits \in 0..MaxSegments /\ rec.counts \in [Streams -> Nat]
         /\ rec.kept \in [Retained -> Nat] /\ rec.used \in [Reclaimed -> Nat]
         /\ rec.previous \in Seq(RowLists) /\ Len(rec.previous) = rec.commits
         /\ \A s \in Streams : /\ live[s] \in Seq(RowNumber) /\ Len(live[s]) \in Nat
                               /\ job.rows[s] \in Seq(RowNumber) /\ Len(job.rows[s]) \in Nat
                               /\ observed[s] \in Nat /\ observed[s] <= MaxRows
         /\ Len(disk) \in Nat /\ DOMAIN disk = 1..Len(disk)
         /\ \A i \in 1..Len(disk) : disk[i] \in Segments
<1> USE DEF RecorderTypes
<1>1. /\ rec.commits \in 0..MaxSegments /\ rec.counts \in [Streams -> Nat]
      /\ rec.kept \in [Retained -> Nat] /\ rec.used \in [Reclaimed -> Nat]
      /\ rec.previous \in Seq(RowLists)
  BY DEF Recorder
<1>2. job.rows \in RowLists
  BY DEF Job
<1>3. \A s \in Streams : live[s] \in Seq(RowNumber) /\ job.rows[s] \in Seq(RowNumber)
  BY <1>2 DEF RowLists, RowNumber
<1>4. \A s \in Streams : Len(live[s]) \in Nat /\ Len(job.rows[s]) \in Nat
  BY <1>3, LenProperties
<1>5. Len(disk) \in Nat /\ DOMAIN disk = 1..Len(disk) /\ \A i \in 1..Len(disk) : disk[i] \in Segments
  BY LenProperties, ElementOfSeq
<1>6. \A s \in Streams : observed[s] \in Nat /\ observed[s] <= MaxRows
  BY RecorderBounds
<1> QED BY <1>1, <1>3, <1>4, <1>5, <1>6

LEMMA SegmentRows ==
  ASSUME NEW d \in Segments
  PROVE  d.content \in Contents /\ d.content.rows \in RowLists /\ \A s \in Streams : d.content.rows[s] \in Seq(RowNumber)
BY DEF Segments, Contents, RowLists, RowNumber

\* What the recorder has not saved are the rows from what it counts.
LEMMA LiveIs ==
  ASSUME RecorderTypes, RowsInv, NEW s \in Streams
  PROVE  LiveRows(s) = RowsIn(rec.counts[s], observed[s])
<1>1. rec.counts[s] \in Nat /\ observed[s] \in Nat /\ rec.counts[s] <= observed[s]
  BY RecorderFacts DEF RowsInv
<1>2. CASE s \in Retained
  <2>1. live[s] = RowsIn(0, observed[s]) /\ rec.kept[s] = rec.counts[s]
    BY <1>2 DEF RowsInv
  <2>2. SubSeq(RowsIn(0, observed[s]), rec.counts[s] + 1, Len(RowsIn(0, observed[s]))) = RowsIn(0 + rec.counts[s], observed[s])
    <3>1. 0 \in Nat /\ 0 + rec.counts[s] <= observed[s]
      BY <1>1
    <3> QED BY <1>1, <3>1, RowsInRest
  <2>3. 0 + rec.counts[s] = rec.counts[s]
    BY <1>1
  <2> QED BY <1>2, <2>1, <2>2, <2>3 DEF LiveRows
<1>3. CASE s \notin Retained
  BY <1>3, RecorderBounds DEF LiveRows, RowsInv
<1> QED BY <1>2, <1>3

\* Steps that leave rows, job, segments and accounts as they are.
SettledRec ==
  /\ rec'.commits = rec.commits /\ rec'.counts = rec.counts
  /\ rec'.kept = rec.kept /\ rec'.used = rec.used
Settled ==
  /\ UNCHANGED <<observed, live, disk, job>> /\ SettledRec
  /\ turn' \in {"verified", "verifiedToClose"} => job.state = "ended" /\ ~job.error

LEMMA SavedStays ==
  ASSUME rec'.commits = rec.commits, rec.commits \in Nat,
         \A i \in 1..rec.commits : disk'[i].content.rows = disk[i].content.rows,
         NEW s
  PROVE  SavedRows(s)' = SavedRows(s)
<1>1. [i \in 1..rec'.commits |-> disk'[i].content.rows[s]] = [i \in 1..rec.commits |-> disk[i].content.rows[s]]
  OBVIOUS
<1> QED BY <1>1 DEF SavedRows

LEMMA SettledStep ==
  ASSUME RecorderInv, Settled
  PROVE  RowsInv' /\ JobInv' /\ DiskInv'
<1>1. rec.commits \in Nat
  BY RecorderFacts, RecorderBounds DEF RecorderInv
<1>2. \A s \in Streams : SavedRows(s)' = SavedRows(s)
  BY <1>1, SavedStays DEF Settled, SettledRec
<1>3. RowsInv'
  BY DEF RecorderInv, RowsInv, Settled, SettledRec
<1>4. JobInv'
  BY DEF RecorderInv, JobInv, Settled, SettledRec
<1>5. DiskInv'
  BY <1>2 DEF RecorderInv, DiskInv, Settled, SettledRec
<1> QED BY <1>3, <1>4, <1>5

LEMMA QuietRec ==
  ASSUME RecorderTypes,
         \/ rec' = rec
         \/ \E f \in {"none", "STATE", "RESOURCE"}, b \in BOOLEAN :
              rec' = [rec EXCEPT !.failed = f, !.sealed = b]
         \/ \E f \in {"none", "STATE", "RESOURCE"} : rec' = [rec EXCEPT !.failed = f]
         \/ rec' = [rec EXCEPT !.attached = FALSE, !.closed = TRUE]
         \/ rec' = [rec EXCEPT !.sealed = TRUE]
  PROVE  rec' \in Recorder /\ Len(rec'.previous) = rec'.commits /\ SettledRec
         /\ rec'.previous = rec.previous
BY DEF RecorderTypes, Recorder, SettledRec

LEMMA NoJobType == NoRows \in RowLists /\ NoJob \in Job
<1>1. <<>> \in Seq(1..MaxRows)
  BY EmptySeq
<1>2. NoRows \in RowLists
  BY <1>1 DEF NoRows, RowLists
<1> QED BY <1>2 DEF NoJob, Job

LEMMA UnwrittenType == Unwritten \in Checkpoint /\ [Unwritten EXCEPT !.part = "pending"] \in Checkpoint
<1>1. <<>> \in Seq(RowLists) /\ 0 \in 0..MaxSegments /\ [s \in Streams |-> 0] \in [Streams -> Nat]
  BY EmptySeq, RecorderBounds
<1> QED BY <1>1 DEF Unwritten, Checkpoint

\* The steps of the owner's calls, and stuttering, that commit nothing.
Calls ==
  PollReads \/ PollRaises \/ PollWaits \/ Close \/ JoinTimesOut \/ Join \/ Seal \/ Publish \/ Detach
  \/ Finish \/ UNCHANGED recorderVars

LEMMA CallsSettle ==
  ASSUME RecorderInv, Calls
  PROVE  Settled /\ RecorderTypes' /\ FeedbackKept'
<1> USE DEF owned, files, RecorderInv, Turns
<1>1. RecorderTypes
  OBVIOUS
<1>2. turn \in {"verified", "verifiedToClose"} => job.state = "ended" /\ ~job.error
  BY DEF DiskInv
<1>3. ASSUME UNCHANGED <<observed, live, disk, job>>, SettledRec, rec' \in Recorder,
             Len(rec'.previous) = rec'.commits, action' \in {action, "finished"}, turn' \in Turns,
             turn' \in {"verified", "verifiedToClose"} => turn' = turn \/ JobEnded,
             checkpoint' \in Checkpoint
      PROVE  Settled /\ RecorderTypes' /\ FeedbackKept'
  <2>1. Settled
    BY <1>2, <1>3 DEF Settled, JobEnded
  <2>2. RecorderTypes'
    BY <1>1, <1>3 DEF RecorderTypes
  <2>3. FeedbackKept'
    BY <1>1, <1>3 DEF FeedbackKept, InRows, RecorderTypes
  <2> QED BY <2>1, <2>2, <2>3
<1>4. checkpoint \in Checkpoint /\ turn \in Turns /\ rec.commits \in 0..MaxSegments
  BY <1>1, RecorderFacts DEF RecorderTypes
<1>5. CASE PollReads
  <2>1. rec' = rec /\ turn' \in {"verified", "verifiedToClose"} /\ JobEnded
    BY <1>5 DEF PollReads, Verified
  <2> QED BY <1>1, <1>3, <1>4, <1>5, <2>1, QuietRec DEF PollReads
<1>6. CASE PollRaises
  <2>1. rec' = [rec EXCEPT !.failed = "RESOURCE"] /\ turn' \in {"idle", "seal"}
    BY <1>6 DEF PollRaises
  <2> QED BY <1>1, <1>3, <1>4, <1>6, <2>1, QuietRec DEF PollRaises
<1>7. CASE PollWaits
  BY <1>1, <1>3, <1>4, <1>7, QuietRec DEF PollWaits
<1>8. CASE Close
  <2>1. turn' \in {"detach", "join"}
    BY <1>8 DEF Close
  <2> QED BY <1>1, <1>3, <1>4, <1>8, <2>1, QuietRec DEF Close
<1>9. CASE JoinTimesOut
  BY <1>1, <1>3, <1>4, <1>9, QuietRec DEF JoinTimesOut
<1>10. CASE Join
  <2>1. turn' \in {"joined", "seal"}
    BY <1>10 DEF Join
  <2> QED BY <1>1, <1>3, <1>4, <1>10, <2>1, QuietRec DEF Join
<1>11. CASE Seal
  <2>1. turn' \in {"publish", "detach"}
    BY <1>11 DEF Seal
  <2>2. checkpoint' \in Checkpoint
    <3>1. /\ rec.commits \in 0..MaxSegments /\ rec.previous \in Seq(RowLists)
          /\ rec.counts \in [Streams -> Nat]
      BY <1>1, RecorderFacts
    <3>2. [part |-> "pending", segments |-> rec.commits, tip |-> rec.previous, counts |-> rec.counts] \in Checkpoint
      BY <3>1 DEF Checkpoint
    <3>3. [Unwritten EXCEPT !.part = "pending"] \in Checkpoint
      BY UnwrittenType
    <3> QED BY <1>4, <1>11, <3>2, <3>3 DEF Seal
  <2>3. rec' = rec \/ rec' = [rec EXCEPT !.failed = "RESOURCE", !.sealed = TRUE]
    BY <1>11 DEF Seal
  <2> QED BY <1>1, <1>3, <1>4, <1>11, <2>1, <2>2, <2>3, QuietRec DEF Seal
<1>12. CASE Publish
  <2>1. turn' = "detach"
    BY <1>12 DEF Publish
  <2>2. checkpoint' \in Checkpoint
    BY <1>4, <1>12 DEF Publish, Checkpoint
  <2>3. rec' = [rec EXCEPT !.sealed = TRUE] \/ rec' = [rec EXCEPT !.failed = "RESOURCE", !.sealed = TRUE]
    BY <1>12 DEF Publish
  <2> QED BY <1>1, <1>3, <1>4, <1>12, <2>1, <2>2, <2>3, QuietRec DEF Publish
<1>13. CASE Detach
  BY <1>1, <1>3, <1>4, <1>13, QuietRec DEF Detach
<1>14. CASE Finish
  BY <1>1, <1>3, <1>4, <1>14, QuietRec DEF Finish
<1>15. CASE UNCHANGED recorderVars
  BY <1>1, <1>3, <1>4, <1>15, QuietRec DEF recorderVars
<1> QED BY <1>5, <1>6, <1>7, <1>8, <1>9, <1>10, <1>11, <1>12, <1>13, <1>14, <1>15 DEF Calls

\* A row is observed: its owner holds it, the account grows.
LEMMA ObserveRecorder ==
  ASSUME RecorderInv, NEW s \in Streams, Observe(s)
  PROVE  RecorderInv'
<1> USE DEF RecorderInv, owned, files
<1>0. /\ RecorderTypes /\ RowsInv /\ JobInv /\ DiskInv
      /\ observed[s] \in Nat /\ observed[s] < MaxRows /\ rec.commits \in Nat
      /\ \A t \in Streams : observed[t] \in Nat /\ observed[t] <= MaxRows /\ rec.counts[t] \in Nat
      /\ \A t \in Streams : rec.counts[t] <= observed[t]
  <2>1. RecorderTypes /\ RowsInv /\ JobInv /\ DiskInv
    OBVIOUS
  <2>2. /\ \A t \in Streams : observed[t] \in Nat /\ observed[t] <= MaxRows
        /\ rec.counts \in [Streams -> Nat] /\ rec.commits \in 0..MaxSegments
    BY <2>1, RecorderFacts
  <2>3. observed[s] < MaxRows
    BY DEF Observe
  <2>4. rec.commits \in Nat
    BY <2>2, RecorderBounds
  <2>5. \A t \in Streams : rec.counts[t] <= observed[t]
    BY <2>1 DEF RowsInv
  <2> QED BY <2>1, <2>2, <2>3, <2>4, <2>5
<1>1. /\ UNCHANGED <<disk, checkpoint, job, turn>>
      /\ rec'.commits = rec.commits /\ rec'.counts = rec.counts /\ rec'.kept = rec.kept
      /\ rec'.previous = rec.previous
      /\ rec'.used = [r \in Reclaimed |-> IF r = s THEN rec.used[r] + 1 ELSE rec.used[r]]
  BY <1>0 DEF Observe, RecorderTypes, Recorder
<1>2. /\ observed' \in [Streams -> 0..MaxRows]
      /\ observed'[s] = observed[s] + 1
      /\ \A t \in Streams : t # s => observed'[t] = observed[t]
  BY <1>0, RecorderBounds DEF Observe, RecorderTypes
<1>3. /\ live'[s] = Append(live[s], observed[s] + 1)
      /\ \A t \in Streams : t # s => live'[t] = live[t]
      /\ DOMAIN live' = Streams /\ live' = [t \in Streams |-> live'[t]]
  BY <1>0 DEF Observe, RecorderTypes, RowLists
<1>4. \A t \in Streams : live'[t] \in Seq(RowNumber)
  <2>1. PICK e \in RowNumber : e = observed[s] + 1
    BY <1>0, RecorderBounds DEF RowNumber
  <2>2. Append(live[s], e) \in Seq(RowNumber)
    BY <1>0, RecorderFacts, AppendProperties
  <2> QED BY <1>0, <1>3, <2>1, <2>2, RecorderFacts
<1>5. live' \in RowLists
  BY <1>3, <1>4 DEF RowLists, RowNumber
<1>6. rec' \in Recorder
  <2>1. rec.used \in [Reclaimed -> Nat]
    BY <1>0, RecorderFacts
  <2>2. rec'.used \in [Reclaimed -> Nat]
    BY <1>1, <2>1
  <2>3. rec' = [rec EXCEPT !.used = rec'.used]
    BY <1>0, <1>1 DEF Observe, RecorderTypes, Recorder
  <2> QED BY <1>0, <2>2, <2>3 DEF RecorderTypes, Recorder
<1>7. action' \in {"none", "sent", "answered", "finished"}
  BY <1>0 DEF Observe, RecorderTypes
<1>8. RecorderTypes'
  BY <1>0, <1>1, <1>2, <1>5, <1>6, <1>7 DEF RecorderTypes
<1>9. RowsInv'
  <2>1. \A t \in Streams : rec'.counts[t] <= observed'[t]
    BY <1>0, <1>1, <1>2
  <2>2. \A t \in Streams \ {s} : rec'.counts[t] = rec.counts[t] /\ observed'[t] = observed[t]
    BY <1>1, <1>2
  <2>3. \A t \in Reclaimed : t # s => live'[t] = RowsIn(rec'.counts[t], observed'[t])
                                      /\ rec'.used[t] = observed'[t] - rec'.counts[t]
    BY <1>0, <1>1, <1>2, <1>3, <2>2, RecorderBounds DEF RowsInv
  <2>4. \A t \in Retained : t # s => live'[t] = RowsIn(0, observed'[t]) /\ rec'.kept[t] = rec'.counts[t]
    BY <1>0, <1>1, <1>2, <1>3, <2>2, RecorderBounds DEF RowsInv
  <2>5. s \in Reclaimed => live'[s] = RowsIn(rec'.counts[s], observed'[s])
                           /\ rec'.used[s] = observed'[s] - rec'.counts[s]
    <3> SUFFICES ASSUME s \in Reclaimed
                 PROVE  live'[s] = RowsIn(rec'.counts[s], observed'[s]) /\ rec'.used[s] = observed'[s] - rec'.counts[s]
      OBVIOUS
    <3>1. live[s] = RowsIn(rec.counts[s], observed[s]) /\ rec.used[s] = observed[s] - rec.counts[s]
      BY <1>0 DEF RowsInv
    <3>2. Append(RowsIn(rec.counts[s], observed[s]), observed[s] + 1) = RowsIn(rec.counts[s], observed[s] + 1)
      BY <1>0, RowsInMore
    <3>3. rec'.used[s] = rec.used[s] + 1
      BY <1>1
    <3> QED BY <1>0, <1>1, <1>2, <1>3, <3>1, <3>2, <3>3
  <2>6. s \in Retained => live'[s] = RowsIn(0, observed'[s]) /\ rec'.kept[s] = rec'.counts[s]
    <3> SUFFICES ASSUME s \in Retained
                 PROVE  live'[s] = RowsIn(0, observed'[s]) /\ rec'.kept[s] = rec'.counts[s]
      OBVIOUS
    <3>1. live[s] = RowsIn(0, observed[s]) /\ rec.kept[s] = rec.counts[s]
      BY <1>0 DEF RowsInv
    <3>2. Append(RowsIn(0, observed[s]), observed[s] + 1) = RowsIn(0, observed[s] + 1)
      <4>1. 0 \in Nat /\ 0 <= observed[s]
        BY <1>0
      <4> QED BY <1>0, <4>1, RowsInMore
    <3> QED BY <1>1, <1>2, <1>3, <3>1, <3>2
  <2> QED BY <2>1, <2>3, <2>4, <2>5, <2>6 DEF RowsInv
<1>10. JobInv'
  <2>1. \A t \in Streams : observed[t] <= observed'[t] /\ observed'[t] \in Nat
    BY <1>0, <1>2
  <2>2. \A t \in Streams : Len(job.rows[t]) \in Nat
    BY <1>0, RecorderFacts
  <2> QED BY <1>0, <1>1, <2>1, <2>2 DEF JobInv
<1>11. DiskInv'
  <2>1. \A t \in Streams : SavedRows(t)' = SavedRows(t)
    BY <1>0, <1>1, SavedStays
  <2> QED BY <1>0, <1>1, <2>1 DEF DiskInv
<1>12. FeedbackKept'
  <2> SUFFICES ASSUME action' = "answered" PROVE InRows(Feedback, live'[Dispatch])
    BY DEF FeedbackKept, InRows
  <2>1. Dispatch \in Streams
    BY RecorderBounds
  <2>2. CASE action = "answered"
    <3>1. PICK i \in DOMAIN live[Dispatch] : live[Dispatch][i] = Feedback
      BY <2>2 DEF FeedbackKept, InRows
    <3>2. CASE Dispatch = s
      <4>1. live[s] \in Seq(RowNumber) /\ i \in 1..Len(live[s])
        BY <1>0, <3>1, <3>2, RecorderFacts, LenProperties
      <4>2. PICK e \in RowNumber : e = observed[s] + 1
        BY <1>0, RecorderBounds DEF RowNumber
      <4>3. Append(live[s], e)[i] = live[s][i] /\ i \in DOMAIN Append(live[s], e)
        <5>1. /\ Append(live[s], e) \in Seq(RowNumber) /\ Len(Append(live[s], e)) = Len(live[s]) + 1
              /\ \A j \in 1..Len(live[s]) : Append(live[s], e)[j] = live[s][j]
          BY <4>1, AppendProperties
        <5>2. DOMAIN Append(live[s], e) = 1..Len(Append(live[s], e)) /\ Len(live[s]) \in Nat
          BY <4>1, <5>1, LenProperties
        <5> QED BY <4>1, <5>1, <5>2
      <4> QED BY <1>3, <3>1, <3>2, <4>2, <4>3 DEF InRows
    <3>3. CASE Dispatch # s
      BY <1>3, <2>1, <3>1, <3>3 DEF InRows
    <3> QED BY <3>2, <3>3
  <2>3. CASE action # "answered"
    <3>1. s = Dispatch /\ observed[s] + 1 = Feedback
      BY <2>3 DEF Observe
    <3>2. live[s] \in Seq(RowNumber) /\ Len(live[s]) \in Nat
      BY <1>0, RecorderFacts
    <3>3. PICK e \in RowNumber : e = observed[s] + 1
      BY <1>0, RecorderBounds DEF RowNumber
    <3>4. Append(live[s], e)[Len(live[s]) + 1] = e /\ Len(live[s]) + 1 \in DOMAIN Append(live[s], e)
      <4>1. /\ Append(live[s], e) \in Seq(RowNumber) /\ Len(Append(live[s], e)) = Len(live[s]) + 1
            /\ Append(live[s], e)[Len(live[s]) + 1] = e
        BY <3>2, AppendProperties
      <4>2. DOMAIN Append(live[s], e) = 1..Len(Append(live[s], e))
        BY <4>1, LenProperties
      <4> QED BY <3>2, <4>1, <4>2
    <3> QED BY <1>3, <3>1, <3>3, <3>4 DEF InRows
  <2> QED BY <2>2, <2>3
<1> QED BY <1>8, <1>9, <1>10, <1>11, <1>12

\* A snapshot has the rows from what is counted to what is observed.
LEMMA FlushRecorder == ASSUME RecorderInv, Flush PROVE RecorderInv'
<1> USE DEF RecorderInv, owned, files
<1>0. /\ RecorderTypes /\ RowsInv /\ JobInv /\ DiskInv /\ FeedbackKept
      /\ rec.commits < MaxSegments /\ rec.commits \in Nat /\ job.state = "none" /\ turn = "idle"
      /\ \A t \in Streams : /\ observed[t] \in Nat /\ observed[t] <= MaxRows /\ rec.counts[t] \in Nat
                            /\ rec.counts[t] <= observed[t]
  BY RecorderFacts, RecorderBounds DEF Flush, SegmentRoom, RowsInv
<1> DEFINE rows == [s \in Streams |-> LiveRows(s)]
<1>1. \A s \in Streams : rows[s] = RowsIn(rec.counts[s], observed[s])
  BY <1>0, LiveIs
<1>2. \A s \in Streams : rows[s] \in Seq(RowNumber) /\ Len(rows[s]) = observed[s] - rec.counts[s]
  BY <1>0, <1>1, RowsInRow, RowsInType
<1>3. rows \in RowLists
  BY <1>2 DEF RowLists, RowNumber
<1>4. UNCHANGED <<observed, live, action, disk, checkpoint, turn>>
  BY DEF Flush
<1>5. /\ job' = [rows |-> rows, state |-> job'.state, error |-> job'.error]
      /\ job'.state \in {"running", "ended"} /\ job'.error \in BOOLEAN
      /\ job'.state = "ended" => job'.error
      /\ rec' = rec \/ rec' = [rec EXCEPT !.failed = "STATE"]
  <2>1. CASE job' = [rows |-> rows, state |-> "running", error |-> FALSE] /\ rec' = rec
    <3> HIDE DEF rows
    <3> QED BY <2>1
  <2>2. CASE job' = [rows |-> rows, state |-> "ended", error |-> TRUE] /\ rec' = [rec EXCEPT !.failed = "STATE"]
    <3> HIDE DEF rows
    <3> QED BY <2>2
  <2> QED BY <2>1, <2>2 DEF Flush
<1> HIDE DEF rows
<1>6. job' \in Job /\ job'.rows = rows
  BY <1>3, <1>5 DEF Job
<1>7. rec' \in Recorder /\ Len(rec'.previous) = rec'.commits /\ SettledRec
  BY <1>0, <1>5, QuietRec
<1>8. RecorderTypes'
  BY <1>0, <1>4, <1>6, <1>7 DEF RecorderTypes
<1>9. RowsInv'
  BY <1>0, <1>4, <1>7 DEF RowsInv, SettledRec
<1>10. JobInv'
  <2>1. \A s \in Streams : /\ rec'.counts[s] + Len(job'.rows[s]) = observed'[s]
                           /\ rec'.counts[s] = rec.counts[s] /\ observed'[s] = observed[s]
    BY <1>0, <1>2, <1>4, <1>6, <1>7 DEF SettledRec
  <2>2. \A s \in Streams : job'.rows[s] = RowsIn(rec'.counts[s], rec'.counts[s] + Len(job'.rows[s]))
    BY <1>1, <1>6, <2>1
  <2> QED BY <1>0, <1>7, <2>1, <2>2 DEF JobInv, SettledRec
<1>11. DiskInv'
  <2>1. \A s \in Streams : SavedRows(s)' = SavedRows(s)
    BY <1>0, <1>4, <1>7, SavedStays DEF SettledRec
  <2>2. Len(disk) = rec.commits
    BY <1>0 DEF DiskInv
  <2> QED BY <1>0, <1>4, <1>5, <1>7, <2>1, <2>2 DEF DiskInv, SettledRec
<1>12. FeedbackKept'
  BY <1>0, <1>4 DEF FeedbackKept, InRows
<1> QED BY <1>8, <1>9, <1>10, <1>11, <1>12

\* The thread writes the segment behind those counted.
LEMMA WriterRecorder == ASSUME RecorderInv, Writer PROVE RecorderInv'
<1> USE DEF RecorderInv, owned, files
<1>0. /\ RecorderTypes /\ RowsInv /\ JobInv /\ DiskInv /\ FeedbackKept
      /\ rec.commits \in Nat /\ Len(disk) \in Nat /\ disk \in Seq(Segments)
      /\ Len(disk) \in {rec.commits, rec.commits + 1}
      /\ DOMAIN disk = 1..Len(disk)
  BY RecorderFacts, RecorderBounds DEF DiskInv, RecorderTypes
<1>1. UNCHANGED <<observed, live, action, checkpoint, rec, turn>> /\ job.state = "running"
  BY DEF Writer, MakeDirectory, WritePart, WriteEnds, WriteFails
<1>2. job' = job \/ job' = [job EXCEPT !.state = "ended"] \/ job' = [job EXCEPT !.state = "ended", !.error = TRUE]
  BY DEF Writer, MakeDirectory, WritePart, WriteEnds, WriteFails
<1>3. job' \in Job /\ job'.rows = job.rows /\ job'.state # "none"
  BY <1>0, <1>1, <1>2 DEF RecorderTypes, Job
<1>4. RowsInv' /\ FeedbackKept'
  BY <1>0, <1>1 DEF RowsInv, FeedbackKept, InRows
<1>5. JobInv'
  BY <1>0, <1>1, <1>3 DEF JobInv
<1>6. turn \notin {"verified", "verifiedToClose"}
  BY <1>0, <1>1 DEF DiskInv
<1>7. ASSUME disk' \in Seq(Segments), Len(disk') \in {rec.commits, rec.commits + 1},
             \A i \in 1..rec.commits : disk'[i] = disk[i],
             Len(disk') = rec.commits + 1 => disk'[rec.commits + 1].content.rows = job.rows,
             job'.state = "ended" /\ ~job'.error =>
               Len(disk') = rec.commits + 1 /\ disk'[rec.commits + 1].part = "final"
      PROVE  RecorderInv'
  <2>1. RecorderTypes'
    BY <1>0, <1>1, <1>3, <1>7 DEF RecorderTypes
  <2>2. \A s \in Streams : SavedRows(s)' = SavedRows(s)
    BY <1>0, <1>1, <1>7, SavedStays
  <2>3. DiskInv'
    BY <1>0, <1>1, <1>3, <1>6, <1>7, <2>2 DEF DiskInv
  <2> QED BY <1>4, <1>5, <2>1, <2>3
<1>8. CASE MakeDirectory
  <2> DEFINE d == [part |-> "directory", content |-> Content]
  <2>1. disk' = Append(disk, d) /\ job' = job /\ Len(disk) = rec.commits
    BY <1>0, <1>8 DEF MakeDirectory, Begun, Segment
  <2>2. d \in Segments /\ d.content.rows = job.rows
    <3>1. job.rows \in RowLists /\ rec.counts \in [Streams -> Nat] /\ rec.previous \in Seq(RowLists)
      BY <1>0, RecorderFacts DEF RecorderTypes, Job
    <3>2. Content \in Contents /\ Content.rows = job.rows
      BY <3>1 DEF Content, Contents
    <3> QED BY <3>2 DEF Segments, PartNames
  <2> HIDE DEF d
  <2>3. /\ Append(disk, d) \in Seq(Segments) /\ Len(Append(disk, d)) = Len(disk) + 1
        /\ \A i \in 1..Len(disk) : Append(disk, d)[i] = disk[i]
        /\ Append(disk, d)[Len(disk) + 1] = d
    BY <1>0, <2>2, AppendProperties
  <2> QED BY <1>0, <1>1, <1>7, <2>1, <2>2, <2>3
<1>9. CASE WritePart
  <2>1. Len(disk) = rec.commits + 1 /\ job' = job /\ disk[rec.commits + 1].part # "final"
    BY <1>9 DEF WritePart, Begun, Segment
  <2>2. disk[rec.commits + 1] \in Segments
    <3>1. rec.commits + 1 \in 1..Len(disk)
      BY <1>0, <2>1
    <3> QED BY <1>0, <3>1, ElementOfSeq
  <2> DEFINE part == Parts[PartOf(disk[rec.commits + 1].part) + 1]
             d == [disk[rec.commits + 1] EXCEPT !.part = part]
  <2>3. part \in PartNames
    <3>1. disk[rec.commits + 1].part \in {"directory", "records", "manifest", "archive", "pending"}
      BY <2>1, <2>2 DEF Segments, PartNames
    <3>2. \E i \in 1..5 : Parts[i] = disk[rec.commits + 1].part
      BY <3>1 DEF Parts
    <3>3. DOMAIN Parts = 1..6
      BY DEF Parts
    <3>4. PartOf(disk[rec.commits + 1].part) \in 1..6
      BY <3>2, <3>3 DEF PartOf
    <3>5. Parts[PartOf(disk[rec.commits + 1].part)] = disk[rec.commits + 1].part
      BY <3>2, <3>3 DEF PartOf
    <3>6. PartOf(disk[rec.commits + 1].part) # 6
      BY <3>1, <3>5 DEF Parts
    <3> HIDE DEF part
    <3>7. \A i \in 1..5 : Parts[i + 1] \in PartNames
      BY DEF Parts, PartNames
    <3>8. PartOf(disk[rec.commits + 1].part) \in 1..5
      BY <3>4, <3>6
    <3> QED BY <3>7, <3>8 DEF part
  <2>4. disk' = [disk EXCEPT ![rec.commits + 1] = d]
    BY <1>9, <2>2 DEF WritePart, Segment
  <2> HIDE DEF part
  <2>5. d \in Segments /\ d.content = disk[rec.commits + 1].content
    BY <2>2, <2>3 DEF Segments
  <2> HIDE DEF d
  <2>6. rec.commits + 1 \in 1..Len(disk)
    BY <1>0, <2>1
  <2>7. /\ disk' \in Seq(Segments) /\ Len(disk') = Len(disk)
        /\ \A j \in 1..Len(disk) : disk'[j] = IF j = rec.commits + 1 THEN d ELSE disk[j]
    BY <1>0, <2>4, <2>5, <2>6, ExceptSeq
  <2>8. disk[rec.commits + 1].content.rows = job.rows
    BY <1>0, <2>1 DEF DiskInv
  <2> QED BY <1>0, <1>1, <1>7, <2>1, <2>5, <2>6, <2>7, <2>8
<1>10. CASE WriteEnds
  BY <1>0, <1>1, <1>7, <1>10 DEF WriteEnds, Begun, Segment, DiskInv
<1>11. CASE WriteFails
  <2>1. job'.error /\ disk' = disk
    BY <1>0, <1>11 DEF WriteFails, RecorderTypes, Job
  <2> QED BY <1>0, <1>1, <1>7, <2>1 DEF DiskInv
<1> QED BY <1>8, <1>9, <1>10, <1>11 DEF Writer

\* The rows of the job are counted; a reclaimed stream gives them up.
LEMMA ReclaimRecorder == ASSUME RecorderInv, Reclaim PROVE RecorderInv'
<1> USE DEF RecorderInv, owned, files
<1>0. RecorderTypes /\ RowsInv /\ JobInv /\ DiskInv /\ FeedbackKept
  OBVIOUS
<1>1. job.state = "ended" /\ ~job.error
  BY <1>0 DEF Reclaim, DiskInv
<1> DEFINE n(s) == Len(job.rows[s])
<1>2. /\ rec.commits \in Nat /\ rec.commits < MaxSegments /\ rec.commits + 1 \in 0..MaxSegments
      /\ Len(disk) = rec.commits + 1 /\ disk[rec.commits + 1].part = "final"
      /\ disk[rec.commits + 1].content.rows = job.rows
  <2>1. rec.commits \in 0..MaxSegments /\ rec.commits < MaxSegments
    BY <1>0, <1>1, RecorderFacts DEF JobInv
  <2> QED BY <1>0, <1>1, <2>1, RecorderBounds DEF DiskInv
<1>3. \A s \in Streams : /\ n(s) \in Nat /\ observed[s] \in Nat /\ rec.counts[s] \in Nat
                         /\ observed[s] <= MaxRows
                         /\ rec.counts[s] + n(s) \in Nat /\ rec.counts[s] + n(s) <= observed[s]
                         /\ job.rows[s] = RowsIn(rec.counts[s], rec.counts[s] + n(s))
  <2>1. \A s \in Streams : /\ n(s) \in Nat /\ observed[s] \in Nat /\ observed[s] <= MaxRows
                           /\ rec.counts[s] \in Nat
    BY <1>0, RecorderFacts
  <2>2. \A s \in Streams : /\ rec.counts[s] + n(s) <= observed[s]
                           /\ job.rows[s] = RowsIn(rec.counts[s], rec.counts[s] + n(s))
    BY <1>0, <1>1 DEF JobInv
  <2> HIDE DEF n
  <2> QED BY <2>1, <2>2
<1>4. /\ UNCHANGED <<observed, action, disk, checkpoint>>
      /\ live' = [s \in Streams |-> IF s \in Reclaimed THEN AfterRows(s) ELSE live[s]]
      /\ job' = NoJob /\ turn' = AfterPoll /\ turn \in {"verified", "verifiedToClose"} /\ ~Awaited
  BY DEF Reclaim, JobReclaimed
<1>5. /\ rec'.commits = rec.commits + 1 /\ rec'.previous = Append(rec.previous, job.rows)
      /\ rec'.counts = [s \in Streams |-> rec.counts[s] + n(s)]
      /\ rec'.kept = [s \in Retained |-> rec.kept[s] + n(s)]
      /\ rec'.used = [s \in Reclaimed |-> rec.used[s] - n(s)]
      /\ rec' = [rec EXCEPT !.commits = rec'.commits, !.previous = rec'.previous, !.counts = rec'.counts,
                            !.kept = rec'.kept, !.used = rec'.used]
  BY <1>0 DEF Reclaim, RecorderTypes, Recorder, Kept
<1>6. \A s \in Streams : rec'.counts[s] = rec.counts[s] + n(s) /\ rec'.counts[s] \in Nat
                         /\ rec'.counts[s] <= observed[s]
  BY <1>3, <1>5
<1>7. \A s \in Reclaimed : AfterRows(s) = RowsIn(rec'.counts[s], observed[s])
  <2> TAKE s \in Reclaimed
  <2>1. s \in Streams /\ live[s] = RowsIn(rec.counts[s], observed[s])
    BY <1>0, RecorderBounds DEF RowsInv
  <2>2. SubSeq(RowsIn(rec.counts[s], observed[s]), n(s) + 1, Len(RowsIn(rec.counts[s], observed[s])))
          = RowsIn(rec.counts[s] + n(s), observed[s])
    BY <1>3, <2>1, RowsInRest
  <2> QED BY <1>6, <2>1, <2>2 DEF AfterRows
<1>8. \A s \in Streams : live'[s] \in Seq(RowNumber)
  <2> TAKE s \in Streams
  <2>1. CASE s \in Reclaimed
    <3>1. live'[s] = RowsIn(rec'.counts[s], observed[s])
      BY <1>4, <1>7, <2>1
    <3> QED BY <1>3, <1>6, <3>1, RowsInRow
  <2>2. CASE s \notin Reclaimed
    BY <1>0, <1>4, <2>2, RecorderFacts
  <2> QED BY <2>1, <2>2
<1>9. live' \in RowLists
  BY <1>4, <1>8 DEF RowLists, RowNumber
<1>10. RowsInv'
  <2>1. \A s \in Streams : rec'.counts[s] <= observed'[s]
    BY <1>4, <1>6
  <2>2. \A s \in Reclaimed : /\ live'[s] = RowsIn(rec'.counts[s], observed'[s])
                             /\ rec'.used[s] = observed'[s] - rec'.counts[s]
    <3> TAKE s \in Reclaimed
    <3>1. s \in Streams /\ rec.used[s] = observed[s] - rec.counts[s]
      BY <1>0, RecorderBounds DEF RowsInv
    <3>2. live'[s] = AfterRows(s)
      BY <1>4, <3>1
    <3>3. rec'.used[s] = observed[s] - (rec.counts[s] + n(s))
      <4>1. rec'.used[s] = rec.used[s] - n(s)
        BY <1>5
      <4> HIDE DEF n
      <4> QED BY <1>3, <3>1, <4>1
    <3> QED BY <1>4, <1>6, <1>7, <3>1, <3>2, <3>3
  <2>3. \A s \in Retained : live'[s] = RowsIn(0, observed'[s]) /\ rec'.kept[s] = rec'.counts[s]
    <3> TAKE s \in Retained
    <3>1. s \in Streams /\ s \notin Reclaimed /\ live[s] = RowsIn(0, observed[s]) /\ rec.kept[s] = rec.counts[s]
      BY <1>0, RecorderBounds DEF RowsInv
    <3>2. live'[s] = live[s] /\ observed' = observed
      BY <1>4, <3>1
    <3>3. rec'.kept[s] = rec.kept[s] + n(s) /\ rec'.counts[s] = rec.counts[s] + n(s)
      BY <1>5, <1>6, <3>1
    <3> HIDE DEF n
    <3> QED BY <3>1, <3>2, <3>3
  <2> QED BY <2>1, <2>2, <2>3 DEF RowsInv
<1>11. rec' \in Recorder /\ Len(rec'.previous) = rec'.commits
  <2>1. job.rows \in RowLists /\ rec.previous \in Seq(RowLists) /\ Len(rec.previous) = rec.commits
    BY <1>0, RecorderFacts DEF RecorderTypes, Job
  <2>2. rec'.previous \in Seq(RowLists) /\ Len(rec'.previous) = rec.commits + 1
    <3>1. /\ Append(rec.previous, job.rows) \in Seq(RowLists)
          /\ Len(Append(rec.previous, job.rows)) = Len(rec.previous) + 1
      BY <2>1, AppendProperties
    <3>2. rec'.previous = Append(rec.previous, job.rows)
      BY <1>5
    <3> QED BY <2>1, <3>1, <3>2
  <2>3. rec'.counts \in [Streams -> Nat]
    BY <1>3, <1>5
  <2>4. rec'.kept \in [Retained -> Nat]
    <3>1. \A s \in Retained : rec.kept[s] = rec.counts[s] /\ s \in Streams
      BY <1>0, RecorderBounds DEF RowsInv
    <3>2. \A s \in Retained : rec.kept[s] + n(s) \in Nat
      BY <1>3, <3>1
    <3> HIDE DEF n
    <3> QED BY <1>5, <3>2
  <2>5. rec'.used \in [Reclaimed -> Nat]
    <3>1. \A s \in Reclaimed : rec.used[s] = observed[s] - rec.counts[s] /\ s \in Streams
      BY <1>0, RecorderBounds DEF RowsInv
    <3> HIDE DEF n
    <3>2. \A s \in Reclaimed : rec.used[s] - n(s) \in Nat
      BY <1>3, <3>1
    <3> QED BY <1>5, <3>2
  <2>6. rec'.commits \in 0..MaxSegments
    BY <1>2, <1>5
  <2> HIDE DEF n
  <2> QED BY <1>0, <1>5, <2>2, <2>3, <2>4, <2>5, <2>6 DEF RecorderTypes, Recorder
<1>12. RecorderTypes'
  <2>1. job' \in Job
    BY <1>4, NoJobType
  <2>2. turn' \in Turns
    BY <1>4 DEF AfterPoll, Turns
  <2> QED BY <1>0, <1>4, <1>9, <1>11, <2>1, <2>2 DEF RecorderTypes
<1>13. JobInv'
  BY <1>4 DEF JobInv, NoJob
<1>14. ASSUME NEW s \in Streams PROVE SavedRows(s)' = RowsIn(0, rec'.counts[s])
  <2> DEFINE q == [i \in 1..(rec.commits + 1) |-> disk[i].content.rows[s]]
             p == [i \in 1..rec.commits |-> disk[i].content.rows[s]]
  <2>1. SavedRows(s)' = FlattenSeq(q)
    BY <1>4, <1>5 DEF SavedRows
  <2>2. \A i \in 1..(rec.commits + 1) : disk[i].content.rows[s] \in Seq(RowNumber)
    <3> TAKE i \in 1..(rec.commits + 1)
    <3>1. disk[i] \in Segments
      BY <1>0, <1>2, RecorderFacts
    <3> QED BY <3>1, SegmentRows
  <2>3. SavedRows(s) = FlattenSeq(p) /\ SavedRows(s) = RowsIn(0, rec.counts[s])
    BY <1>0 DEF SavedRows, DiskInv
  <2>4. 0 \in Nat /\ 0 <= rec.counts[s] /\ rec.counts[s] <= MaxRows
    BY <1>3, RecorderBounds
  <2>5. FlattenSeq(p) \in Seq(RowNumber)
    BY <1>3, <2>3, <2>4, RowsInRow
  <2>6. PICK m \in Nat : m = rec.commits + 1
    BY <1>2
  <2>7. FlattenSeq(q) = FlattenSeq(p) \o q[m]
    <3>1. q \in [1..m -> Seq(RowNumber)]
      BY <2>2, <2>6
    <3>2. p \in [1..rec.commits -> Seq(RowNumber)]
      BY <1>2, <2>2
    <3>3. \A i \in 1..rec.commits : p[i] = q[i]
      BY <1>2
    <3> HIDE DEF p, q
    <3> QED BY <1>2, <2>5, <2>6, <3>1, <3>2, <3>3, FlattenLast
  <2>8. q[m] = job.rows[s]
    <3>1. m \in 1..(rec.commits + 1)
      BY <1>2, <2>6
    <3> QED BY <1>2, <2>6, <3>1
  <2>9. RowsIn(0, rec.counts[s]) \o RowsIn(rec.counts[s], rec.counts[s] + n(s)) = RowsIn(0, rec.counts[s] + n(s))
    <3>1. PICK e \in Nat : e = rec.counts[s] + n(s)
      BY <1>3
    <3>2. rec.counts[s] <= e
      BY <1>3, <3>1
    <3> QED BY <1>3, <2>4, <3>1, <3>2, RowsInJoin
  <2> QED BY <1>3, <1>6, <2>1, <2>3, <2>7, <2>8, <2>9
<1>15. DiskInv'
  <2>1. turn' \notin {"verified", "verifiedToClose"}
    BY <1>4 DEF AfterPoll
  <2>2. \A i \in 1..rec'.commits : disk'[i].part = "final"
    <3>1. \A i \in 1..(rec.commits + 1) : i \in 1..rec.commits \/ i = rec.commits + 1
      BY <1>2
    <3> QED BY <1>0, <1>2, <1>4, <1>5, <3>1 DEF DiskInv
  <2>3. Len(disk') = rec'.commits /\ rec'.commits # rec'.commits + 1 /\ job'.state = "none"
    <3>1. disk' = disk /\ rec'.commits = rec.commits + 1 /\ job' = NoJob
      BY <1>4, <1>5
    <3> QED BY <1>2, <3>1 DEF NoJob
  <2> QED BY <1>14, <2>1, <2>2, <2>3 DEF DiskInv
<1>16. FeedbackKept'
  <2> SUFFICES ASSUME action = "answered" PROVE InRows(Feedback, live'[Dispatch])
    BY <1>4 DEF FeedbackKept, InRows
  <2>1. Dispatch \in Reclaimed /\ Dispatch \in Streams
    BY RecorderBounds
  <2>2. InRows(Feedback, live[Dispatch])
    BY <1>0 DEF FeedbackKept
  <2>3. ~InRows(Feedback, job.rows[Dispatch])
    BY <1>4, <2>2 DEF Awaited
  <2>4. live'[Dispatch] = RowsIn(rec'.counts[Dispatch], observed[Dispatch])
    BY <1>4, <1>7, <2>1
  <2>5. live[Dispatch] = RowsIn(rec.counts[Dispatch], observed[Dispatch])
    BY <1>0, <2>1 DEF RowsInv
  <2> DEFINE c == rec.counts[Dispatch]
             k == n(Dispatch)
             o == observed[Dispatch]
  <2>6. /\ c \in Nat /\ k \in Nat /\ o \in Nat /\ c + k \in Nat /\ c + k <= o /\ c <= o /\ c <= c + k
        /\ job.rows[Dispatch] = RowsIn(c, c + k) /\ rec'.counts[Dispatch] = c + k
    BY <1>3, <1>6, <2>1
  <2> HIDE DEF c, k, o, n
  <2>7. PICK i \in 1..(o - c) : c + i = Feedback
    <3>1. PICK i \in DOMAIN RowsIn(c, o) : RowsIn(c, o)[i] = Feedback
      BY <2>2, <2>5 DEF InRows, c, o
    <3>2. DOMAIN RowsIn(c, o) = 1..(o - c) /\ \A j \in 1..(o - c) : RowsIn(c, o)[j] = c + j
      BY <2>6, RowsInType
    <3> QED BY <3>1, <3>2
  <2>8. ~(i <= k)
    <3> SUFFICES ASSUME i <= k PROVE FALSE
      OBVIOUS
    <3>1. i \in 1..((c + k) - c)
      BY <2>6
    <3>2. i \in DOMAIN RowsIn(c, c + k) /\ RowsIn(c, c + k)[i] = c + i
      BY <2>6, <3>1, RowsInType
    <3> QED BY <2>3, <2>6, <2>7, <3>2 DEF InRows
  <2>9. i - k \in 1..(o - (c + k)) /\ (c + k) + (i - k) = Feedback
    BY <2>6, <2>7, <2>8
  <2>10. i - k \in DOMAIN RowsIn(c + k, o) /\ RowsIn(c + k, o)[i - k] = Feedback
    <3>1. PICK e \in Nat : e = c + k
      BY <2>6
    <3>2. DOMAIN RowsIn(e, o) = 1..(o - e) /\ \A j \in 1..(o - e) : RowsIn(e, o)[j] = e + j
      BY <2>6, <3>1, RowsInType
    <3> QED BY <2>9, <3>1, <3>2
  <2> QED BY <2>4, <2>6, <2>10 DEF InRows, o
<1> QED BY <1>10, <1>12, <1>13, <1>15, <1>16

-----------------------------------------------------------------------------

LEMMA RecorderInvInit == RecorderInit => RecorderInv
<1> SUFFICES ASSUME RecorderInit PROVE RecorderInv
  OBVIOUS
<1> USE DEF RecorderInit
<1>1. 0 \in 0..MaxRows /\ 0 \in 0..MaxSegments /\ Len(<<>>) = 0 /\ <<>> \in Seq(RowLists) /\ <<>> \in Seq(Segments)
  BY RecorderBounds, EmptySeq
<1>2. RecorderTypes
  <2>1. rec \in Recorder
    BY <1>1, RecorderBounds DEF Recorder
  <2>2. observed \in [Streams -> 0..MaxRows]
    BY <1>1
  <2>3. turn \in Turns
    BY DEF Turns
  <2> QED BY <1>1, <2>1, <2>2, <2>3, NoJobType, UnwrittenType DEF RecorderTypes
<1>3. RowsIn(0, 0) = <<>>
  <2>1. RowsIn(0, 0) \in Seq(Nat) /\ Len(RowsIn(0, 0)) = 0
    BY RowsInType
  <2> QED BY <2>1, EmptySeq
<1>4. RowsInv
  BY <1>3, RecorderBounds DEF RowsInv, NoRows
<1>5. JobInv
  BY DEF JobInv, NoJob
<1>6. \A s \in Streams : SavedRows(s) = RowsIn(0, rec.counts[s])
  <2> TAKE s \in Streams
  <2> DEFINE p == [i \in 1..rec.commits |-> disk[i].content.rows[s]]
  <2>1. p \in [1..0 -> Nat]
    OBVIOUS
  <2>2. p \in Seq(Nat) /\ Len(p) = 0
    BY <2>1, ListIsSeq
  <2>3. FlattenSeq(p) = p /\ p = <<>>
    <3>1. p = <<>>
      BY <2>2, EmptySeq
    <3> QED BY <2>2, <3>1 DEF FlattenSeq
  <2> QED BY <1>3, <2>3 DEF SavedRows
<1>7. DiskInv
  BY <1>1, <1>6 DEF DiskInv, NoJob
<1>8. FeedbackKept
  BY DEF FeedbackKept
<1> QED BY <1>2, <1>4, <1>5, <1>7, <1>8 DEF RecorderInv

LEMMA RecorderInvStep == RecorderInv /\ [RecorderNext]_recorderVars => RecorderInv'
<1> SUFFICES ASSUME RecorderInv, [RecorderNext]_recorderVars PROVE RecorderInv'
  OBVIOUS
<1>1. CASE \E s \in Streams : Observe(s)
  BY <1>1, ObserveRecorder
<1>2. CASE Flush
  BY <1>2, FlushRecorder
<1>3. CASE Writer
  BY <1>3, WriterRecorder
<1>4. CASE Reclaim
  BY <1>4, ReclaimRecorder
<1>5. CASE Calls
  <2>1. Settled /\ RecorderTypes' /\ FeedbackKept'
    BY <1>5, CallsSettle
  <2>2. RowsInv' /\ JobInv' /\ DiskInv'
    BY <2>1, SettledStep
  <2> QED BY <2>1, <2>2 DEF RecorderInv
<1> QED BY <1>1, <1>2, <1>3, <1>4, <1>5 DEF RecorderNext, Poll, Closing, Calls

\* What is saved and what is left make up what was observed.
LEMMA NothingLostHolds == ASSUME RecorderInv PROVE NothingLost
<1>0. /\ RecorderTypes /\ RowsInv /\ DiskInv
      /\ \A s \in Streams : /\ observed[s] \in Nat /\ rec.counts[s] \in Nat
                            /\ rec.counts[s] <= observed[s]
  <2>1. RecorderTypes /\ RowsInv /\ DiskInv
    BY DEF RecorderInv
  <2>2. \A s \in Streams : observed[s] \in Nat /\ rec.counts[s] \in Nat
    <3>1. rec.counts \in [Streams -> Nat] /\ \A s \in Streams : observed[s] \in Nat
      BY <2>1, RecorderFacts
    <3> QED BY <3>1
  <2> QED BY <2>1, <2>2 DEF RowsInv
<1>1. \A n \in Nat : Upto(n) = RowsIn(0, n)
  BY DEF Upto, RowsIn
<1>2. \A i \in 1..rec.commits : disk[i].part = "final"
  BY <1>0 DEF DiskInv
<1>3. ASSUME NEW s \in Reclaimed
      PROVE  SavedRows(s) \o live[s] = Upto(observed[s]) /\ rec.used[s] = Len(live[s])
  <2>1. s \in Streams
    BY RecorderBounds
  <2>2. SavedRows(s) = RowsIn(0, rec.counts[s])
    BY <1>0, <2>1 DEF DiskInv
  <2>3. live[s] = RowsIn(rec.counts[s], observed[s]) /\ rec.used[s] = observed[s] - rec.counts[s]
    BY <1>0 DEF RowsInv
  <2>4. RowsIn(0, rec.counts[s]) \o RowsIn(rec.counts[s], observed[s]) = RowsIn(0, observed[s])
    <3>1. 0 \in Nat /\ 0 <= rec.counts[s]
      BY <1>0, <2>1
    <3> QED BY <1>0, <2>1, <3>1, RowsInJoin
  <2>5. Len(RowsIn(rec.counts[s], observed[s])) = observed[s] - rec.counts[s]
    BY <1>0, <2>1, RowsInType
  <2> QED BY <1>0, <1>1, <2>1, <2>2, <2>3, <2>4, <2>5
<1>4. ASSUME NEW s \in Retained
      PROVE  live[s] = Upto(observed[s]) /\ SavedRows(s) = Upto(rec.kept[s])
  <2>1. s \in Streams
    BY RecorderBounds
  <2>2. SavedRows(s) = RowsIn(0, rec.counts[s])
    BY <1>0, <2>1 DEF DiskInv
  <2>3. live[s] = RowsIn(0, observed[s]) /\ rec.kept[s] = rec.counts[s]
    BY <1>0 DEF RowsInv
  <2> QED BY <1>0, <1>1, <2>1, <2>2, <2>3
<1> QED BY <1>2, <1>3, <1>4 DEF NothingLost

\* The chain is what is counted and, when the segment of the job is on disk, the
\* rows of the job.
LEMMA ChainIsPrefix ==
  ASSUME RecorderInv, NEW s \in Streams
  PROVE  \E n \in rec.counts[s]..observed[s] : ChainRows(s) = RowsIn(0, n)
<1>0. /\ RecorderTypes /\ JobInv /\ DiskInv
      /\ observed[s] \in Nat /\ rec.counts[s] \in Nat /\ rec.counts[s] <= observed[s]
      /\ rec.commits \in Nat
  <2>1. RecorderTypes /\ RowsInv /\ JobInv /\ DiskInv
    BY DEF RecorderInv
  <2>2. observed[s] \in Nat /\ rec.counts[s] \in Nat /\ rec.commits \in Nat
    <3>1. /\ rec.counts \in [Streams -> Nat] /\ observed[s] \in Nat
          /\ rec.commits \in 0..MaxSegments
      BY <2>1, RecorderFacts
    <3> QED BY <3>1, RecorderBounds
  <2> QED BY <2>1, <2>2 DEF RowsInv
<1>1. disk \in Seq(Segments) /\ DOMAIN disk = 1..Len(disk) /\ Len(disk) \in {rec.commits, rec.commits + 1}
  <2>1. disk \in Seq(Segments)
    BY <1>0 DEF RecorderTypes
  <2>2. DOMAIN disk = 1..Len(disk)
    BY <2>1, LenProperties
  <2> QED BY <1>0, <2>1, <2>2 DEF DiskInv
<1>2. SavedRows(s) = RowsIn(0, rec.counts[s])
  BY <1>0 DEF DiskInv
<1>3. CASE Len(disk) = rec.commits
  <2>1. ChainRows(s) = SavedRows(s)
    BY <1>1, <1>3 DEF ChainRows, SavedRows
  <2>2. rec.counts[s] \in rec.counts[s]..observed[s]
    BY <1>0
  <2> QED BY <1>2, <2>1, <2>2
<1>4. CASE Len(disk) = rec.commits + 1
  <2>1. PICK m \in Nat : m = rec.commits + 1
    BY <1>0
  <2> DEFINE q == [i \in 1..m |-> disk[i].content.rows[s]]
             p == [i \in 1..rec.commits |-> disk[i].content.rows[s]]
             n == rec.counts[s] + Len(job.rows[s])
  <2>2. job.state # "none" /\ disk[m].content.rows = job.rows
    BY <1>0, <1>4, <2>1 DEF DiskInv
  <2>3. /\ n \in Nat /\ rec.counts[s] <= n /\ n <= observed[s]
        /\ job.rows[s] = RowsIn(rec.counts[s], n)
    <3>1. Len(job.rows[s]) \in Nat
      BY <1>0, RecorderFacts
    <3>2. n <= observed[s] /\ job.rows[s] = RowsIn(rec.counts[s], n)
      BY <1>0, <2>2 DEF JobInv
    <3> QED BY <1>0, <3>1, <3>2
  <2>4. \A i \in 1..m : disk[i].content.rows[s] \in Seq(RowNumber)
    <3>1. Len(disk) = m
      BY <1>4, <2>1
    <3> QED BY <1>1, <3>1, SegmentRows
  <2>5. q \in [1..m -> Seq(RowNumber)] /\ p \in [1..rec.commits -> Seq(RowNumber)]
        /\ \A i \in 1..rec.commits : p[i] = q[i]
    BY <1>0, <2>1, <2>4
  <2>6. FlattenSeq(p) = RowsIn(0, rec.counts[s]) /\ ChainRows(s) = FlattenSeq(q)
    <3>1. FlattenSeq(p) = RowsIn(0, rec.counts[s])
      BY <1>2 DEF SavedRows
    <3>2. DOMAIN disk = 1..m
      BY <1>1, <1>4, <2>1
    <3> QED BY <3>1, <3>2 DEF ChainRows
  <2>7. FlattenSeq(p) \in Seq(RowNumber)
    <3>1. 0 \in Nat /\ 0 <= rec.counts[s] /\ rec.counts[s] <= MaxRows
      <4>1. observed[s] <= MaxRows
        BY <1>0, RecorderFacts
      <4> QED BY <1>0, <4>1, RecorderBounds
    <3> QED BY <1>0, <2>6, <3>1, RowsInRow
  <2>8. q[m] = job.rows[s]
    <3>1. m \in 1..m
      BY <1>0, <2>1
    <3> QED BY <2>2, <3>1
  <2>9. FlattenSeq(q) = FlattenSeq(p) \o q[m]
    <3> HIDE DEF p, q
    <3> QED BY <1>0, <2>1, <2>5, <2>7, FlattenLast
  <2>10. RowsIn(0, rec.counts[s]) \o RowsIn(rec.counts[s], n) = RowsIn(0, n)
    <3>1. 0 \in Nat /\ 0 <= rec.counts[s]
      BY <1>0
    <3> HIDE DEF n
    <3> QED BY <1>0, <2>3, <3>1, RowsInJoin
  <2>11. n \in rec.counts[s]..observed[s]
    BY <1>0, <2>3
  <2> HIDE DEF p, q, n
  <2> QED BY <2>3, <2>6, <2>8, <2>9, <2>10, <2>11
<1> QED BY <1>1, <1>3, <1>4

LEMMA ChainTrueHolds == ASSUME RecorderInv PROVE ChainTrue
<1> SUFFICES ASSUME NEW s \in Streams
             PROVE  /\ ChainRows(s) = Upto(Len(ChainRows(s)))
                    /\ Len(ChainRows(s)) \in rec.counts[s]..observed[s]
  BY DEF ChainTrue
<1>1. PICK n \in rec.counts[s]..observed[s] : ChainRows(s) = RowsIn(0, n)
  BY ChainIsPrefix
<1>2. rec.counts[s] \in Nat /\ observed[s] \in Nat
  <2>1. rec.counts \in [Streams -> Nat] /\ observed[s] \in Nat
    BY RecorderFacts DEF RecorderInv
  <2> QED BY <2>1
<1>3. n \in Nat /\ 0 <= n
  BY <1>1, <1>2
<1>4. Len(RowsIn(0, n)) = n
  <2>1. 0 \in Nat
    OBVIOUS
  <2> QED BY <1>3, <2>1, RowsInType
<1>5. RowsIn(0, n) = Upto(n)
  BY <1>3 DEF RowsIn, Upto
<1> QED BY <1>1, <1>4, <1>5

LEMMA RecorderTypesSound == ASSUME RecorderInv PROVE RecorderTypeOK
<1>0. /\ RecorderTypes /\ JobInv /\ DiskInv
      /\ rec.commits \in 0..MaxSegments /\ MaxSegments \in Nat
      /\ disk \in Seq(Segments)
  BY RecorderBounds DEF RecorderInv, RecorderTypes, Recorder
<1>1. Len(disk) <= MaxSegments
  BY <1>0 DEF JobInv, DiskInv
<1>2. PartNames \subseteq {Parts[k] : k \in DOMAIN Parts}
  <2>1. \A k \in {1, 2, 3, 4, 5, 6} : k \in DOMAIN Parts
    BY DEF Parts
  <2>2. /\ Parts[1] = "directory" /\ Parts[2] = "records" /\ Parts[3] = "manifest"
        /\ Parts[4] = "archive" /\ Parts[5] = "pending" /\ Parts[6] = "final"
    BY DEF Parts
  <2> QED BY <2>1, <2>2 DEF PartNames
<1>3. \A i \in DOMAIN disk : disk[i].part \in {Parts[k] : k \in DOMAIN Parts} /\ disk[i].content \in Contents
  <2>1. \A i \in DOMAIN disk : disk[i] \in Segments
    BY <1>0, ElementOfSeq, LenProperties
  <2> QED BY <1>2, <2>1 DEF Segments
<1>4. {rec.attached, rec.sealed, rec.closed} \subseteq BOOLEAN
  BY <1>0 DEF RecorderTypes, Recorder
<1>5. checkpoint.part \in {"none", "pending", "final"} /\ checkpoint.segments \in 0..MaxSegments
  BY <1>0 DEF RecorderTypes, Checkpoint
<1>6. job.rows \in RowLists /\ job.state \in {"none", "running", "ended"} /\ job.error \in BOOLEAN
  BY <1>0 DEF RecorderTypes, Job
<1>7. /\ rec.counts \in [Streams -> Nat] /\ rec.kept \in [Retained -> Nat] /\ rec.used \in [Reclaimed -> Nat]
      /\ rec.failed \in {"none", "STATE", "RESOURCE"}
  BY <1>0 DEF RecorderTypes, Recorder
<1>8. turn \in {"idle", "verified", "join", "joined", "seal", "publish", "detach", "verifiedToClose"}
  BY <1>0 DEF RecorderTypes, Turns
<1> QED BY <1>0, <1>1, <1>3, <1>4, <1>5, <1>6, <1>7, <1>8 DEF RecorderTypeOK, RecorderTypes

\* For any streams and bounds: what the segments on disk hold and what is still
\* in memory is what was observed, in order and once; a chain that can be read
\* holds a prefix of it with everything that was given up in memory; and
\* feedback stays until its action has taken it (evidence_recorder.py, flush,
\* poll, close and read_observation_chain).
THEOREM RecorderIsSound == RecorderSpec => []RecorderSound
<1>1. RecorderInv => RecorderSound
  BY NothingLostHolds, ChainTrueHolds, RecorderTypesSound DEF RecorderSound, RecorderInv
<1> QED BY <1>1, RecorderInvInit, RecorderInvStep, PTL DEF RecorderSpec

\* Once close has counted, the thread is gone and no poll finds a job to commit.
SealInv ==
  /\ turn \in {"joined", "verified", "verifiedToClose"} => job.state = "ended"
  /\ turn \in {"seal", "publish"} \/ rec.sealed =>
       job.state = "none" \/ (job.state = "ended" /\ rec.failed # "none")
  /\ rec.sealed => turn \in {"idle", "detach"}
  /\ checkpoint.part # "none" => turn = "publish" \/ rec.sealed

LEMMA SealInvStep == RecorderInv /\ SealInv /\ [RecorderNext]_recorderVars => SealInv'
<1> SUFFICES ASSUME RecorderInv, SealInv, [RecorderNext]_recorderVars PROVE SealInv'
  OBVIOUS
<1> USE DEF SealInv, owned, files
<1>1. rec \in Recorder /\ job \in Job /\ checkpoint \in Checkpoint
  BY DEF RecorderInv, RecorderTypes
<1>2. /\ {"failed", "sealed", "attached", "closed", "used", "kept", "counts", "commits", "previous"} = DOMAIN rec
      /\ {"state", "error", "rows"} = DOMAIN job
  BY <1>1 DEF Recorder, Job
<1>3. ASSUME NEW s \in Streams, Observe(s) PROVE SealInv'
  BY <1>3, <1>2 DEF Observe
<1>4. CASE Finish
  BY <1>4 DEF Finish
<1>5. CASE Flush
  BY <1>5, <1>2 DEF Flush
<1>6. CASE MakeDirectory \/ WritePart
  BY <1>6, <1>2 DEF MakeDirectory, WritePart
<1>7. CASE WriteEnds \/ WriteFails
  BY <1>7, <1>2 DEF WriteEnds, WriteFails
<1>8. CASE PollReads \/ PollWaits
  BY <1>8, <1>2 DEF PollReads, PollWaits, JobEnded, Polling, Verified
<1>9. CASE PollRaises
  BY <1>9, <1>2 DEF PollRaises, Polling
<1>10. CASE Reclaim
  <2>1. job'.state = "none" /\ rec'.sealed = rec.sealed /\ checkpoint' = checkpoint
    BY <1>10, <1>2 DEF Reclaim, JobReclaimed, NoJob
  <2>2. turn \in {"verified", "verifiedToClose"} /\ turn' \in {"idle", "seal"}
    BY <1>10 DEF Reclaim, AfterPoll
  <2>3. ~rec.sealed /\ checkpoint.part = "none"
    BY <2>2
  <2>4. ~rec'.sealed /\ checkpoint'.part = "none"
    BY <2>1, <2>3
  <2> QED BY <2>1, <2>2, <2>4
<1>11. CASE Close
  BY <1>11 DEF Close
<1>12. CASE JoinTimesOut \/ Join
  <2>1. UNCHANGED <<checkpoint, job, rec>> /\ turn \in {"join"}
    BY <1>12 DEF JoinTimesOut, Join
  <2>2. ~rec.sealed /\ checkpoint.part = "none"
    BY <2>1
  <2>3. CASE JoinTimesOut
    BY <2>1, <2>2, <2>3 DEF JoinTimesOut
  <2>4. CASE Join
    <3>1. job.state \in {"none", "ended"}
      BY <2>4, <1>1 DEF Join, WriterGone, Job
    <3>2. turn' = IF job.state = "ended" /\ rec.failed = "none" THEN "joined" ELSE "seal"
      BY <2>4 DEF Join
    <3> QED BY <2>1, <2>2, <3>1, <3>2
  <2> QED BY <1>12, <2>3, <2>4
<1>13. CASE Seal
  BY <1>13, <1>2 DEF Seal
<1>14. CASE Publish
  <2>1. job' = job /\ turn' = "detach" /\ rec'.sealed
    BY <1>14, <1>2 DEF Publish
  <2>2. job.state = "none" \/ (job.state = "ended" /\ rec.failed # "none")
    BY <1>14 DEF Publish
  <2>3. rec'.failed = rec.failed \/ rec'.failed = "RESOURCE"
    BY <1>14, <1>1 DEF Publish, Recorder
  <2>4. job'.state = "none" \/ (job'.state = "ended" /\ rec'.failed # "none")
    BY <2>1, <2>2, <2>3
  <2> QED BY <2>1, <2>4
<1>15. CASE Detach
  BY <1>15, <1>2 DEF Detach
<1>16. CASE UNCHANGED recorderVars
  BY <1>16 DEF recorderVars
<1> QED
  BY <1>3, <1>4, <1>5, <1>6, <1>7, <1>8, <1>9, <1>10, <1>11, <1>12, <1>13, <1>14, <1>15, <1>16
  DEF RecorderNext, Writer, Poll, Closing

\* After close has counted what is left no segment is written and none is
\* committed, whatever the thread and the owners do (evidence_recorder.py, close).
THEOREM CloseIsFinal == RecorderSpec => SealedIsFinal
<1>1. RecorderInit => RecorderInv /\ SealInv
  BY RecorderInvInit DEF RecorderInit, SealInv, NoJob, Unwritten
<1>2. RecorderInv /\ SealInv /\ [RecorderNext]_recorderVars => (RecorderInv /\ SealInv)'
  BY RecorderInvStep, SealInvStep
<1>3. RecorderInv /\ SealInv /\ [RecorderNext]_recorderVars =>
        [rec.sealed \/ checkpoint.part # "none" => disk' = disk /\ rec'.commits = rec.commits]_recorderVars
  <2> SUFFICES ASSUME RecorderInv, SealInv, RecorderNext, rec.sealed \/ checkpoint.part # "none"
               PROVE  disk' = disk /\ rec'.commits = rec.commits
    OBVIOUS
  <2>1. job.state # "running" /\ turn \notin {"verified", "verifiedToClose"}
    BY DEF SealInv
  <2>2. ~Writer /\ ~Reclaim
    BY <2>1 DEF Writer, MakeDirectory, WritePart, WriteEnds, WriteFails, Reclaim
  <2>3. rec \in Recorder
    BY DEF RecorderInv, RecorderTypes
  <2>4. CASE \E s \in Streams : Observe(s)
    BY <2>3, <2>4 DEF Observe, files, Recorder
  <2>5. CASE Flush
    BY <2>3, <2>5 DEF Flush, files, Recorder
  <2>6. CASE Finish \/ PollReads \/ PollRaises \/ PollWaits \/ Close
    BY <2>3, <2>6 DEF Finish, PollReads, PollRaises, PollWaits, Close, files, Recorder
  <2>7. CASE Closing
    BY <2>3, <2>7 DEF Closing, JoinTimesOut, Join, Seal, Publish, Detach, files, Recorder
  <2> QED BY <2>2, <2>4, <2>5, <2>6, <2>7 DEF RecorderNext, Poll
<1> QED BY <1>1, <1>2, <1>3, PTL DEF RecorderSpec, SealedIsFinal
=============================================================================
