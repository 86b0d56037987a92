---------------------------- MODULE SourceClock ----------------------------
(***************************************************************************)
(* What a scenario source knows of the model it drives: the Status it was  *)
(* last shown, the control lease it was acknowledged, and whether its      *)
(* session survived a reset (input_simulator/model_clock.py, the hooks of  *)
(* session.py), and the approval that every controller input of a scenario *)
(* needs from the time it is planned to its last fragment                  *)
(* (input_simulator/runtime_targets.py).  Replies of the gateway arrive in *)
(* any order or never; the model moves, and is reset by others, meanwhile. *)
(* One session, one controller lane, one input of several fragments at a   *)
(* time.  The getter of the applied state is called outside the source's   *)
(* lock, so feedback may arrive while it runs.                             *)
(***************************************************************************)
EXTENDS Naturals, Sequences

CONSTANTS
  StatusValid,     \* valid_for_ms of the Status feedback
  ControlTimeout,  \* policy control_timeout_ms
  SampleValid,     \* 240 ms, or the deadline the getter gives its sample
  Fragments,       \* fragments of the controller input
  Unset,
  MaxSent, LastClock, LastModelStep, MaxMoves   \* bounds, for finite checking

ASSUME ClockAssumption ==
  {StatusValid, ControlTimeout, SampleValid, Fragments, MaxSent, LastClock,
   LastModelStep, MaxMoves} \subseteq Nat

VARIABLES
  clock,        \* the source's monotonic clock
  core,         \* the model: step, state, whether the source's lane has control
  sentBefore,       \* requests sent before the behaviour begins, never changed
  moves,        \* moves of the model so far
  requests,     \* first attempts in order of their header sequence
  status,       \* _model_status
  stepFloor,    \* _model_step_floor
  retired,      \* _model_clock_retired
  controlBoundary,     \* _control_boundary_sequence
  requested,    \* _control_requested_source is the lane of this source
  controlLease,      \* _control_lease
  approval,     \* the target read in progress, or the guard it left
  shown,        \* history: the step a scenario was last shown
  revocations,  \* history: feedback so far that took the control away
  revokedAfter  \* history: requests sent when the last of them arrived

sessionVars == <<status, stepFloor, retired, controlBoundary, requested, controlLease>>
historyVars == <<shown, revocations, revokedAfter>>
clockVars == <<clock, core, sentBefore, moves, requests, sessionVars, approval, historyVars>>

\* Requests that end the lease held: an owner request, RESET and RESUME, which
\* also retire the session, and HALT: PAUSE, STOP, STEP, messages 37 and 38.
Retiring == {"RESET", "RESUME"}
Boundaries == {"OWNER", "HALT"} \cup Retiring
Kinds == {"STATUS", "INPUT"} \cup Boundaries
NoGuard == [pc |-> "none"]

Unanswered(kind, target) ==
  [kind |-> kind, at |-> clock, target |-> target, answer |-> Unset]
\* A request that was answered; nothing of it is looked at again.
Done == [kind |-> "DONE", at |-> 0, target |-> 0, answer |-> Unset]

MaySend == Len(requests) < sentBefore + MaxSent

\* A new session, or one that has read the Status, asked for control, was given
\* it and has seen it in the Status.
ClockInit ==
  /\ clock = 0 /\ moves = 0
  /\ stepFloor = 0 /\ retired = FALSE /\ approval = NoGuard
  /\ shown = 0 /\ revocations = 0 /\ revokedAfter = 0
  /\ \/ /\ core = [step |-> 0, state |-> "PAUSED", ours |-> FALSE]
        /\ requests = <<>> /\ status = Unset
        /\ controlBoundary = 0 /\ requested = FALSE /\ controlLease = Unset
     \/ /\ core = [step |-> 0, state |-> "PAUSED", ours |-> TRUE]
        /\ requests = <<Done, Done, Done>>
        /\ status = [seq |-> 3, step |-> 0, state |-> "PAUSED", ours |-> TRUE,
                     until |-> StatusValid]
        /\ controlBoundary = 2 /\ requested = TRUE
        /\ controlLease = [seq |-> 2, owner |-> 2, at |-> 0, until |-> ControlTimeout]
  /\ sentBefore = Len(requests)

----------------------------------------------------------------------------
(* The model, moved by its thread and by other clients                     *)

CoreMoves ==
  /\ \/ core.state = "RUNNING" /\ core.step < LastModelStep
        /\ core' = [core EXCEPT !.step = @ + 1]
     \/ core' = [core EXCEPT !.state = IF @ = "RUNNING" THEN "PAUSED" ELSE "RUNNING"]
     \/ core' = [step |-> 0, state |-> "PAUSED", ours |-> FALSE]
  /\ core' # core /\ moves < MaxMoves /\ moves' = moves + 1
  /\ UNCHANGED <<clock, sentBefore, requests, sessionVars, approval, historyVars>>

ClockTicks == /\ clock < LastClock /\ clock' = clock + 1
        /\ UNCHANGED <<core, sentBefore, moves, requests, sessionVars, approval, historyVars>>

----------------------------------------------------------------------------
(* Requests and their feedback                                             *)

\* Fault: the lease of before survives a new owner request.
ClaimKeepsLease(kind) ==
  /\ controlBoundary' = IF kind \in Boundaries THEN Len(requests) + 1 ELSE controlBoundary
  /\ requested' = IF kind \in Boundaries THEN kind = "OWNER" ELSE requested
  /\ UNCHANGED controlLease

\* The first attempt of a request that changes control ends the lease held.
Claim(kind) ==
  LET changes == kind \in Boundaries
  IN /\ controlBoundary' = IF changes THEN Len(requests) + 1 ELSE controlBoundary
     /\ requested' = IF changes THEN kind = "OWNER" ELSE requested
     /\ controlLease' = IF changes THEN Unset ELSE controlLease

\* Every header names the step the source believes in.
Send(kind) ==
  /\ MaySend
  /\ requests' = Append(requests, Unanswered(kind, IF status = Unset THEN 0 ELSE status.step))
  /\ Claim(kind)
  /\ UNCHANGED <<clock, core, sentBefore, moves, status, stepFloor, retired, approval, historyVars>>

\* The gateway and the model answer: a Status as it is, an owner request when
\* the model is paused at its step, an input when the lane has control.  Every
\* lifecycle command but START takes control from its owner.
Verdict(r) ==
  CASE r.kind = "STATUS" -> {"STATUS"}
    [] r.kind = "OWNER" -> IF core.state = "PAUSED" /\ core.step = r.target
                           THEN {"APPLIED"} ELSE {"FAILED"}
    [] r.kind = "INPUT" -> IF core.ours THEN {"APPLIED", "VALIDATED"} ELSE {"FAILED"}
    [] r.kind \in Retiring \cup {"HALT"} -> {"APPLIED", "FAILED"}

Applied(kind) ==
  CASE kind = "OWNER" -> [core EXCEPT !.ours = TRUE]
    [] kind = "HALT" -> [core EXCEPT !.state = "PAUSED", !.ours = FALSE]
    [] kind = "RESUME" -> [core EXCEPT !.state = "RUNNING", !.ours = FALSE]
    [] kind = "RESET" -> [step |-> 0, state |-> "PAUSED", ours |-> FALSE]
    [] OTHER -> core

Answer(i) ==
  /\ requests[i].answer = Unset /\ requests[i].kind # "DONE"
  /\ \E v \in Verdict(requests[i]) :
       /\ requests' = [requests EXCEPT ![i].answer =
            [verdict |-> v, step |-> core.step, state |-> core.state, ours |-> core.ours]]
       /\ core' = IF v = "APPLIED" THEN Applied(requests[i].kind) ELSE core
  /\ UNCHANGED <<clock, sentBefore, moves, sessionVars, approval, historyVars>>

Greater(m, n) == IF m > n THEN m ELSE n

\* Fault: the floor follows the newest Status down.
RaiseFloorToLatest(step) == stepFloor' = step
RaiseFloor(step) == stepFloor' = Greater(stepFloor, step)

\* _remember_feedback, a Status: an older request raises the floor all the same.
TakeStatus(i, a) ==
  /\ RaiseFloor(a.step)
  /\ status' = IF retired \/ (status # Unset /\ i <= status.seq) THEN status
               ELSE [seq |-> i, step |-> a.step, state |-> a.state, ours |-> a.ours,
                     until |-> requests[i].at + StatusValid]
  /\ UNCHANGED retired

\* _remember_control_feedback: a Status that shows another source, whichever
\* request it answers, ends the lease and the request for one.
Contradicts(a) == requested /\ ~a.ours
\* Fault: only the lease ends; the pending owner request may still bring one.
RevokeLeaseOnly(i) ==
  /\ controlLease' = Unset /\ UNCHANGED requested
  /\ controlBoundary' = Greater(controlBoundary, i)
Revoke(i) ==
  /\ controlLease' = Unset /\ requested' = FALSE
  /\ controlBoundary' = Greater(controlBoundary, i)

Revoked(i) ==
  /\ Revoke(i)
  /\ revocations' = revocations + 1 /\ revokedAfter' = Len(requests)
  /\ UNCHANGED shown

GrantsLease(i, a) ==
  /\ i = controlBoundary /\ requested /\ a.verdict = "APPLIED"
  /\ clock < requests[i].at + ControlTimeout
  /\ status # Unset /\ status.state = "PAUSED" /\ clock < status.until
  /\ status.step = requests[i].target
RenewsLease(i, a) ==
  /\ controlLease # Unset /\ a.verdict \in {"APPLIED", "VALIDATED"}
  /\ clock < controlLease.until /\ i > controlLease.seq /\ requests[i].at >= controlLease.at

\* Fault: an acknowledged input counts as an owner request.
LeaseOfInput(i, owner) == [seq |-> owner, owner |-> i, at |-> requests[i].at,
                           until |-> requests[i].at + ControlTimeout]

Lease(i, owner) == [seq |-> i, owner |-> owner, at |-> requests[i].at,
                    until |-> requests[i].at + ControlTimeout]

TakeControl(i, a) ==
  \/ a.verdict = "FAILED" /\ Revoked(i)
  \/ /\ a.verdict # "FAILED"
     /\ controlLease' = CASE requests[i].kind = "OWNER" /\ GrantsLease(i, a) -> Lease(i, i)
                     [] requests[i].kind = "INPUT" /\ RenewsLease(i, a)
                          -> Lease(i, controlLease.owner)
                     [] OTHER -> controlLease
     /\ UNCHANGED <<controlBoundary, requested, historyVars>>

\* A reply that nothing of the session depends on any more.
Ignore == UNCHANGED <<controlBoundary, requested, controlLease, historyVars>>

Arrive(i) ==
  LET r == requests[i]
      a == r.answer
  IN /\ a # Unset
     /\ requests' = [requests EXCEPT ![i] = Done]
     /\ \/ /\ r.kind = "STATUS" /\ TakeStatus(i, a)
           /\ IF ~retired /\ Contradicts(a) THEN Revoked(i) ELSE Ignore
        \/ /\ r.kind \in {"OWNER", "INPUT"} /\ UNCHANGED <<status, stepFloor, retired>>
           /\ IF retired THEN Ignore ELSE TakeControl(i, a)
        \/ /\ r.kind = "HALT" /\ UNCHANGED <<status, stepFloor, retired>> /\ Ignore
        \/ /\ r.kind \in Retiring /\ UNCHANGED stepFloor /\ Ignore
           /\ retired' = (retired \/ a.verdict = "APPLIED")
           /\ status' = IF retired' THEN Unset ELSE status
     /\ UNCHANGED <<clock, core, sentBefore, moves, approval>>

----------------------------------------------------------------------------
(* What a scenario is shown                                                *)

\* ObservedModelClock.snapshot
Shows ==
  /\ ~retired /\ status # Unset /\ clock < status.until /\ status.step >= stepFloor
\* ObservedControlLease.snapshot
ShowsControl ==
  /\ Shows /\ controlLease # Unset /\ clock < controlLease.until /\ status.ours

ReadFeedback == /\ Shows /\ shown' = status.step /\ shown' # shown
        /\ UNCHANGED <<clock, core, sentBefore, moves, requests, sessionVars, approval, revocations,
                       revokedAfter>>

----------------------------------------------------------------------------
(* RuntimeTargetAuthorizer: approve, allocate, transmit                    *)

StartApproval ==
  /\ approval = NoGuard /\ Shows
  /\ approval' = [pc |-> "reading", status |-> status]
  /\ UNCHANGED <<clock, core, sentBefore, moves, requests, sessionVars, historyVars>>

\* The getter returns the state of the model and the source is looked at once
\* more; anything that does not agree ends the attempt.
Agrees(s) == s.step = core.step /\ s.state = core.state /\ s.ours = core.ours
FinishApproval ==
  /\ approval.pc = "reading"
  /\ approval' =
       IF Shows /\ status = approval.status /\ Agrees(status) /\ ShowsControl
       THEN [pc |-> "approved", status |-> status, control |-> controlLease,
             until |-> clock + SampleValid, seq |-> 0, left |-> Fragments,
             after |-> revocations]
       ELSE NoGuard
  /\ UNCHANGED <<clock, core, sentBefore, moves, requests, sessionVars, historyVars>>

\* Fault: the lease of the approval is not compared with the one held.
GuardPassesAnyLease(g) ==
  /\ status = g.status
  /\ clock < g.until /\ clock < g.status.until /\ clock < g.control.until

\* RuntimeTargetGuard.check, at the allocation and before every fragment.
GuardPasses(g) ==
  /\ status = g.status /\ controlLease = g.control
  /\ clock < g.until /\ clock < g.status.until /\ clock < g.control.until

Allocate ==
  /\ approval.pc = "approved" /\ MaySend
  /\ \/ /\ GuardPasses(approval)
        /\ approval' = [approval EXCEPT !.pc = "sending", !.seq = Len(requests) + 1]
        /\ requests' = Append(requests, Unanswered("INPUT", status.step))
     \/ ~GuardPasses(approval) /\ approval' = NoGuard /\ UNCHANGED requests
  /\ UNCHANGED <<clock, core, sentBefore, moves, sessionVars, historyVars>>

Transmit ==
  /\ approval.pc = "sending"
  /\ approval' = IF GuardPasses(approval) /\ approval.left > 1
                 THEN [approval EXCEPT !.left = @ - 1] ELSE NoGuard
  /\ UNCHANGED <<clock, core, sentBefore, moves, requests, sessionVars, historyVars>>

ClockNext ==
  \/ CoreMoves \/ ClockTicks \/ ReadFeedback
  \/ \E kind \in Kinds : Send(kind)
  \/ \E i \in DOMAIN requests : Answer(i) \/ Arrive(i)
  \/ StartApproval \/ FinishApproval \/ Allocate \/ Transmit

ClockSpec == ClockInit /\ [][ClockNext]_clockVars

----------------------------------------------------------------------------
(* Properties                                                              *)

\* The observations of the session keep their shape.
ClockTypeOK ==
  /\ clock \in 0 .. LastClock /\ core.step \in 0 .. LastModelStep
  /\ \A i \in DOMAIN requests : requests[i].kind \in Kinds \cup {"DONE"}
  /\ status # Unset => status.seq \in DOMAIN requests /\ requests[status.seq] = Done
  /\ controlLease # Unset => controlLease.seq \in DOMAIN requests /\ controlLease.owner <= controlLease.seq
  /\ controlBoundary \in 0 .. Len(requests) /\ shown \in 0 .. LastModelStep
  /\ approval.pc \in {"none", "reading", "approved", "sending"}

\* What one session shows of the model step never goes back, although others
\* reset the model and replies arrive out of order.
ShownNeverBack == Shows => status.step >= shown

\* After feedback took the control away, a lease comes only from an owner
\* request first sent later: a reply still on its way cannot bring it back.
LeaseAfterRevocation == controlLease # Unset => controlLease.owner > revokedAfter

\* A lease never outlives the owner request that is newest: nothing but that
\* request, and the inputs acknowledged under it, is behind it.
LeaseOfNewestOwner == controlLease # Unset => controlLease.owner = controlBoundary /\ requested

\* Every fragment of a controller input leaves under the observations it was
\* approved with: no revocation has arrived in between.
TransmitNotRevoked ==
  [][approval.pc = "sending" /\ approval'.pc = "sending" /\ approval' # approval
     => revocations = approval.after]_clockVars

\* What a source believes follows from what it was told, in whatever order: its
\* clock does not go back and its lease is one nobody has taken away.
ClockSound == ClockTypeOK /\ ShownNeverBack /\ LeaseAfterRevocation /\ LeaseOfNewestOwner
============================================================================
