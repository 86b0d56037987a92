---------------------------- MODULE HilCoreProofs ----------------------------
(***************************************************************************)
(* Theorems about HilCore for every set of requests, commands, events and  *)
(* slots and every bound: its type invariant, the boundary invariant, that *)
(* its two threads implement RunBoundary, and the four invariants of what  *)
(* is published, accepted, owed and applied.                               *)
(***************************************************************************)
EXTENDS HilCore, TLAPS

-----------------------------------------------------------------------------
(* The phases of an iteration.                                             *)

LEMMA RunPhasesFact ==
  ASSUME CoreAssumption
  PROVE  /\ RunPhases \subseteq RtPhases
         /\ RunPhases \cap ({"loop", "check", "apply", "branch"} \cup ResetPhases) = {}
         /\ Slots \cap {"live", "control", "step"} = {}
         /\ \A q \in RunPhases : Rank[q] \in 0 .. 9
         /\ \A q \in RunPhases \ {"step"} : Rank[q] < 9
BY DEF CoreAssumption, RunPhases, RtPhases, AllSlots, ResetPhases, Rank

LEMMA LeastRank ==
  ASSUME NEW S \in SUBSET (0 .. 9), 9 \in S
  PROVE  \E n \in S : \A m \in S : n <= m
<1>1. \E k \in 0 .. 9 : k \in S /\ \A j \in 0 .. 9 : j < k => j \notin S
  <2>0. CASE 0 \in S BY <2>0
  <2>1. CASE 0 \notin S /\ 1 \in S BY <2>1
  <2>2. CASE {0, 1} \cap S = {} /\ 2 \in S BY <2>2
  <2>3. CASE {0, 1, 2} \cap S = {} /\ 3 \in S BY <2>3
  <2>4. CASE {0, 1, 2, 3} \cap S = {} /\ 4 \in S BY <2>4
  <2>5. CASE {0, 1, 2, 3, 4} \cap S = {} /\ 5 \in S BY <2>5
  <2>6. CASE {0, 1, 2, 3, 4, 5} \cap S = {} /\ 6 \in S BY <2>6
  <2>7. CASE {0, 1, 2, 3, 4, 5, 6} \cap S = {} /\ 7 \in S BY <2>7
  <2>8. CASE {0, 1, 2, 3, 4, 5, 6, 7} \cap S = {} /\ 8 \in S BY <2>8
  <2>9. CASE {0, 1, 2, 3, 4, 5, 6, 7, 8} \cap S = {} BY <2>9
  <2> QED BY <2>0, <2>1, <2>2, <2>3, <2>4, <2>5, <2>6, <2>7, <2>8, <2>9
<1> QED BY <1>1

\* The phase after p is a phase of the iteration: "step" is always ahead.
LEMMA NextPhaseType ==
  ASSUME CoreAssumption, NEW p \in RunPhases \ {"step"}
  PROVE  NextPhase(p) \in RunPhases
<1> DEFINE Ranks == {Rank[q] : q \in {x \in RunPhases : Rank[p] < Rank[x]}}
<1>1. Ranks \in SUBSET (0 .. 9) /\ 9 \in Ranks
  BY RunPhasesFact DEF RunPhases, Rank
<1>2. PICK n \in Ranks : \A m \in Ranks : n <= m
  BY <1>1, LeastRank
<1>3. PICK q \in RunPhases : Rank[p] < Rank[q] /\ n = Rank[q]
  OBVIOUS
<1>4. \A x \in RunPhases : Rank[p] < Rank[x] => Rank[q] <= Rank[x]
  BY <1>2, <1>3
<1> QED
  BY <1>3, <1>4 DEF NextPhase

-----------------------------------------------------------------------------
(* Type correctness.                                                       *)

LEMMA SnapshotExcept ==
  ASSUME NEW s \in Snapshots, NEW f, NEW v \in Values
  PROVE  [s EXCEPT ![f] = v] \in Snapshots
BY DEF Snapshots

\* A flag of a record can be set to any Boolean.
LEMMA FlagExcept ==
  ASSUME NEW S, NEW b \in BOOLEAN
  PROVE  /\ \A r \in [val : S, fresh : BOOLEAN] :
              [r EXCEPT !.fresh = b] \in [val : S, fresh : BOOLEAN]
         /\ \A r \in [val : S, set : BOOLEAN] :
              [r EXCEPT !.set = b] \in [val : S, set : BOOLEAN]
OBVIOUS

\* The records the threads start from.
LEMMA ConstantTypes ==
  ASSUME CoreAssumption
  PROVE  /\ Default \in Values /\ \A r \in Requests : r \in Values
         /\ NoRequest \in RequestRecords
         /\ NoTaken \in TakenRecords
         /\ NoSlot \in SlotRecords
         /\ Defaults \in Snapshots
         /\ NoLoc \in LocRecords
<1>1. Default \in Values /\ \A r \in Requests : r \in Values
  BY DEF Values
<1>2. Defaults \in Snapshots
  BY <1>1 DEF Defaults, Snapshots
<1>3. NoRequest \in RequestRecords
  BY <1>1 DEF NoRequest, RequestRecords, AllEvents
<1>4. NoTaken \in TakenRecords
  BY <1>1 DEF NoTaken, TakenRecords, AllEvents
<1>5. NoSlot \in SlotRecords
  BY <1>1 DEF NoSlot, SlotRecords
<1>6. NoLoc \in LocRecords
  BY <1>1, <1>2 DEF NoLoc, LocRecords, AllEvents, AllSlots
<1> QED BY <1>1, <1>2, <1>3, <1>4, <1>5, <1>6

\* One local of a command can be assigned at a time.
LEMMA LocExcept ==
  ASSUME NEW l \in LocRecords
  PROVE  /\ \A v \in Values : [l EXCEPT !.id = v] \in LocRecords
         /\ \A v \in AllEvents : [l EXCEPT !.event = v] \in LocRecords
         /\ \A v \in Nat : [l EXCEPT !.target = v] \in LocRecords
         /\ \A v \in AllSlots : [l EXCEPT !.slot = v] \in LocRecords
         /\ \A v \in SUBSET ParamFields : [l EXCEPT !.fields = v] \in LocRecords
         /\ \A v \in Snapshots : [l EXCEPT !.live = v] \in LocRecords
         /\ \A v \in Snapshots : [l EXCEPT !.reset = v] \in LocRecords
         /\ \A v \in BOOLEAN : [l EXCEPT !.alive = v] \in LocRecords
BY DEF LocRecords

LEMMA TypeInit == ASSUME CoreAssumption, Init PROVE TypeOK
BY ConstantTypes
DEF Init, TypeOK, Lifecycles, Outcomes, RtPhases, CmdPhases

\* populate_state keeps the types of the projection.
LEMMA PopulateType ==
  ASSUME TypeOK, CoreAssumption, NEW valid \in StateValid, NEW had \in BOOLEAN,
         NEW seq \in Nat, PopulateState(valid, had, seq)
  PROVE  stateSeq' \in Nat /\ haveValid' \in BOOLEAN
<1>1. haveValid' \in BOOLEAN
  BY DEF PopulateState
<1> QED BY <1>1 DEF PopulateState, TypeOK

LEMMA TypeStep == ASSUME CoreAssumption, TypeOK, [Next]_vars PROVE TypeOK'
<1> USE DEF projection, modelVars, snapVars, rtVars, cmdVars
<1>1. CASE LifecycleIdle
  BY <1>1 DEF LifecycleIdle, TypeOK, RtPhases
<1>2. CASE TakeLifecycle
  <2>1. taken' \in TakenRecords
    BY <1>2 DEF TakeLifecycle, TypeOK, TakenRecords, RequestRecords
  <2> QED BY <1>2, <2>1, ConstantTypes DEF TakeLifecycle, TypeOK, RtPhases
<1>3. CASE CheckTarget
  BY <1>3, ConstantTypes DEF CheckTarget, TypeOK, RtPhases, Answer, Outcomes
<1>4. CASE ApplyInvalid
  BY <1>4, ConstantTypes DEF ApplyInvalid, TypeOK, RtPhases, Answer, Outcomes
<1>5. CASE ApplyTransition
  <2>1. lifecycle' \in Lifecycles
    BY <1>5 DEF ApplyTransition, TypeOK, TakenRecords, AllEvents, Lifecycles
  <2>2. active' \in Snapshots
    BY <1>5, SnapshotExcept, ConstantTypes DEF ApplyTransition, TypeOK
  <2> QED BY <1>5, <2>1, <2>2, ConstantTypes
          DEF ApplyTransition, TypeOK, RtPhases, Answer, Outcomes
<1>6. CASE ResetBegin
  <2>1. taken' \in TakenRecords
    BY <1>6 DEF ResetBegin, TypeOK, TakenRecords
  <2> QED BY <1>6, <2>1 DEF ResetBegin, TypeOK, RtPhases, ResetPhases, Lifecycles
<1>7. CASE ResetActive
  BY <1>7 DEF ResetActive, TypeOK, RtPhases, ResetPhases
<1>8. CASE ResetPending
  <2>1. pendingReset' \in [val : Snapshots, set : BOOLEAN]
    BY <1>8, FlagExcept DEF ResetPending, TypeOK
  <2> QED BY <1>8, <2>1 DEF ResetPending, TypeOK, RtPhases, ResetPhases
<1>9. ASSUME NEW valid \in StateValid, ResetLifecycle(valid) PROVE TypeOK'
  <2>1. stateSeq' \in Nat /\ haveValid' \in BOOLEAN
    BY <1>9, PopulateType DEF ResetLifecycle, TypeOK
  <2> QED BY <1>9, <2>1 DEF ResetLifecycle, TypeOK, RtPhases, ResetPhases, Lifecycles
<1>10. CASE ResetComplete
  BY <1>10, ConstantTypes DEF ResetComplete, TypeOK, RtPhases, Outcomes
<1>11. CASE Idle
  BY <1>11, SnapshotExcept, ConstantTypes DEF Idle, TypeOK, RtPhases
<1>12. CASE EnterRun
  BY <1>12 DEF EnterRun, TypeOK, RtPhases, RunPhases
<1>13. CASE ApplyLive
  <2>1. rpc' \in RtPhases
    BY <1>13, NextPhaseType, RunPhasesFact DEF ApplyLive, RunPhases
  <2>2. pendingLive' \in [val : Snapshots, fresh : BOOLEAN]
    BY <1>13, FlagExcept DEF ApplyLive, TypeOK
  <2> QED BY <1>13, <2>1, <2>2 DEF ApplyLive, TypeOK
<1>14. ASSUME NEW s \in Slots, ApplySlot(s) PROVE TypeOK'
  <2>1. rpc' \in RtPhases
    BY <1>14, NextPhaseType, RunPhasesFact DEF ApplySlot, RunPhases
  <2>2. slot[s] \in SlotRecords
    BY DEF TypeOK
  <2>3. slot' \in [Slots -> SlotRecords]
    BY <1>14, <2>2 DEF ApplySlot, Overdue, Due, TypeOK, SlotRecords
  <2>4. active' \in Snapshots
    BY <1>14, <2>2 DEF ApplySlot, TypeOK, SlotRecords, Snapshots
  <2> QED BY <1>14, <2>1, <2>3, <2>4 DEF ApplySlot, TypeOK
<1>15. CASE Control
  <2>1. rpc' \in RtPhases
    BY <1>15, NextPhaseType, RunPhasesFact DEF Control, RunPhases
  <2> QED BY <1>15, <2>1, SnapshotExcept, ConstantTypes DEF Control, TypeOK, Lifecycles
<1>16. ASSUME NEW valid \in StateValid, ModelStep(valid) PROVE TypeOK'
  <2>1. stateSeq' \in Nat /\ haveValid' \in BOOLEAN
    BY <1>16, PopulateType DEF ModelStep, TypeOK
  <2> QED BY <1>16, <2>1 DEF ModelStep, TypeOK, RtPhases
<1>17. ASSUME NEW r \in Requests, CmdStart(r) PROVE TypeOK'
  <2>0. r \in Values /\ Events \subseteq AllEvents /\ Slots \subseteq AllSlots
    BY ConstantTypes DEF CoreAssumption
  <2>1. ASSUME NEW event \in Events, LegacyLifecycle(r, event) PROVE TypeOK'
    <3>1. loc' \in LocRecords
      BY <2>0, <2>1, LocExcept, ConstantTypes DEF LegacyLifecycle, TypeOK
    <3> QED BY <2>1, <3>1 DEF LegacyLifecycle, TypeOK, CmdPhases
  <2>2. ASSUME NEW event \in Events, NEW target \in 0 .. MaxSeq,
               StageLifecycle(r, event, target)
        PROVE  TypeOK'
    <3>1. loc' \in LocRecords
      <4>1. target \in Nat
        BY DEF CoreAssumption
      <4>2. [NoLoc EXCEPT !.id = r, !.event = event, !.target = target] \in LocRecords
        <5>1. [NoLoc EXCEPT !.id = r] \in LocRecords
          BY <2>0, LocExcept, ConstantTypes
        <5>2. [NoLoc EXCEPT !.id = r, !.event = event] \in LocRecords
          BY <2>0, <5>1, LocExcept
        <5> QED BY <4>1, <5>2, LocExcept
      <4> QED BY <2>2, <4>2 DEF StageLifecycle, TypeOK
    <3> QED BY <2>2, <3>1 DEF StageLifecycle, TypeOK, CmdPhases, Answer, Outcomes
  <2>3. ASSUME NEW f \in InputFields, SetInputsRead(r, f) PROVE TypeOK'
    <3>1. [pendingLive.val EXCEPT ![f] = r] \in Snapshots
      BY <2>0, SnapshotExcept DEF TypeOK
    <3>2. loc' \in LocRecords
      BY <2>0, <2>3, <3>1, LocExcept, ConstantTypes DEF SetInputsRead
    <3> QED BY <2>3, <3>2 DEF SetInputsRead, TypeOK, CmdPhases
  <2>4. ASSUME NEW classes \in SUBSET ParamFields \ {{}}, TuneRead(r, classes)
        PROVE  TypeOK'
    <3>1. /\ [pendingLive.val EXCEPT !["live"] = r] \in Snapshots
          /\ [ResetCandidate EXCEPT !["reset"] = r] \in Snapshots
      <4>1. pendingReset.val \in Snapshots
        BY DEF TypeOK
      <4>2. active["live"] \in Values
        BY DEF TypeOK, Snapshots, Fields, ParamFields
      <4>3. ResetCandidate \in Snapshots
        BY <4>1, <4>2, SnapshotExcept DEF TypeOK, ResetCandidate
      <4> QED BY <2>0, <4>3, SnapshotExcept DEF TypeOK
    <3>2. loc' \in LocRecords
      <4>1. [NoLoc EXCEPT !.id = r, !.fields = classes] \in LocRecords
        <5>1. [NoLoc EXCEPT !.id = r] \in LocRecords
          BY <2>0, LocExcept, ConstantTypes
        <5> QED BY <5>1, LocExcept
      <4>2. [NoLoc EXCEPT !.id = r, !.fields = classes,
                          !.live = [pendingLive.val EXCEPT !["live"] = r]] \in LocRecords
        BY <3>1, <4>1, LocExcept
      <4>3. [NoLoc EXCEPT !.id = r, !.fields = classes,
                          !.live = [pendingLive.val EXCEPT !["live"] = r],
                          !.reset = [ResetCandidate EXCEPT !["reset"] = r]] \in LocRecords
        BY <3>1, <4>2, LocExcept
      <4> QED BY <2>4, <4>3 DEF TuneRead, TypeOK
    <3> QED BY <2>4, <3>2 DEF TuneRead, TypeOK, CmdPhases, Answer, Outcomes
  <2>5. ASSUME NEW matches \in BOOLEAN, NEW setter \in BOOLEAN,
               NEW valid \in StateValid, Configure(r, matches, setter, valid)
        PROVE  TypeOK'
    <3>1. Configured(r) \in Snapshots
      BY <2>0, ConstantTypes DEF Configured, Snapshots
    <3>2. pendingReset' \in [val : Snapshots, set : BOOLEAN]
      <4>1. \/ pendingReset' = pendingReset
            \/ pendingReset' = [pendingReset EXCEPT !.set = FALSE]
        BY <2>5 DEF Configure
      <4> QED BY <4>1, FlagExcept DEF TypeOK
    <3>3. /\ active' \in Snapshots /\ initial' \in Snapshots
          /\ pendingLive' \in [val : Snapshots, fresh : BOOLEAN]
      <4>1. \/ pendingLive' = pendingLive
            \/ pendingLive' = [val |-> Configured(r), fresh |-> TRUE]
        BY <2>5 DEF Configure
      <4>2. /\ active' \in {active, Configured(r)}
            /\ initial' \in {initial, Configured(r)}
        BY <2>5 DEF Configure
      <4>3. pendingLive' \in [val : Snapshots, fresh : BOOLEAN]
        <5>1. [val |-> Configured(r), fresh |-> TRUE] \in [val : Snapshots, fresh : BOOLEAN]
          BY <3>1
        <5> QED BY <4>1, <5>1 DEF TypeOK
      <4> QED BY <3>1, <4>2, <4>3 DEF TypeOK
    <3>4. lifecycle' \in Lifecycles
      BY <2>5 DEF Configure, TypeOK, Lifecycles
    <3>5. sequence' \in Nat /\ revision' \in Nat /\ epoch' \in Nat
      <4>1. /\ sequence' \in {sequence, 0} /\ revision' \in {revision, revision + 1}
            /\ epoch' \in {epoch, epoch + 1}
        BY <2>5 DEF Configure
      <4> QED BY <4>1 DEF TypeOK
    <3>7. stateSeq' \in Nat /\ haveValid' \in BOOLEAN
      <4>1. \/ UNCHANGED <<stateSeq, haveValid>>
            \/ UNCHANGED stateSeq /\ haveValid' = FALSE
            \/ PopulateState(valid, FALSE, 0)
        BY <2>5 DEF Configure
      <4>2. CASE UNCHANGED stateSeq /\ haveValid' \in BOOLEAN
        BY <4>2 DEF TypeOK
      <4>3. CASE PopulateState(valid, FALSE, 0)
        <5>1. 0 \in Nat /\ FALSE \in BOOLEAN
          OBVIOUS
        <5> QED BY <4>3, <5>1, PopulateType
      <4>4. haveValid \in BOOLEAN
        BY DEF TypeOK
      <4> QED BY <4>1, <4>2, <4>3, <4>4
    <3>6. outcome' \in [Requests -> Outcomes]
      BY <2>5 DEF Configure, TypeOK, Answer, Outcomes
    <3> QED BY <2>5, <3>2, <3>3, <3>4, <3>5, <3>6, <3>7 DEF Configure, TypeOK
  <2>6. CASE PrepareRead(r)
    <3>1. loc' \in LocRecords
      BY <2>0, <2>6, LocExcept, ConstantTypes DEF PrepareRead, TypeOK
    <3> QED BY <2>6, <3>1 DEF PrepareRead, TypeOK, CmdPhases, Answer, Outcomes
  <2>7. ASSUME NEW s \in Slots, NEW target \in 0 .. MaxSeq, StageIcdRead(r, s, target)
        PROVE  TypeOK'
    <3>1. loc' \in LocRecords
      <4>1. target \in Nat
        BY DEF CoreAssumption
      <4>2. [NoLoc EXCEPT !.id = r, !.slot = s, !.target = target, !.alive = TRUE]
              \in LocRecords
        <5>1. [NoLoc EXCEPT !.id = r] \in LocRecords
          BY <2>0, LocExcept, ConstantTypes
        <5>2. [NoLoc EXCEPT !.id = r, !.slot = s] \in LocRecords
          BY <2>0, <5>1, LocExcept
        <5>3. [NoLoc EXCEPT !.id = r, !.slot = s, !.target = target] \in LocRecords
          BY <4>1, <5>2, LocExcept
        <5> QED BY <5>3, LocExcept, Zenon
      <4>3. \/ loc' = loc
            \/ loc' = [NoLoc EXCEPT !.id = r, !.slot = s, !.target = target, !.alive = TRUE]
        BY <2>7 DEF StageIcdRead
      <4> QED BY <4>2, <4>3 DEF TypeOK
    <3> QED BY <2>7, <3>1 DEF StageIcdRead, TypeOK, CmdPhases, Answer, Outcomes
  <2> QED BY <1>17, <2>1, <2>2, <2>3, <2>4, <2>5, <2>6, <2>7 DEF CmdStart
<1>18. CASE CmdProgress
  <2>0. /\ NoLoc \in LocRecords
        /\ loc \in LocRecords /\ loc.id \in Values
    BY ConstantTypes DEF TypeOK, LocRecords
  <2>1. CASE QueueLifecycle
    <3>1. request' \in RequestRecords
      BY <2>0, <2>1 DEF QueueLifecycle, LocRecords, RequestRecords
    <3> QED BY <2>0, <2>1, <3>1
            DEF QueueLifecycle, TypeOK, Finish, CmdPhases, Answer, Outcomes
  <2>2. CASE SetInputsCommit
    <3>1. loc.live \in Snapshots /\ pendingLive.val \in Snapshots
      BY <2>0 DEF TypeOK, LocRecords
    <3>2. pendingLive' \in [val : Snapshots, fresh : BOOLEAN]
      BY <2>2, <3>1 DEF SetInputsCommit, Snapshots
    <3> QED BY <2>0, <2>2, <3>2
            DEF SetInputsCommit, TypeOK, Finish, CmdPhases, Answer, Outcomes
  <2>3. CASE TuneCommit
    <3>1. loc.live \in Snapshots /\ loc.reset \in Snapshots
      BY <2>0 DEF LocRecords
    <3>2. pendingLive' \in [val : Snapshots, fresh : BOOLEAN]
      BY <2>3, <3>1 DEF TuneCommit, TypeOK
    <3>3. /\ pendingReset' \in [val : Snapshots, set : BOOLEAN]
          /\ resetReceipt' \in [pending : BOOLEAN, id : Values]
      <4>1. CASE "reset" \in loc.fields
        <5>1. /\ pendingReset' = [val |-> loc.reset, set |-> TRUE]
              /\ resetReceipt' = [pending |-> TRUE, id |-> loc.id]
          BY <2>3, <4>1 DEF TuneCommit
        <5>2. TRUE \in BOOLEAN
          OBVIOUS
        <5> QED BY <2>0, <3>1, <5>1, <5>2
      <4>2. CASE "reset" \notin loc.fields
        BY <2>3, <4>2 DEF TuneCommit, TypeOK
      <4> QED BY <4>1, <4>2
    <3> QED BY <2>0, <2>3, <3>2, <3>3
            DEF TuneCommit, TypeOK, Finish, CmdPhases, Answer, Outcomes
  <2>4. ASSUME NEW setter \in BOOLEAN, PrepareModel(setter) PROVE TypeOK'
    <3>1. active' \in Snapshots /\ initial' \in Snapshots
      BY <2>0, <2>4 DEF PrepareModel, Snapshots
    <3>0. /\ haveValid' \in BOOLEAN /\ epoch' = epoch + 1
          /\ UNCHANGED <<sequence, revision, stateSeq, pendingLive,
                         pendingReset, resetReceipt, request, slot, rtVars>>
      BY <2>4 DEF PrepareModel
    <3>2. CASE setter
      <4>1. cpc' = "prepare2" /\ UNCHANGED <<lifecycle, outcome, loc>>
        BY <2>4, <3>2 DEF PrepareModel
      <4> QED BY <3>0, <3>1, <4>1 DEF TypeOK, CmdPhases
    <3>3. CASE ~setter
      <4>1. lifecycle' = "FAILED" /\ Answer(loc.id, "rejected") /\ Finish
        BY <2>4, <3>3 DEF PrepareModel
      <4>2. outcome' \in [Requests -> Outcomes]
        BY <4>1 DEF TypeOK, Answer, Outcomes
      <4> QED BY <2>0, <3>0, <3>1, <4>1, <4>2
              DEF TypeOK, Finish, CmdPhases, Lifecycles
    <3> QED BY <3>2, <3>3
  <2>5. ASSUME NEW valid \in StateValid, PreparePending(valid) PROVE TypeOK'
    <3>1. pendingReset' \in [val : Snapshots, set : BOOLEAN]
      BY <2>5, FlagExcept DEF PreparePending, TypeOK
    <3>2. stateSeq' \in Nat /\ haveValid' \in BOOLEAN
      BY <2>5, PopulateType DEF PreparePending, TypeOK
    <3> QED BY <2>0, <2>5, <3>1, <3>2
            DEF PreparePending, TypeOK, Finish, CmdPhases, Answer, Outcomes
  <2>6. CASE StageIcdCommit
    <3>1. slot' \in [Slots -> SlotRecords]
      BY <2>0, <2>6 DEF StageIcdCommit, TypeOK, LocRecords, SlotRecords
    <3> QED BY <2>0, <2>6, <3>1
            DEF StageIcdCommit, TypeOK, Finish, CmdPhases, Answer, Outcomes
  <2> QED BY <1>18, <2>1, <2>2, <2>3, <2>4, <2>5, <2>6 DEF CmdProgress
<1>19. CASE DeadlinePasses
  <2>1. loc' \in LocRecords
    BY <1>19, LocExcept DEF DeadlinePasses, TypeOK
  <2>2. slot' \in [Slots -> SlotRecords]
    <3>1. \A t \in SlotRecords : [t EXCEPT !.alive = FALSE] \in SlotRecords
      BY DEF SlotRecords
    <3>2. \A s \in Slots : slot[s] \in SlotRecords
      BY DEF TypeOK
    <3> QED BY <1>19, <3>1, <3>2 DEF DeadlinePasses, TypeOK
  <2> QED BY <1>19, <2>1, <2>2 DEF DeadlinePasses, TypeOK
<1>20. CASE UNCHANGED vars
  BY <1>20 DEF vars, TypeOK
<1>21. CASE AtBound
  BY <1>20, <1>21 DEF AtBound
<1> QED
  BY <1>1, <1>2, <1>3, <1>4, <1>5, <1>6, <1>7, <1>8, <1>9, <1>10, <1>11, <1>12, <1>13,
     <1>14, <1>15, <1>16, <1>17, <1>18, <1>19, <1>20, <1>21 DEF Next, RtNext

\* Every variable keeps the shape of the C variable it models, in every
\* interleaving of the two threads.
THEOREM TypeCorrect == Spec => []TypeOK
<1>1. Init => TypeOK
  BY TypeInit, CoreAssumption
<1>2. TypeOK /\ [Next]_vars => TypeOK'
  BY TypeStep, CoreAssumption
<1> QED BY <1>1, <1>2, PTL DEF Spec

-----------------------------------------------------------------------------
(* The boundary invariant.  The conjuncts of BoundaryInv besides the two    *)
(* properties say what each half-done RESET or prepare may assume.          *)

LEMMA BoundaryInit == ASSUME CoreAssumption, Init PROVE BoundaryInv
BY RunPhasesFact DEF Init, BoundaryInv, IterationAuthorised, ConfiguredAtZero

LEMMA BoundaryStep ==
  ASSUME CoreAssumption, TypeOK, BoundaryInv, [Next]_vars
  PROVE  BoundaryInv'
<1> USE RunPhasesFact
    DEF projection, modelVars, snapVars, rtVars, cmdVars, BoundaryInv, IterationAuthorised,
        ConfiguredAtZero, ResetPhases
<1>1. CASE LifecycleIdle
  BY <1>1 DEF LifecycleIdle
<1>2. CASE TakeLifecycle
  BY <1>2 DEF TakeLifecycle
<1>3. CASE CheckTarget
  BY <1>3 DEF CheckTarget
<1>4. CASE ApplyInvalid
  BY <1>4 DEF ApplyInvalid
<1>5. CASE ApplyTransition
  BY <1>5 DEF ApplyTransition, Accepts, CommandLockHeld, Lifecycles, TypeOK, TakenRecords, AllEvents
<1>6. CASE ResetBegin
  <2>1. /\ rpc = "apply" /\ rpc' = "reset1" /\ lifecycle' = "RESETTING"
        /\ cpc' = cpc
    BY <1>6 DEF ResetBegin
  <2>2. lifecycle = "STOPPED" => taken'.toStopped
    BY <1>6 DEF ResetBegin, TypeOK, TakenRecords
  <2>3. cpc \in {"prepare1", "prepare2"} => lifecycle = "STOPPED"
    BY <2>1
  <2> QED BY <2>1, <2>2, <2>3
<1>7. CASE ResetActive
  BY <1>7 DEF ResetActive
<1>8. CASE ResetPending
  BY <1>8 DEF ResetPending
<1>9. ASSUME NEW valid \in StateValid, ResetLifecycle(valid) PROVE BoundaryInv'
  BY <1>9 DEF ResetLifecycle, CommandLockHeld
<1>10. CASE ResetComplete
  BY <1>10 DEF ResetComplete
<1>11. CASE Idle
  BY <1>11 DEF Idle
<1>12. CASE EnterRun
  BY <1>12 DEF EnterRun, RunPhases
<1>13. CASE ApplyLive
  BY <1>13, NextPhaseType DEF ApplyLive, RunPhases
<1>14. ASSUME NEW s \in Slots, ApplySlot(s) PROVE BoundaryInv'
  <2>1. s \in RunPhases \ {"step"} /\ rpc' \in RunPhases
    BY <1>14, NextPhaseType DEF ApplySlot, RunPhases
  <2> QED BY <1>14, <2>1 DEF ApplySlot
<1>15. CASE Control
  <2>1. rpc' \in RunPhases
    BY <1>15, NextPhaseType DEF Control, RunPhases
  <2> QED BY <1>15, <2>1 DEF Control, RunPhases, CommandLockHeld
<1>16. ASSUME NEW valid \in StateValid, ModelStep(valid) PROVE BoundaryInv'
  BY <1>16 DEF ModelStep, RunPhases
<1>17. ASSUME NEW r \in Requests, CmdStart(r) PROVE BoundaryInv'
  <2> USE DEF Receive, Answer
  <2>1. ASSUME NEW event \in Events, LegacyLifecycle(r, event) PROVE BoundaryInv'
    BY <2>1 DEF LegacyLifecycle
  <2>2. ASSUME NEW event \in Events, NEW target \in 0 .. MaxSeq,
               StageLifecycle(r, event, target)
        PROVE  BoundaryInv'
    BY <2>2 DEF StageLifecycle
  <2>3. ASSUME NEW f \in InputFields, SetInputsRead(r, f) PROVE BoundaryInv'
    BY <2>3 DEF SetInputsRead
  <2>4. ASSUME NEW classes \in SUBSET ParamFields \ {{}}, TuneRead(r, classes)
        PROVE  BoundaryInv'
    BY <2>4 DEF TuneRead
  <2>5. ASSUME NEW matches \in BOOLEAN, NEW setter \in BOOLEAN,
               NEW valid \in StateValid, Configure(r, matches, setter, valid)
        PROVE  BoundaryInv'
    BY <2>5 DEF Configure, BoundaryHeld
  <2>6. CASE PrepareRead(r)
    BY <2>6 DEF PrepareRead
  <2>7. ASSUME NEW s \in Slots, NEW target \in 0 .. MaxSeq, StageIcdRead(r, s, target)
        PROVE  BoundaryInv'
    BY <2>7 DEF StageIcdRead
  <2> QED BY <1>17, <2>1, <2>2, <2>3, <2>4, <2>5, <2>6, <2>7 DEF CmdStart
<1>18. CASE CmdProgress
  <2> USE DEF Finish, Answer
  <2>1. CASE QueueLifecycle
    BY <2>1 DEF QueueLifecycle
  <2>2. CASE SetInputsCommit
    BY <2>2 DEF SetInputsCommit
  <2>3. CASE TuneCommit
    BY <2>3 DEF TuneCommit
  <2>4. ASSUME NEW setter \in BOOLEAN, PrepareModel(setter) PROVE BoundaryInv'
    BY <2>4 DEF PrepareModel
  <2>5. ASSUME NEW valid \in StateValid, PreparePending(valid) PROVE BoundaryInv'
    BY <2>5 DEF PreparePending
  <2>6. CASE StageIcdCommit
    BY <2>6 DEF StageIcdCommit
  <2> QED BY <1>18, <2>1, <2>2, <2>3, <2>4, <2>5, <2>6 DEF CmdProgress
<1>19. CASE DeadlinePasses
  BY <1>19 DEF DeadlinePasses
<1>20. CASE UNCHANGED vars
  BY <1>20 DEF vars
<1>21. CASE AtBound
  BY <1>20, <1>21 DEF AtBound
<1> QED
  BY <1>1, <1>2, <1>3, <1>4, <1>5, <1>6, <1>7, <1>8, <1>9, <1>10, <1>11, <1>12, <1>13,
     <1>14, <1>15, <1>16, <1>17, <1>18, <1>19, <1>20, <1>21 DEF Next, RtNext

\* No command, in any interleaving of the two threads, stops, resets or
\* configures the model under a half-made step; a run starts at step zero; and
\* a RESET or prepare that is half done finds the lifecycle it left.
THEOREM Authorised == Spec => []BoundaryInv
<1> DEFINE IInv == TypeOK /\ BoundaryInv
<1>1. Init => IInv
  BY TypeInit, BoundaryInit, CoreAssumption
<1>2. IInv /\ [Next]_vars => IInv'
  BY TypeStep, BoundaryStep, CoreAssumption
<1> QED BY <1>1, <1>2, PTL DEF Spec

-----------------------------------------------------------------------------
(* Refinement: every step of the two threads is a step of RunBoundary, or   *)
(* leaves the lifecycle, the step counter and "an iteration is stepping".   *)

LEMMA BoundaryMapsInit == ASSUME CoreAssumption, Init PROVE Boundary!Init
BY RunPhasesFact DEF Init, Boundary!Init

LEMMA BoundaryMapsStep ==
  ASSUME CoreAssumption, TypeOK, BoundaryInv, [Next]_vars
  PROVE  [Boundary!Next]_(Boundary!vars)
<1> DEFINE Mapped == [Boundary!Next]_(Boundary!vars)
           Stutters == /\ lifecycle' = lifecycle /\ sequence' = sequence
                       /\ (rpc \in RunPhases /\ rpc' \in RunPhases)
                            \/ (rpc \notin RunPhases /\ rpc' \notin RunPhases)
                            \/ rpc' = rpc
<1> USE RunPhasesFact
    DEF projection, modelVars, snapVars, rtVars, cmdVars, BoundaryInv, IterationAuthorised,
        ConfiguredAtZero, ResetPhases, Boundary!Move
<1>0. Stutters => Mapped
  BY DEF Boundary!vars
<1> SUFFICES Mapped
  OBVIOUS
<1> HIDE DEF Mapped, Stutters
<1>1. CASE LifecycleIdle
  BY <1>0, <1>1 DEF Stutters, LifecycleIdle
<1>2. CASE TakeLifecycle
  BY <1>0, <1>2 DEF Stutters, TakeLifecycle
<1>3. CASE CheckTarget
  BY <1>0, <1>3 DEF Stutters, CheckTarget
<1>4. CASE ApplyInvalid
  BY <1>0, <1>4 DEF Stutters, ApplyInvalid
<1>5. CASE ApplyTransition
  <2>0. taken.event \in {"RUNNING", "PAUSED", "STOPPED", "ENDED"}
    BY <1>5 DEF ApplyTransition, TypeOK, TakenRecords, AllEvents
  <2>1. CASE taken.event = "RUNNING"
    BY <1>5, <2>1 DEF ApplyTransition, Accepts, Boundary!Start, Boundary!Next, Mapped
  <2>2. CASE taken.event = "PAUSED"
    BY <1>5, <2>2 DEF ApplyTransition, Accepts, Boundary!Pause, Boundary!Next, Mapped
  <2>3. CASE taken.event = "STOPPED"
    BY <1>5, <2>3 DEF ApplyTransition, Accepts, Lifecycles, TypeOK, Boundary!Stop,
                      Boundary!Next, Mapped
  <2>4. CASE taken.event = "ENDED"
    BY <1>5, <2>4 DEF ApplyTransition, Accepts, Boundary!End, Boundary!Next, Mapped
  <2> QED BY <2>0, <2>1, <2>2, <2>3, <2>4
<1>6. CASE ResetBegin
  <2>1. Boundary!BeginReset
    BY <1>6 DEF ResetBegin, Accepts, Lifecycles, TypeOK, Boundary!BeginReset
  <2> QED BY <2>1 DEF Mapped, Boundary!Next
<1>7. CASE ResetActive
  BY <1>0, <1>7 DEF Stutters, ResetActive
<1>8. CASE ResetPending
  <2>1. Boundary!Rewind
    BY <1>8 DEF ResetPending, Boundary!Rewind
  <2> QED BY <2>1 DEF Mapped, Boundary!Next
<1>9. ASSUME NEW valid \in StateValid, ResetLifecycle(valid) PROVE Mapped
  <2>1. Boundary!EndReset
    BY <1>9 DEF ResetLifecycle, Boundary!EndReset
  <2> QED BY <2>1 DEF Mapped, Boundary!Next
<1>10. CASE ResetComplete
  BY <1>0, <1>10 DEF Stutters, ResetComplete
<1>11. CASE Idle
  BY <1>0, <1>11 DEF Stutters, Idle
<1>12. CASE EnterRun
  <2>1. Boundary!BeginStep
    BY <1>12 DEF EnterRun, RunPhases, Boundary!BeginStep
  <2> QED BY <2>1 DEF Mapped, Boundary!Next
<1>13. CASE ApplyLive
  BY <1>0, <1>13, NextPhaseType DEF Stutters, ApplyLive, RunPhases
<1>14. ASSUME NEW s \in Slots, ApplySlot(s) PROVE Mapped
  <2>1. s \in RunPhases \ {"step"} /\ rpc' \in RunPhases
    BY <1>14, NextPhaseType DEF ApplySlot, RunPhases
  <2> QED BY <1>0, <1>14, <2>1 DEF Stutters, ApplySlot
<1>15. CASE Control
  <2>1. rpc \in RunPhases /\ rpc' \in RunPhases
    BY <1>15, NextPhaseType DEF Control, RunPhases
  <2>2. CASE lifecycle' = lifecycle
    BY <1>0, <1>15, <2>1, <2>2 DEF Stutters, Control
  <2>3. CASE lifecycle' # lifecycle
    <3>1. Boundary!Land
      BY <1>15, <2>1, <2>3 DEF Control, Boundary!Land
    <3> QED BY <3>1 DEF Mapped, Boundary!Next
  <2> QED BY <2>2, <2>3
<1>16. ASSUME NEW valid \in StateValid, ModelStep(valid) PROVE Mapped
  <2>1. Boundary!EndStep
    BY <1>16 DEF ModelStep, RunPhases, Boundary!EndStep
  <2> QED BY <2>1 DEF Mapped, Boundary!Next
<1>17. ASSUME NEW r \in Requests, CmdStart(r) PROVE Mapped
  <2>1. ASSUME NEW matches \in BOOLEAN, NEW setter \in BOOLEAN,
               NEW valid \in StateValid, Configure(r, matches, setter, valid)
        PROVE  Mapped
    <3>1. CASE lifecycle' = lifecycle
      BY <1>0, <2>1, <3>1 DEF Stutters, Configure
    <3>2. CASE lifecycle' = "CONFIGURED" /\ lifecycle' # lifecycle
      <4>1. Boundary!Configure
        BY <2>1, <3>2 DEF Configure, Boundary!Configure
      <4> QED BY <4>1 DEF Mapped, Boundary!Next
    <3>3. CASE lifecycle' = "FAILED" /\ lifecycle' # lifecycle
      <4>1. Boundary!Fail
        BY <2>1, <3>3 DEF Configure, Boundary!Fail
      <4> QED BY <4>1 DEF Mapped, Boundary!Next
    <3> QED BY <2>1, <3>1, <3>2, <3>3 DEF Configure
  <2>2. ASSUME ~ \E matches, setter \in BOOLEAN, valid \in StateValid :
                 Configure(r, matches, setter, valid)
        PROVE  Mapped
    BY <1>0, <1>17, <2>2 DEF Stutters, CmdStart, LegacyLifecycle, StageLifecycle, SetInputsRead,
       TuneRead, PrepareRead, StageIcdRead
  <2> QED BY <2>1, <2>2
<1>18. CASE CmdProgress
  <2>1. ASSUME NEW setter \in BOOLEAN, PrepareModel(setter) PROVE Mapped
    <3>1. CASE lifecycle' = lifecycle
      BY <1>0, <2>1, <3>1 DEF Stutters, PrepareModel
    <3>2. CASE lifecycle' # lifecycle
      <4>1. Boundary!Fail
        BY <2>1, <3>2 DEF PrepareModel, Boundary!Fail
      <4> QED BY <4>1 DEF Mapped, Boundary!Next
    <3> QED BY <3>1, <3>2
  <2>2. ASSUME NEW valid \in StateValid, PreparePending(valid) PROVE Mapped
    <3>1. Boundary!Rewind
      BY <2>2 DEF PreparePending, Boundary!Rewind
    <3> QED BY <3>1 DEF Mapped, Boundary!Next
  <2> QED BY <1>0, <1>18, <2>1, <2>2 DEF Stutters, CmdProgress, QueueLifecycle, SetInputsCommit,
             TuneCommit, StageIcdCommit
<1>19. CASE DeadlinePasses
  BY <1>0, <1>19 DEF Stutters, DeadlinePasses
<1>20. CASE UNCHANGED vars
  BY <1>0, <1>20 DEF Stutters, vars
<1>21. CASE AtBound
  BY <1>20, <1>21 DEF AtBound
<1> QED
  BY <1>1, <1>2, <1>3, <1>4, <1>5, <1>6, <1>7, <1>8, <1>9, <1>10, <1>11, <1>12, <1>13,
     <1>14, <1>15, <1>16, <1>17, <1>18, <1>19, <1>20, <1>21 DEF Next, RtNext, Mapped

\* The detailed model implements the abstract promise: a run starts from
\* CONFIGURED at step zero, steps only while RUNNING (or while landing), and is
\* rewound only outside a step and outside a run.
THEOREM Implements == Spec => ImplementsRunBoundary
<1>1. Init => Boundary!Init
  BY BoundaryMapsInit, CoreAssumption
<1>2. TypeOK /\ BoundaryInv /\ [Next]_vars => [Boundary!Next]_(Boundary!vars)
  BY BoundaryMapsStep, CoreAssumption
<1> QED
  BY <1>1, <1>2, TypeCorrect, Authorised, PTL
  DEF Spec, ImplementsRunBoundary, Boundary!Spec

-----------------------------------------------------------------------------
(* The published projection.  Nothing is published between the begin of a   *)
(* RESET or a prepare and the rewind that follows, but by the other of the   *)
(* two, and that has rewound already.                                       *)

ProjectionInv ==
  /\ haveValid => stateSeq <= sequence
  /\ haveValid /\ rpc \in {"reset1", "reset2", "reset3"} => stateSeq = 0
  /\ cpc = "prepare2" => ~haveValid

LEMMA ProjectionStep ==
  ASSUME CoreAssumption, TypeOK, BoundaryInv, ProjectionInv, [Next]_vars
  PROVE  ProjectionInv'
<1> DEFINE Still == UNCHANGED <<haveValid, stateSeq, sequence, cpc>>
           Resetting == {"reset1", "reset2", "reset3"}
<1> USE DEF projection, modelVars, snapVars, rtVars, cmdVars
<1>0. ASSUME UNCHANGED <<haveValid, stateSeq, sequence>>,
             rpc' \in Resetting => rpc \in Resetting,
             cpc' = "prepare2" => cpc = "prepare2"
      PROVE  ProjectionInv'
  BY <1>0 DEF ProjectionInv
<1>1. CASE LifecycleIdle \/ TakeLifecycle \/ CheckTarget \/ ApplyInvalid \/ ApplyTransition
  BY <1>0, <1>1 DEF LifecycleIdle, TakeLifecycle, CheckTarget, ApplyInvalid, ApplyTransition
<1>2. CASE ResetBegin
  BY <1>2 DEF ResetBegin, ProjectionInv
<1>3. CASE ResetActive
  BY <1>0, <1>3 DEF ResetActive
<1>4. CASE ResetPending
  BY <1>4 DEF ResetPending, ProjectionInv
<1>5. ASSUME NEW valid \in StateValid, ResetLifecycle(valid) PROVE ProjectionInv'
  BY <1>5 DEF ResetLifecycle, PopulateState, CommandLockHeld, ProjectionInv, TypeOK
<1>6. CASE ResetComplete \/ Idle
  BY <1>0, <1>6 DEF ResetComplete, Idle
<1>7. CASE EnterRun \/ ApplyLive \/ Control
  BY <1>0, <1>7, NextPhaseType, RunPhasesFact
     DEF EnterRun, ApplyLive, Control, RunPhases, ResetPhases
<1>8. ASSUME NEW s \in Slots, ApplySlot(s) PROVE ProjectionInv'
  <2>1. rpc' \in RunPhases
    BY <1>8, NextPhaseType, RunPhasesFact DEF ApplySlot, RunPhases
  <2> QED
    BY <1>0, <1>8, <2>1, RunPhasesFact DEF ApplySlot, ResetPhases
<1>9. ASSUME NEW valid \in StateValid, ModelStep(valid) PROVE ProjectionInv'
  <2>1. cpc # "prepare2"
    BY <1>9 DEF ModelStep, BoundaryInv, IterationAuthorised, RunPhases
  <2> QED
    BY <1>9, <2>1 DEF ModelStep, PopulateState, ProjectionInv, TypeOK
<1>10. ASSUME NEW r \in Requests, CmdStart(r) PROVE ProjectionInv'
  <2>1. ASSUME NEW event \in Events, LegacyLifecycle(r, event) PROVE ProjectionInv'
    BY <1>0, <2>1 DEF LegacyLifecycle
  <2>2. ASSUME NEW event \in Events, NEW target \in 0 .. MaxSeq,
               StageLifecycle(r, event, target)
        PROVE  ProjectionInv'
    BY <1>0, <2>2 DEF StageLifecycle, Receive
  <2>3. ASSUME NEW f \in InputFields, SetInputsRead(r, f) PROVE ProjectionInv'
    BY <1>0, <2>3 DEF SetInputsRead
  <2>4. ASSUME NEW classes \in SUBSET ParamFields \ {{}}, TuneRead(r, classes)
        PROVE  ProjectionInv'
    BY <1>0, <2>4 DEF TuneRead, Receive
  <2>5. ASSUME NEW matches \in BOOLEAN, NEW setter \in BOOLEAN,
               NEW valid \in StateValid, Configure(r, matches, setter, valid)
        PROVE  ProjectionInv'
    <3>1. cpc' = "idle" /\ rpc' = rpc /\ rpc \notin Resetting
      BY <2>5 DEF Configure, Receive, BoundaryHeld, ResetPhases
    <3>2. \/ UNCHANGED <<haveValid, stateSeq, sequence>>
          \/ haveValid' = FALSE
          \/ PopulateState(valid, FALSE, 0) /\ sequence' = 0
      BY <2>5 DEF Configure
    <3> QED
      BY <3>1, <3>2 DEF ProjectionInv, PopulateState
  <2>6. CASE PrepareRead(r)
    BY <1>0, <2>6 DEF PrepareRead, Receive
  <2>7. ASSUME NEW s \in Slots, NEW target \in 0 .. MaxSeq, StageIcdRead(r, s, target)
        PROVE  ProjectionInv'
    BY <1>0, <2>7 DEF StageIcdRead, Receive
  <2> QED
    BY <1>10, <2>1, <2>2, <2>3, <2>4, <2>5, <2>6, <2>7 DEF CmdStart
<1>11. CASE QueueLifecycle \/ SetInputsCommit \/ TuneCommit \/ StageIcdCommit
  BY <1>0, <1>11 DEF QueueLifecycle, SetInputsCommit, TuneCommit, StageIcdCommit, Finish
<1>12. ASSUME NEW setter \in BOOLEAN, PrepareModel(setter) PROVE ProjectionInv'
  BY <1>12 DEF PrepareModel, ProjectionInv
<1>13. ASSUME NEW valid \in StateValid, PreparePending(valid) PROVE ProjectionInv'
  BY <1>13 DEF PreparePending, PopulateState, Finish, ProjectionInv
<1>14. CASE DeadlinePasses \/ AtBound \/ UNCHANGED vars
  BY <1>0, <1>14 DEF DeadlinePasses, AtBound, vars
<1> QED
  BY <1>1, <1>2, <1>3, <1>4, <1>5, <1>6, <1>7, <1>8, <1>9, <1>10, <1>11, <1>12, <1>13,
     <1>14 DEF Next, RtNext, CmdProgress

-----------------------------------------------------------------------------
(* Receipts.  The request a thread or a slot is working for is known by its *)
(* last receipt, and no two of them are the same request: a receipt never    *)
(* falls on another command's.                                             *)

Taking == {"check", "apply"} \cup ResetPhases

\* One conjunct for each place that keeps the identity of a request.
CommandReceipt ==
  /\ cpc # "idle" => loc.id \in Requests /\ outcome[loc.id] = "none"
  /\ cpc = "tune" /\ "reset" \in loc.fields => ~resetReceipt.pending

QueueReceipt ==
  request.pending => request.id \in Requests /\ outcome[request.id] = "queued"

TakenReceipt ==
  rpc \in Taking =>
    /\ taken.id \in Requests /\ outcome[taken.id] = "queued"
    /\ request.pending => request.id # taken.id

DeferredReceipt ==
  /\ DeferredTracked
  /\ resetReceipt.pending =>
       resetReceipt.id \in Requests /\ outcome[resetReceipt.id] = "deferred"

StagedReceipt ==
  \A s \in Slots : slot[s].state = "STAGED" =>
    slot[s].id \in Requests /\ outcome[slot[s].id] = "staged"

ReceiptInv ==
  CommandReceipt /\ QueueReceipt /\ TakenReceipt /\ DeferredReceipt /\ StagedReceipt

\* A step that sends no receipt and lets no place take another request.
LEMMA ReceiptStays ==
  ASSUME ReceiptInv, UNCHANGED <<outcome, resetReceipt>>,
         \A s \in Slots : slot'[s].state = "STAGED" =>
            slot[s].state = "STAGED" /\ slot'[s].id = slot[s].id,
         request'.pending => request' = request,
         rpc' \in Taking => rpc \in Taking /\ taken'.id = taken.id,
         cpc' # "idle" => cpc # "idle" /\ loc'.id = loc.id,
         cpc' = "tune" => cpc = "tune" /\ loc'.fields = loc.fields
  PROVE  ReceiptInv'
BY DEF ReceiptInv, CommandReceipt, QueueReceipt, TakenReceipt, DeferredReceipt,
       DeferredTracked, StagedReceipt

\* A step that answers the command being executed, or one just received: with
\* that its thread is idle, and only a place the command fills is new.
LEMMA ReceiptAnswers ==
  ASSUME TypeOK, ReceiptInv, NEW r \in Requests, outcome[r] = "none", NEW what, what # "deferred",
         Answer(r, what), cpc' = "idle", UNCHANGED <<resetReceipt, rtVars>>,
         \/ UNCHANGED request
         \/ request'.pending /\ request'.id = r /\ what = "queued",
         \A s \in Slots : slot'[s].state = "STAGED" =>
           \/ slot[s].state = "STAGED" /\ slot'[s].id = slot[s].id
           \/ slot'[s].id = r /\ what = "staged"
  PROVE  ReceiptInv'
<1>1. \A x \in Requests : outcome'[x] = IF x = r THEN what ELSE outcome[x]
  BY DEF Answer, TypeOK
<1>2. CommandReceipt' /\ QueueReceipt'
  BY <1>1 DEF ReceiptInv, CommandReceipt, QueueReceipt
<1>3. TakenReceipt'
  BY <1>1 DEF ReceiptInv, TakenReceipt, QueueReceipt, rtVars
<1>4. DeferredReceipt'
  BY <1>1 DEF ReceiptInv, DeferredReceipt, DeferredTracked
<1>5. StagedReceipt'
  BY <1>1 DEF ReceiptInv, StagedReceipt
<1> QED
  BY <1>2, <1>3, <1>4, <1>5 DEF ReceiptInv

\* A command that goes on with its request kept in loc.
LEMMA ReceiptReceives ==
  ASSUME ReceiptInv, NEW r \in Requests, outcome[r] = "none", loc'.id = r,
         cpc' = "tune" /\ "reset" \in loc'.fields => ~resetReceipt.pending,
         UNCHANGED <<outcome, resetReceipt, request, slot, rtVars>>
  PROVE  ReceiptInv'
BY DEF ReceiptInv, CommandReceipt, QueueReceipt, TakenReceipt, DeferredReceipt,
       DeferredTracked, StagedReceipt, rtVars

\* The final receipt of a lifecycle request, and of the reset-only group that
\* a RESET completes.
LEMMA ReceiptFinal ==
  ASSUME TypeOK, ReceiptInv, rpc \in Taking, NEW what, what # "deferred",
         rpc' \notin Taking, UNCHANGED <<request, slot, cmdVars>>,
         \/ Answer(taken.id, what) /\ UNCHANGED resetReceipt
         \/ /\ outcome' = [r \in Requests |->
                 IF r = taken.id THEN what
                 ELSE IF resetReceipt.pending /\ r = resetReceipt.id THEN "completed"
                 ELSE outcome[r]]
            /\ resetReceipt' = [pending |-> FALSE, id |-> Default]
  PROVE  ReceiptInv'
<1>1. taken.id \in Requests /\ outcome[taken.id] = "queued"
      /\ (request.pending => request.id # taken.id)
  BY DEF ReceiptInv, TakenReceipt
<1>2. /\ outcome'[taken.id] = what
      /\ \A x \in Requests : x # taken.id =>
           \/ outcome'[x] = outcome[x]
           \/ /\ resetReceipt.pending /\ x = resetReceipt.id /\ outcome'[x] = "completed"
              /\ ~resetReceipt'.pending
      /\ resetReceipt' # resetReceipt => ~resetReceipt'.pending
      /\ \A x \in Requests : resetReceipt.pending /\ x = resetReceipt.id /\ x # taken.id =>
           \/ outcome'[x] = "completed" /\ ~resetReceipt'.pending
           \/ outcome'[x] = outcome[x] /\ resetReceipt' = resetReceipt
  BY <1>1 DEF Answer, TypeOK
<1>3. resetReceipt.pending => outcome[resetReceipt.id] = "deferred"
  BY DEF ReceiptInv, DeferredReceipt
<1>4. CommandReceipt' /\ QueueReceipt' /\ TakenReceipt'
  BY <1>1, <1>2, <1>3 DEF ReceiptInv, CommandReceipt, QueueReceipt, TakenReceipt, cmdVars
<1>5. StagedReceipt'
  BY <1>1, <1>2, <1>3 DEF ReceiptInv, StagedReceipt
<1>6. DeferredReceipt'
  <2>1. ASSUME NEW x \in Requests, outcome'[x] = "deferred"
        PROVE  resetReceipt'.pending /\ resetReceipt'.id = x
    <3>1. x # taken.id /\ outcome'[x] = outcome[x]
      BY <1>2, <2>1
    <3>2. resetReceipt.pending /\ resetReceipt.id = x
      BY <2>1, <3>1 DEF ReceiptInv, DeferredReceipt, DeferredTracked
    <3> QED
      BY <1>2, <2>1, <3>1, <3>2
  <2>2. resetReceipt'.pending => resetReceipt' = resetReceipt /\ resetReceipt.pending
    BY <1>2
  <2>3. resetReceipt'.pending => outcome'[resetReceipt'.id] = "deferred"
    BY <1>1, <1>2, <1>3, <2>2 DEF ReceiptInv, DeferredReceipt
  <2> QED
    BY <2>1, <2>2, <2>3 DEF ReceiptInv, DeferredReceipt, DeferredTracked
<1> QED
  BY <1>4, <1>5, <1>6 DEF ReceiptInv

LEMMA TakingFact ==
  ASSUME CoreAssumption
  PROVE  /\ RunPhases \cap Taking = {} /\ "loop" \notin Taking /\ "branch" \notin Taking
         /\ Taking = {"check", "apply", "reset1", "reset2", "reset3", "reset4"}
BY RunPhasesFact DEF Taking, ResetPhases

LEMMA ReceiptStep ==
  ASSUME CoreAssumption, TypeOK, ReceiptInv, [Next]_vars
  PROVE  ReceiptInv'
<1> USE TakingFact DEF modelVars, snapVars, rtVars, cmdVars
<1>1. CASE LifecycleIdle \/ Idle
  BY <1>1, ReceiptStays DEF LifecycleIdle, Idle
<1>2. CASE TakeLifecycle
  BY <1>2 DEF TakeLifecycle, NoRequest, ReceiptInv, CommandReceipt, QueueReceipt, TakenReceipt,
              DeferredReceipt, DeferredTracked, StagedReceipt
<1>3. CASE CheckTarget
  <2>1. CASE sequence # taken.target
    BY <1>3, <2>1, ReceiptFinal DEF CheckTarget
  <2>2. CASE sequence = taken.target
    BY <1>3, <2>2, ReceiptStays DEF CheckTarget
  <2> QED
    BY <2>1, <2>2
<1>4. CASE ApplyInvalid
  BY <1>4, ReceiptFinal DEF ApplyInvalid
<1>5. CASE ApplyTransition
  BY <1>5, ReceiptFinal DEF ApplyTransition
<1>6. CASE ResetBegin
  <2>1. taken'.id = taken.id
    BY <1>6 DEF ResetBegin, TypeOK, TakenRecords
  <2> QED
    BY <1>6, <2>1, ReceiptStays DEF ResetBegin
<1>7. CASE ResetActive
  BY <1>7, ReceiptStays DEF ResetActive
<1>8. CASE ResetPending
  BY <1>8, ReceiptStays DEF ResetPending
<1>9. ASSUME NEW valid \in StateValid, ResetLifecycle(valid) PROVE ReceiptInv'
  BY <1>9, ReceiptStays DEF ResetLifecycle
<1>10. CASE ResetComplete
  BY <1>10, ReceiptFinal DEF ResetComplete
<1>11. CASE EnterRun
  BY <1>11, ReceiptStays DEF EnterRun
<1>12. CASE ApplyLive
  BY <1>12, ReceiptStays, NextPhaseType DEF ApplyLive, RunPhases
<1>13. ASSUME NEW s \in Slots, ApplySlot(s) PROVE ReceiptInv'
  <2>1. rpc' \in RunPhases
    BY <1>13, NextPhaseType, RunPhasesFact DEF ApplySlot, RunPhases
  <2>2. \A x \in Slots : slot'[x].state = "STAGED" => slot'[x] = slot[x]
    BY <1>13 DEF ApplySlot, TypeOK, SlotRecords
  <2> QED
    BY <1>13, <2>1, <2>2, ReceiptStays DEF ApplySlot
<1>14. CASE Control
  BY <1>14, ReceiptStays, NextPhaseType DEF Control, RunPhases
<1>15. ASSUME NEW valid \in StateValid, ModelStep(valid) PROVE ReceiptInv'
  BY <1>15, ReceiptStays DEF ModelStep
<1>16. ASSUME NEW r \in Requests, CmdStart(r) PROVE ReceiptInv'
  <2>1. ASSUME NEW event \in Events, LegacyLifecycle(r, event) PROVE ReceiptInv'
    BY <2>1, ReceiptReceives DEF LegacyLifecycle, Receive, NoLoc
  <2>2. ASSUME NEW event \in Events, NEW target \in 0 .. MaxSeq,
               StageLifecycle(r, event, target)
        PROVE  ReceiptInv'
    BY <2>2, ReceiptReceives, ReceiptAnswers DEF StageLifecycle, Receive, NoLoc
  <2>3. ASSUME NEW f \in InputFields, SetInputsRead(r, f) PROVE ReceiptInv'
    BY <2>3, ReceiptReceives DEF SetInputsRead, Receive, NoLoc
  <2>4. ASSUME NEW classes \in SUBSET ParamFields \ {{}}, TuneRead(r, classes)
        PROVE  ReceiptInv'
    <3>1. CASE Answer(r, "rejected") /\ UNCHANGED cmdVars
      BY <2>4, <3>1, ReceiptAnswers DEF TuneRead, Receive
    <3>2. CASE ~(Answer(r, "rejected") /\ UNCHANGED cmdVars)
      <4>1. /\ cpc' = "tune" /\ UNCHANGED outcome /\ ("reset" \in classes => ~ResetOnlyBusy)
            /\ loc' = [NoLoc EXCEPT !.id = r, !.fields = classes,
                         !.live = [pendingLive.val EXCEPT !["live"] = r],
                         !.reset = [ResetCandidate EXCEPT !["reset"] = r]]
        BY <2>4, <3>2 DEF TuneRead
      <4>2. loc'.id = r /\ loc'.fields = classes
        BY <4>1 DEF NoLoc
      <4> QED
        BY <2>4, <4>1, <4>2, ReceiptReceives DEF TuneRead, Receive, ResetOnlyBusy
    <3> QED
      BY <3>1, <3>2
  <2>5. ASSUME NEW matches \in BOOLEAN, NEW setter \in BOOLEAN,
               NEW valid \in StateValid, Configure(r, matches, setter, valid)
        PROVE  ReceiptInv'
    <3>1. Answer(r, "rejected") \/ Answer(r, "accepted")
      BY <2>5 DEF Configure
    <3> QED
      BY <2>5, <3>1, ReceiptAnswers DEF Configure, Receive
  <2>6. CASE PrepareRead(r)
    BY <2>6, ReceiptReceives, ReceiptAnswers DEF PrepareRead, Receive, NoLoc
  <2>7. ASSUME NEW s \in Slots, NEW target \in 0 .. MaxSeq, StageIcdRead(r, s, target)
        PROVE  ReceiptInv'
    BY <2>7, ReceiptReceives, ReceiptAnswers DEF StageIcdRead, Receive, NoLoc
  <2> QED
    BY <1>16, <2>1, <2>2, <2>3, <2>4, <2>5, <2>6, <2>7 DEF CmdStart
<1>17. cpc # "idle" => loc.id \in Requests /\ outcome[loc.id] = "none"
  BY DEF ReceiptInv, CommandReceipt
<1>18. CASE QueueLifecycle
  BY <1>17, <1>18, ReceiptAnswers DEF QueueLifecycle, Finish
<1>19. CASE SetInputsCommit
  BY <1>17, <1>19, ReceiptAnswers DEF SetInputsCommit, Finish
<1>20. CASE TuneCommit
  <2>1. CASE "reset" \notin loc.fields
    BY <1>17, <1>20, <2>1, ReceiptAnswers DEF TuneCommit, Finish
  <2>2. CASE "reset" \in loc.fields
    <3>1. /\ resetReceipt' = [pending |-> TRUE, id |-> loc.id] /\ Answer(loc.id, "deferred")
          /\ cpc' = "idle" /\ UNCHANGED <<request, slot, rpc, taken>>
      BY <1>20, <2>2 DEF TuneCommit, Finish
    <3>2. ~resetReceipt.pending
      BY <1>20, <2>2 DEF TuneCommit, ReceiptInv, CommandReceipt
    <3>3. loc.id \in Requests /\ outcome[loc.id] = "none"
      BY <1>17, <1>20 DEF TuneCommit
    <3>4. \A x \in Requests : outcome'[x] = IF x = loc.id THEN "deferred" ELSE outcome[x]
      BY <3>1 DEF Answer, TypeOK
    <3> QED
      BY <3>1, <3>2, <3>3, <3>4
         DEF ReceiptInv, CommandReceipt, QueueReceipt, TakenReceipt, DeferredReceipt,
             DeferredTracked, StagedReceipt
  <2> QED
    BY <2>1, <2>2
<1>21. ASSUME NEW setter \in BOOLEAN, PrepareModel(setter) PROVE ReceiptInv'
  <2>1. CASE setter
    BY <1>21, <2>1, ReceiptStays DEF PrepareModel
  <2>2. CASE ~setter
    BY <1>17, <1>21, <2>2, ReceiptAnswers DEF PrepareModel, Finish
  <2> QED
    BY <2>1, <2>2
<1>22. ASSUME NEW valid \in StateValid, PreparePending(valid) PROVE ReceiptInv'
  BY <1>17, <1>22, ReceiptAnswers DEF PreparePending, Finish
<1>23. CASE StageIcdCommit
  <2>1. CASE slot[loc.slot].state = "STAGED"
    BY <1>17, <1>23, <2>1, ReceiptAnswers DEF StageIcdCommit, Finish
  <2>2. CASE slot[loc.slot].state # "STAGED"
    <3>1. Answer(loc.id, "staged") /\ cpc' = "idle" /\ UNCHANGED <<resetReceipt, request, rpc, taken>>
      BY <1>23, <2>2 DEF StageIcdCommit, Finish
    <3>2. \A x \in Slots : slot'[x].state = "STAGED" =>
            slot'[x] = slot[x] \/ slot'[x].id = loc.id
      BY <1>23, <2>2 DEF StageIcdCommit, TypeOK
    <3>3. cpc # "idle"
      BY <1>23 DEF StageIcdCommit
    <3> QED
      BY <1>17, <3>1, <3>2, <3>3, ReceiptAnswers
  <2> QED
    BY <2>1, <2>2
<1>24. CASE DeadlinePasses
  <2>1. \A x \in Slots : slot'[x].state = slot[x].state /\ slot'[x].id = slot[x].id
    BY <1>24 DEF DeadlinePasses, TypeOK, SlotRecords
  <2>2. loc'.id = loc.id /\ loc'.fields = loc.fields
    BY <1>24 DEF DeadlinePasses, TypeOK, LocRecords
  <2> QED
    BY <1>24, <2>1, <2>2, ReceiptStays DEF DeadlinePasses
<1>25. CASE AtBound \/ UNCHANGED vars
  BY <1>25, ReceiptStays DEF AtBound, vars
<1> QED
  BY <1>1, <1>2, <1>3, <1>4, <1>5, <1>6, <1>7, <1>8, <1>9, <1>10, <1>11, <1>12, <1>13,
     <1>14, <1>15, <1>16, <1>18, <1>19, <1>20, <1>21, <1>22, <1>23, <1>24, <1>25
     DEF Next, RtNext, CmdProgress

\* A transaction that was staged keeps that receipt: whoever answers next is
\* known to be another request.
StagedForGood == \A x \in Requests : outcome[x] = "staged" => outcome'[x] = "staged"

LEMMA StagedStays ==
  ASSUME CoreAssumption, TypeOK, ReceiptInv, [Next]_vars
  PROVE  StagedForGood
<1> USE TakingFact DEF modelVars, snapVars, rtVars, cmdVars
<1>0. ASSUME NEW r, NEW what, Answer(r, what), outcome[r] # "staged" PROVE StagedForGood
  BY <1>0 DEF Answer, StagedForGood, TypeOK
<1>1. ASSUME UNCHANGED outcome PROVE StagedForGood
  BY <1>1 DEF StagedForGood
<1>2. rpc \in Taking => outcome[taken.id] # "staged"
  BY DEF ReceiptInv, TakenReceipt
<1>3. cpc # "idle" => outcome[loc.id] # "staged"
  BY DEF ReceiptInv, CommandReceipt
<1>4. CASE RtNext
  <2>1. CASE CheckTarget \/ ApplyInvalid \/ ApplyTransition
    BY <1>0, <1>1, <1>2, <2>1 DEF CheckTarget, ApplyInvalid, ApplyTransition
  <2>2. CASE ResetComplete
    BY <1>2, <2>2 DEF ResetComplete, StagedForGood, ReceiptInv, DeferredReceipt
  <2> QED
    BY <1>1, <1>4, <2>1, <2>2
       DEF RtNext, LifecycleIdle, TakeLifecycle, ResetBegin, ResetActive, ResetPending, Idle,
           EnterRun, ApplyLive, Control, ApplySlot, ResetLifecycle, ModelStep
<1>5. ASSUME NEW r \in Requests, CmdStart(r) PROVE StagedForGood
  <2>1. outcome[r] = "none"
    BY <1>5 DEF CmdStart, LegacyLifecycle, StageLifecycle, SetInputsRead, TuneRead, Configure,
                PrepareRead, StageIcdRead, Receive
  <2>2. UNCHANGED outcome \/ \E what \in Outcomes : Answer(r, what)
    BY <1>5 DEF CmdStart, LegacyLifecycle, StageLifecycle, SetInputsRead, TuneRead, Configure,
                PrepareRead, StageIcdRead, Outcomes
  <2> QED
    BY <1>0, <1>1, <2>1, <2>2
<1>6. CASE CmdProgress
  <2>1. cpc # "idle"
    BY <1>6 DEF CmdProgress, QueueLifecycle, SetInputsCommit, TuneCommit, PrepareModel,
                PreparePending, StageIcdCommit
  <2>2. UNCHANGED outcome \/ \E what \in Outcomes : Answer(loc.id, what)
    BY <1>6 DEF CmdProgress, QueueLifecycle, SetInputsCommit, TuneCommit, PrepareModel,
                PreparePending, StageIcdCommit, Outcomes
  <2> QED
    BY <1>0, <1>1, <1>3, <2>1, <2>2
<1>7. CASE DeadlinePasses \/ AtBound \/ UNCHANGED vars
  BY <1>1, <1>7 DEF DeadlinePasses, AtBound, vars
<1> QED
  BY <1>4, <1>5, <1>6, <1>7 DEF Next

-----------------------------------------------------------------------------
(* Values in force.                                                        *)

\* Where pending_live has been taken and no re-initialisation is half done.
LiveTaken ==
  ~pendingLive.fresh /\ lifecycle # "FAILED" /\ rpc # "reset2" /\ cpc # "prepare2"

LiveInv == LiveInForce /\ (rpc = "reset3" => pendingLive.fresh)

\* A step that leaves the values alone, but for the motor field.
LEMMA LiveStays ==
  ASSUME LiveInv, StagedForGood,
         LiveTaken' => LiveTaken /\ pendingLive'.val = pendingLive.val
                       /\ \A f \in Fields \ {"motor"} : active'[f] = active[f],
         rpc' = "reset3" => pendingLive'.fresh
  PROVE  LiveInv'
BY DEF LiveInv, LiveInForce, LiveTaken, StagedForGood

LEMMA LiveStep ==
  ASSUME CoreAssumption, TypeOK, BoundaryInv, ReceiptInv, LiveInv, [Next]_vars
  PROVE  LiveInv'
<1> USE StagedStays, RunPhasesFact DEF modelVars, snapVars, rtVars, cmdVars, ResetPhases
<1>1. CASE LifecycleIdle \/ TakeLifecycle \/ CheckTarget \/ ApplyInvalid \/ ResetComplete
           \/ EnterRun
  BY <1>1, LiveStays
     DEF LifecycleIdle, TakeLifecycle, CheckTarget, ApplyInvalid, ResetComplete, EnterRun, LiveTaken
<1>2. CASE ApplyTransition
  <2>1. \A f \in Fields \ {"motor"} : active'[f] = active[f]
    BY <1>2 DEF ApplyTransition, TypeOK, Snapshots
  <2>2. lifecycle # "FAILED"
    BY <1>2 DEF ApplyTransition, Accepts, TypeOK, TakenRecords, AllEvents
  <2> QED
    BY <1>2, <2>1, <2>2, LiveStays DEF ApplyTransition, LiveTaken
<1>3. CASE ResetBegin
  <2>1. lifecycle # "FAILED"
    BY <1>3 DEF ResetBegin, Accepts
  <2> QED
    BY <1>3, <2>1, LiveStays DEF ResetBegin, LiveTaken
<1>4. CASE ResetActive
  BY <1>4, LiveStays DEF ResetActive, LiveTaken
<1>5. CASE ResetPending
  BY <1>5, LiveStays DEF ResetPending, LiveTaken
<1>6. ASSUME NEW valid \in StateValid, ResetLifecycle(valid) PROVE LiveInv'
  BY <1>6, LiveStays DEF ResetLifecycle, LiveTaken, LiveInv
<1>7. CASE Idle
  <2>1. \A f \in Fields \ {"motor"} : active'[f] = active[f]
    BY <1>7 DEF Idle, TypeOK, Snapshots
  <2> QED
    BY <1>7, <2>1, LiveStays DEF Idle, LiveTaken
<1>8. CASE ApplyLive
  <2>1. /\ active' = IF pendingLive.fresh THEN pendingLive.val ELSE active
        /\ pendingLive'.val = pendingLive.val
        /\ rpc' \in RunPhases /\ lifecycle' = lifecycle /\ cpc' = cpc
        /\ rpc = "live"
    BY <1>8, NextPhaseType DEF ApplyLive, RunPhases, TypeOK
  <2>2. CASE pendingLive.fresh
    BY <2>1, <2>2 DEF LiveInv, LiveInForce
  <2>3. CASE ~pendingLive.fresh
    <3>1. LiveTaken' => LiveTaken
      BY <2>1, <2>3 DEF LiveTaken
    <3> QED
      BY <2>1, <2>3, <3>1, LiveStays
  <2> QED
    BY <2>2, <2>3
<1>9. ASSUME NEW s \in Slots, ApplySlot(s) PROVE LiveInv'
  <2>1. /\ rpc' \in RunPhases /\ rpc \in RunPhases
        /\ UNCHANGED <<pendingLive, lifecycle, cpc, outcome>>
    BY <1>9, NextPhaseType DEF ApplySlot, RunPhases
  <2>2. CASE ~Due(slot[s])
    <3>1. active' = active
      BY <1>9, <2>2 DEF ApplySlot
    <3> QED
      BY <2>1, <3>1, LiveStays DEF LiveTaken
  <2>3. CASE Due(slot[s])
    <3>1. \A f \in Fields : active'[f] = IF f \in Writes(s) THEN slot[s].id ELSE active[f]
      BY <1>9, <2>3 DEF ApplySlot
    <3>2. slot[s].id \in Requests /\ outcome[slot[s].id] = "staged"
      BY <2>3 DEF Due, ReceiptInv, StagedReceipt
    <3> QED
      BY <2>1, <3>1, <3>2 DEF LiveInv, LiveInForce
  <2> QED
    BY <2>2, <2>3
<1>10. CASE Control
  <2>1. \A f \in Fields \ {"motor"} : active'[f] = active[f]
    BY <1>10 DEF Control, TypeOK, Snapshots
  <2>2. rpc' \in RunPhases /\ rpc \in RunPhases
    BY <1>10, NextPhaseType DEF Control, RunPhases
  <2>3. lifecycle # "FAILED"
    BY <2>2 DEF BoundaryInv, IterationAuthorised
  <2> QED
    BY <1>10, <2>1, <2>2, <2>3, LiveStays DEF Control, LiveTaken
<1>11. ASSUME NEW valid \in StateValid, ModelStep(valid) PROVE LiveInv'
  BY <1>11, LiveStays DEF ModelStep, LiveTaken
<1>12. ASSUME NEW r \in Requests, CmdStart(r) PROVE LiveInv'
  <2>1. ASSUME NEW event \in Events, LegacyLifecycle(r, event) PROVE LiveInv'
    BY <2>1, LiveStays DEF LegacyLifecycle, Receive, LiveTaken, LiveInv
  <2>2. ASSUME NEW event \in Events, NEW target \in 0 .. MaxSeq,
               StageLifecycle(r, event, target)
        PROVE  LiveInv'
    BY <2>2, LiveStays DEF StageLifecycle, Receive, LiveTaken, LiveInv
  <2>3. ASSUME NEW f \in InputFields, SetInputsRead(r, f) PROVE LiveInv'
    BY <2>3, LiveStays DEF SetInputsRead, Receive, LiveTaken, LiveInv
  <2>4. ASSUME NEW classes \in SUBSET ParamFields \ {{}}, TuneRead(r, classes) PROVE LiveInv'
    BY <2>4, LiveStays DEF TuneRead, Receive, LiveTaken, LiveInv
  <2>5. ASSUME NEW matches \in BOOLEAN, NEW setter \in BOOLEAN,
               NEW valid \in StateValid, Configure(r, matches, setter, valid)
        PROVE  LiveInv'
    <3>1. UNCHANGED <<rpc, cpc>> /\ rpc \notin ResetPhases
      BY <2>5 DEF Configure, BoundaryHeld
    <3>2. \/ UNCHANGED <<active, pendingLive, lifecycle>>
          \/ pendingLive' = [val |-> Configured(r), fresh |-> TRUE]
          \/ lifecycle' = "FAILED"
      BY <2>5 DEF Configure
    <3> QED
      BY <3>1, <3>2, LiveStays DEF LiveTaken
  <2>6. CASE PrepareRead(r)
    BY <2>6, LiveStays DEF PrepareRead, Receive, LiveTaken, LiveInv
  <2>7. ASSUME NEW s \in Slots, NEW target \in 0 .. MaxSeq, StageIcdRead(r, s, target)
        PROVE  LiveInv'
    BY <2>7, LiveStays DEF StageIcdRead, Receive, LiveTaken, LiveInv
  <2> QED
    BY <1>12, <2>1, <2>2, <2>3, <2>4, <2>5, <2>6, <2>7 DEF CmdStart
<1>13. CASE QueueLifecycle \/ StageIcdCommit
  BY <1>13, LiveStays DEF QueueLifecycle, StageIcdCommit, LiveTaken, LiveInv
<1>14. CASE SetInputsCommit
  BY <1>14, LiveStays DEF SetInputsCommit, LiveTaken
<1>15. CASE TuneCommit
  BY <1>15, LiveStays DEF TuneCommit, LiveTaken, LiveInv
<1>16. ASSUME NEW setter \in BOOLEAN, PrepareModel(setter) PROVE LiveInv'
  BY <1>16, LiveStays DEF PrepareModel, LiveTaken, LiveInv
<1>17. ASSUME NEW valid \in StateValid, PreparePending(valid) PROVE LiveInv'
  BY <1>17, LiveStays DEF PreparePending, LiveTaken
<1>18. CASE DeadlinePasses \/ AtBound \/ UNCHANGED vars
  BY <1>18, LiveStays DEF DeadlinePasses, AtBound, vars, LiveTaken, LiveInv
<1> QED
  BY <1>1, <1>2, <1>3, <1>4, <1>5, <1>6, <1>7, <1>8, <1>9, <1>10, <1>11, <1>12, <1>13,
     <1>14, <1>15, <1>16, <1>17, <1>18 DEF Next, RtNext, CmdProgress

-----------------------------------------------------------------------------
(* What the model is about to step with.  A slot APPLIED at the step being   *)
(* made belongs to a phase the iteration has passed, and what it wrote is    *)
(* still in force unless a later phase, passed too, wrote the field again.   *)

AppliedNow(s) ==
  slot[s].state = "APPLIED" /\ slot[s].epoch = epoch /\ slot[s].applied = sequence + 1

Passed(s) == rpc \in RunPhases /\ Rank[s] < Rank[rpc]

\* A slot that wrote f after s did, and may have been staged again since.
Superseded(s, f) ==
  \E t \in Slots : /\ Rank[s] < Rank[t] /\ Passed(t) /\ f \in Writes(t)
                   /\ AppliedNow(t) \/ slot[t].state = "STAGED"

AppliedInOrder ==
  \A s \in Slots : slot[s].state = "APPLIED" /\ slot[s].epoch = epoch =>
    slot[s].applied <= sequence \/ (slot[s].applied = sequence + 1 /\ Passed(s))

SlotInv ==
  /\ \A s \in Slots : slot[s].epoch <= epoch
  /\ AppliedInOrder
  /\ cpc = "prepare2" => \A s \in Slots : slot[s].state = "APPLIED" => slot[s].epoch # epoch
  /\ \A s \in Slots : Passed(s) /\ AppliedNow(s) =>
       \A f \in Writes(s) : active[f] = slot[s].id \/ Superseded(s, f)

\* The phases before the next one are those before p, and p.
LEMMA NextPhaseOrder ==
  ASSUME CoreAssumption, NEW p \in RunPhases \ {"step"}
  PROVE  \A x \in RunPhases : Rank[x] < Rank[NextPhase(p)] <=> Rank[x] <= Rank[p]
<1> DEFINE Ahead == {x \in RunPhases : Rank[p] < Rank[x]}
           Ranks == {Rank[q] : q \in Ahead}
<1>1. Ranks \in SUBSET (0 .. 9) /\ 9 \in Ranks
  BY RunPhasesFact DEF RunPhases, Rank
<1>2. PICK n \in Ranks : \A m \in Ranks : n <= m
  BY <1>1, LeastRank
<1>3. PICK q \in RunPhases : Rank[p] < Rank[q] /\ n = Rank[q]
  OBVIOUS
<1>4. \A x \in RunPhases : Rank[p] < Rank[x] => Rank[q] <= Rank[x]
  BY <1>2, <1>3
<1>5. /\ NextPhase(p) \in RunPhases /\ Rank[p] < Rank[NextPhase(p)]
      /\ \A x \in RunPhases : Rank[p] < Rank[x] => Rank[NextPhase(p)] <= Rank[x]
  BY <1>3, <1>4 DEF NextPhase
<1>6. \A x \in RunPhases : Rank[x] \in Nat
  BY RunPhasesFact
<1> QED
  BY <1>5, <1>6

\* Slots are told apart by their ranks, and only the phases after the control
\* source write the motors.
LEMMA SlotRanks ==
  ASSUME CoreAssumption
  PROVE  /\ \A s, t \in Slots : Rank[s] = Rank[t] => s = t
         /\ \A s \in Slots : Rank[s] \in 1 .. 8 /\ Rank[s] # Rank["control"]
         /\ \A s \in Slots : Rank[s] < Rank["control"] => "motor" \notin Writes(s)
         /\ \A s \in Slots : Writes(s) \subseteq Fields
<1>1. \A s \in AllSlots :
        /\ Rank[s] \in 1 .. 8 /\ Rank[s] # Rank["control"]
        /\ Rank[s] < Rank["control"] => "motor" \notin Writes(s)
        /\ Writes(s) \subseteq Fields
  BY DEF AllSlots, Rank, Writes, ParamFields, InputFields, Fields
<1>2. \A s, t \in AllSlots : Rank[s] = Rank[t] => s = t
  BY DEF AllSlots, Rank
<1> QED
  BY <1>1, <1>2 DEF CoreAssumption

\* A step that stages, applies and steps nothing.
LEMMA SlotStays ==
  ASSUME SlotInv, UNCHANGED <<slot, epoch, sequence>>,
         cpc' = "prepare2" => cpc = "prepare2",
         \A s \in Slots : Passed(s)' <=> Passed(s),
         \A s \in Slots : Passed(s) => \A f \in Writes(s) : active'[f] = active[f]
  PROVE  SlotInv'
<1>1. \A s \in Slots : AppliedNow(s)' <=> AppliedNow(s)
  BY DEF AppliedNow
<1>2. \A s \in Slots : \A f \in Writes(s) : Superseded(s, f)' <=> Superseded(s, f)
  BY <1>1 DEF Superseded
<1>3. AppliedInOrder'
  BY DEF SlotInv, AppliedInOrder
<1> QED
  BY <1>1, <1>2, <1>3 DEF SlotInv

\* A re-initialisation of the model leaves no slot applied in its epoch.
LEMMA SlotRestarts ==
  ASSUME TypeOK, SlotInv, UNCHANGED slot, epoch' = epoch + 1
  PROVE  SlotInv'
<1>1. \A s \in Slots : slot'[s].epoch \in Nat /\ slot'[s].epoch < epoch'
  BY DEF SlotInv, TypeOK, SlotRecords
<1>2. \A s \in Slots : ~AppliedNow(s)'
  BY <1>1 DEF AppliedNow
<1> QED
  BY <1>1, <1>2 DEF SlotInv, AppliedInOrder, TypeOK

\* Outside an iteration nothing is half applied.
LEMMA SlotOutside ==
  ASSUME SlotInv, UNCHANGED <<slot, epoch, sequence>>,
         cpc' = "prepare2" => cpc = "prepare2",
         \A s \in Slots : ~Passed(s) /\ ~Passed(s)'
  PROVE  SlotInv'
BY SlotStays

LEMMA SlotStep ==
  ASSUME CoreAssumption, TypeOK, BoundaryInv, SlotInv, [Next]_vars
  PROVE  SlotInv'
<1> USE RunPhasesFact, SlotRanks DEF modelVars, snapVars, rtVars, cmdVars, ResetPhases
<1>0. rpc \in RunPhases => cpc \notin {"prepare1", "prepare2"}
  BY DEF BoundaryInv, IterationAuthorised
<1>1. CASE LifecycleIdle \/ TakeLifecycle \/ CheckTarget \/ ApplyInvalid \/ ApplyTransition
           \/ ResetBegin \/ ResetActive \/ ResetComplete \/ Idle
  <2>1. /\ rpc \notin RunPhases /\ rpc' \notin RunPhases /\ cpc' = cpc
        /\ UNCHANGED <<slot, epoch, sequence>>
    BY <1>1 DEF LifecycleIdle, TakeLifecycle, CheckTarget, ApplyInvalid, ApplyTransition,
                ResetBegin, ResetActive, ResetComplete, Idle
  <2> QED
    BY <2>1, SlotOutside DEF Passed
<1>2. CASE ResetPending
  BY <1>2, SlotRestarts DEF ResetPending
<1>3. ASSUME NEW valid \in StateValid, ResetLifecycle(valid) PROVE SlotInv'
  BY <1>3, SlotOutside DEF ResetLifecycle, Passed
<1>4. CASE EnterRun
  <2>1. \A s \in Slots : ~(Rank[s] < Rank["live"])
    BY DEF Rank
  <2> QED
    BY <1>4, <2>1, SlotOutside DEF EnterRun, Passed
<1>5. CASE ApplyLive
  <2>1. \A s \in Slots : ~(Rank[s] <= Rank["live"]) /\ ~(Rank[s] < Rank["live"])
    BY DEF Rank
  <2>2. \A x \in RunPhases : Rank[x] < Rank[NextPhase("live")] <=> Rank[x] <= Rank["live"]
    BY NextPhaseOrder DEF RunPhases
  <2>3. \A s \in Slots : ~(Rank[s] < Rank[NextPhase("live")])
    BY <2>1, <2>2 DEF RunPhases
  <2> QED
    BY <1>5, <2>1, <2>3, SlotOutside DEF ApplyLive, Passed
<1>6. ASSUME NEW s \in Slots, ApplySlot(s) PROVE SlotInv'
  <2> DEFINE t == slot[s]
  <2>1. /\ s \in RunPhases \ {"step"} /\ rpc = s /\ rpc' = NextPhase(s) /\ rpc' \in RunPhases
        /\ cpc' # "prepare2" /\ UNCHANGED <<epoch, sequence>>
    BY <1>0, <1>6, NextPhaseType DEF ApplySlot, RunPhases
  <2>2. /\ \A x \in Slots : Passed(x) <=> Rank[x] < Rank[s]
        /\ \A x \in Slots : Passed(x)' <=> Rank[x] <= Rank[s]
    <3>1. \A x \in Slots : Rank[x] < Rank[NextPhase(s)] <=> Rank[x] <= Rank[s]
      BY <2>1, NextPhaseOrder DEF RunPhases
    <3> QED
      BY <2>1, <3>1 DEF Passed
  <2>3. \A x \in Slots : Passed(x)' <=> Passed(x) \/ x = s
    BY <2>2
  <2>4. ~Passed(s)
    BY <2>2
  <2>5. /\ \A x \in Slots : x # s => slot'[x] = slot[x]
        /\ slot'[s] = IF Overdue(t) THEN [t EXCEPT !.state = "REJECTED"]
                      ELSE IF Due(t) THEN [t EXCEPT !.state = "APPLIED",
                                              !.applied = sequence + 1, !.epoch = epoch]
                      ELSE t
        /\ \A f \in Fields : active'[f] = IF Due(t) /\ f \in Writes(s) THEN t.id ELSE active[f]
    BY <1>6 DEF ApplySlot, TypeOK
  <2>6. t \in SlotRecords
    BY DEF TypeOK
  <2>7. Due(t) => /\ slot'[s].state = "APPLIED" /\ slot'[s].applied = sequence + 1
                  /\ slot'[s].epoch = epoch /\ slot'[s].id = t.id
    BY <2>5, <2>6 DEF Due, Overdue, SlotRecords, TypeOK
  <2>8. ~Due(t) => slot'[s] = t \/ (slot'[s].state = "REJECTED" /\ slot'[s].epoch = t.epoch)
    BY <2>5, <2>6 DEF SlotRecords
  <2>9. \A x \in Slots : x # s => (AppliedNow(x)' <=> AppliedNow(x))
    BY <2>1, <2>5 DEF AppliedNow
  <2>10. ~AppliedNow(s)
    BY <2>4 DEF AppliedNow, SlotInv, AppliedInOrder, TypeOK
  <2>11. AppliedNow(s)' <=> Due(t)
    BY <2>1, <2>7, <2>8, <2>10 DEF AppliedNow
  <2>12. \A x \in Slots : slot'[x].epoch <= epoch
    <3>1. epoch <= epoch /\ \A x \in Slots : slot[x].epoch <= epoch
      BY DEF SlotInv, TypeOK
    <3>2. slot'[s].epoch \in {epoch, t.epoch}
      BY <2>7, <2>8
    <3> QED
      BY <2>5, <3>1, <3>2
  <2>13. AppliedInOrder'
    <3>1. ASSUME NEW x \in Slots, slot'[x].state = "APPLIED", slot'[x].epoch = epoch
          PROVE  slot'[x].applied <= sequence \/ (slot'[x].applied = sequence + 1 /\ Passed(x)')
      <4>1. CASE x # s
        BY <2>3, <2>5, <3>1, <4>1 DEF SlotInv, AppliedInOrder
      <4>2. CASE x = s /\ Due(t)
        BY <2>3, <2>7, <4>2
      <4>3. CASE x = s /\ ~Due(t)
        BY <2>4, <2>8, <3>1, <4>3 DEF SlotInv, AppliedInOrder
      <4> QED
        BY <4>1, <4>2, <4>3
    <3> QED
      BY <2>1, <3>1 DEF AppliedInOrder
  <2>14. ASSUME NEW x \in Slots, Passed(x)', AppliedNow(x)', NEW f \in Writes(x)
         PROVE  active'[f] = slot'[x].id \/ Superseded(x, f)'
    <3>0. f \in Fields
      OBVIOUS
    <3>1. CASE x = s
      BY <2>5, <2>7, <2>11, <2>14, <3>0, <3>1
    <3>2. CASE x # s /\ Due(t) /\ f \in Writes(s)
      BY <2>2, <2>3, <2>11, <2>14, <3>2 DEF Superseded
    <3>3. CASE x # s /\ ~(Due(t) /\ f \in Writes(s)) /\ Superseded(x, f)
      <4>1. PICK y \in Slots : /\ Rank[x] < Rank[y] /\ Passed(y) /\ f \in Writes(y)
                               /\ AppliedNow(y) \/ slot[y].state = "STAGED"
        BY <3>3 DEF Superseded
      <4>2. y # s /\ slot'[y] = slot[y] /\ Passed(y)' /\ (AppliedNow(y) => AppliedNow(y)')
        BY <2>3, <2>4, <2>5, <2>9, <4>1
      <4> QED
        BY <4>1, <4>2 DEF Superseded
    <3>4. CASE x # s /\ ~(Due(t) /\ f \in Writes(s)) /\ ~Superseded(x, f)
      <4>1. Passed(x) /\ AppliedNow(x)
        BY <2>3, <2>9, <2>14, <3>4
      <4> QED
        BY <2>5, <3>0, <3>4, <4>1 DEF SlotInv
    <3> QED
      BY <3>1, <3>2, <3>3, <3>4
  <2> QED
    BY <2>1, <2>12, <2>13, <2>14 DEF SlotInv
<1>7. CASE Control
  <2>1. rpc' = NextPhase("control") /\ rpc' \in RunPhases /\ rpc = "control"
    BY <1>7, NextPhaseType DEF Control, RunPhases
  <2>2. \A x \in Slots : Rank[x] < Rank[NextPhase("control")] <=> Rank[x] <= Rank["control"]
    BY NextPhaseOrder DEF RunPhases
  <2>3. \A x \in Slots : Passed(x)' <=> Passed(x)
    <3>1. Rank["control"] \in Nat /\ \A x \in Slots : Rank[x] \in Nat
      BY DEF Rank
    <3> QED
      BY <2>1, <2>2, <3>1 DEF Passed, RunPhases
  <2>4. \A f \in Fields \ {"motor"} : active'[f] = active[f]
    BY <1>7 DEF Control, TypeOK, Snapshots
  <2>5. \A x \in Slots : Passed(x) => \A f \in Writes(x) : active'[f] = active[f]
    BY <2>1, <2>4 DEF Passed
  <2> QED
    BY <1>7, <2>3, <2>5, SlotStays DEF Control
<1>8. ASSUME NEW valid \in StateValid, ModelStep(valid) PROVE SlotInv'
  <2>1. /\ UNCHANGED <<slot, epoch>> /\ sequence' = sequence + 1 /\ cpc' # "prepare2"
        /\ \A x \in Slots : ~Passed(x)'
    BY <1>0, <1>8 DEF ModelStep, RunPhases, Passed
  <2>2. AppliedInOrder'
    BY <2>1 DEF SlotInv, AppliedInOrder, TypeOK, SlotRecords
  <2> QED
    BY <2>1, <2>2 DEF SlotInv
<1>9. ASSUME UNCHANGED <<slot, epoch, sequence, active, rpc>>,
             cpc' = "prepare2" => cpc = "prepare2"
      PROVE  SlotInv'
  BY <1>9, SlotStays DEF Passed
<1>10. ASSUME NEW r \in Requests, CmdStart(r) PROVE SlotInv'
  <2>1. ASSUME NEW matches \in BOOLEAN, NEW setter \in BOOLEAN,
               NEW valid \in StateValid, Configure(r, matches, setter, valid)
        PROVE  SlotInv'
    <3>1. \/ UNCHANGED <<slot, epoch, sequence, active, rpc, cpc>>
          \/ UNCHANGED slot /\ epoch' = epoch + 1
      BY <2>1 DEF Configure
    <3> QED
      BY <1>9, <3>1, SlotRestarts
  <2>2. CASE ~(\E matches, setter \in BOOLEAN, valid \in StateValid :
                 Configure(r, matches, setter, valid))
    BY <1>9, <1>10, <2>2 DEF CmdStart, LegacyLifecycle, StageLifecycle, SetInputsRead, TuneRead,
       PrepareRead, StageIcdRead
  <2> QED
    BY <2>1, <2>2
<1>11. CASE QueueLifecycle \/ SetInputsCommit \/ TuneCommit
  BY <1>9, <1>11 DEF QueueLifecycle, SetInputsCommit, TuneCommit, Finish
<1>12. ASSUME NEW setter \in BOOLEAN, PrepareModel(setter) PROVE SlotInv'
  BY <1>12, SlotRestarts DEF PrepareModel
<1>13. ASSUME NEW valid \in StateValid, PreparePending(valid) PROVE SlotInv'
  <2>1. /\ UNCHANGED <<slot, epoch>> /\ cpc' # "prepare2" /\ rpc' \notin RunPhases
        /\ \A s \in Slots : slot[s].state = "APPLIED" => slot[s].epoch # epoch
    BY <1>0, <1>13 DEF PreparePending, Finish, SlotInv
  <2> QED
    BY <2>1 DEF SlotInv, AppliedInOrder, Passed
<1>14. CASE StageIcdCommit
  <2>1. /\ UNCHANGED <<epoch, sequence, active, rpc>> /\ cpc' # "prepare2"
        /\ \A x \in Slots : \/ slot'[x] = slot[x]
                            \/ slot'[x].state = "STAGED" /\ slot'[x].epoch = epoch
    BY <1>14 DEF StageIcdCommit, Finish, TypeOK
  <2>2. \A x \in Slots : /\ Passed(x)' <=> Passed(x)
                         /\ AppliedNow(x)' => AppliedNow(x) /\ slot'[x] = slot[x]
                         /\ AppliedNow(x) => AppliedNow(x)' \/ slot'[x].state = "STAGED"
    BY <2>1 DEF Passed, AppliedNow
  <2>3. \A x \in Slots : \A f \in Writes(x) : Superseded(x, f) => Superseded(x, f)'
    BY <2>1, <2>2 DEF Superseded
  <2>4. (\A x \in Slots : slot'[x].epoch <= epoch) /\ AppliedInOrder'
    BY <2>1, <2>2 DEF SlotInv, AppliedInOrder, TypeOK
  <2> QED
    BY <2>1, <2>2, <2>3, <2>4 DEF SlotInv
<1>15. CASE DeadlinePasses
  <2>1. /\ UNCHANGED <<epoch, sequence, active, rpc, cpc>>
        /\ \A x \in Slots : /\ slot'[x].state = slot[x].state /\ slot'[x].epoch = slot[x].epoch
                            /\ slot'[x].applied = slot[x].applied /\ slot'[x].id = slot[x].id
    BY <1>15 DEF DeadlinePasses, TypeOK, SlotRecords
  <2>2. \A x \in Slots : (AppliedNow(x)' <=> AppliedNow(x)) /\ (Passed(x)' <=> Passed(x))
    BY <2>1 DEF AppliedNow, Passed
  <2>3. \A x \in Slots : \A f \in Writes(x) : Superseded(x, f) => Superseded(x, f)'
    BY <2>1, <2>2 DEF Superseded
  <2> QED
    BY <2>1, <2>2, <2>3 DEF SlotInv, AppliedInOrder
<1>16. CASE AtBound \/ UNCHANGED vars
  BY <1>9, <1>16 DEF AtBound, vars
<1> QED
  BY <1>1, <1>2, <1>3, <1>4, <1>5, <1>6, <1>7, <1>8, <1>10, <1>11, <1>12, <1>13, <1>14,
     <1>15, <1>16 DEF Next, RtNext, CmdProgress

-----------------------------------------------------------------------------
(* The four invariants together, and the safety properties they imply.      *)

CoreInv == ProjectionInv /\ ReceiptInv /\ LiveInv /\ SlotInv

LEMMA CoreInit == ASSUME CoreAssumption, Init PROVE CoreInv
<1>1. ProjectionInv
  BY DEF Init, ProjectionInv
<1>2. ReceiptInv
  BY TakingFact
     DEF Init, ReceiptInv, CommandReceipt, QueueReceipt, TakenReceipt, DeferredReceipt,
         DeferredTracked, StagedReceipt, NoRequest, NoSlot
<1>3. LiveInv
  BY DEF Init, LiveInv, LiveInForce
<1>4. SlotInv
  BY RunPhasesFact DEF Init, SlotInv, AppliedInOrder, Passed, NoSlot
<1> QED
  BY <1>1, <1>2, <1>3, <1>4 DEF CoreInv

LEMMA CoreInductive == Spec => []CoreInv
<1>1. Init => CoreInv
  BY CoreInit, CoreAssumption
<1>2. TypeOK /\ BoundaryInv /\ CoreInv /\ [Next]_vars => CoreInv'
  BY ProjectionStep, ReceiptStep, LiveStep, SlotStep, CoreAssumption DEF CoreInv
<1> QED
  BY <1>1, <1>2, TypeCorrect, Authorised, PTL DEF Spec

\* The projection of State132 offered as valid is never ahead of the model
\* (populate_state, apply_lifecycle_request, parse_prepare_model_snapshot).
THEOREM PublishedIsReal == Spec => []ProjectionCoherent
<1>1. CoreInv => ProjectionCoherent
  BY DEF CoreInv, ProjectionInv, ProjectionCoherent
<1> QED
  BY <1>1, CoreInductive, PTL

\* A reset-only group told "queued for reset" is the one pending_reset_receipt
\* names, until send_reset_parameter_completion answers it.
THEOREM DeferredIsKept == Spec => []DeferredTracked
<1>1. CoreInv => DeferredTracked
  BY DEF CoreInv, ReceiptInv, DeferredReceipt
<1> QED
  BY <1>1, CoreInductive, PTL

\* What set_inputs and tune were told is accepted is in force once the model
\* thread has taken it (apply_live_update), whatever RESET and prepare did.
THEOREM AcceptedIsInForce == Spec => []LiveInForce
<1>1. CoreInv => LiveInForce
  BY DEF CoreInv, LiveInv
<1> QED
  BY <1>1, CoreInductive, PTL

\* model_step() sees what the receipts of apply_icd_* say was applied.
THEOREM SteppedWithApplied == Spec => []StepSeesApplied
<1>1. TypeOK /\ CoreInv => StepSeesApplied
  <2> SUFFICES ASSUME TypeOK, SlotInv, rpc = "step", NEW s \in Slots, NEW f \in Writes(s),
                      AppliedNow(s)
               PROVE  \/ active[f] = slot[s].id
                      \/ \E t \in Slots : /\ Rank[s] < Rank[t] /\ f \in Writes(t)
                                          /\ AppliedNow(t) \/ slot[t].state = "STAGED"
    BY DEF CoreInv, StepSeesApplied, AppliedNow
  <2>1. Passed(s)
    BY DEF SlotInv, AppliedInOrder, AppliedNow, TypeOK
  <2> QED
    BY <2>1 DEF SlotInv, Superseded
<1> QED
  BY <1>1, TypeCorrect, CoreInductive, PTL

\* The two threads together keep their types, the boundary they promise and a
\* projection that is never ahead of the model.
THEOREM CoreIsSound == Spec => []CoreSound
BY TypeCorrect, Authorised, PublishedIsReal, PTL DEF CoreSound
=============================================================================
