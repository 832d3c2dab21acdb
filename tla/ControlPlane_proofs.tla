------------------------- MODULE ControlPlane_proofs -------------------------
(***************************************************************************)
(* Proofs about what hangs on a goal and its plan in ControlPlane: evidence*)
(* and bindings, the team, its files and apply requests, and the checks.   *)
(* Each part has an invariant of its own; those that speak of plans use the*)
(* goal's (GoalInv).                                                       *)
(***************************************************************************)
EXTENDS GoalExecution_proofs, FiniteSetTheorems

-----------------------------------------------------------------------------
(* Evidence.  A locked binding does not change until the server restarts,  *)
(* and then there is no evidence.                                          *)

LEMMA LockedBindingsKept ==
    ASSUME GoalInv, Next, ~Restart
    PROVE  \A p \in PlanIds : bindings[p].locked => bindings'[p] = bindings[p]
  <1>1. current \in PlanIds /\ bindings \in [PlanIds -> Binding]
    BY DEF GoalInv, ExecutionInv, ExecutionTypeOK, GoalTypeOK
  <1>2. ASSUME UNCHANGED bindings
        PROVE  \A p \in PlanIds : bindings[p].locked => bindings'[p] = bindings[p]
    BY <1>2
  <1>3. ASSUME NEW q \in PlanIds, ~bindings[q].locked, NEW b,
               bindings' = [bindings EXCEPT ![q].content = b]
        PROVE  \A p \in PlanIds : bindings[p].locked => bindings'[p] = bindings[p]
    BY <1>1, <1>3
  <1>4. CASE GoalCreate
    BY <1>2, <1>4 DEF GoalCreate, CreateGoal
  <1>5. CASE GoalCall
    <2>1. CASE Approve
      <3> SUFFICES ASSUME NEW p \in PlanIds, bindings[p].locked
                   PROVE  bindings'[p] = bindings[p]
        OBVIOUS
      <3> DEFINE lock == bindings[current].locked \/ bindings[current].content # NoBinding
      <3>1. bindings' = [bindings EXCEPT ![current] = [bindings[current] EXCEPT !.locked = lock]]
        BY <1>1, <2>1 DEF Approve, ApprovePlan, Binding
      <3>2. bindings[p].locked = TRUE
        BY <1>1 DEF Binding
      <3>3. CASE p = current
        <4>1. lock = TRUE
          BY <3>2, <3>3
        <4>2. bindings'[p] = [bindings[p] EXCEPT !.locked = TRUE]
          BY <1>1, <3>1, <3>3, <4>1
        <4> QED
          BY <1>1, <3>2, <4>2 DEF Binding
      <3>4. CASE p # current
        BY <1>1, <3>1, <3>4
      <3> QED
        BY <3>3, <3>4
    <2>2. CASE GenerateAttach \/ GenerateStart \/ GenerateFails \/ PauseOrCancel
      BY <1>2, <2>2
      DEF GenerateAttach, AttachPlan, GenerateStart, GenerateFails, goalVars, PauseOrCancel,
          PausePlan, CancelGoal
    <2>3. ASSUME NEW q \in PlanIds, Bind(q)
          PROVE  \A p \in PlanIds : bindings[p].locked => bindings'[p] = bindings[p]
      BY <1>3, <2>3 DEF Bind, SetBinding
    <2>4. CASE Advance \/ \E i \in StepIndexes : ApproveGate(i)
      BY <1>2, <2>4 DEF Advance, ApproveGate, Transition
    <2> QED
      BY <1>5, <2>1, <2>2, <2>3, <2>4 DEF GoalCall
  <1>6. ASSUME NEW parent \in PlanIds, NEW child \in PlanIds, GoalDerive(parent, child)
        PROVE  \A p \in PlanIds : bindings[p].locked => bindings'[p] = bindings[p]
    BY <1>2, <1>3, <1>6 DEF GoalDerive, Derive, DerivePlan, CommitBinding
  <1>7. CASE ReasoningCall
    <2>1. UNCHANGED bindings
      BY <1>7
      DEF ReasoningCall, ReasoningSaved, ReasoningUnsaved, PlanFails, DraftPauses,
          EvidenceReturned, ReviewFailed, PauseCurrent, PausePlan, Ask, Retry, AskFails,
          DraftReturned, DraftRecorded, CritiqueArrives, goalVars
    <2> QED
      BY <1>2, <2>1
  <1>8. CASE \/ ProjectArchive \/ ProjectPatch \/ TeamCall \/ ApplyCall \/ RolesCall
             \/ CheckCall \/ OtherPersists
    BY <1>2, <1>8
    DEF ProjectArchive, ProjectPatch, TeamCall, ApplyCall, RolesCall, CheckCall, OtherPersists,
        goalExecutionVars, goalVars
  <1> QED
    BY <1>4, <1>5, <1>6, <1>7, <1>8 DEF Next

Evidence == [plan : PlanIds, content : Bindings \cup {NoBinding}]

EvidenceInv ==
    /\ asking \in Asking
    /\ \A artifact \in evidence : artifact \in Evidence
    /\ EvidenceMatchesBinding

LEMMA RecordedKeeps ==
    ASSUME GoalInv, EvidenceInv, NEW p \in PlanIds, bindings[p].locked, Recorded(p),
           UNCHANGED bindings
    PROVE  EvidenceMatchesBinding' /\ \A artifact \in evidence' : artifact \in Evidence
  <1>1. bindings[p] \in Binding
    BY DEF GoalInv, ExecutionInv, ExecutionTypeOK, GoalTypeOK
  <1>2. bindings[p] = [content |-> bindings[p].content, locked |-> TRUE]
    BY <1>1 DEF Binding
  <1>3. ASSUME NEW artifact \in evidence'
        PROVE  /\ artifact \in Evidence
               /\ bindings[artifact.plan] = [content |-> artifact.content, locked |-> TRUE]
    <2>1. CASE artifact \in evidence
      BY <2>1 DEF EvidenceInv, EvidenceMatchesBinding, Evidence
    <2>2. CASE artifact \notin evidence
      <3>1. artifact = [plan |-> p, content |-> bindings[p].content]
        BY <1>3, <2>2 DEF Recorded
      <3>2. artifact.plan = p /\ artifact.content = bindings[p].content
        BY <3>1
      <3>3. artifact \in Evidence
        BY <1>1, <3>1 DEF Binding, Evidence
      <3> QED
        BY <1>2, <3>2, <3>3
    <2> QED
      BY <2>1, <2>2
  <1> QED
    BY <1>3 DEF EvidenceMatchesBinding

LEMMA ReasoningEvidence ==
    ASSUME GoalInv, EvidenceInv, ReasoningCall
    PROVE  EvidenceInv'
  <1>1. /\ asking \in Asking /\ bindings' = bindings
    <2>1. asking \in Asking
      BY DEF EvidenceInv
    <2>2. bindings' = bindings
      BY DEF ReasoningCall, ReasoningSaved, ReasoningUnsaved, PlanFails, DraftPauses,
          EvidenceReturned, ReviewFailed, PauseCurrent, PausePlan, Ask, Retry, AskFails,
          DraftReturned, DraftRecorded, CritiqueArrives, goalVars
    <2> QED
      BY <2>1, <2>2
  <1>2. NoAsking \in Asking
    BY AttemptAssumption DEF NoAsking, Asking
  <1>3. asking' \in Asking
    <2>1. ASSUME NEW p \in {0} \cup PlanIds, NEW critic \in BOOLEAN, Ask(p, critic)
          PROVE  asking' \in Asking
      BY <2>1, AttemptAssumption DEF Ask, Asking
    <2>2. CASE Retry
      <3>1. asking.attempt + 1 \in 0..MaxAttempts
        BY <1>1, <2>2, AttemptAssumption DEF Retry, Asking
      <3> QED
        BY <1>1, <2>2, <3>1 DEF Retry, Asking
    <2>3. CASE DraftReturned \/ DraftRecorded
      <3>1. GoesOn
        BY <2>3 DEF DraftReturned, DraftRecorded
      <3>2. [asking EXCEPT !.stage = "critique", !.attempt = 1] \in Asking
        <4>1. 1 \in 0..MaxAttempts
          BY AttemptAssumption
        <4>2. [asking EXCEPT !.stage = "critique"] \in Asking
          BY <1>1 DEF Asking
        <4>3. [[asking EXCEPT !.stage = "critique"] EXCEPT !.attempt = 1] \in Asking
          BY <4>1, <4>2 DEF Asking
        <4> QED
          BY <4>3
      <3> QED
        BY <1>2, <3>1, <3>2 DEF GoesOn
    <2>4. CASE AskFails \/ CritiqueArrives \/ PlanFails \/ DraftPauses
      BY <1>2, <2>4 DEF AskFails, CritiqueArrives, PlanFails, DraftPauses
    <2>5. ASSUME NEW p \in PlanIds, EvidenceReturned(p) \/ ReviewFailed(p)
          PROVE  asking' \in Asking
      BY <1>1, <2>5 DEF EvidenceReturned, ReviewFailed, reasoningVars
    <2> QED
      BY <2>1, <2>2, <2>3, <2>4, <2>5 DEF ReasoningCall, ReasoningSaved, ReasoningUnsaved
  <1>4. EvidenceMatchesBinding' /\ \A artifact \in evidence' : artifact \in Evidence
    <2>1. CASE evidence' = evidence
      BY <1>1, <2>1 DEF EvidenceInv, EvidenceMatchesBinding, Evidence
    <2>2. CASE DraftRecorded
      <3>1. asking.plan \in PlanIds /\ bindings[asking.plan].locked /\ Recorded(asking.plan)
        BY <1>1, <2>2 DEF DraftRecorded, Asking, normalizes
      <3> QED
        BY <1>1, <3>1, RecordedKeeps
    <2>3. ASSUME NEW p \in PlanIds, EvidenceReturned(p), evidence' # evidence
          PROVE  EvidenceMatchesBinding' /\ \A artifact \in evidence' : artifact \in Evidence
      <3>1. bindings[p].locked /\ Recorded(p)
        BY <2>3 DEF EvidenceReturned, normalizes
      <3> QED
        BY <1>1, <3>1, RecordedKeeps
    <2>4. DraftRecorded \/ (\E p \in PlanIds : EvidenceReturned(p)) \/ evidence' = evidence
      BY DEF ReasoningCall, ReasoningSaved, ReasoningUnsaved, PlanFails, DraftPauses,
             ReviewFailed, Ask, Retry, AskFails, DraftReturned, CritiqueArrives, reasoningVars
    <2> QED
      BY <2>1, <2>2, <2>3, <2>4
  <1> QED
    BY <1>3, <1>4 DEF EvidenceInv

LEMMA EvidenceKept ==
    ASSUME GoalInv, EvidenceInv, [Next]_vars
    PROVE  EvidenceInv'
  <1>1. CASE UNCHANGED vars
    BY <1>1
    DEF vars, goalExecutionVars, goalVars, reasoningVars, EvidenceInv, EvidenceMatchesBinding
  <1>2. CASE Restart
    <2>1. asking' = NoAsking /\ evidence' = {}
      BY <1>2 DEF Restart
    <2> QED
      BY <2>1, AttemptAssumption
      DEF EvidenceInv, EvidenceMatchesBinding, NoAsking, Asking
  <1>3. CASE ReasoningCall
    BY <1>3, ReasoningEvidence
  <1>4. CASE Next /\ ~Restart /\ ~ReasoningCall
    <2>1. UNCHANGED reasoningVars
      BY <1>4
      DEF Next, GoalCreate, GoalCall, GoalDerive, ProjectArchive, ProjectPatch, TeamCall,
          ApplyCall, RolesCall, CheckCall, OtherPersists
    <2>2. \A p \in PlanIds : bindings[p].locked => bindings'[p] = bindings[p]
      BY <1>4, LockedBindingsKept
    <2> QED
      BY <2>1, <2>2 DEF reasoningVars, EvidenceInv, EvidenceMatchesBinding, Evidence
  <1> QED
    BY <1>1, <1>2, <1>3, <1>4

\* The provider's request and the evidence are as EvidenceInv says.
THEOREM AlwaysEvidenceInv == Spec => []EvidenceInv
  <1>1. Init => EvidenceInv
    BY AttemptAssumption
    DEF Init, ReasoningInit, EvidenceInv, EvidenceMatchesBinding, NoAsking, Asking
  <1>2. GoalInv /\ EvidenceInv /\ [Next]_vars => EvidenceInv'
    BY EvidenceKept
  <1> QED
    BY <1>1, <1>2, AlwaysGoalInv, PTL DEF Spec

\* Evidence that the server keeps is for the very binding that was approved and
\* locked, although plans are bound, approved, derived and paused while the
\* provider is awaited.
THEOREM EvidenceTrustworthy == Spec => []EvidenceMatchesBinding
  <1>1. EvidenceInv => EvidenceMatchesBinding
    BY DEF EvidenceInv
  <1> QED
    BY <1>1, AlwaysEvidenceInv, PTL

-----------------------------------------------------------------------------
(* What the snapshot always has as memory has it.                          *)

DiskCurrent ==
    disk.team = team /\ disk.artifacts = artifacts /\ disk.snapshots = snapshots

LEMMA SavedFields ==
    ASSUME Persist
    PROVE  /\ disk'.goal = goal' /\ disk'.plans = plans' /\ disk'.birth = birth'
           /\ disk'.team = team' /\ disk'.artifacts = artifacts' /\ disk'.snapshots = snapshots'
           /\ disk'.preset = preset' /\ disk'.newest = newest' /\ disk'.records = records'
           /\ disk'.project = project'
  BY DEF Persist, Saved

\* A step persists, or leaves alone all that is always saved.
LEMMA PersistsOrLeaves ==
    ASSUME [Next]_vars
    PROVE  \/ Persist /\ ~Restart
           \/ disk' = disk /\ UNCHANGED <<project, team, artifacts, preset, snapshots>> /\ ~Restart
           \/ Restart
  <1>1. CASE UNCHANGED vars
    BY <1>1 DEF vars, teamVars, bindVars
  <1>2. CASE GoalCreate \/ ProjectArchive \/ ProjectPatch
    BY <1>2 DEF GoalCreate, ProjectArchive, ProjectPatch
  <1>3. CASE GoalCall
    BY <1>3 DEF GoalCall, StepPersist, othersVars, teamVars, bindVars
  <1>4. ASSUME NEW parent \in PlanIds, NEW child \in PlanIds, GoalDerive(parent, child)
        PROVE  \/ Persist
               \/ disk' = disk /\ UNCHANGED <<project, team, artifacts, preset, snapshots>>
    BY <1>4 DEF GoalDerive, othersVars, teamVars, bindVars
  <1>5. CASE ReasoningCall
    BY <1>5 DEF ReasoningCall, othersVars, teamVars, bindVars
  <1>6. CASE TeamCall
    BY <1>6 DEF TeamCall
  <1>7. CASE ApplyCall \/ CheckCall
    BY <1>7 DEF ApplyCall, CheckCall, teamVars, bindVars
  <1>8. CASE RolesCall
    BY <1>8
    DEF RolesCall, EndpointCall, PresetStart, PresetPut, PresetRefused, PresetDelete, Rebind,
        teamVars
  <1>9. CASE OtherPersists
    BY <1>9 DEF OtherPersists
  <1> QED
    BY <1>1, <1>2, <1>3, <1>4, <1>5, <1>6, <1>7, <1>8, <1>9 DEF Next

LEMMA DiskCurrentKept ==
    ASSUME DiskCurrent, [Next]_vars
    PROVE  DiskCurrent'
  <1>1. CASE Restart
    BY <1>1 DEF Restart, DiskCurrent
  <1> QED
    BY <1>1, PersistsOrLeaves, SavedFields DEF DiskCurrent

\* After every step the snapshot holds the team, its files and the versions of
\* the goal's binding as memory does, so that a restart loses none of them.
THEOREM AlwaysDiskCurrent == Spec => []DiskCurrent
  <1>1. Init => DiskCurrent
    BY DEF Init, Saved, DiskCurrent
  <1> QED
    BY <1>1, DiskCurrentKept, PTL DEF Spec

-----------------------------------------------------------------------------
(* The team.                                                               *)

TeamInv == team \in Team /\ SlotChain

LEMMA AdvanceSlotFacts ==
    ASSUME TeamInv, NEW s \in Slots, NEW status \in SettableStatus,
           canAdvanceSlot(team, s, status), team' = advanceSlot(team, s, status)
    PROVE  TeamInv'
  <1> DEFINE slots == [team.slots EXCEPT ![s] = status]
  <1>1. /\ team.slots \in [Slots -> SlotStatus] /\ team.slot = s
        /\ team.status \in {"approved", "executing"} /\ team.slots[s] # "done"
        /\ NumSlots \in Nat \ {0} /\ s \in 1..NumSlots
    BY SlotAssumption DEF TeamInv, Team, canAdvanceSlot, EndedSlot, Slots
  <1>2. slots \in [Slots -> SlotStatus] /\ \A t \in Slots : slots[t] = IF t = s THEN status ELSE team.slots[t]
    BY <1>1 DEF SlotStatus
  <1>3. nextSlot(s) \in Slots /\ nextSlot(s) = IF s = NumSlots THEN s ELSE s + 1
    BY <1>1 DEF nextSlot, Slots
  <1>4. /\ team'.slots = slots
        /\ team'.slot = IF status = "done" THEN nextSlot(s) ELSE s
        /\ team'.status = IF \A t \in Slots : slots[t] = "done" THEN "done"
                          ELSE IF status \in {"failed", "cancelled"} THEN status
                          ELSE "executing"
    BY <1>1 DEF advanceSlot
  <1>5. team' = [slots |-> team'.slots, slot |-> team'.slot, status |-> team'.status]
    BY <1>4 DEF advanceSlot
  <1>6. team' \in Team
    <2>1. team'.status \in TeamStatus /\ team'.slot \in Slots /\ team'.slots \in [Slots -> SlotStatus]
      BY <1>2, <1>3, <1>4 DEF TeamStatus
    <2> QED
      BY <1>5, <2>1 DEF Team
  <1>7. \A t \in Slots : t < s => team.slots[t] = "done"
    BY <1>1 DEF TeamInv, SlotChain
  <1>8. \A t \in Slots : t > s => team.slots[t] = "pending"
    BY <1>1 DEF TeamInv, SlotChain
  <1>9. \A t \in Slots : t < team'.slot => team'.slots[t] = "done"
    BY <1>1, <1>2, <1>3, <1>4, <1>7 DEF Slots
  <1>10. \A t \in Slots : t > team'.slot => team'.slots[t] = "pending"
    BY <1>1, <1>2, <1>3, <1>4, <1>8 DEF Slots
  <1>11. /\ team'.status \notin {"absent", "pending-approval", "approved"}
         /\ team'.status = "done" <=> \A t \in Slots : team'.slots[t] = "done"
    BY <1>4
  <1> QED
    BY <1>6, <1>9, <1>10, <1>11 DEF TeamInv, SlotChain

LEMMA TeamCallKeeps ==
    ASSUME TeamInv, TeamCall
    PROVE  TeamInv'
  <1>1. 1 \in Slots /\ \A s \in Slots : s >= 1
    BY SlotAssumption DEF Slots
  <1>2. CASE TeamCreate
    <2>1. /\ team' = [status |-> "pending-approval", slot |-> 1, slots |-> [s \in Slots |-> "pending"]]
      BY <1>2 DEF TeamCreate, createTeam, AbsentTeam
    <2> QED
      BY <1>1, <2>1 DEF TeamInv, Team, SlotChain, TeamStatus, SlotStatus, Slots
  <1>3. CASE TeamApprove
    BY <1>3 DEF TeamApprove, canApproveTeam, approveTeam, TeamInv, Team, SlotChain, TeamStatus
  <1>4. CASE TeamCancel
    BY <1>4 DEF TeamCancel, canCancelTeam, cancelTeam, TeamInv, Team, SlotChain, TeamStatus
  <1>5. ASSUME NEW s \in Slots, NEW status \in SettableStatus, SlotAdvance(s, status)
        PROVE  TeamInv'
    BY <1>5, AdvanceSlotFacts DEF SlotAdvance
  <1>6. ASSUME UNCHANGED team PROVE TeamInv'
    BY <1>6 DEF TeamInv, SlotChain
  <1> QED
    BY <1>2, <1>3, <1>4, <1>5, <1>6 DEF TeamCall, ArtifactRecord

LEMMA TeamKept ==
    ASSUME DiskCurrent, TeamInv, [Next]_vars
    PROVE  TeamInv'
  <1>1. CASE TeamCall
    BY <1>1, TeamCallKeeps
  <1>2. ASSUME team' = team PROVE TeamInv'
    BY <1>2 DEF TeamInv, SlotChain
  <1>3. CASE Restart
    BY <1>2, <1>3 DEF Restart, DiskCurrent
  <1>4. CASE ~TeamCall /\ ~Restart
    <2>1. team' = team
      BY <1>4
      DEF Next, vars, GoalCreate, GoalCall, GoalDerive, ReasoningCall, ProjectArchive,
          ProjectPatch, ApplyCall, RolesCall, CheckCall, OtherPersists, othersVars, teamVars
    <2> QED
      BY <1>2, <2>1
  <1> QED
    BY <1>1, <1>3, <1>4

\* The team is typed and its slots are in order.
THEOREM AlwaysTeamInv == Spec => []TeamInv
  <1>1. Init => TeamInv
    BY SlotAssumption
    DEF Init, AbsentTeam, TeamInv, Team, SlotChain, TeamStatus, SlotStatus, Slots
  <1>2. DiskCurrent /\ TeamInv /\ [Next]_vars => TeamInv'
    BY TeamKept
  <1> QED
    BY <1>1, <1>2, AlwaysDiskCurrent, PTL DEF Spec

\* A team's slots run one after the other, none before the operator approved
\* the team, and the team is done when and only when all of them are.
THEOREM SlotsInOrder == Spec => []SlotChain
  <1>1. TeamInv => SlotChain
    BY DEF TeamInv
  <1> QED
    BY <1>1, AlwaysTeamInv, PTL

-----------------------------------------------------------------------------
(* The versions of the goal's endpoint binding.                            *)

\* There is a version only of a goal that exists, also on disk.
VersionInv ==
    /\ snapshots \in Seq(Roles) /\ preset \in Seq(Roles) /\ disk.preset \in Seq(Roles)
    /\ goal = "absent" \/ disk.goal = "absent" => snapshots = <<>>

\* The three ways in which a step of a running server treats the versions.
LEMMA VersionMoves ==
    ASSUME GoalInv, Next, ~Restart
    PROVE  /\ goal' = "absent" => goal = "absent"
           /\ \/ snapshots' = snapshots
              \/ /\ goal = "absent" /\ goal' # "absent" /\ snapshots' = preset
                 /\ UNCHANGED <<plans, current, birth, newest, boundAt>>
                 /\ Persist
              \/ /\ goal # "absent"
                 /\ \E roles \in Roles : snapshots' = Append(snapshots, roles)
                 /\ plans[current] \in {"absent", "awaiting-approval"}
                 /\ UNCHANGED <<goal, plans, current, birth, newest, boundAt>>
                 /\ Persist
  <1>1. CASE GoalCreate
    BY <1>1 DEF GoalCreate, CreateGoal, stepVars, watchVars
  <1>2. CASE GoalCall
    <2>1. snapshots' = snapshots
      BY <1>2 DEF GoalCall, othersVars, bindVars
    <2>2. goal' = "absent" => goal = "absent"
      BY <1>2
      DEF GoalCall, Approve, ApprovePlan, GenerateAttach, AttachPlan, GenerateStart,
          GenerateFails, goalVars, PauseOrCancel, PausePlan, CancelGoal, Bind, SetBinding,
          Advance, ApproveGate, Transition
    <2> QED
      BY <2>1, <2>2
  <1>3. ASSUME NEW parent \in PlanIds, NEW child \in PlanIds, GoalDerive(parent, child)
        PROVE  snapshots' = snapshots /\ goal' # "absent"
    BY <1>3 DEF GoalDerive, Derive, DerivePlan, othersVars, bindVars
  <1>4. CASE ReasoningCall
    <2>1. snapshots' = snapshots
      BY <1>4 DEF ReasoningCall, othersVars, bindVars
    <2>2. goal' = "absent" => goal = "absent"
      BY <1>4
      DEF ReasoningCall, ReasoningSaved, ReasoningUnsaved, PlanFails, DraftPauses,
          EvidenceReturned, ReviewFailed, PauseCurrent, PausePlan, Ask, Retry, AskFails,
          DraftReturned, DraftRecorded, CritiqueArrives, goalVars
    <2> QED
      BY <2>1, <2>2
  <1>5. CASE \/ ProjectArchive \/ ProjectPatch \/ TeamCall \/ ApplyCall
             \/ CheckCall \/ OtherPersists
    BY <1>5
    DEF ProjectArchive, ProjectPatch, TeamCall, ApplyCall, CheckCall, OtherPersists, bindVars,
        goalExecutionVars, goalVars
  <1>6. CASE RolesCall
    <2>1. UNCHANGED <<goal, plans, current, birth, newest, boundAt>>
      BY <1>6 DEF RolesCall, goalExecutionVars, goalVars, stepVars, watchVars
    <2>2. CASE Rebind
      BY <2>1, <2>2 DEF Rebind, Rebindable, NewVersion
    <2>3. CASE ~Rebind
      BY <1>6, <2>1, <2>3
      DEF RolesCall, EndpointCall, PresetStart, PresetPut, PresetRefused, PresetDelete
    <2> QED
      BY <2>2, <2>3
  <1> QED
    BY <1>1, <1>2, <1>3, <1>4, <1>5, <1>6 DEF Next

LEMMA PresetTyped ==
    ASSUME VersionInv, Next, ~Restart
    PROVE  preset' \in Seq(Roles)
  <1>1. CASE RolesCall /\ preset' # preset
    <2>1. CASE PresetPut
      BY <2>1 DEF PresetPut
    <2>2. CASE PresetDelete
      BY <2>2 DEF PresetDelete
    <2> QED
      BY <1>1, <2>1, <2>2 DEF RolesCall, EndpointCall, PresetStart, PresetRefused, Rebind
  <1>2. CASE ~RolesCall
    <2>1. preset' = preset
      BY <1>2
      DEF Next, GoalCreate, GoalCall, GoalDerive, ReasoningCall, ProjectArchive, ProjectPatch,
          TeamCall, ApplyCall, CheckCall, OtherPersists, othersVars, bindVars
    <2> QED
      BY <2>1 DEF VersionInv
  <1> QED
    BY <1>1, <1>2 DEF VersionInv

LEMMA VersionsKept ==
    ASSUME GoalInv, DiskCurrent, VersionInv, [Next]_vars
    PROVE  VersionInv'
  <1>1. CASE UNCHANGED vars
    BY <1>1 DEF vars, goalExecutionVars, goalVars, bindVars, VersionInv
  <1>2. CASE Restart
    BY <1>2 DEF Restart, DiskCurrent, VersionInv
  <1>3. CASE Next /\ ~Restart
    <2> snapshots \in Seq(Roles) /\ preset \in Seq(Roles)
      BY DEF VersionInv
    <2>a. ASSUME NEW roles \in Roles, snapshots' = Append(snapshots, roles)
          PROVE  snapshots' \in Seq(Roles)
      BY <2>a
    <2>1. snapshots' \in Seq(Roles) /\ preset' \in Seq(Roles)
      <3>1. preset' \in Seq(Roles)
        BY <1>3, PresetTyped
      <3>2. \/ snapshots' \in {snapshots, preset}
            \/ \E roles \in Roles : snapshots' = Append(snapshots, roles)
        BY <1>3, VersionMoves
      <3> QED
        BY <2>a, <3>1, <3>2
    <2>2. goal' = "absent" => snapshots' = <<>>
      BY <1>3, VersionMoves DEF VersionInv
    <2>3. CASE Persist
      BY <2>1, <2>2, <2>3, SavedFields DEF VersionInv
    <2>4. CASE disk' = disk /\ snapshots' = snapshots
      BY <2>1, <2>2, <2>4 DEF VersionInv
    <2> QED
      BY <1>3, <2>3, <2>4, PersistsOrLeaves
  <1> QED
    BY <1>1, <1>2, <1>3

\* A goal that does not exist has no version of a binding, and a preset is a
\* sequence of roles.
THEOREM AlwaysVersionInv == Spec => []VersionInv
  <1>1. Init => VersionInv
    BY DEF Init, Saved, VersionInv
  <1>2. GoalInv /\ DiskCurrent /\ VersionInv /\ [Next]_vars => VersionInv'
    BY VersionsKept
  <1> QED
    BY <1>1, <1>2, AlwaysGoalInv, AlwaysDiskCurrent, PTL DEF Spec

\* No version of a goal's binding is changed or lost, neither by a rebinding nor
\* by a preset that is put, deleted or taken for a new goal, nor by a restart.
THEOREM HistoryKept == Spec => BindingHistoryKept
  <1> DEFINE Kept == \A v \in DOMAIN snapshots :
                        v \in DOMAIN snapshots' /\ snapshots'[v] = snapshots[v]
  <1>1. GoalInv /\ DiskCurrent /\ VersionInv /\ [Next]_vars => [Kept]_vars
    <2> SUFFICES ASSUME GoalInv, DiskCurrent, VersionInv, Next PROVE Kept
      OBVIOUS
    <2>1. CASE snapshots' = snapshots
      BY <2>1
    <2>2. CASE snapshots = <<>>
      BY <2>2
    <2>3. ASSUME NEW roles \in Roles, snapshots' = Append(snapshots, roles) PROVE Kept
      BY <2>3 DEF VersionInv
    <2>4. CASE Restart
      BY <2>1, <2>4 DEF Restart, DiskCurrent
    <2> QED
      BY <2>1, <2>2, <2>3, <2>4, VersionMoves DEF VersionInv
  <1> QED
    BY <1>1, AlwaysGoalInv, AlwaysDiskCurrent, AlwaysVersionInv, PTL DEF Spec, BindingHistoryKept

-----------------------------------------------------------------------------
(* The binding a plan was approved with.                                   *)

Running == {"approved", "executing"}

\* A plan with a larger id than the one made last: a restart takes it for the
\* current one.
Superseded(pl, n) == \E q \in PlanIds : q > n /\ pl[q] # "absent"

ApprovedAsIs(pl, bi, n) == pl[n] \in Running => Len(snapshots) = boundAt[bi[n]]

\* In memory the plan made last is the current one or superseded.  On disk it is
\* superseded too, or else a restart makes it the current one again.
LatestInv ==
    /\ boundAt \in [Births -> Nat]
    /\ newest \in PlanIds /\ disk.newest \in PlanIds
    /\ newest = 1 \/ plans[newest] # "absent"
    /\ disk.newest = 1 \/ disk.plans[disk.newest] # "absent"
    /\ current = newest \/ Superseded(plans, newest)
    /\ current = newest => ApprovedAsIs(plans, birth, newest)
    /\ Superseded(disk.plans, disk.newest) \/ ApprovedAsIs(disk.plans, disk.birth, disk.newest)

\* How a step of a running server treats the plans.
PlanMade ==
    /\ newest' = current' /\ current' \in PlanIds
    /\ plans'[current'] = "awaiting-approval"
    /\ UNCHANGED <<boundAt, snapshots>>

PlanKept ==
    /\ UNCHANGED <<newest, current, birth>>
    /\ \A q \in PlanIds : plans[q] # "absent" => plans'[q] # "absent"

PlanApproved ==
    /\ PlanKept
    /\ Persist
    /\ birth[current] \in Births
    /\ boundAt' = [boundAt EXCEPT ![birth[current]] = Len(snapshots)]
    /\ UNCHANGED snapshots

PlanNotStarted ==
    /\ PlanKept
    /\ UNCHANGED boundAt
    /\ plans'[current] \in Running => plans[current] \in Running

LEMMA PausedOrCancelled ==
    ASSUME GoalInv, PausePlan \/ CancelGoal
    PROVE  /\ current' = current
           /\ \A q \in PlanIds : plans[q] # "absent" => plans'[q] # "absent"
           /\ plans'[current] \in Running => plans[current] \in Running
  <1>1. current \in PlanIds /\ plans \in [PlanIds -> PlanStatus]
    BY DEF GoalInv, ExecutionInv, ExecutionTypeOK, GoalTypeOK
  <1> QED
    BY <1>1 DEF PausePlan, CancelGoal, Running

LEMMA PlanMoves ==
    ASSUME GoalInv, Next, ~Restart
    PROVE  PlanMade \/ PlanApproved \/ PlanNotStarted
  <1>1. /\ current \in PlanIds /\ plans \in [PlanIds -> PlanStatus]
        /\ birth \in [PlanIds -> 0..MaxBirths] /\ MaxBirths \in Nat /\ 1 \in PlanIds
    BY GenerationAssumption, GoalAssumption
    DEF GoalInv, ExecutionInv, ExecutionTypeOK, GoalTypeOK, PlanIds
  <1>2. ASSUME UNCHANGED <<newest, current, birth, boundAt, plans>> PROVE PlanNotStarted
    BY <1>2 DEF PlanNotStarted, PlanKept
  <1>3. CASE GoalCreate
    BY <1>2, <1>3 DEF GoalCreate, CreateGoal, stepVars, watchVars
  <1>4. CASE GoalCall
    <2>1. CASE Approve /\ boundAt' = [boundAt EXCEPT ![birth[current]] = Len(snapshots)]
               /\ UNCHANGED newest /\ Persist
      <3>1. birth[current] \in Births
        BY <1>1, <2>1
        DEF Approve, ApprovePlan, GoalInv, ExecutionInv, MemoryAccounted, BornOnce, Births
      <3>2. PlanKept
        BY <1>1, <2>1 DEF PlanKept, Approve, ApprovePlan, stepVars
      <3> QED
        BY <1>4, <2>1, <3>1, <3>2 DEF PlanApproved, GoalCall, othersVars, bindVars
    <2>2. CASE GenerateAttach /\ newest' = 1 /\ UNCHANGED boundAt
      BY <1>1, <1>4, <2>2
      DEF PlanMade, GenerateAttach, AttachPlan, GoalCall, othersVars, bindVars
    <2>3. CASE (GenerateStart \/ GenerateFails) /\ UNCHANGED <<boundAt, newest>>
      BY <1>2, <2>3 DEF GenerateStart, GenerateFails, goalVars, stepVars
    <2>4. CASE PauseOrCancel /\ UNCHANGED <<boundAt, newest>>
      BY <2>4, PausedOrCancelled DEF PauseOrCancel, PlanNotStarted, PlanKept, stepVars
    <2>5. ASSUME NEW p \in PlanIds, Bind(p), UNCHANGED <<boundAt, newest>> PROVE PlanNotStarted
      BY <1>2, <2>5 DEF Bind, SetBinding, stepVars
    <2>6. ASSUME NEW i \in StepIndexes, NEW status, Transition(i, status),
                 UNCHANGED <<boundAt, newest>>
          PROVE  PlanNotStarted
      BY <1>1, <2>6 DEF Transition, InRun, PlanNotStarted, PlanKept, Running
    <2>7. CASE (Advance \/ \E i \in StepIndexes : ApproveGate(i)) /\ UNCHANGED <<boundAt, newest>>
      BY <2>6, <2>7 DEF Advance, ApproveGate
    <2> QED
      BY <1>4, <2>1, <2>2, <2>3, <2>4, <2>5, <2>7 DEF GoalCall
  <1>5. ASSUME NEW parent \in PlanIds, NEW child \in PlanIds, GoalDerive(parent, child)
        PROVE  PlanMade
    BY <1>1, <1>5
    DEF PlanMade, GoalDerive, Derive, DerivePlan, othersVars, bindVars
  <1>6. CASE ReasoningCall
    <2>1. UNCHANGED <<newest, birth, boundAt>>
      BY <1>6 DEF ReasoningCall, ReasoningSaved, ReasoningUnsaved, stepVars, watchVars
    <2>2. PausePlan \/ UNCHANGED goalVars
      BY <1>6
      DEF ReasoningCall, ReasoningSaved, ReasoningUnsaved, PlanFails, DraftPauses,
          EvidenceReturned, ReviewFailed, PauseCurrent, Ask, Retry, AskFails,
          DraftReturned, DraftRecorded, CritiqueArrives
    <2> QED
      BY <1>2, <2>1, <2>2, PausedOrCancelled DEF goalVars, PlanNotStarted, PlanKept
  <1>7. CASE \/ ProjectArchive \/ ProjectPatch \/ TeamCall \/ ApplyCall \/ RolesCall
             \/ CheckCall \/ OtherPersists
    BY <1>2, <1>7
    DEF ProjectArchive, ProjectPatch, TeamCall, ApplyCall, RolesCall, CheckCall, OtherPersists,
        goalExecutionVars, goalVars, stepVars, watchVars
  <1> QED
    BY <1>3, <1>4, <1>5, <1>6, <1>7 DEF Next

\* Memory's part of LatestInv.
LatestInMemory ==
    /\ boundAt \in [Births -> Nat]
    /\ newest \in PlanIds
    /\ newest = 1 \/ plans[newest] # "absent"
    /\ current = newest \/ Superseded(plans, newest)
    /\ current = newest => ApprovedAsIs(plans, birth, newest)

LEMMA LatestInMemoryKept ==
    ASSUME GoalInv, VersionInv, LatestInv, Next, ~Restart
    PROVE  LatestInMemory'
  <1> Len(snapshots) \in Nat
    BY DEF VersionInv
  <1>1. CASE PlanMade
    BY <1>1 DEF PlanMade, LatestInMemory, LatestInv, ApprovedAsIs, Running
  <1>2. CASE PlanApproved
    BY <1>2
    DEF PlanApproved, PlanKept, LatestInMemory, LatestInv, ApprovedAsIs, Superseded, Running
  <1>3. CASE PlanNotStarted
    <2>1. /\ newest' = newest /\ current' = current /\ birth' = birth /\ boundAt' = boundAt
          /\ newest = 1 \/ plans'[newest] # "absent"
          /\ current = newest \/ Superseded(plans', newest)
      BY <1>3 DEF PlanNotStarted, PlanKept, LatestInv, Superseded
    <2>2. ASSUME current = newest, plans'[newest] \in Running
          PROVE  Len(snapshots') = boundAt[birth[newest]]
      <3>1. plans[newest] \in Running
        BY <1>3, <2>2 DEF PlanNotStarted
      <3>2. goal # "absent"
        BY <3>1 DEF GoalInv, ExecutionInv, MemoryAccounted, BornOnce, LatestInv, Running
      <3>3. snapshots' = snapshots
        BY <2>2, <3>1, <3>2, VersionMoves DEF Running
      <3> QED
        BY <2>2, <3>1, <3>3 DEF LatestInv, ApprovedAsIs
    <2> QED
      BY <2>1, <2>2 DEF LatestInMemory, LatestInv, ApprovedAsIs, Superseded
  <1> QED
    BY <1>1, <1>2, <1>3, PlanMoves

LEMMA BoundAtSaved ==
    ASSUME GoalInv, Next, ~Restart, ~Persist
    PROVE  UNCHANGED <<disk, snapshots, boundAt>>
  <1>1. UNCHANGED <<disk, snapshots>>
    BY PersistsOrLeaves
  <1>2. boundAt' = boundAt
    BY PlanMoves DEF PlanMade, PlanApproved, PlanNotStarted
  <1> QED
    BY <1>1, <1>2

LEMMA LatestKept ==
    ASSUME GoalInv, DiskCurrent, VersionInv, LatestInv, [Next]_vars
    PROVE  LatestInv'
  <1>1. CASE UNCHANGED vars
    BY <1>1
    DEF vars, goalExecutionVars, goalVars, stepVars, bindVars, watchVars, LatestInv, Superseded,
        ApprovedAsIs
  <1>2. CASE Next /\ ~Restart
    <2>1. LatestInMemory'
      BY <1>2, LatestInMemoryKept
    <2>2. CASE Persist
      BY <2>1, <2>2, SavedFields DEF LatestInMemory, LatestInv, Superseded, ApprovedAsIs
    <2>3. CASE ~Persist
      <3>1. UNCHANGED <<disk, snapshots, boundAt>>
        BY <1>2, <2>3, BoundAtSaved
      <3> QED
        BY <2>1, <3>1 DEF LatestInMemory, LatestInv, Superseded, ApprovedAsIs
    <2> QED
      BY <2>2, <2>3
  <1>3. CASE Restart
    <2> DEFINE last == LastPlan(disk.plans)
    <2>1. /\ plans' = disk.plans /\ birth' = disk.birth /\ newest' = disk.newest
          /\ current' = last /\ snapshots' = snapshots /\ boundAt' = boundAt /\ disk' = disk
      BY <1>3 DEF Restart, DiskCurrent
    <2>2. /\ last \in PlanIds /\ (last = 1 \/ disk.plans[last] # "absent")
          /\ \A q \in PlanIds : q > last => disk.plans[q] = "absent"
      BY LastPlanFacts
    <2>3. disk.newest \in PlanIds /\ (disk.newest = 1 \/ disk.plans[disk.newest] # "absent")
      BY DEF LatestInv
    <2> HIDE DEF last
    <2>4. last \in Nat /\ last >= 1 /\ disk.newest \in Nat /\ disk.newest >= 1
      BY <2>2, <2>3, GoalAssumption DEF PlanIds
    <2>5. last = disk.newest \/ last > disk.newest
      BY <2>2, <2>3, <2>4
    <2>6. CASE Superseded(disk.plans, disk.newest)
      <3>1. last # disk.newest
        BY <2>2, <2>6 DEF Superseded
      <3> QED
        BY <2>1, <2>3, <2>6, <3>1 DEF LatestInv, Superseded
    <2>7. CASE ~Superseded(disk.plans, disk.newest)
      <3>1. last = disk.newest
        <4>1. last > disk.newest => last # 1
          BY <2>3, <2>4
        <4> QED
          BY <2>2, <2>5, <2>7, <4>1 DEF Superseded
      <3>2. ApprovedAsIs(disk.plans, disk.birth, disk.newest)
        BY <2>7 DEF LatestInv
      <3> QED
        BY <2>1, <2>3, <3>1, <3>2 DEF LatestInv, ApprovedAsIs
    <2> QED
      BY <2>6, <2>7
  <1> QED
    BY <1>1, <1>2, <1>3

\* The plan made last is the current one or superseded, and runs under the
\* binding it was approved with.
THEOREM AlwaysLatestInv == Spec => []LatestInv
  <1>1. Init => LatestInv
    BY GoalAssumption
    DEF Init, ExecutionInit, NoGoal, Saved, LatestInv, PlanIds, ApprovedAsIs, Running
  <1>2. GoalInv /\ DiskCurrent /\ VersionInv /\ LatestInv /\ [Next]_vars => LatestInv'
    BY LatestKept
  <1> QED
    BY <1>1, <1>2, AlwaysGoalInv, AlwaysDiskCurrent, AlwaysVersionInv, PTL DEF Spec

\* While a plan that the operator approved runs, the goal keeps the endpoints
\* it was approved with, also over restarts that make another plan the current
\* one, or the same one again.
THEOREM ApprovedBindingKept == Spec => []RunsUnderApprovedBinding
  <1>1. LatestInv => RunsUnderApprovedBinding
    BY DEF LatestInv, ApprovedAsIs, Running, RunsUnderApprovedBinding
  <1> QED
    BY <1>1, AlwaysLatestInv, PTL

-----------------------------------------------------------------------------
(* The checks.                                                             *)

VerifyingNow == {c \in Calls : verifying[c] = "running"}

AskedNow == {c \in Calls : fetching[c].stage \in {"checkRuns", "status"}}

CheckInv ==
    /\ verifying \in [Calls -> VerifyStage] /\ fetching \in [Calls -> Fetch]
    /\ locked \in BOOLEAN /\ inFlight \in BOOLEAN /\ process \in Process
    /\ IF locked THEN \E c \in Calls : VerifyingNow = {c} ELSE VerifyingNow = {}
    /\ IF inFlight THEN \E c \in Calls : AskedNow = {c} ELSE AskedNow = {}
    /\ ~locked => process = NoProcess

\* The first of order that is present exists if one is.
LEMMA FirstOfFacts ==
    ASSUME NEW n \in Nat, NEW order, DOMAIN order = 1..n,
           NEW present, \E i \in 1..n : order[i] \in present
    PROVE  firstOf(order, present) \in 1..n
  <1> DEFINE S == {i \in 1..n : order[i] \in present}
  <1>1. S \in SUBSET Nat /\ S # {}
    OBVIOUS
  <1>2. PICK i \in S : \A j \in S : i <= j
    <2> HIDE DEF S
    <2> QED
      BY <1>1, LeastElement
  <1>3. i \in DOMAIN order /\ order[i] \in present /\ \A j \in 1..(i - 1) : order[j] \notin present
    <2> SUFFICES ASSUME NEW j \in 1..(i - 1), order[j] \in present PROVE FALSE
      BY <1>2
    <2>1. j \in S /\ j < i
      BY <1>2
    <2> QED
      BY <1>2, <2>1
  <1> QED
    BY <1>3 DEF firstOf

LEMMA SignalsTyped == CheckRunsSignals \subseteq Signal
  <1> SUFFICES ASSUME NEW cs \in SUBSET Conclusions, cs # {} PROVE checkRunsSignal(cs) \in Signal
    BY DEF CheckRunsSignals, checkRunsSignal, Signal
  <1> DEFINE order == <<"failure", "running", "success", "other", "skipped">>
  <1> DEFINE signals == <<"failed", "pending", "passed", "none", "skipped">>
  <1>1. DOMAIN order = 1..5 /\ \E i \in 1..5 : order[i] \in cs
    <2>1. DOMAIN order = 1..5
      OBVIOUS
    <2>2. PICK x \in cs : x \in Conclusions
      OBVIOUS
    <2>3. order[1] = "failure" /\ order[2] = "running" /\ order[3] = "success"
          /\ order[4] = "other" /\ order[5] = "skipped"
      OBVIOUS
    <2>4. \E i \in 1..5 : order[i] = x
      <3> HIDE DEF order
      <3> QED
        BY <2>2, <2>3 DEF Conclusions
    <2> QED
      BY <2>1, <2>2, <2>4
  <1>2. firstOf(order, cs) \in 1..5
    BY <1>1, FirstOfFacts
  <1>3. \A i \in 1..5 : signals[i] \in Signal
    BY DEF Signal
  <1> QED
    BY <1>2, <1>3 DEF checkRunsSignal

LEMMA NothingTyped == NoFetch \in Fetch /\ NoProcess \in Process /\ spawn \in Process
  <1>1. NoFetch \in Fetch
    <2>1. 1 \in 1..2 /\ "none" \in Signal
      BY DEF Signal
    <2> QED
      BY <2>1 DEF NoFetch, Fetch
  <1>2. NoProcess \in Process /\ spawn \in Process
    BY DEF NoProcess, Process, Helper, spawn
  <1> QED
    BY <1>1, <1>2

LEMMA ProcessSteps ==
    ASSUME CheckInv, CommandSteps
    PROVE  CheckInv'
  <1>1. /\ UNCHANGED <<verifying, locked, fetching, inFlight>>
        /\ VerifyingNow' = VerifyingNow /\ AskedNow' = AskedNow
    BY DEF CommandSteps, fetchVars, VerifyingNow, AskedNow
  <1>2. process' \in Process
    BY DEF CheckInv, CommandSteps, Process, Helper, overflow, timeout, escalation
  <1>3. locked \/ process # NoProcess
    BY DEF CheckInv, CommandSteps, NoProcess, canWrite, canFork
  <1> QED
    BY <1>1, <1>2, <1>3 DEF CheckInv

LEMMA VerifySteps ==
    ASSUME CheckInv, VerifyCalls \/ \E c \in Calls : VerifyAsked(c)
    PROVE  CheckInv'
  <1>1. ASSUME NEW c \in Calls,
               \/ VerifyAsked(c) /\ verifying' = [verifying EXCEPT ![c] = "body"]
               \/ VerifyRefused(c) \/ VerifyLocked(c) \/ VerifyThrows(c)
        PROVE  CheckInv'
    <2>1. /\ UNCHANGED <<locked, process, fetching, inFlight>>
          /\ verifying[c] # "running"
          /\ \E stage \in {"body", "none"} : verifying' = [verifying EXCEPT ![c] = stage]
      BY <1>1 DEF VerifyAsked, VerifyRefused, VerifyLocked, VerifyThrows, fetchVars
    <2>2. VerifyingNow' = VerifyingNow /\ AskedNow' = AskedNow
      BY <2>1 DEF VerifyingNow, AskedNow, CheckInv
    <2>3. verifying' \in [Calls -> VerifyStage]
      BY <2>1 DEF CheckInv, VerifyStage
    <2> QED
      BY <2>1, <2>2, <2>3 DEF CheckInv
  <1>2. ASSUME NEW c \in Calls, VerifyRun(c) PROVE CheckInv'
    <2>1. /\ UNCHANGED <<fetching, inFlight>> /\ locked' = TRUE /\ ~locked
          /\ verifying' = [verifying EXCEPT ![c] = "running"]
          /\ process' \in Process
      BY <1>2 DEF VerifyRun, fetchVars, spawn, NoProcess, Process, Helper
    <2>2. VerifyingNow' = {c} /\ AskedNow' = AskedNow
      BY <2>1 DEF VerifyingNow, AskedNow, CheckInv
    <2>3. verifying' \in [Calls -> VerifyStage]
      BY <2>1 DEF CheckInv, VerifyStage
    <2> QED
      BY <2>1, <2>2, <2>3 DEF CheckInv
  <1>3. ASSUME NEW c \in Calls, VerifyEnds(c) PROVE CheckInv'
    <2>1. /\ UNCHANGED <<fetching, inFlight>> /\ locked' = FALSE
          /\ verifying' = [verifying EXCEPT ![c] = "none"] /\ c \in VerifyingNow
          /\ process' = NoProcess /\ NoProcess \in Process
      BY <1>3 DEF VerifyEnds, fetchVars, VerifyingNow, NoProcess, Process, Helper
    <2>2. VerifyingNow = {c}
      BY <2>1 DEF CheckInv
    <2>3. VerifyingNow' = {} /\ AskedNow' = AskedNow
      BY <2>1, <2>2 DEF VerifyingNow, AskedNow, CheckInv
    <2>4. verifying' \in [Calls -> VerifyStage]
      BY <2>1 DEF CheckInv, VerifyStage
    <2> QED
      BY <2>1, <2>3, <2>4 DEF CheckInv
  <1> QED
    BY <1>1, <1>2, <1>3, ProcessSteps DEF VerifyCalls, VerifyAsked

LEMMA FetchSteps ==
    ASSUME CheckInv, FetchCalls \/ \E c \in Calls : FetchAsked(c)
    PROVE  CheckInv'
  <1> PICK c \in Calls : \/ FetchAsked(c) \/ NoBranch(c) \/ FetchLocked(c) \/ FetchRuns(c)
                         \/ FetchRetry(c) \/ FetchStatus(c) \/ FetchEnds(c)
    BY DEF FetchCalls
  <1>1. /\ UNCHANGED verifyVars /\ VerifyingNow' = VerifyingNow
        /\ fetching \in [Calls -> Fetch] /\ fetching[c] \in Fetch /\ NoFetch \in Fetch
    <2>1. UNCHANGED verifyVars
      BY DEF FetchAsked, NoBranch, FetchLocked, FetchRuns, FetchRetry, FetchStatus, FetchEnds
    <2> QED
      BY <2>1, NothingTyped DEF verifyVars, VerifyingNow, CheckInv
  <1>2. ASSUME NEW fetch \in Fetch, fetching' = [fetching EXCEPT ![c] = fetch],
               fetch.stage \in {"checkRuns", "status"} <=> c \in AskedNow, inFlight' = inFlight
        PROVE  CheckInv'
    <2>1. AskedNow' = AskedNow /\ fetching' \in [Calls -> Fetch]
      BY <1>1, <1>2 DEF AskedNow
    <2> QED
      BY <1>1, <1>2, <2>1 DEF CheckInv, verifyVars
  <1>3. CASE FetchAsked(c)
    <2>1. fetching' = [fetching EXCEPT ![c] = [fetching[c] EXCEPT !.stage = "branch"]]
      BY <1>1, <1>3 DEF FetchAsked
    <2>2. [fetching[c] EXCEPT !.stage = "branch"] \in Fetch
      BY <1>1 DEF Fetch
    <2>3. c \notin AskedNow /\ inFlight' = inFlight
      BY <1>3 DEF FetchAsked, AskedNow
    <2> QED
      BY <1>1, <1>2, <2>1, <2>2, <2>3 DEF Fetch
  <1>4. CASE NoBranch(c) \/ FetchLocked(c)
    BY <1>1, <1>2, <1>4 DEF NoBranch, FetchLocked, NoFetch, AskedNow
  <1>5. CASE FetchRuns(c)
    <2> DEFINE fetch == [fetching[c] EXCEPT !.stage = "checkRuns"]
    <2>1. fetching' = [fetching EXCEPT ![c] = fetch] /\ inFlight' = TRUE /\ ~inFlight
      BY <1>1, <1>5 DEF FetchRuns
    <2>2. fetch \in Fetch /\ fetch.stage = "checkRuns"
      BY <1>1 DEF Fetch
    <2>3. AskedNow' = {c} /\ fetching' \in [Calls -> Fetch]
      BY <1>1, <2>1, <2>2 DEF AskedNow, CheckInv
    <2> QED
      BY <1>1, <2>1, <2>3 DEF CheckInv, verifyVars
  <1>6. CASE FetchRetry(c)
    <2> DEFINE fetch == [fetching[c] EXCEPT !.attempt = 2]
    <2>1. fetching' = [fetching EXCEPT ![c] = fetch] /\ inFlight' = inFlight /\ c \in AskedNow
      BY <1>1, <1>6 DEF FetchRetry, AskedNow
    <2>2. fetch \in Fetch /\ fetch.stage = fetching[c].stage
      BY <1>1 DEF Fetch
    <2> QED
      BY <1>2, <2>1, <2>2 DEF AskedNow
  <1>7. CASE FetchStatus(c)
    <2> PICK signal \in CheckRunsSignals :
          fetching' = [fetching EXCEPT ![c] = [stage |-> "status", attempt |-> 1,
                                               checkRuns |-> signal]]
      BY <1>7 DEF FetchStatus
    <2>1. [stage |-> "status", attempt |-> 1, checkRuns |-> signal] \in Fetch
      BY SignalsTyped DEF Fetch
    <2>2. c \in AskedNow /\ inFlight' = inFlight
      BY <1>7 DEF FetchStatus, AskedNow
    <2> QED
      BY <1>2, <2>1, <2>2
  <1>8. CASE FetchEnds(c)
    <2>1. /\ fetching' = [fetching EXCEPT ![c] = NoFetch] /\ inFlight' = FALSE
          /\ c \in AskedNow
      BY <1>8 DEF FetchEnds, AskedNow
    <2>2. AskedNow = {c}
      BY <2>1 DEF CheckInv
    <2>3. AskedNow' = {} /\ fetching' \in [Calls -> Fetch]
      BY <1>1, <2>1, <2>2 DEF AskedNow, NoFetch
    <2> QED
      BY <1>1, <2>1, <2>3 DEF CheckInv, verifyVars
  <1> QED
    BY <1>3, <1>4, <1>5, <1>6, <1>7, <1>8

LEMMA ChecksFree ==
    ASSUME verifying = [c \in Calls |-> "none"], ~locked, locked \in BOOLEAN,
           process = NoProcess, fetching = [c \in Calls |-> NoFetch], inFlight = FALSE
    PROVE  CheckInv
  <1>1. NoFetch.stage = "none"
    BY DEF NoFetch
  <1>2. VerifyingNow = {} /\ AskedNow = {}
    BY <1>1 DEF VerifyingNow, AskedNow
  <1> QED
    BY <1>2, NothingTyped DEF CheckInv, VerifyStage

LEMMA ChecksKept ==
    ASSUME CheckInv, [Next]_vars
    PROVE  CheckInv'
  <1>1. CASE CheckCall
    BY <1>1, VerifySteps, FetchSteps DEF CheckCall
  <1>2. CASE Restart
    <2>1. /\ verifying' = [c \in Calls |-> "none"] /\ locked' = FALSE /\ process' = NoProcess
          /\ fetching' = [c \in Calls |-> NoFetch] /\ inFlight' = FALSE
      BY <1>2 DEF Restart
    <2>2. NoFetch.stage = "none"
      BY DEF NoFetch
    <2>3. VerifyingNow' = {} /\ AskedNow' = {}
      BY <2>1, <2>2 DEF VerifyingNow, AskedNow
    <2> QED
      BY <2>1, <2>3, NothingTyped DEF CheckInv, VerifyStage
  <1>3. CASE ~CheckCall /\ ~Restart
    <2>1. UNCHANGED checkVars
      BY <1>3
      DEF Next, vars, GoalCreate, GoalCall, GoalDerive, ReasoningCall, ProjectArchive,
          ProjectPatch, TeamCall, ApplyCall, RolesCall, OtherPersists, othersVars
    <2> QED
      BY <2>1 DEF checkVars, CheckInv, VerifyingNow, AskedNow
  <1> QED
    BY <1>1, <1>2, <1>3

\* Each lock is held by exactly one call, or by none.
THEOREM AlwaysCheckInv == Spec => []CheckInv
  <1>1. Init => CheckInv
    BY ChecksFree DEF Init, ChecksInit
  <1> QED
    BY <1>1, ChecksKept, PTL DEF Spec

\* One verification command and one query of GitHub at a time, whatever calls
\* are refused, time out or end in between, and a project whose run has ended
\* is free for the next one.
THEOREM ChecksExclusive == Spec => []OneCheckAtATime
  <1>1. CheckInv => OneCheckAtATime
    <2> SUFFICES ASSUME CheckInv PROVE OneCheckAtATime
      OBVIOUS
    <2>1. Cardinality(VerifyingNow) = IF locked THEN 1 ELSE 0
      BY FS_EmptySet, FS_Singleton DEF CheckInv
    <2>2. Cardinality(AskedNow) = IF inFlight THEN 1 ELSE 0
      BY FS_EmptySet, FS_Singleton DEF CheckInv
    <2>3. VerifyingNow = {} => process = NoProcess
      BY DEF CheckInv
    <2> QED
      BY <2>1, <2>2, <2>3 DEF OneCheckAtATime, VerifyingNow, AskedNow
  <1> QED
    BY <1>1, AlwaysCheckInv, PTL

-----------------------------------------------------------------------------
(* The files and the requests to write them.                               *)

Created == {a \in ApplyIds : applies[a].status # "absent"}

\* Requests are created in the order of their ids and stay.  One made of an
\* artifact's own files has the artifact's slot and birth, and artifacts stay.
ApplyInv ==
    /\ artifacts \in Seq(Artifact)
    /\ applies \in [ApplyIds -> Apply]
    /\ directories \in [ApplyIds -> {"none", "staging", "complete"}]
    /\ forgotten \subseteq Created /\ confirmedApplies \subseteq ApplyIds
    /\ \E n \in 0..MaxApplies : Created = 1..n
    /\ \A a \in Created : applies[a].own =>
         \E i \in DOMAIN artifacts :
            /\ artifacts[i].slot = applies[a].slot /\ artifacts[i].birth = applies[a].birth
            /\ artifacts[i].files = applies[a].files

\* Whether their directories are complete or not: no two requests made of their
\* artifacts' own files share a file, unless they are for the same step.
RequestsDisjoint ==
    \A a, b \in Created :
        (/\ applies[a].own /\ applies[b].own
         /\ <<applies[a].slot, applies[a].birth>> # <<applies[b].slot, applies[b].birth>>)
        => applies[a].files \cap applies[b].files = {}

\* Of the requests the server knows of, all but one of a slot and plan step were
\* discarded.
OneOpenRequest ==
    \A a, b \in Created \ forgotten :
        (a # b /\ <<applies[a].slot, applies[a].birth>> = <<applies[b].slot, applies[b].birth>>)
        => applies[a].status = "discarded" \/ applies[b].status = "discarded"

FilesInv == ApplyInv /\ RequestsDisjoint /\ OneOpenRequest /\ DirectoriesAccounted

\* Neither the artifacts nor what a request was made of changes: only its
\* status, which stays other than "absent".
LEMMA RequestsFrame ==
    ASSUME FilesInv, artifacts' = artifacts,
           applies' \in [ApplyIds -> Apply],
           \A a \in ApplyIds :
              /\ applies'[a].status = "absent" <=> applies[a].status = "absent"
              /\ applies'[a].slot = applies[a].slot /\ applies'[a].birth = applies[a].birth
              /\ applies'[a].files = applies[a].files /\ applies'[a].own = applies[a].own
              /\ applies[a].status = "discarded" => applies'[a].status = "discarded",
           directories' \in [ApplyIds -> {"none", "staging", "complete"}],
           forgotten \subseteq forgotten', forgotten' \subseteq Created,
           confirmedApplies' \subseteq ApplyIds
    PROVE  ApplyInv' /\ RequestsDisjoint' /\ OneOpenRequest'
  <1>1. Created' = Created /\ Created \subseteq ApplyIds
    BY DEF Created
  <1>2. /\ artifacts' \in Seq(Artifact)
        /\ \E n \in 0..MaxApplies : Created' = 1..n
        /\ forgotten' \subseteq Created'
    BY <1>1 DEF FilesInv, ApplyInv
  <1>3. \A a \in Created' : applies'[a].own =>
          \E i \in DOMAIN artifacts' :
             /\ artifacts'[i].slot = applies'[a].slot /\ artifacts'[i].birth = applies'[a].birth
             /\ artifacts'[i].files = applies'[a].files
    BY <1>1 DEF FilesInv, ApplyInv
  <1>4. RequestsDisjoint'
    BY <1>1 DEF FilesInv, RequestsDisjoint
  <1>5. OneOpenRequest'
    BY <1>1 DEF FilesInv, OneOpenRequest
  <1> QED
    BY <1>2, <1>3, <1>4, <1>5 DEF ApplyInv

LEMMA CreateKeeps ==
    ASSUME FilesInv, UNCHANGED artifacts, NEW i \in DOMAIN artifacts,
           NEW files \in {artifacts[i].files, {1}}, ApplyCreate(i, files)
    PROVE  FilesInv'
  <1> USE DEF FilesInv
  <1> DEFINE new == NextApply
  <1> DEFINE request == createRequest(artifacts[i], files)
  <1>1. /\ UNCHANGED <<artifacts, forgotten, directories, confirmedApplies>>
        /\ new \in ApplyIds /\ conflictFree(artifacts)
        /\ applies' = [applies EXCEPT ![new] = request]
    BY DEF ApplyCreate
  <1>2. PICK n \in 0..MaxApplies : Created = 1..n
    BY DEF ApplyInv
  <1>3. n \in Nat /\ new = n + 1 /\ ApplyIds = 1..MaxApplies /\ MaxApplies \in Nat
    <2>1. MaxApplies \in Nat
      BY ControlAssumption
    <2>2. Cardinality(1..n) = n
      BY FS_Interval
    <2> QED
      <3>1. NextApply = Cardinality(Created) + 1
        BY DEF NextApply, Created
      <3> QED
        BY <1>2, <2>1, <2>2, <3>1 DEF ApplyIds
  <1>4. new \notin Created
    BY <1>2, <1>3
  <1>5. request \in Apply /\ request.status = "pending"
    <2>1. artifacts[i] \in Artifact
      BY DEF ApplyInv
    <2>2. 1 \in Files
      BY FileAssumption DEF Files
    <2>3. artifacts[i].birth \in 0..MaxBirths
      BY <2>1, GenerationAssumption DEF Artifact, Births
    <2>4. "pending" \in ApplyStatus /\ (files = artifacts[i].files) \in BOOLEAN
          /\ files \subseteq Files /\ artifacts[i].slot \in Slots
      BY <2>1, <2>2 DEF ApplyStatus, Artifact
    <2> QED
      BY <2>3, <2>4 DEF createRequest, Apply
  <1>6. /\ applies' \in [ApplyIds -> Apply] /\ applies'[new] = request
        /\ \A a \in ApplyIds : a # new => applies'[a] = applies[a]
    BY <1>1, <1>5 DEF ApplyInv
  <1>7. Created' = Created \cup {new}
    BY <1>1, <1>5, <1>6 DEF Created
  <1>8. \E m \in 0..MaxApplies : Created' = 1..m
    <2>1. 1..(n + 1) = (1..n) \cup {n + 1} /\ n + 1 \in 0..MaxApplies
      BY <1>1, <1>3
    <2> QED
      BY <1>2, <1>3, <1>7, <2>1
  <1>9. request.own => /\ artifacts[i].slot = request.slot /\ artifacts[i].birth = request.birth
                       /\ artifacts[i].files = request.files
    BY DEF createRequest
  <1>10. ApplyInv'
    <2>1. \A a \in Created' : applies'[a].own =>
            \E j \in DOMAIN artifacts' :
               /\ artifacts'[j].slot = applies'[a].slot /\ artifacts'[j].birth = applies'[a].birth
               /\ artifacts'[j].files = applies'[a].files
      <3> HIDE DEF request
      <3> SUFFICES ASSUME NEW a \in Created', applies'[a].own
                   PROVE  \E j \in DOMAIN artifacts :
                            /\ artifacts[j].slot = applies'[a].slot
                            /\ artifacts[j].birth = applies'[a].birth
                            /\ artifacts[j].files = applies'[a].files
        BY <1>1
      <3>1. CASE a = new
        BY <1>6, <1>9, <3>1
      <3>2. CASE a # new
        <4>1. a \in Created /\ applies'[a] = applies[a]
          BY <1>6, <1>7, <3>2 DEF Created
        <4> QED
          BY <4>1 DEF ApplyInv
      <3> QED
        BY <3>1, <3>2
    <2> QED
      BY <1>1, <1>6, <1>7, <1>8, <2>1 DEF ApplyInv
  <1>11. ASSUME NEW a \in Created, applies[a].own, request.own,
                <<applies[a].slot, applies[a].birth>> # <<request.slot, request.birth>>
         PROVE  applies[a].files \cap request.files = {}
    <2> PICK j \in DOMAIN artifacts :
          /\ artifacts[j].slot = applies[a].slot /\ artifacts[j].birth = applies[a].birth
          /\ artifacts[j].files = applies[a].files
      BY <1>11 DEF ApplyInv
    <2>1. j # i
      BY <1>9, <1>11
    <2> QED
      BY <1>1, <1>9, <1>11, <2>1 DEF conflictFree, SamePath
  <1>12. RequestsDisjoint'
    <2> HIDE DEF request
    <2> SUFFICES ASSUME NEW a \in Created', NEW b \in Created',
                        applies'[a].own, applies'[b].own,
                        <<applies'[a].slot, applies'[a].birth>>
                          # <<applies'[b].slot, applies'[b].birth>>
                 PROVE  applies'[a].files \cap applies'[b].files = {}
      BY DEF RequestsDisjoint
    <2>1. \A c \in Created' : c # new => c \in Created /\ applies'[c] = applies[c]
      BY <1>6, <1>7 DEF Created
    <2>2. CASE a # new /\ b # new
      BY <2>1, <2>2 DEF RequestsDisjoint
    <2>3. CASE a = new /\ b # new
      BY <1>6, <1>11, <2>1, <2>3
    <2>4. CASE a # new /\ b = new
      BY <1>6, <1>11, <2>1, <2>4
    <2> QED
      BY <2>2, <2>3, <2>4
  <1>13. OneOpenRequest'
    <2>1. request.slot = artifacts[i].slot /\ request.birth = artifacts[i].birth
      BY DEF createRequest
    <2> HIDE DEF request
    <2>2. \A a \in Created \ forgotten :
            <<applies[a].slot, applies[a].birth>> = <<request.slot, request.birth>>
            => applies[a].status = "discarded"
      BY <2>1 DEF ApplyCreate, canCreateRequest, KnownRequests, Created
    <2>3. \A c \in Created' : c # new => c \in Created /\ applies'[c] = applies[c]
      BY <1>6, <1>7 DEF Created
    <2> SUFFICES ASSUME NEW a \in Created' \ forgotten, NEW b \in Created' \ forgotten, a # b,
                        <<applies'[a].slot, applies'[a].birth>>
                          = <<applies'[b].slot, applies'[b].birth>>
                 PROVE  applies'[a].status = "discarded" \/ applies'[b].status = "discarded"
      BY <1>1 DEF OneOpenRequest
    <2>4. CASE a # new /\ b # new
      BY <2>3, <2>4 DEF OneOpenRequest
    <2>5. CASE a = new
      BY <1>6, <2>2, <2>3, <2>5
    <2>6. CASE b = new
      BY <1>6, <2>2, <2>3, <2>6
    <2> QED
      BY <2>4, <2>5, <2>6
  <1>14. DirectoriesAccounted'
    <2>1. directories[new] # "complete"
      BY <1>1, <1>4 DEF DirectoriesAccounted, ApplyInv, Created
    <2> QED
      BY <1>1, <1>5, <1>6, <2>1 DEF DirectoriesAccounted
  <1> QED
    BY <1>10, <1>12, <1>13, <1>14

LEMMA ConfirmDiscardKeep ==
    ASSUME FilesInv, UNCHANGED artifacts, NEW a \in ApplyIds, ApplyConfirm(a) \/ ApplyDiscard(a)
    PROVE  FilesInv'
  <1> USE DEF FilesInv
  <1>1. /\ a \notin forgotten /\ applies[a].status # "absent" /\ UNCHANGED forgotten
        /\ confirmedApplies \subseteq confirmedApplies'
        /\ confirmedApplies' \subseteq ApplyIds
    BY DEF ApplyConfirm, ApplyDiscard, canConfirmApply, canDiscard, ApplyInv
  <1> DEFINE Becomes(status, left) ==
               /\ applies' = [applies EXCEPT ![a] = [applies[a] EXCEPT !.status = status]]
               /\ directories' = [directories EXCEPT ![a] = left]
               /\ status = "applied" => left = "complete" /\ a \in confirmedApplies'
               /\ left = "complete" => status \in {"applied", "discarded"} /\ a \in confirmedApplies'
               /\ status = "discarded" \/ applies[a].status = "pending"
  <1>2. PICK status \in ApplyStatus \ {"absent"}, left \in {"none", "staging", "complete"} :
          Becomes(status, left)
    <2>1. CASE ApplyConfirm(a)
      <3>1. CASE applies' = [applies EXCEPT ![a] = confirmed(@)]
                 /\ directories' = [directories EXCEPT ![a] = "complete"]
        <4>1. Becomes("applied", "complete")
          BY <2>1, <3>1 DEF ApplyConfirm, confirmed, canConfirmApply, ApplyInv
        <4> QED
          BY <4>1 DEF ApplyStatus
      <3>2. ASSUME NEW left \in {"none", "staging"},
                   applies' = [applies EXCEPT ![a] = writeFailed(@)],
                   directories' = [directories EXCEPT ![a] = left]
            PROVE  Becomes("failed", left)
        BY <2>1, <3>2 DEF ApplyConfirm, writeFailed, canConfirmApply, ApplyInv
      <3> QED
        BY <2>1, <3>1, <3>2 DEF ApplyConfirm, ApplyStatus
    <2>2. CASE ApplyDiscard(a)
      <3>1. PICK left \in discardLeaves(directories[a]) :
              directories' = [directories EXCEPT ![a] = left]
        BY <2>2 DEF ApplyDiscard
      <3>2. applies' = [applies EXCEPT ![a] = [applies[a] EXCEPT !.status = "discarded"]]
        BY <2>2 DEF ApplyDiscard, discard, ApplyInv
      <3>3. left \in {"none", "staging", "complete"} /\ (left = "complete" => directories[a] = left)
        BY <3>1 DEF discardLeaves, ApplyInv
      <3>4. left = "complete" => a \in confirmedApplies'
        BY <1>1, <3>3 DEF DirectoriesAccounted
      <3> QED
        BY <3>1, <3>2, <3>3, <3>4 DEF ApplyStatus
    <2> QED
      BY <2>1, <2>2
  <1>3. /\ applies' \in [ApplyIds -> Apply]
        /\ directories' \in [ApplyIds -> {"none", "staging", "complete"}]
        /\ applies'[a] = [applies[a] EXCEPT !.status = status] /\ directories'[a] = left
        /\ applies[a] \in Apply
        /\ \A b \in ApplyIds : b # a => applies'[b] = applies[b] /\ directories'[b] = directories[b]
    <2>1. applies[a] \in Apply /\ applies \in [ApplyIds -> Apply]
          /\ directories \in [ApplyIds -> {"none", "staging", "complete"}]
      BY DEF ApplyInv
    <2>2. [applies[a] EXCEPT !.status = status] \in Apply
      BY <2>1 DEF Apply
    <2> QED
      BY <1>2, <2>1, <2>2
  <1>4. ApplyInv' /\ RequestsDisjoint' /\ OneOpenRequest'
    <2>1. forgotten' \subseteq Created
      BY <1>1 DEF ApplyInv
    <2>2. \A b \in ApplyIds :
             /\ applies'[b].status = "absent" <=> applies[b].status = "absent"
             /\ applies'[b].slot = applies[b].slot /\ applies'[b].birth = applies[b].birth
             /\ applies'[b].files = applies[b].files /\ applies'[b].own = applies[b].own
             /\ applies[b].status = "discarded" => applies'[b].status = "discarded"
      BY <1>1, <1>2, <1>3 DEF Apply
    <2> QED
      BY <1>1, <1>3, <2>1, <2>2, RequestsFrame
  <1>5. DirectoriesAccounted'
    <2>1. applies'[a].status = status
      BY <1>3 DEF Apply
    <2>2. /\ status = "applied" => left = "complete"
          /\ left = "complete" => status \in {"applied", "discarded"} /\ a \in confirmedApplies'
      BY <1>2
    <2>3. \A b \in ApplyIds :
            /\ directories'[b] = "complete" =>
                 /\ b \in confirmedApplies'
                 /\ b \in forgotten' \/ applies'[b].status \in {"applied", "discarded"}
            /\ (applies'[b].status = "applied" /\ b \notin forgotten') => directories'[b] = "complete"
      BY <1>1, <1>3, <2>1, <2>2, ZenonT(40) DEF DirectoriesAccounted
    <2>4. \A b, c \in ApplyIds \ forgotten' :
            (applies'[b].status = "applied" /\ applies'[c].status = "applied" /\ b # c) =>
                <<applies'[b].slot, applies'[b].birth>> # <<applies'[c].slot, applies'[c].birth>>
      BY <1>4 DEF OneOpenRequest, Created
    <2> QED
      BY <2>3, <2>4 DEF DirectoriesAccounted
  <1> QED
    BY <1>4, <1>5

\* An artifact is recorded, for a plan that is there.
LEMMA ArtifactKeeps ==
    ASSUME GoalInv, FilesInv, NEW s \in Slots, NEW files \in SUBSET Files,
           ArtifactRecord(s, files), UNCHANGED applyVars
    PROVE  FilesInv'
  <1> USE DEF FilesInv
  <1> DEFINE artifact == [slot |-> s, birth |-> birth[current], files |-> files]
  <1>1. artifacts' = Append(artifacts, artifact)
        /\ UNCHANGED <<applies, forgotten, directories, confirmedApplies>>
    BY DEF ArtifactRecord, applyVars
  <1>2. birth[current] \in Births
    <2>1. current \in PlanIds /\ birth \in [PlanIds -> 0..MaxBirths] /\ MaxBirths \in Nat
      BY GenerationAssumption DEF GoalInv, ExecutionInv, ExecutionTypeOK, GoalTypeOK
    <2>2. birth[current] # 0
      BY <2>1 DEF GoalInv, ExecutionInv, MemoryAccounted, BornOnce, ArtifactRecord, HasPlan
    <2> QED
      BY <2>1, <2>2 DEF Births
  <1>3. artifact \in Artifact
    BY <1>2 DEF Artifact
  <1>4. /\ artifacts \in Seq(Artifact) /\ artifacts' \in Seq(Artifact)
        /\ \A i \in DOMAIN artifacts : i \in DOMAIN artifacts' /\ artifacts'[i] = artifacts[i]
    <2> HIDE DEF artifact
    <2> QED
      BY <1>1, <1>3 DEF ApplyInv
  <1>5. Created' = Created
    BY <1>1 DEF Created
  <1>6. \A a \in Created : applies[a].own =>
           \E i \in DOMAIN artifacts' :
              /\ artifacts'[i].slot = applies[a].slot /\ artifacts'[i].birth = applies[a].birth
              /\ artifacts'[i].files = applies[a].files
    BY <1>4 DEF ApplyInv
  <1>7. ApplyInv'
    BY <1>1, <1>4, <1>5, <1>6 DEF ApplyInv
  <1> QED
    BY <1>1, <1>5, <1>7 DEF RequestsDisjoint, OneOpenRequest, DirectoriesAccounted

LEMMA FilesRestart ==
    ASSUME DiskCurrent, FilesInv, Restart
    PROVE  FilesInv'
  <1> USE DEF FilesInv
  <1>1. artifacts' = artifacts /\ applies' = applies /\ forgotten' = Created
    BY DEF Restart, DiskCurrent, Created
  <1>2. \/ UNCHANGED <<directories, confirmedApplies>>
        \/ \E a \in ApplyIds \ forgotten, left \in Interrupted :
             /\ canConfirmApply(applies[a])
             /\ confirmedApplies' = confirmedApplies \cup {a}
             /\ directories' = [directories EXCEPT ![a] = left]
    BY DEF Restart
  <1>3. /\ directories' \in [ApplyIds -> {"none", "staging", "complete"}]
        /\ confirmedApplies' \subseteq ApplyIds
    BY <1>2 DEF ApplyInv, Interrupted
  <1>4. ApplyInv' /\ RequestsDisjoint' /\ OneOpenRequest'
    BY <1>1, <1>3, RequestsFrame DEF ApplyInv
  <1>5. DirectoriesAccounted'
    <2>1. \A a \in ApplyIds : directories'[a] = "complete" => a \in confirmedApplies' /\ a \in Created
      BY <1>2 DEF DirectoriesAccounted, ApplyInv, Created, canConfirmApply
    <2>2. \A a \in ApplyIds : applies[a].status = "applied" => a \in Created
      BY DEF Created
    <2> QED
      BY <1>1, <2>1, <2>2 DEF DirectoriesAccounted
  <1> QED
    BY <1>4, <1>5

LEMMA FilesKept ==
    ASSUME GoalInv, DiskCurrent, FilesInv, [Next]_vars
    PROVE  FilesInv'
  <1>1. ASSUME UNCHANGED <<artifacts, applyVars>> PROVE FilesInv'
    BY <1>1
    DEF applyVars, FilesInv, ApplyInv, RequestsDisjoint, OneOpenRequest, DirectoriesAccounted,
        Created
  <1>2. CASE ApplyCall
    <2>1. UNCHANGED artifacts
      BY <1>2 DEF ApplyCall, teamVars
    <2> QED
      BY <1>2, <2>1, CreateKeeps, ConfirmDiscardKeep DEF ApplyCall
  <1>3. CASE TeamCall
    <2>1. UNCHANGED applyVars
      BY <1>3 DEF TeamCall
    <2>2. \/ UNCHANGED artifacts
          \/ \E s \in Slots, files \in SUBSET Files : ArtifactRecord(s, files)
      BY <1>3 DEF TeamCall, TeamCreate, TeamApprove, TeamCancel, SlotAdvance
    <2> QED
      BY <1>1, <2>1, <2>2, ArtifactKeeps
  <1>4. CASE Restart
    BY <1>4, FilesRestart
  <1>5. CASE ~ApplyCall /\ ~TeamCall /\ ~Restart
    <2>1. UNCHANGED <<artifacts, applyVars>>
      BY <1>5
      DEF Next, vars, GoalCreate, GoalCall, GoalDerive, ReasoningCall, ProjectArchive,
          ProjectPatch, RolesCall, CheckCall, OtherPersists, othersVars, teamVars
    <2> QED
      BY <1>1, <2>1
  <1> QED
    BY <1>2, <1>3, <1>4, <1>5

\* The requests, their directories and the artifacts are as FilesInv says.
THEOREM AlwaysFilesInv == Spec => []FilesInv
  <1>1. Init => FilesInv
    <2> SUFFICES ASSUME Init PROVE FilesInv
      OBVIOUS
    <2>1. /\ artifacts = <<>> /\ applies = [a \in ApplyIds |-> AbsentApply]
          /\ directories = [a \in ApplyIds |-> "none"] /\ forgotten = {} /\ confirmedApplies = {}
      BY DEF Init
    <2>2. Created = {} /\ AbsentApply.status = "absent"
      BY <2>1 DEF Created, AbsentApply
    <2>3. AbsentApply \in Apply
      BY SlotAssumption, GenerationAssumption DEF AbsentApply, Apply, ApplyStatus, Slots
    <2>4. \E n \in 0..MaxApplies : Created = 1..n
      <3>1. 0 \in 0..MaxApplies /\ 1..0 = {}
        BY ControlAssumption
      <3> QED
        BY <2>2, <3>1
    <2> QED
      BY <2>1, <2>2, <2>3, <2>4
      DEF FilesInv, ApplyInv, RequestsDisjoint, OneOpenRequest, DirectoriesAccounted
  <1>2. GoalInv /\ DiskCurrent /\ FilesInv /\ [Next]_vars => FilesInv'
    BY FilesKept
  <1> QED
    BY <1>1, <1>2, AlwaysGoalInv, AlwaysDiskCurrent, PTL DEF Spec

\* No two directories were written from different artifacts that propose the
\* same file: the conflict report over all artifacts, which stay, admits none.
THEOREM DirectoriesNeverOverlap == Spec => []DirectoriesDisjoint
  <1>1. FilesInv => DirectoriesDisjoint
    BY DEF FilesInv, ApplyInv, RequestsDisjoint, DirectoriesAccounted, DirectoriesDisjoint, Created
  <1> QED
    BY <1>1, AlwaysFilesInv, PTL

\* What the server tells of a directory is so: applied means confirmed and
\* complete and is said of one request for a slot and plan step, and a complete
\* directory belongs to a request that says applied, that was discarded or that
\* a restart forgot, although writes and clean-ups fail and the server may stop
\* while it writes (workspace-apply-store.ts).
THEOREM DirectoriesConfirmed == Spec => []DirectoriesAccounted
  <1>1. FilesInv => DirectoriesAccounted
    BY DEF FilesInv
  <1> QED
    BY <1>1, AlwaysFilesInv, PTL

\* No path sorts between a directory and a path below it, except paths of the
\* directory and paths in whose own directory the lower one lies.
NothingBetween ==
    \A f, g \in Files : <<f, g>> \in Contains =>
        /\ f < g
        /\ \A h \in Files : (f < h /\ h < g) => (<<h, g>> \in BesideOf \/ <<f, h>> \in Contains)

\* Then the scan finds a directory conflict: going back from the first path
\* below the directory it comes to the directory.
LEMMA ScanFinds ==
    ASSUME NothingBetween, artifacts \in Seq(Artifact),
           NEW i \in DOMAIN artifacts, NEW j \in DOMAIN artifacts,
           NEW f \in artifacts[i].files, NEW g \in artifacts[j].files, <<f, g>> \in Contains
    PROVE  BelowAnother(artifacts)
  <1> DEFINE Below == {h \in Proposed(artifacts) : <<f, h>> \in Contains}
  <1>1. Proposed(artifacts) \subseteq Files
    <2>1. \A k \in DOMAIN artifacts : artifacts[k] \in Artifact
      OBVIOUS
    <2>2. \A k \in DOMAIN artifacts : artifacts[k].files \subseteq Files
      BY <2>1 DEF Artifact
    <2> QED
      BY <2>2 DEF Proposed
  <1>2. f \in Proposed(artifacts) /\ g \in Below
    BY DEF Proposed
  <1>3. Below \subseteq Nat
    BY <1>1, FileAssumption DEF Files
  <1>4. PICK first \in Below : \A h \in Below : first <= h
    BY <1>2, <1>3, LeastElement
  <1>5. ASSUME NEW h \in Proposed(artifacts), f < h, h < first
        PROVE  <<h, first>> \in BesideOf
    <2>1. f \in Files /\ h \in Files /\ first \in Files /\ <<f, first>> \in Contains
      BY <1>1, <1>2, <1>4
    <2>2. h \notin Below
      BY <1>4, <1>5, <2>1, FileAssumption DEF Files
    <2> QED
      BY <1>5, <2>1, <2>2 DEF NothingBetween
  <1> QED
    BY <1>2, <1>4, <1>5 DEF BelowAnother

\* The finding about the conflict report is no wider than that: while no path
\* comes in between, a team with a directory conflict makes no request.
THEOREM ReportCompleteWithoutBetween ==
    ASSUME NothingBetween
    PROVE  Spec => ConflictsBlockApply
  <1> DEFINE Conflict ==
               \E i, j \in DOMAIN artifacts :
                  i # j /\ \E f \in artifacts[i].files, g \in artifacts[j].files : <<f, g>> \in Contains
  <1> DEFINE Blocks ==
               Conflict => \A a \in ApplyIds : applies[a].status = "absent" => applies'[a].status = "absent"
  <1>1. FilesInv /\ [Next]_vars => [Blocks]_vars
    <2> SUFFICES ASSUME FilesInv, Next, Conflict, NEW a \in ApplyIds, applies[a].status = "absent"
                 PROVE  applies'[a].status = "absent"
      OBVIOUS
    <2>1. ~conflictFree(artifacts)
      BY ScanFinds DEF FilesInv, ApplyInv, conflictFree
    <2>2. applies \in [ApplyIds -> Apply]
      BY DEF FilesInv, ApplyInv
    <2>3. CASE ApplyCall
      <3>1. PICK b \in ApplyIds : ApplyConfirm(b) \/ ApplyDiscard(b)
        BY <2>1, <2>3 DEF ApplyCall, ApplyCreate
      <3>2. applies[b].status # "absent"
        BY <3>1 DEF ApplyConfirm, ApplyDiscard, canConfirmApply, canDiscard
      <3>3. \A c \in ApplyIds : c # b => applies'[c] = applies[c]
        BY <2>2, <3>1 DEF ApplyConfirm, ApplyDiscard
      <3> QED
        BY <3>2, <3>3
    <2>4. CASE ~ApplyCall
      <3>1. UNCHANGED applies
        BY <2>4
        DEF Next, GoalCreate, GoalCall, GoalDerive, ReasoningCall, ProjectArchive, TeamCall,
            ProjectPatch, RolesCall, CheckCall, OtherPersists, Restart, othersVars, applyVars
      <3> QED
        BY <3>1
    <2> QED
      BY <2>3, <2>4
  <1> QED
    BY <1>1, AlwaysFilesInv, PTL DEF Spec, ConflictsBlockApply

-----------------------------------------------------------------------------
(* Types.  What is left to say for TypeOK.                                 *)

LockedBound(bs) == \A p \in PlanIds : bs[p].locked => bs[p].content \in Bindings

RecordsTyped(rs) == rs \in Seq(Record) /\ Len(rs) <= RecordCap

MemoryTyped ==
    /\ LockedBound(bindings)
    /\ RecordsTyped(records)
    /\ project \in Project
    /\ Len(artifacts) <= MaxArtifacts
    /\ Len(preset) <= 1
    /\ Len(snapshots) <= MaxSnapshots

VolatileTyped ==
    /\ registry \in [EndpointIds -> EndpointStatus]
    /\ putting \in BOOLEAN
    /\ boundAt \in [Births -> 0..MaxSnapshots]

SnapshotTyped ==
    /\ LockedBound(disk.bindings)
    /\ RecordsTyped(disk.records)
    /\ disk.project \in Project
    /\ Len(disk.preset) <= 1

RestTyped == MemoryTyped /\ VolatileTyped /\ SnapshotTyped

LEMMA LockedBoundKept ==
    ASSUME GoalInv, LockedBound(bindings), Next, ~Restart
    PROVE  LockedBound(bindings')
  <1>1. current \in PlanIds /\ bindings \in [PlanIds -> Binding]
    BY DEF GoalInv, ExecutionInv, ExecutionTypeOK, GoalTypeOK
  <1>2. ASSUME UNCHANGED bindings PROVE LockedBound(bindings')
    BY <1>2
  <1>3. ASSUME NEW q \in PlanIds, NEW b \in Bindings, bindings' = [bindings EXCEPT ![q].content = b]
        PROVE  LockedBound(bindings')
    BY <1>1, <1>3 DEF LockedBound, Binding
  <1>4. CASE GoalCall
    <2>1. CASE Approve
      <3> DEFINE lock == bindings[current].locked \/ bindings[current].content # NoBinding
      <3>1. bindings' = [bindings EXCEPT ![current] = [bindings[current] EXCEPT !.locked = lock]]
        BY <1>1, <2>1 DEF Approve, ApprovePlan, Binding
      <3>2. bindings[current] \in Binding
        BY <1>1
      <3>3. lock => bindings[current].content \in Bindings
        BY <1>1, <3>2 DEF LockedBound, Binding
      <3>4. bindings'[current].content = bindings[current].content
            /\ (bindings'[current].locked => lock)
        BY <1>1, <3>1, <3>2 DEF Binding
      <3>5. \A p \in PlanIds : p # current => bindings'[p] = bindings[p]
        BY <1>1, <3>1
      <3> HIDE DEF lock
      <3> QED
        BY <3>3, <3>4, <3>5 DEF LockedBound
    <2>2. CASE GenerateAttach \/ GenerateStart \/ GenerateFails \/ PauseOrCancel
      BY <1>2, <2>2
      DEF GenerateAttach, AttachPlan, GenerateStart, GenerateFails, goalVars, PauseOrCancel,
          PausePlan, CancelGoal
    <2>3. ASSUME NEW q \in PlanIds, Bind(q) PROVE LockedBound(bindings')
      BY <1>3, <2>3 DEF Bind, SetBinding
    <2>4. CASE Advance \/ \E i \in StepIndexes : ApproveGate(i)
      BY <1>2, <2>4 DEF Advance, ApproveGate, Transition
    <2> QED
      BY <1>4, <2>1, <2>2, <2>3, <2>4 DEF GoalCall
  <1>5. ASSUME NEW parent \in PlanIds, NEW child \in PlanIds, GoalDerive(parent, child)
        PROVE  LockedBound(bindings')
    BY <1>2, <1>3, <1>5 DEF GoalDerive, Derive, DerivePlan, CommitBinding
  <1>6. CASE ~GoalCall /\ ~(\E parent, child \in PlanIds : GoalDerive(parent, child))
    <2>1. CASE ReasoningCall
      BY <1>2, <2>1
      DEF ReasoningCall, ReasoningSaved, ReasoningUnsaved, PlanFails, DraftPauses,
          EvidenceReturned, ReviewFailed, PauseCurrent, PausePlan, Ask, Retry, AskFails,
          DraftReturned, DraftRecorded, CritiqueArrives, goalVars
    <2>2. CASE ~ReasoningCall
      BY <1>2, <1>6, <2>2
      DEF Next, GoalCreate, CreateGoal, ProjectArchive, ProjectPatch, TeamCall, ApplyCall,
          RolesCall, CheckCall, OtherPersists, goalExecutionVars, goalVars
    <2> QED
      BY <2>1, <2>2
  <1> QED
    BY <1>4, <1>5, <1>6

LEMMA AddedTyped ==
    ASSUME RecordsTyped(records), NEW record \in Record
    PROVE  RecordsTyped(added(record))
  <1> DEFINE all == Append(records, record)
  <1>1. records \in Seq(Record) /\ Len(records) <= RecordCap /\ RecordCap \in Nat \ {0}
    BY CheckAssumption DEF RecordsTyped
  <1>2. all \in Seq(Record) /\ Len(all) = Len(records) + 1 /\ Len(records) \in Nat
    BY <1>1
  <1>3. Tail(all) \in Seq(Record) /\ Len(Tail(all)) = Len(records)
    BY <1>2
  <1> HIDE DEF all
  <1> QED
    BY <1>1, <1>2, <1>3 DEF added, RecordsTyped, all

LEMMA LadderTyped ==
    ASSUME NEW cr \in Signal, NEW st
    PROVE  mergeLadder(cr, st) \in VerificationResult
  <1> DEFINE order == <<"failed", "errored", "pending", "passed", "skipped", "none">>
  <1> DEFINE results == <<"failed", "errored", "unknown", "passed", "skipped", "unknown">>
  <1>1. DOMAIN order = 1..6
    OBVIOUS
  <1>2. /\ order[1] = "failed" /\ order[2] = "errored" /\ order[3] = "pending"
        /\ order[4] = "passed" /\ order[5] = "skipped" /\ order[6] = "none"
    OBVIOUS
  <1>3. \E i \in 1..6 : order[i] = cr
    <2> HIDE DEF order
    <2> QED
      BY <1>2 DEF Signal
  <1>4. \E i \in 1..6 : order[i] \in {cr, st}
    BY <1>3
  <1>5. firstOf(order, {cr, st}) \in 1..6
    <2> HIDE DEF order
    <2> QED
      BY <1>1, <1>4, FirstOfFacts
  <1>6. \A i \in 1..6 : results[i] \in VerificationResult
    BY DEF VerificationResult
  <1> QED
    BY <1>5, <1>6 DEF mergeLadder

LEMMA RecordsKept ==
    ASSUME CheckInv, RecordsTyped(records), Next, ~Restart
    PROVE  RecordsTyped(records')
  <1>1. CASE UNCHANGED records
    BY <1>1
  <1>2. ASSUME NEW c \in Calls, VerifyLocked(c) \/ FetchLocked(c) PROVE RecordsTyped(records')
    <2>1. \E profile \in {"profile", "github-checks"} :
            records' = added([profile |-> profile, result |-> "errored"])
      BY <1>2 DEF VerifyLocked, FetchLocked
    <2> QED
      BY <2>1, AddedTyped DEF Record, VerificationResult
  <1>3. ASSUME NEW c \in Calls, VerifyEnds(c) PROVE RecordsTyped(records')
    <2> PICK result \in exitResults : records' = added([profile |-> "profile", result |-> result])
      BY <1>3 DEF VerifyEnds
    <2>1. result \in VerificationResult
      BY DEF exitResults, VerificationResult
    <2> QED
      BY <2>1, AddedTyped DEF Record
  <1>4. ASSUME NEW c \in Calls, FetchEnds(c) PROVE RecordsTyped(records')
    <2> PICK signal \in StatusSignals :
          records' = added([profile |-> "github-checks",
                            result |-> mergeLadder(fetching[c].checkRuns, signal)])
      BY <1>4 DEF FetchEnds
    <2>1. fetching[c].checkRuns \in Signal
      BY DEF CheckInv, Fetch
    <2>2. mergeLadder(fetching[c].checkRuns, signal) \in VerificationResult
      BY <2>1, LadderTyped
    <2> QED
      BY <2>2, AddedTyped DEF Record
  <1>5. CASE CheckCall
    BY <1>1, <1>2, <1>3, <1>4, <1>5
    DEF CheckCall, VerifyCalls, FetchCalls, VerifyAsked, VerifyRefused, VerifyThrows, VerifyRun, CommandSteps,
        FetchAsked, NoBranch, FetchRuns, FetchRetry, FetchStatus
  <1>6. CASE ~CheckCall
    <2>1. UNCHANGED checkVars
      BY <1>6
      DEF Next, GoalCreate, GoalCall, GoalDerive, ReasoningCall, ProjectArchive, ProjectPatch,
          TeamCall, ApplyCall, RolesCall, OtherPersists, othersVars
    <2> QED
      BY <1>1, <2>1 DEF checkVars
  <1> QED
    BY <1>5, <1>6

\* Projects, presets and the bounded lists.
LEMMA ListsKept ==
    ASSUME GoalInv, VersionInv, FilesInv, RestTyped, Next, ~Restart
    PROVE  /\ project' \in Project /\ Len(artifacts') <= MaxArtifacts
           /\ Len(preset') <= 1 /\ Len(snapshots') <= MaxSnapshots
  <1> /\ MaxSnapshots \in Nat \ {0} /\ MaxArtifacts \in Nat
      /\ snapshots \in Seq(Roles) /\ preset \in Seq(Roles)
    BY ControlAssumption DEF VersionInv
  <1>0. artifacts \in Seq(Artifact)
    BY DEF FilesInv, ApplyInv
  <1>1. project' \in Project
    <2>1. CASE ProjectArchive \/ ProjectPatch
      BY <2>1 DEF ProjectArchive, ProjectPatch, Project, RestTyped, MemoryTyped
    <2>2. CASE ~ProjectArchive /\ ~ProjectPatch
      BY <2>2
      DEF Next, GoalCreate, GoalCall, GoalDerive, ReasoningCall, TeamCall, ApplyCall, RolesCall,
          CheckCall, OtherPersists, othersVars, RestTyped, MemoryTyped
    <2> QED
      BY <2>1, <2>2
  <1>2. Len(preset') <= 1
    <2>1. CASE RolesCall
      <3>1. preset' = preset \/ preset' = <<>> \/ \E roles \in Roles : preset' = <<roles>>
        BY <2>1
        DEF RolesCall, EndpointCall, PresetStart, PresetPut, PresetRefused, PresetDelete, Rebind
      <3>2. ASSUME preset' = preset PROVE Len(preset') <= 1
        BY <3>2 DEF RestTyped, MemoryTyped
      <3>3. ASSUME NEW roles \in Roles, preset' = <<roles>> PROVE Len(preset') <= 1
        BY <3>3
      <3>4. ASSUME preset' = <<>> PROVE Len(preset') <= 1
        <4>1. Len(preset') = 0
          BY <3>4
        <4> QED
          BY <4>1
      <3> QED
        BY <3>1, <3>2, <3>3, <3>4
    <2>2. CASE ~RolesCall
      BY <2>2
      DEF Next, GoalCreate, GoalCall, GoalDerive, ReasoningCall, ProjectArchive, ProjectPatch,
          TeamCall, ApplyCall, CheckCall, OtherPersists, othersVars, bindVars, RestTyped,
          MemoryTyped
    <2> QED
      BY <2>1, <2>2
  <1>3. Len(snapshots') <= MaxSnapshots
    <2>1. snapshots' # snapshots => \/ snapshots' = preset
                                    \/ Rebind
      <3>1. CASE GoalCreate
        BY <3>1 DEF GoalCreate
      <3>2. CASE RolesCall
        BY <3>2
        DEF RolesCall, EndpointCall, PresetStart, PresetPut, PresetRefused, PresetDelete
      <3>3. CASE ~GoalCreate /\ ~RolesCall
        BY <3>3
        DEF Next, GoalCall, GoalDerive, ReasoningCall, ProjectArchive, ProjectPatch, TeamCall,
            ApplyCall, CheckCall, OtherPersists, othersVars, bindVars
      <3> QED
        BY <3>1, <3>2, <3>3
    <2>2. CASE Rebind
      <3>1. Len(snapshots) < MaxSnapshots /\ \E roles \in Roles : snapshots' = Append(snapshots, roles)
        BY <2>2 DEF Rebind, NewVersion
      <3> QED
        BY <3>1
    <2>3. Len(preset) \in Nat /\ Len(preset) <= 1 /\ Len(snapshots) <= MaxSnapshots
      BY DEF RestTyped, MemoryTyped
    <2> QED
      BY <2>1, <2>2, <2>3
  <1>4. Len(artifacts') <= MaxArtifacts
    <2>1. artifacts' # artifacts =>
            \E s \in Slots, files \in SUBSET Files : ArtifactRecord(s, files)
      <3>1. CASE TeamCall
        BY <3>1 DEF TeamCall, TeamCreate, TeamApprove, TeamCancel, SlotAdvance
      <3>2. CASE ~TeamCall
        BY <3>2
        DEF Next, GoalCreate, GoalCall, GoalDerive, ReasoningCall, ProjectArchive, ProjectPatch,
            ApplyCall, RolesCall, CheckCall, OtherPersists, othersVars, teamVars
      <3> QED
        BY <3>1, <3>2
    <2>2. ASSUME NEW artifact, artifacts' = Append(artifacts, artifact), Len(artifacts) < MaxArtifacts
          PROVE  Len(artifacts') <= MaxArtifacts
      <3>1. Len(artifacts') = Len(artifacts) + 1 /\ Len(artifacts) \in Nat
        BY <1>0, <2>2
      <3> QED
        BY <2>2, <3>1
    <2> QED
      BY <2>1, <2>2 DEF ArtifactRecord, RestTyped, MemoryTyped
  <1> QED
    BY <1>1, <1>2, <1>3, <1>4

LEMMA VolatileKept ==
    ASSUME GoalInv, VersionInv, RestTyped, Next
    PROVE  VolatileTyped'
  <1>1. /\ registry \in [EndpointIds -> EndpointStatus] /\ putting \in BOOLEAN
        /\ boundAt \in [Births -> 0..MaxSnapshots]
    BY DEF RestTyped, VolatileTyped
  <1>2. CASE Restart
    BY <1>1, <1>2 DEF Restart, VolatileTyped, initialRegistry, EndpointStatus
  <1>3. CASE RolesCall
    <2>1. registry' \in [EndpointIds -> EndpointStatus]
      BY <1>1, <1>3
      DEF RolesCall, EndpointCall, register, offline, EndpointStatus, PresetStart, PresetPut,
          PresetRefused, PresetDelete, Rebind
    <2>2. putting' \in BOOLEAN
      BY <1>1, <1>3
      DEF RolesCall, EndpointCall, PresetStart, PresetPut, PresetRefused, PresetDelete, Rebind
    <2> QED
      BY <1>1, <1>3, <2>1, <2>2 DEF RolesCall, watchVars, VolatileTyped
  <1>4. CASE ~Restart /\ ~RolesCall
    <2>1. UNCHANGED <<registry, putting>>
      BY <1>4
      DEF Next, GoalCreate, GoalCall, GoalDerive, ReasoningCall, ProjectArchive, ProjectPatch,
          TeamCall, ApplyCall, CheckCall, OtherPersists, othersVars, bindVars, watchVars
    <2>2. boundAt' = boundAt \/ PlanApproved
      <3>1. CASE GoalCreate
        BY <3>1 DEF GoalCreate, watchVars
      <3> QED
        BY <1>4, PlanMoves DEF PlanMade, PlanNotStarted
    <2>3. Len(snapshots) \in 0..MaxSnapshots
      BY ControlAssumption DEF VersionInv, RestTyped, MemoryTyped
    <2>4. boundAt' \in [Births -> 0..MaxSnapshots]
      BY <1>1, <2>2, <2>3 DEF PlanApproved
    <2> QED
      BY <1>1, <2>1, <2>4 DEF VolatileTyped
  <1> QED
    BY <1>2, <1>3, <1>4

LEMMA RestKept ==
    ASSUME GoalInv, DiskCurrent, VersionInv, CheckInv, FilesInv, RestTyped, [Next]_vars
    PROVE  RestTyped'
  <1>1. CASE UNCHANGED vars
    BY <1>1
    DEF vars, goalExecutionVars, goalVars, checkVars, teamVars, bindVars, watchVars, RestTyped,
        MemoryTyped, VolatileTyped, SnapshotTyped, LockedBound, RecordsTyped
  <1>2. CASE Next /\ ~Restart
    <2>1. MemoryTyped'
      BY <1>2, ListsKept, RecordsKept, LockedBoundKept DEF RestTyped, MemoryTyped, LockedBound, RecordsTyped
    <2>2. CASE Persist
      <3>1. disk'.bindings = bindings' /\ disk'.records = records' /\ disk'.project = project'
            /\ disk'.preset = preset'
        BY <2>2 DEF Persist, Saved
      <3>2. SnapshotTyped'
        BY <2>1, <3>1 DEF MemoryTyped, SnapshotTyped, LockedBound, RecordsTyped
      <3> QED
        BY <1>2, <2>1, <3>2, VolatileKept DEF RestTyped
    <2>3. CASE disk' = disk
      <3>1. SnapshotTyped'
        BY <2>3 DEF RestTyped, SnapshotTyped, LockedBound, RecordsTyped
      <3> QED
        BY <1>2, <2>1, <3>1, VolatileKept DEF RestTyped
    <2> QED
      BY <1>2, <2>2, <2>3, PersistsOrLeaves
  <1>3. CASE Restart
    <2>1. /\ bindings' = disk.bindings /\ records' = disk.records /\ project' = disk.project
          /\ artifacts' = artifacts /\ preset' = disk.preset /\ snapshots' = snapshots
          /\ disk' = disk
      BY <1>3 DEF Restart, DiskCurrent
    <2>2. MemoryTyped' /\ SnapshotTyped'
      BY <2>1 DEF RestTyped, MemoryTyped, SnapshotTyped, LockedBound, RecordsTyped
    <2>3. VolatileTyped'
      BY <1>3, VolatileKept DEF Next
    <2> QED
      BY <2>2, <2>3 DEF RestTyped
  <1> QED
    BY <1>1, <1>2, <1>3

LEMMA RestInit == Init => RestTyped
  <1> SUFFICES ASSUME Init PROVE RestTyped
    OBVIOUS
  <1>1. /\ project = [archived |-> FALSE, applyEnabled |-> FALSE] /\ artifacts = <<>>
        /\ preset = <<>> /\ snapshots = <<>> /\ records = <<>> /\ registry = initialRegistry
        /\ putting = FALSE /\ boundAt = [n \in Births |-> 0]
        /\ bindings = [p \in PlanIds |-> [content |-> NoBinding, locked |-> FALSE]]
    BY DEF Init, ExecutionInit, NoGoal, ChecksInit
  <1>2. disk.bindings = bindings /\ disk.records = records /\ disk.project = project
        /\ disk.preset = preset
    BY DEF Init, Saved
  <1>3. LockedBound(bindings) /\ RecordsTyped(records) /\ project \in Project
    BY <1>1, CheckAssumption DEF LockedBound, RecordsTyped, Project
  <1>4. MemoryTyped
    BY <1>1, <1>3, ControlAssumption DEF MemoryTyped
  <1>5. VolatileTyped
    <2>1. 0 \in 0..MaxSnapshots
      BY ControlAssumption
    <2>2. initialRegistry \in [EndpointIds -> EndpointStatus]
      BY DEF initialRegistry, EndpointStatus
    <2> QED
      BY <1>1, <2>1, <2>2 DEF VolatileTyped
  <1>6. SnapshotTyped
    BY <1>1, <1>2, <1>3 DEF SnapshotTyped
  <1> QED
    BY <1>4, <1>5, <1>6 DEF RestTyped

\* The goal, the team, its files, endpoints, evidence and checks keep their
\* types, and the lists their limits, also what a restart brings back.
THEOREM TypeCorrect == Spec => []TypeOK
  <1>1. /\ GoalInv /\ DiskCurrent /\ VersionInv /\ CheckInv /\ FilesInv
        /\ RestTyped /\ [Next]_vars
        => RestTyped'
    BY RestKept
  <1>2. ASSUME GoalInv, VersionInv, LatestInv, EvidenceInv, TeamInv, CheckInv, FilesInv, RestTyped
        PROVE  TypeOK
    <2> USE <1>2
    <2>1. ExecutionTypeOK
      BY DEF GoalInv, ExecutionInv
    <2>2. ReasoningTypeOK
      <3>1. ASSUME NEW artifact \in evidence
            PROVE  artifact \in [plan : PlanIds, content : Bindings]
        <4>1. artifact \in Evidence
              /\ bindings[artifact.plan] = [content |-> artifact.content, locked |-> TRUE]
          BY <3>1 DEF EvidenceInv, EvidenceMatchesBinding
        <4>2. bindings[artifact.plan].locked /\ bindings[artifact.plan].content = artifact.content
          BY <4>1
        <4>3. artifact.content \in Bindings
          BY <4>1, <4>2 DEF Evidence, RestTyped, MemoryTyped, LockedBound
        <4> QED
          BY <4>1, <4>3 DEF Evidence
      <3> QED
        BY <3>1 DEF ReasoningTypeOK, EvidenceInv
    <2>3. ChecksTypeOK
      BY DEF ChecksTypeOK, CheckInv, RestTyped, MemoryTyped, RecordsTyped
    <2>4. \A i \in DOMAIN artifacts : artifacts[i] \in Artifact
      BY DEF FilesInv, ApplyInv
    <2>5. /\ \A v \in DOMAIN preset : preset[v] \in Roles
          /\ \A v \in DOMAIN snapshots : snapshots[v] \in Roles
      BY DEF VersionInv
    <2>6. forgotten \subseteq ApplyIds
      BY DEF FilesInv, ApplyInv, Created
    <2> QED
      BY <2>1, <2>2, <2>3, <2>4, <2>5, <2>6
      DEF TypeOK, RestTyped, MemoryTyped, VolatileTyped, TeamInv, FilesInv, ApplyInv, LatestInv
  <1> QED
    BY <1>1, <1>2, RestInit, AlwaysGoalInv, AlwaysDiskCurrent, AlwaysVersionInv, AlwaysFilesInv,
       AlwaysLatestInv, AlwaysEvidenceInv, AlwaysTeamInv, AlwaysCheckInv, PTL
    DEF Spec
=============================================================================
