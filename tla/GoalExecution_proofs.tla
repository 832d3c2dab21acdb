------------------------ MODULE GoalExecution_proofs ------------------------
(***************************************************************************)
(* Proofs about the goal, its plans and their steps in ControlPlane, for   *)
(* any number of plans, derivations, generations and steps, and any        *)
(* clients of the other parts: nothing runs that was not approved, a step  *)
(* runs once, and a late answer of the planner plans nothing.              *)
(***************************************************************************)
EXTENDS ControlPlane, WellFoundedInduction, TLAPS

-----------------------------------------------------------------------------
(* The inductive invariant.  It speaks of the plans in memory and of those *)
(* on disk, which a restart brings back, against what was observed: births,*)
(* approvals and completed steps.                                          *)

\* A plan that is there has a birth of its own, and the goal is past its draft.
BornOnce(g, pl, bi) ==
    /\ \A p \in PlanIds : bi[p] <= births /\ (pl[p] = "absent" <=> bi[p] = 0)
    /\ \A p, q \in PlanIds : p # q /\ bi[p] = bi[q] => bi[p] = 0
    /\ g \in {"absent", "draft"} => \A p \in PlanIds : pl[p] = "absent"

\* What a step's status says of approvals.
StepApproved(pl, bi, st, mu, pe) ==
    \A p \in PlanIds :
        /\ pl[p] \in {"approved", "executing"} => bi[p] \in granted
        /\ pl[p] = "absent" => \A i \in StepIndexes : st[p][i] = "pending"
        /\ \A i \in StepIndexes :
             /\ st[p][i] # "pending" => bi[p] \in granted
             /\ st[p][i] = "gated-approved" => <<bi[p], i>> \in gated
             /\ (st[p][i] = "done" /\ i \in mu) =>
                   <<bi[p], i>> \in gated /\ "workspace-write" \in pe

\* A step ran if and only if its status says so.
RunsRecorded(bi, st) ==
    \A p \in PlanIds, i \in StepIndexes :
        bi[p] # 0 => runs[<<bi[p], i>>] = IF st[p][i] = "done" THEN 1 ELSE 0

MemoryAccounted ==
    /\ BornOnce(goal, plans, birth)
    /\ StepApproved(plans, birth, steps, mutating, permitted)
    /\ RunsRecorded(birth, steps)

\* Births not given yet have not run.
FutureUnrun == \A s \in StepIds : s[1] > births => runs[s] = 0

ExecutionInv == ExecutionTypeOK /\ MemoryAccounted /\ FutureUnrun /\ StepsRunOnce

DiskTyped ==
    /\ disk.goal \in GoalStatus
    /\ disk.plans \in [PlanIds -> PlanStatus]
    /\ disk.bindings \in [PlanIds -> Binding]
    /\ disk.birth \in [PlanIds -> 0..MaxBirths]
    /\ disk.mutating \subseteq StepIndexes
    /\ disk.permitted \subseteq Tiers
    /\ disk.steps \in [PlanIds -> [StepIndexes -> StepStatus]]

DiskInv ==
    /\ DiskTyped
    /\ BornOnce(disk.goal, disk.plans, disk.birth)
    /\ StepApproved(disk.plans, disk.birth, disk.steps, disk.mutating, disk.permitted)
    /\ RunsRecorded(disk.birth, disk.steps)

-----------------------------------------------------------------------------
(* Saving, and leaving alone.                                              *)

LEMMA SavedDiskInv ==
    ASSUME ExecutionInv', Persist
    PROVE  DiskInv'
  <1>1. /\ disk'.goal = goal' /\ disk'.plans = plans' /\ disk'.bindings = bindings'
        /\ disk'.birth = birth' /\ disk'.mutating = mutating'
        /\ disk'.permitted = permitted' /\ disk'.steps = steps'
    BY DEF Persist, Saved
  <1>2. DiskTyped'
    BY <1>1 DEF DiskTyped, ExecutionInv, ExecutionTypeOK, GoalTypeOK
  <1> QED
    BY <1>1, <1>2 DEF DiskInv, ExecutionInv, MemoryAccounted, BornOnce, StepApproved, RunsRecorded

LEMMA UnsavedDiskInv ==
    ASSUME DiskInv, ExecutionInv, UNCHANGED <<disk, runs>>,
           births' \in Nat, births <= births', granted \subseteq granted', gated \subseteq gated'
    PROVE  DiskInv'
  <1>1. births \in Nat /\ disk.birth \in [PlanIds -> 0..MaxBirths] /\ MaxBirths \in Nat
    BY GenerationAssumption DEF ExecutionInv, ExecutionTypeOK, DiskInv, DiskTyped
  <1>2. DiskTyped' /\ RunsRecorded(disk.birth, disk.steps)'
    BY DEF DiskInv, DiskTyped, RunsRecorded
  <1>3. BornOnce(disk.goal, disk.plans, disk.birth)'
    BY <1>1 DEF DiskInv, BornOnce
  <1>4. StepApproved(disk.plans, disk.birth, disk.steps, disk.mutating, disk.permitted)'
    BY DEF DiskInv, StepApproved
  <1> QED
    BY <1>2, <1>3, <1>4 DEF DiskInv

LEMMA ExecutionFrame ==
    ASSUME ExecutionInv, UNCHANGED goalExecutionVars
    PROVE  ExecutionInv'
  BY DEF ExecutionInv, goalExecutionVars, goalVars, stepVars, observedSteps, ExecutionTypeOK,
         GoalTypeOK, MemoryAccounted, BornOnce, StepApproved, RunsRecorded, FutureUnrun, StepsRunOnce

-----------------------------------------------------------------------------
(* The goal's own actions.                                                 *)

LEMMA ParsedFacts ==
    ASSUME NEW plan \in Parsed
    PROVE  plan.mutating \subseteq StepIndexes /\ plan.permitted \subseteq Tiers
  <1> PICK x \in Answers \X GivenTiers :
         parses(x[1], x[2]) /\ plan = [mutating |-> mutatingSteps(x[1]),
                                       permitted |-> callerTiers(x[2])]
    BY DEF Parsed
  <1>1. plan.mutating \subseteq StepIndexes
    BY DEF parses, mutatingSteps
  <1>2. callerTiers(x[2]) \subseteq Tiers
    BY DEF callerTiers, GivenTiers, Tiers
  <1> QED
    BY <1>1, <1>2

LEMMA CreateGoalKeeps ==
    ASSUME ExecutionInv, CreateGoal
    PROVE  ExecutionInv'
  BY DEF ExecutionInv, CreateGoal, stepVars, observedSteps, ExecutionTypeOK, GoalTypeOK, GoalStatus,
         MemoryAccounted, BornOnce, StepApproved, RunsRecorded, FutureUnrun, StepsRunOnce

\* Only the number of generations changes.
LEMMA GenerateKeeps ==
    ASSUME ExecutionInv, GenerateStart \/ GenerateFails
    PROVE  ExecutionInv'
  BY GenerationAssumption
  DEF ExecutionInv, GenerateStart, GenerateFails, goalVars, stepVars, observedSteps, ExecutionTypeOK,
      GoalTypeOK, MemoryAccounted, BornOnce, StepApproved, RunsRecorded, FutureUnrun, StepsRunOnce

\* A status or a binding changes: no plan comes, goes, or is set running.
LEMMA StatusFrame ==
    ASSUME ExecutionInv,
           goal' \in GoalStatus \ {"absent", "draft"} \/ goal' = goal,
           plans' \in [PlanIds -> PlanStatus],
           \A p \in PlanIds :
              plans'[p] # plans[p] => plans[p] # "absent" /\ plans'[p] \in {"paused", "cancelled"},
           current' = current, bindings' \in [PlanIds -> Binding],
           UNCHANGED <<births, stepVars, generating, observedSteps>>
    PROVE  ExecutionInv'
  <1> USE DEF ExecutionInv, stepVars, observedSteps
  <1>1. ExecutionTypeOK'
    BY DEF ExecutionTypeOK, GoalTypeOK
  <1>2. MemoryAccounted'
    BY DEF MemoryAccounted, BornOnce, StepApproved, RunsRecorded
  <1>3. FutureUnrun' /\ StepsRunOnce'
    BY DEF FutureUnrun, StepsRunOnce
  <1> QED
    BY <1>1, <1>2, <1>3

LEMMA PauseCancelKeeps ==
    ASSUME ExecutionInv, PausePlan \/ CancelGoal,
           UNCHANGED <<births, stepVars, generating, observedSteps>>
    PROVE  ExecutionInv'
  <1>1. goal' \in {"paused", "cancelled"} /\ current' = current /\ bindings' = bindings
    BY DEF PausePlan, CancelGoal
  <1>2. /\ current \in PlanIds /\ plans \in [PlanIds -> PlanStatus]
        /\ bindings \in [PlanIds -> Binding]
    BY DEF ExecutionInv, ExecutionTypeOK, GoalTypeOK
  <1>3. /\ plans' \in [PlanIds -> PlanStatus]
        /\ \A p \in PlanIds : plans'[p] # plans[p] =>
              plans[p] # "absent" /\ plans'[p] \in {"paused", "cancelled"}
    BY <1>2 DEF PausePlan, CancelGoal, PlanStatus
  <1>4. goal' \in GoalStatus \ {"absent", "draft"}
    BY <1>1 DEF GoalStatus
  <1> QED
    BY <1>1, <1>2, <1>3, <1>4, StatusFrame

LEMMA BindKeeps ==
    ASSUME ExecutionInv, NEW p \in PlanIds, Bind(p)
    PROVE  ExecutionInv'
  <1>1. bindings' \in [PlanIds -> Binding]
    <2> PICK b \in Bindings : bindings' = [bindings EXCEPT ![p].content = b]
      BY DEF Bind, SetBinding
    <2>1. bindings[p] \in Binding /\ bindings \in [PlanIds -> Binding]
      BY DEF ExecutionInv, ExecutionTypeOK, GoalTypeOK
    <2>2. [bindings[p] EXCEPT !.content = b] \in Binding
      BY <2>1 DEF Binding
    <2> QED
      BY <2>1, <2>2
  <1>2. /\ UNCHANGED <<goal, plans, current>> /\ plans \in [PlanIds -> PlanStatus]
        /\ UNCHANGED <<births, stepVars, generating, observedSteps>>
    BY DEF Bind, SetBinding, ExecutionInv, ExecutionTypeOK, GoalTypeOK
  <1> QED
    BY <1>1, <1>2, StatusFrame

LEMMA ApproveKeeps ==
    ASSUME ExecutionInv, Approve
    PROVE  ExecutionInv'
  <1> USE DEF ExecutionInv
  <1> DEFINE b == birth[current]
  <1>1. /\ current \in PlanIds /\ b \in Births
        /\ plans \in [PlanIds -> PlanStatus] /\ bindings \in [PlanIds -> Binding]
    <2>1. current \in PlanIds /\ birth \in [PlanIds -> 0..MaxBirths]
          /\ plans \in [PlanIds -> PlanStatus] /\ bindings \in [PlanIds -> Binding]
      BY DEF ExecutionTypeOK, GoalTypeOK
    <2>2. birth[current] # 0
      BY <2>1 DEF MemoryAccounted, BornOnce, Approve, ApprovePlan
    <2> QED
      BY <2>1, <2>2, GenerationAssumption DEF Births
  <1>2. /\ UNCHANGED <<current, births, birth, mutating, permitted, steps, generating, gated, runs>>
        /\ granted' = granted \cup {b}
        /\ goal' = "approved"
        /\ plans[current] = "awaiting-approval"
        /\ plans' = [plans EXCEPT ![current] = "approved"]
    BY DEF Approve, ApprovePlan, stepVars
  <1>3. bindings' \in [PlanIds -> Binding]
    <2> DEFINE lock == bindings[current].locked \/ bindings[current].content # NoBinding
    <2>1. bindings[current] \in Binding /\ lock \in BOOLEAN
      BY <1>1 DEF Binding
    <2>2. [bindings[current] EXCEPT !.locked = lock] \in Binding
      BY <2>1 DEF Binding
    <2>3. bindings' = [bindings EXCEPT ![current] = [bindings[current] EXCEPT !.locked = lock]]
      BY <1>1, <2>1 DEF Approve, ApprovePlan, Binding
    <2> QED
      BY <1>1, <2>2, <2>3
  <1>4. ExecutionTypeOK'
    BY <1>1, <1>2, <1>3 DEF ExecutionTypeOK, GoalTypeOK, GoalStatus, PlanStatus
  <1>5. BornOnce(goal, plans, birth)'
    BY <1>1, <1>2 DEF MemoryAccounted, BornOnce
  <1>6. StepApproved(plans, birth, steps, mutating, permitted)'
    BY <1>1, <1>2 DEF MemoryAccounted, StepApproved
  <1>7. RunsRecorded(birth, steps)' /\ FutureUnrun' /\ StepsRunOnce'
    BY <1>2 DEF MemoryAccounted, RunsRecorded, FutureUnrun, StepsRunOnce
  <1> QED
    BY <1>4, <1>5, <1>6, <1>7 DEF MemoryAccounted

\* A plan is stored under p, with a new birth and steps that have not run.
LEMMA NewPlanKeeps ==
    ASSUME ExecutionInv, NEW p \in PlanIds, NewSteps(p),
           plans' = [plans EXCEPT ![p] = "awaiting-approval"], goal' = "planned",
           current' = p, bindings' \in [PlanIds -> Binding],
           mutating' \subseteq StepIndexes, permitted' \subseteq Tiers,
           UNCHANGED <<mutating, permitted>> \/ \A q \in PlanIds : plans[q] = "absent",
           generating' \in 0..MaxGenerations, UNCHANGED observedSteps
    PROVE  ExecutionInv'
  <1> USE DEF ExecutionInv
  <1> DEFINE new == births + 1
  <1>1. /\ births \in 0..MaxBirths /\ MaxBirths \in Nat /\ births < MaxBirths
        /\ births' = new /\ new \in Births
        /\ birth' = [birth EXCEPT ![p] = new] /\ birth \in [PlanIds -> 0..MaxBirths]
        /\ steps' = [steps EXCEPT ![p] = [i \in StepIndexes |-> "pending"]]
        /\ steps \in [PlanIds -> [StepIndexes -> StepStatus]]
        /\ plans \in [PlanIds -> PlanStatus]
        /\ granted' = granted /\ gated' = gated /\ runs' = runs
    BY GenerationAssumption DEF NewSteps, ExecutionTypeOK, GoalTypeOK, observedSteps, Births
  <1>2. ExecutionTypeOK'
    <2>1. [i \in StepIndexes |-> "pending"] \in [StepIndexes -> StepStatus]
      BY DEF StepStatus
    <2> QED
      BY <1>1, <2>1 DEF ExecutionTypeOK, GoalTypeOK, GoalStatus, PlanStatus, Births
  <1>3. \A q \in PlanIds : birth[q] <= births /\ birth[q] \in Nat
    BY <1>1 DEF MemoryAccounted, BornOnce
  <1>4. BornOnce(goal, plans, birth)'
    BY <1>1, <1>3 DEF MemoryAccounted, BornOnce
  <1>5. StepApproved(plans, birth, steps, mutating, permitted)'
    <2>1. ASSUME NEW q \in PlanIds, q # p
          PROVE  /\ plans'[q] \in {"approved", "executing"} => birth'[q] \in granted'
                 /\ plans'[q] = "absent" => \A i \in StepIndexes : steps'[q][i] = "pending"
                 /\ \A i \in StepIndexes :
                      /\ steps'[q][i] # "pending" => birth'[q] \in granted'
                      /\ steps'[q][i] = "gated-approved" => <<birth'[q], i>> \in gated'
                      /\ (steps'[q][i] = "done" /\ i \in mutating') =>
                           <<birth'[q], i>> \in gated' /\ "workspace-write" \in permitted'
      <3>1. plans'[q] = plans[q] /\ birth'[q] = birth[q] /\ steps'[q] = steps[q]
        BY <1>1, <2>1
      <3> QED
        BY <1>1, <3>1 DEF MemoryAccounted, StepApproved
    <2>2. /\ plans'[p] = "awaiting-approval"
          /\ \A i \in StepIndexes : steps'[p][i] = "pending"
      BY <1>1
    <2> QED
      BY <2>1, <2>2 DEF StepApproved
  <1>6. RunsRecorded(birth, steps)'
    <2>1. \A i \in StepIndexes : <<new, i>> \in StepIds /\ runs[<<new, i>>] = 0
      BY <1>1 DEF FutureUnrun, StepIds
    <2>2. \A q \in PlanIds : birth'[q] = IF q = p THEN new ELSE birth[q]
      BY <1>1
    <2>3. \A q \in PlanIds : q # p => steps'[q] = steps[q]
      BY <1>1
    <2>4. \A i \in StepIndexes : steps'[p][i] = "pending"
      BY <1>1
    <2> QED
      BY <1>1, <2>1, <2>2, <2>3, <2>4 DEF MemoryAccounted, RunsRecorded
  <1>7. FutureUnrun' /\ StepsRunOnce'
    BY <1>1 DEF FutureUnrun, StepsRunOnce, StepIds, Births
  <1> QED
    BY <1>2, <1>4, <1>5, <1>6, <1>7 DEF MemoryAccounted

LEMMA AttachKeeps ==
    ASSUME ExecutionInv, GenerateAttach
    PROVE  ExecutionInv'
  <1> PICK plan \in Parsed : mutating' = plan.mutating /\ permitted' = plan.permitted
    BY DEF GenerateAttach
  <1>1. mutating' \subseteq StepIndexes /\ permitted' \subseteq Tiers
    BY ParsedFacts
  <1>2. 1 \in PlanIds
    BY GoalAssumption DEF PlanIds
  <1>3. bindings' \in [PlanIds -> Binding] /\ generating' \in 0..MaxGenerations
    BY GenerationAssumption
    DEF GenerateAttach, AttachPlan, ExecutionInv, ExecutionTypeOK, GoalTypeOK
  <1>4. \A q \in PlanIds : plans[q] = "absent"
    BY DEF GenerateAttach, AttachPlan, ExecutionInv, MemoryAccounted, BornOnce
  <1> QED
    BY <1>1, <1>2, <1>3, <1>4, NewPlanKeeps DEF GenerateAttach, AttachPlan

LEMMA DeriveKeeps ==
    ASSUME ExecutionInv, NEW parent \in PlanIds, NEW child \in PlanIds, Derive(parent, child)
    PROVE  ExecutionInv'
  <1>1. bindings \in [PlanIds -> Binding] /\ mutating \subseteq StepIndexes
        /\ permitted \subseteq Tiers /\ generating \in 0..MaxGenerations
    BY DEF ExecutionInv, ExecutionTypeOK, GoalTypeOK
  <1>2. bindings' \in [PlanIds -> Binding]
    <2>1. CASE bindings[child].locked
      BY <1>1, <2>1 DEF Derive, DerivePlan, CommitBinding
    <2>2. CASE ~bindings[child].locked
      <3> PICK b \in Bindings : bindings' = [bindings EXCEPT ![child].content = b]
        BY <2>2 DEF Derive, DerivePlan, CommitBinding
      <3>1. [bindings[child] EXCEPT !.content = b] \in Binding
        BY <1>1 DEF Binding
      <3> QED
        BY <1>1, <3>1
    <2> QED
      BY <2>1, <2>2
  <1> QED
    BY <1>1, <1>2, NewPlanKeeps DEF Derive, DerivePlan, DeriveSteps

\* A step of the running plan changes its status.
LEMMA TransitionKeeps ==
    ASSUME ExecutionInv, NEW i \in StepIndexes, NEW status \in StepStatus,
           Transition(i, status), steps[current][i] # "done", status # "pending",
           gated \subseteq gated', gated' \subseteq StepIds,
           status = "gated-approved" => StepOf(current, i) \in gated',
           (status = "done" /\ i \in mutating) =>
              StepOf(current, i) \in gated' /\ "workspace-write" \in permitted,
           runs' = IF status = "done" THEN [runs EXCEPT ![StepOf(current, i)] = 1] ELSE runs
    PROVE  ExecutionInv'
  <1> USE DEF ExecutionInv
  <1> DEFINE b == birth[current]
  <1>1. /\ current \in PlanIds /\ plans \in [PlanIds -> PlanStatus]
        /\ birth \in [PlanIds -> 0..MaxBirths] /\ goal \in GoalStatus
        /\ steps \in [PlanIds -> [StepIndexes -> StepStatus]]
        /\ runs \in [StepIds -> 0..2] /\ MaxBirths \in Nat
    BY GenerationAssumption DEF ExecutionTypeOK, GoalTypeOK
  <1>2. /\ UNCHANGED <<current, bindings, births, birth, mutating, permitted, generating, granted>>
        /\ steps' = [steps EXCEPT ![current][i] = status]
        /\ plans[current] \in {"approved", "executing"}
        /\ goal' \in {"done", goal}
    BY DEF Transition, InRun
  <1>3. /\ plans' \in [PlanIds -> PlanStatus]
        /\ \A q \in PlanIds : q # current => plans'[q] = plans[q]
        /\ plans'[current] \in {"done", "executing"}
    BY <1>1 DEF Transition, PlanStatus
  <1>4. /\ steps' \in [PlanIds -> [StepIndexes -> StepStatus]]
        /\ \A q \in PlanIds : q # current => steps'[q] = steps[q]
        /\ \A j \in StepIndexes : steps'[current][j] = IF j = i THEN status ELSE steps[current][j]
    BY <1>1, <1>2
  <1>5. b \in Births /\ b \in granted
    BY <1>1, <1>2 DEF MemoryAccounted, BornOnce, StepApproved, Births
  <1>6. <<b, i>> \in StepIds /\ StepOf(current, i) = <<b, i>>
    BY <1>5 DEF StepIds, StepOf
  <1>7. runs' \in [StepIds -> 0..2]
    BY <1>1, <1>6
  <1>8. ExecutionTypeOK'
    BY <1>1, <1>2, <1>3, <1>4, <1>7 DEF ExecutionTypeOK, GoalTypeOK, GoalStatus
  <1>9. BornOnce(goal, plans, birth)'
    BY <1>1, <1>2, <1>3 DEF MemoryAccounted, BornOnce
  <1>10. StepApproved(plans, birth, steps, mutating, permitted)'
    <2>1. ASSUME NEW q \in PlanIds, q # current
          PROVE  /\ plans'[q] \in {"approved", "executing"} => birth'[q] \in granted'
                 /\ plans'[q] = "absent" => \A j \in StepIndexes : steps'[q][j] = "pending"
                 /\ \A j \in StepIndexes :
                      /\ steps'[q][j] # "pending" => birth'[q] \in granted'
                      /\ steps'[q][j] = "gated-approved" => <<birth'[q], j>> \in gated'
                      /\ (steps'[q][j] = "done" /\ j \in mutating') =>
                           <<birth'[q], j>> \in gated' /\ "workspace-write" \in permitted'
      <3>1. plans'[q] = plans[q] /\ birth'[q] = birth[q] /\ steps'[q] = steps[q]
        BY <1>2, <1>3, <1>4, <2>1
      <3> QED
        BY <1>2, <3>1 DEF MemoryAccounted, StepApproved
    <2>2. \A j \in StepIndexes :
             /\ steps'[current][j] = "gated-approved" => <<b, j>> \in gated'
             /\ (steps'[current][j] = "done" /\ j \in mutating) =>
                  <<b, j>> \in gated' /\ "workspace-write" \in permitted
      BY <1>1, <1>4, <1>6, ZenonT(40) DEF MemoryAccounted, StepApproved
    <2> QED
      BY <1>2, <1>3, <1>5, <2>1, <2>2 DEF StepApproved
  <1>11. RunsRecorded(birth, steps)'
    <2> SUFFICES ASSUME NEW q \in PlanIds, NEW j \in StepIndexes, birth[q] # 0
                 PROVE  runs'[<<birth[q], j>>] = IF steps'[q][j] = "done" THEN 1 ELSE 0
      BY <1>2 DEF RunsRecorded
    <2>1. <<birth[q], j>> \in StepIds
      BY <1>1 DEF StepIds, Births
    <2>2. runs[<<birth[q], j>>] = IF steps[q][j] = "done" THEN 1 ELSE 0
      BY DEF MemoryAccounted, RunsRecorded
    <2>3. q # current => birth[q] # b
      BY <1>1 DEF MemoryAccounted, BornOnce
    <2>4. CASE q = current /\ j = i
      BY <1>1, <1>4, <1>6, <2>2, <2>4
    <2>5. CASE ~(q = current /\ j = i)
      <3>1. <<birth[q], j>> # <<b, i>>
        BY <2>3, <2>5
      <3>2. runs'[<<birth[q], j>>] = runs[<<birth[q], j>>]
        BY <1>1, <1>6, <2>1, <3>1
      <3>3. steps'[q][j] = steps[q][j]
        BY <1>4, <2>5
      <3> QED
        BY <2>2, <3>2, <3>3
    <2> QED
      BY <2>4, <2>5
  <1>12. \A s \in StepIds : s # <<b, i>> => runs'[s] = runs[s]
    BY <1>1, <1>6
  <1>13. FutureUnrun'
    <2>1. b <= births
      BY <1>1 DEF MemoryAccounted, BornOnce
    <2>2. births \in Nat /\ b \in Nat
      BY <1>1 DEF ExecutionTypeOK
    <2> QED
      BY <1>2, <1>12, <2>1, <2>2 DEF FutureUnrun
  <1>14. StepsRunOnce'
    <2>1. runs'[<<b, i>>] \in {1, runs[<<b, i>>]}
      BY <1>1, <1>6
    <2> QED
      BY <1>1, <1>6, <1>12, <2>1 DEF StepsRunOnce
  <1> QED
    BY <1>8, <1>9, <1>10, <1>11, <1>13, <1>14 DEF MemoryAccounted

LEMMA AdvanceKeeps ==
    ASSUME ExecutionInv, Advance
    PROVE  ExecutionInv'
  <1> PICK i \in StepIndexes :
         /\ IsNext(i) /\ TierPermitted(i)
         /\ IF NeedsGate(i)
              THEN /\ Transition(i, "blocked-needs-gate")
                   /\ UNCHANGED runs
              ELSE /\ Transition(i, "done")
                   /\ runs' = [runs EXCEPT ![StepOf(current, i)] = IF @ = 2 THEN 2 ELSE @ + 1]
    BY DEF Advance
  <1>1. /\ gated' = gated /\ gated \subseteq StepIds /\ current \in PlanIds
        /\ birth \in [PlanIds -> 0..MaxBirths] /\ runs \in [StepIds -> 0..2] /\ MaxBirths \in Nat
    BY GenerationAssumption DEF Advance, ExecutionInv, ExecutionTypeOK, GoalTypeOK
  <1>2. steps[current][i] \in {"pending", "gated-approved"}
    BY DEF IsNext, Runnable
  <1>3. CASE NeedsGate(i)
    <2>1. "blocked-needs-gate" \in StepStatus
      BY DEF StepStatus
    <2> QED
      BY <1>1, <1>2, <1>3, <2>1, TransitionKeeps
  <1>4. CASE ~NeedsGate(i)
    <2>1. "done" \in StepStatus /\ steps[current][i] # "done"
      BY <1>2 DEF StepStatus
    <2>2. i \in mutating => StepOf(current, i) \in gated /\ "workspace-write" \in permitted
      BY <1>1, <1>2, <1>4
      DEF NeedsGate, TierPermitted, StepOf, ExecutionInv, MemoryAccounted, StepApproved
    <2>3. birth[current] # 0
      BY <1>1, <1>4
      DEF Transition, InRun, ExecutionInv, MemoryAccounted, BornOnce
    <2>4. StepOf(current, i) \in StepIds /\ runs[StepOf(current, i)] = 0
      BY <1>1, <2>1, <2>3
      DEF StepOf, StepIds, Births, ExecutionInv, MemoryAccounted, RunsRecorded
    <2>5. runs' = [runs EXCEPT ![StepOf(current, i)] = 1]
      BY <1>1, <1>4, <2>4
    <2>6. Transition(i, "done")
      BY <1>4
    <2> QED
      BY <1>1, <2>1, <2>2, <2>5, <2>6, TransitionKeeps
  <1> QED
    BY <1>3, <1>4

LEMMA ApproveGateKeeps ==
    ASSUME ExecutionInv, NEW i \in StepIndexes, ApproveGate(i)
    PROVE  ExecutionInv'
  <1>1. /\ gated' = gated \cup {StepOf(current, i)} /\ gated \subseteq StepIds
        /\ current \in PlanIds /\ birth \in [PlanIds -> 0..MaxBirths] /\ MaxBirths \in Nat
        /\ Transition(i, "gated-approved") /\ runs' = runs
        /\ steps[current][i] = "blocked-needs-gate"
    BY GenerationAssumption DEF ApproveGate, ExecutionInv, ExecutionTypeOK, GoalTypeOK
  <1>2. birth[current] # 0
    BY <1>1 DEF Transition, InRun, ExecutionInv, MemoryAccounted, BornOnce
  <1>3. StepOf(current, i) \in StepIds
    BY <1>1, <1>2 DEF StepOf, StepIds, Births
  <1>4. "gated-approved" \in StepStatus
    BY DEF StepStatus
  <1> QED
    BY <1>1, <1>3, <1>4, TransitionKeeps

-----------------------------------------------------------------------------
(* The steps of the specification.                                         *)

GoalInv == ExecutionInv /\ DiskInv

LEMMA SavedKeeps ==
    ASSUME ExecutionInv', Persist
    PROVE  GoalInv'
  BY SavedDiskInv DEF GoalInv

\* The goal, its plans and their steps are left alone, saved again or not.
LEMMA FrameKeeps ==
    ASSUME GoalInv, UNCHANGED goalExecutionVars, Persist \/ UNCHANGED disk
    PROVE  GoalInv'
  <1>1. ExecutionInv'
    BY ExecutionFrame DEF GoalInv
  <1>2. CASE Persist
    BY <1>1, <1>2, SavedKeeps
  <1>3. CASE UNCHANGED disk
    <2>1. births \in Nat /\ births' = births /\ UNCHANGED <<runs, granted, gated>>
      BY DEF goalExecutionVars, observedSteps, GoalInv, ExecutionInv, ExecutionTypeOK
    <2>2. UNCHANGED <<disk, runs>> /\ births' \in Nat /\ births <= births'
          /\ granted \subseteq granted' /\ gated \subseteq gated'
      BY <1>3, <2>1
    <2> QED
      BY <1>1, <2>2, UnsavedDiskInv DEF GoalInv
  <1> QED
    BY <1>2, <1>3

LEMMA GoalCreateKeeps ==
    ASSUME GoalInv, GoalCreate
    PROVE  GoalInv'
  BY CreateGoalKeeps, SavedKeeps DEF GoalInv, GoalCreate

LEMMA GoalCallKeeps ==
    ASSUME GoalInv, GoalCall
    PROVE  GoalInv'
  <1> USE DEF GoalInv
  <1>1. CASE Approve /\ Persist
    BY <1>1, ApproveKeeps, SavedKeeps
  <1>2. CASE GenerateAttach /\ Persist
    BY <1>2, AttachKeeps, SavedKeeps
  <1>3. CASE GenerateStart /\ UNCHANGED disk
    <2>1. ExecutionInv'
      BY <1>3, GenerateKeeps
    <2>2. births \in Nat /\ births' = births /\ UNCHANGED <<disk, runs, granted, gated>>
      BY <1>3 DEF GenerateStart, observedSteps, ExecutionInv, ExecutionTypeOK
    <2>3. births' \in Nat /\ births <= births' /\ granted \subseteq granted' /\ gated \subseteq gated'
      BY <2>2
    <2> QED
      BY <2>1, <2>2, <2>3, UnsavedDiskInv
  <1>4. CASE GenerateFails /\ Persist
    BY <1>4, GenerateKeeps, SavedKeeps
  <1>5. CASE PauseOrCancel /\ Persist
    BY <1>5, PauseCancelKeeps, SavedKeeps DEF PauseOrCancel
  <1>6. ASSUME NEW p \in PlanIds, Bind(p), Persist PROVE GoalInv'
    BY <1>6, BindKeeps, SavedKeeps
  <1>7. CASE (Advance \/ \E i \in StepIndexes : ApproveGate(i)) /\ Persist
    BY <1>7, AdvanceKeeps, ApproveGateKeeps, SavedKeeps
  <1> QED
    BY <1>1, <1>2, <1>3, <1>4, <1>5, <1>6, <1>7 DEF GoalCall, StepPersist

LEMMA GoalDeriveKeeps ==
    ASSUME GoalInv, NEW parent \in PlanIds, NEW child \in PlanIds, GoalDerive(parent, child)
    PROVE  GoalInv'
  <1>1. ExecutionInv'
    BY DeriveKeeps DEF GoalInv, GoalDerive
  <1>2. CASE Persist
    BY <1>1, <1>2, SavedKeeps
  <1>3. CASE UNCHANGED disk
    <2>1. births \in Nat /\ births' = births + 1 /\ UNCHANGED <<disk, runs, granted, gated>>
      BY <1>3
      DEF GoalDerive, Derive, DeriveSteps, NewSteps, observedSteps, GoalInv, ExecutionInv,
          ExecutionTypeOK
    <2>2. births' \in Nat /\ births <= births' /\ granted \subseteq granted' /\ gated \subseteq gated'
      BY <2>1
    <2> QED
      BY <1>1, <2>1, <2>2, UnsavedDiskInv DEF GoalInv
  <1> QED
    BY <1>2, <1>3 DEF GoalDerive

LEMMA ReasoningCallKeeps ==
    ASSUME GoalInv, ReasoningCall
    PROVE  GoalInv'
  <1>1. CASE ReasoningUnsaved /\ UNCHANGED disk
    <2>1. UNCHANGED goalVars
      BY <1>1
      DEF ReasoningUnsaved, Ask, Retry, AskFails, DraftReturned, DraftRecorded, CritiqueArrives
    <2>2. UNCHANGED goalExecutionVars
      BY <1>1, <2>1 DEF ReasoningUnsaved, goalExecutionVars
    <2> QED
      BY <1>1, <2>2, FrameKeeps
  <1>2. CASE ReasoningSaved /\ Persist
    <2>1. PausePlan \/ UNCHANGED goalVars
      BY <1>2
      DEF ReasoningSaved, PlanFails, DraftPauses, EvidenceReturned, ReviewFailed, PauseCurrent
    <2>2. UNCHANGED <<births, stepVars, generating, observedSteps>>
      BY <1>2 DEF ReasoningSaved
    <2>3. CASE PausePlan
      BY <1>2, <2>2, <2>3, PauseCancelKeeps, SavedKeeps DEF GoalInv
    <2>4. CASE UNCHANGED goalVars
      BY <1>2, <2>2, <2>4, FrameKeeps DEF goalExecutionVars
    <2> QED
      BY <2>1, <2>3, <2>4
  <1> QED
    BY <1>1, <1>2 DEF ReasoningCall

\* The project, the team, its files, the endpoints and the checks.
LEMMA OthersKeep ==
    ASSUME GoalInv,
           \/ ProjectArchive \/ ProjectPatch \/ TeamCall \/ ApplyCall \/ RolesCall
           \/ CheckCall \/ OtherPersists
    PROVE  GoalInv'
  <1>1. UNCHANGED goalExecutionVars
    BY DEF ProjectArchive, ProjectPatch, TeamCall, ApplyCall, RolesCall, CheckCall, OtherPersists
  <1>2. Persist \/ UNCHANGED disk
    <2>1. CASE RolesCall
      BY <2>1
      DEF RolesCall, Rebind, EndpointCall, PresetStart, PresetPut, PresetRefused, PresetDelete
    <2> QED
      BY <2>1 DEF ProjectArchive, ProjectPatch, TeamCall, ApplyCall, CheckCall, OtherPersists
  <1> QED
    BY <1>1, <1>2, FrameKeeps

LEMMA LeastElement ==
    ASSUME NEW S \in SUBSET Nat, S # {}
    PROVE  \E i \in S : \A j \in S : i <= j
  <1> DEFINE Less == OpToRel(<, Nat)
  <1>1. IsWellFoundedOn(Less, Nat)
    BY NatLessThanWellFounded
  <1>2. \A i, j \in Nat : i < j => <<i, j>> \in Less
    BY DEF OpToRel
  <1> HIDE DEF Less
  <1>3. \E i \in S : \A j \in S : <<j, i>> \notin Less
    BY <1>1, WFMin
  <1> QED
    <2> PICK i \in S : \A j \in S : <<j, i>> \notin Less
      BY <1>3
    <2> SUFFICES ASSUME NEW j \in S PROVE i <= j
      OBVIOUS
    <2>1. i \in Nat /\ j \in Nat /\ ~(j < i)
      BY <1>2
    <2> QED
      BY <2>1

\* There is a last plan: MaxPlans less the least distance of one from it.
LEMMA LastPlanFacts ==
    ASSUME NEW ps
    PROVE  /\ LastPlan(ps) \in PlanIds
           /\ LastPlan(ps) = 1 \/ ps[LastPlan(ps)] # "absent"
           /\ \A q \in PlanIds : q > LastPlan(ps) => ps[q] = "absent"
  <1> DEFINE Taken(p) == p = 1 \/ ps[p] # "absent"
  <1> DEFINE S == {d \in 0..(MaxPlans - 1) : Taken(MaxPlans - d)}
  <1>1. MaxPlans \in Nat \ {0}
    BY GoalAssumption
  <1>2. MaxPlans - 1 \in S
    BY <1>1
  <1>3. PICK d \in S : \A e \in S : d <= e
    <2>1. S \in SUBSET Nat /\ S # {}
      BY <1>1, <1>2
    <2> HIDE DEF S
    <2> QED
      BY <2>1, LeastElement
  <1> DEFINE last == MaxPlans - d
  <1>4. last \in PlanIds /\ Taken(last)
    BY <1>1, <1>3 DEF PlanIds
  <1>5. ASSUME NEW q \in PlanIds, q > last PROVE ps[q] = "absent"
    <2>1. MaxPlans - q \in 0..(MaxPlans - 1) /\ MaxPlans - q < d /\ MaxPlans - (MaxPlans - q) = q
      BY <1>1, <1>3, <1>5 DEF PlanIds
    <2>2. MaxPlans - q \notin S
      BY <1>3, <2>1
    <2>3. ~Taken(MaxPlans - (MaxPlans - q))
      BY <2>1, <2>2
    <2> QED
      BY <2>1, <2>3
  <1> QED
    BY <1>4, <1>5 DEF LastPlan

\* What a restart brings back is what DiskInv says.
LEMMA RestartKeeps ==
    ASSUME GoalInv, Restart
    PROVE  GoalInv'
  <1>1. /\ goal' = disk.goal /\ plans' = disk.plans /\ current' = LastPlan(disk.plans)
        /\ bindings' = disk.bindings /\ birth' = disk.birth /\ mutating' = disk.mutating
        /\ permitted' = disk.permitted /\ steps' = disk.steps /\ generating' = 0
        /\ UNCHANGED <<births, granted, gated, runs, disk>>
    BY DEF Restart, observedSteps
  <1>2. current' \in PlanIds
    BY <1>1, LastPlanFacts
  <1>3. ExecutionTypeOK'
    BY <1>1, <1>2, GenerationAssumption
    DEF GoalInv, DiskInv, DiskTyped, ExecutionInv, ExecutionTypeOK, GoalTypeOK
  <1>4. MemoryAccounted'
    BY <1>1 DEF GoalInv, DiskInv, MemoryAccounted, BornOnce, StepApproved, RunsRecorded
  <1>5. FutureUnrun' /\ StepsRunOnce'
    BY <1>1 DEF GoalInv, ExecutionInv, FutureUnrun, StepsRunOnce
  <1>6. DiskInv'
    BY <1>1 DEF GoalInv, DiskInv, DiskTyped, BornOnce, StepApproved, RunsRecorded
  <1> QED
    BY <1>3, <1>4, <1>5, <1>6 DEF GoalInv, ExecutionInv

\* A fresh server has no goal and nothing has run: the invariant holds.
THEOREM InitInv == Init => GoalInv
  <1> SUFFICES ASSUME Init PROVE GoalInv
    OBVIOUS
  <1> USE DEF Init, ExecutionInit, NoGoal
  <1>1. ExecutionTypeOK
    BY GoalAssumption, GenerationAssumption
    DEF ExecutionTypeOK, GoalTypeOK, GoalStatus, PlanStatus, PlanIds, Binding, Tiers, StepStatus
  <1>2. MemoryAccounted
    BY GenerationAssumption DEF MemoryAccounted, BornOnce, StepApproved, RunsRecorded
  <1>3. FutureUnrun /\ StepsRunOnce
    BY DEF FutureUnrun, StepsRunOnce
  <1>4. /\ disk.goal = goal /\ disk.plans = plans /\ disk.bindings = bindings
        /\ disk.birth = birth /\ disk.mutating = mutating
        /\ disk.permitted = permitted /\ disk.steps = steps
    BY DEF Saved
  <1>5. DiskInv
    BY <1>1, <1>2, <1>4
    DEF DiskInv, DiskTyped, MemoryAccounted, ExecutionTypeOK, GoalTypeOK
  <1> QED
    BY <1>1, <1>2, <1>3, <1>5 DEF GoalInv, ExecutionInv

\* No call, answer of a planner or provider, or restart breaks the invariant.
THEOREM NextInv == GoalInv /\ [Next]_vars => GoalInv'
  <1> SUFFICES ASSUME GoalInv, [Next]_vars PROVE GoalInv'
    OBVIOUS
  <1>1. CASE UNCHANGED vars
    BY <1>1, FrameKeeps DEF vars
  <1>2. CASE Next
    BY <1>2, GoalCreateKeeps, GoalCallKeeps, GoalDeriveKeeps, ReasoningCallKeeps, OthersKeep,
       RestartKeeps
    DEF Next
  <1> QED
    BY <1>1, <1>2

-----------------------------------------------------------------------------
(* The theorems.                                                           *)

\* The inductive invariant holds in every reachable state.
THEOREM AlwaysGoalInv == Spec => []GoalInv
  BY InitInv, NextInv, PTL DEF Spec

\* A step is done only if the operator approved its very plan, and a step that
\* changes state only if it was approved at its gate too and the plan's request
\* permitted it: also when plans are derived under ids in use, a derivation is
\* refused half-way, or a restart brings older plans back.
THEOREM RunsApproved == Spec => []RunsOnlyApproved
  <1>1. GoalInv => RunsOnlyApproved
    BY DEF GoalInv, ExecutionInv, MemoryAccounted, StepApproved, RunsOnlyApproved, StepOf
  <1> QED
    BY <1>1, AlwaysGoalInv, PTL

\* No step completes twice, whatever is repeated, cancelled or restarted.
THEOREM EachStepRunsOnce == Spec => []StepsRunOnce
  <1>1. GoalInv => StepsRunOnce
    BY DEF GoalInv, ExecutionInv
  <1> QED
    BY <1>1, AlwaysGoalInv, PTL

\* Only the attach of an answer makes a plan while a generation ends.
LEMMA OnlyAttachAnswers ==
    ASSUME GoalInv, Next, births' > births, generating' < generating
    PROVE  GenerateAttach
  <1>1. births \in Nat /\ generating \in Nat
    BY GenerationAssumption DEF GoalInv, ExecutionInv, ExecutionTypeOK
  <1>2. births' # births /\ generating' # generating
    BY <1>1
  <1>3. GoalCall
    <2>1. ~(UNCHANGED goalExecutionVars)
      BY <1>2 DEF goalExecutionVars
    <2>2. ~GoalCreate /\ ~ReasoningCall /\ ~Restart
      BY <1>2
      DEF GoalCreate, CreateGoal, ReasoningCall, ReasoningSaved, ReasoningUnsaved, Restart
    <2>3. ~(\E parent, child \in PlanIds : GoalDerive(parent, child))
      BY <1>2 DEF GoalDerive, Derive
    <2>4. /\ ~ProjectArchive /\ ~ProjectPatch /\ ~TeamCall /\ ~ApplyCall /\ ~RolesCall
          /\ ~CheckCall /\ ~OtherPersists
      BY <2>1
      DEF ProjectArchive, ProjectPatch, TeamCall, ApplyCall, RolesCall, CheckCall, OtherPersists
    <2> QED
      BY <2>2, <2>3, <2>4 DEF Next
  <1>4. ~Approve /\ ~GenerateStart /\ ~GenerateFails /\ ~PauseOrCancel
    BY <1>2 DEF Approve, GenerateStart, GenerateFails, PauseOrCancel
  <1>5. /\ ~Advance
        /\ \A i \in StepIndexes : ~ApproveGate(i)
        /\ \A p \in PlanIds : ~Bind(p)
    BY <1>2 DEF Advance, ApproveGate, Transition, Bind
  <1> QED
    BY <1>3, <1>4, <1>5 DEF GoalCall

\* An answer of the planner that comes late, after another answer made a plan
\* or the goal was cancelled, makes no plan: at that moment the goal is still a
\* draft and has none.
THEOREM LateAnswersPlanNothing == Spec => LateAnswerPlansNothing
  <1> DEFINE Quiet == (births' > births /\ generating' < generating) =>
                         /\ goal = "draft"
                         /\ \A p \in PlanIds : plans[p] = "absent" /\ birth[p] = 0
  <1>1. GoalInv /\ [Next]_vars => [Quiet]_goalExecutionVars
    <2> SUFFICES ASSUME GoalInv, Next, births' > births, generating' < generating
                 PROVE  /\ goal = "draft"
                        /\ \A p \in PlanIds : plans[p] = "absent" /\ birth[p] = 0
      BY DEF vars
    <2>1. goal = "draft"
      BY OnlyAttachAnswers DEF GenerateAttach, AttachPlan
    <2> QED
      BY <2>1 DEF GoalInv, ExecutionInv, MemoryAccounted, BornOnce
  <1> QED
    BY <1>1, AlwaysGoalInv, PTL DEF Spec, LateAnswerPlansNothing
-----------------------------------------------------------------------------
(* GoalContract.  What its refinement needs beyond the invariant: where    *)
(* memory is ahead of the snapshot, a plan is new, and not an old one that *)
(* changed; and a step is not let through its gate before its status says  *)
(* so.                                                                     *)

Drafting == {"absent", "draft"}

\* A step that has not passed its gate was not let through; one that waits there
\* changes state.
GateAhead(bi, st, mu) ==
    \A p \in PlanIds, i \in StepIndexes :
        /\ (bi[p] # 0 /\ st[p][i] \in {"pending", "blocked-needs-gate"}) => <<bi[p], i>> \notin gated
        /\ st[p][i] = "blocked-needs-gate" => i \in mu

MemorySettled ==
    /\ GateAhead(birth, steps, mutating)
    /\ \A s \in gated : s[1] <= births
    /\ goal \in Drafting => births = 0

\* A derivation that answers 409 is all that is not saved.
OnlyBirthsUnsaved ==
    /\ \A p \in PlanIds : (birth[p] # 0 /\ disk.birth[p] = birth[p]) => disk.plans[p] = plans[p]
    /\ \A p, q \in PlanIds : (p # q /\ disk.birth[q] = birth[p]) => birth[p] = 0
    /\ disk.mutating = mutating

Settled ==
    /\ MemorySettled /\ OnlyBirthsUnsaved
    /\ GateAhead(disk.birth, disk.steps, disk.mutating)
    /\ disk.goal \in Drafting => births = 0

ContractInv == GoalInv /\ Settled

LEMMA SavedSettled ==
    ASSUME GoalInv', MemorySettled', Persist
    PROVE  Settled'
  <1>1. /\ disk'.goal = goal' /\ disk'.plans = plans' /\ disk'.birth = birth'
        /\ disk'.mutating = mutating' /\ disk'.steps = steps'
    BY DEF Persist, Saved
  <1>2. OnlyBirthsUnsaved'
    BY <1>1 DEF OnlyBirthsUnsaved, GoalInv, ExecutionInv, MemoryAccounted, BornOnce
  <1> QED
    BY <1>1, <1>2 DEF Settled, MemorySettled, GateAhead

\* The plans and their steps are left alone, saved or not.
LEMMA FrameSettled ==
    ASSUME Settled, GoalInv', UNCHANGED <<births, birth, plans, mutating, steps, gated>>,
           goal' \in Drafting => goal \in Drafting, Persist \/ UNCHANGED disk
    PROVE  Settled'
  <1>1. MemorySettled'
    BY DEF Settled, MemorySettled, GateAhead
  <1>2. CASE UNCHANGED disk
    BY <1>1, <1>2 DEF Settled, OnlyBirthsUnsaved, GateAhead
  <1> QED
    BY <1>1, <1>2, SavedSettled

\* A status changes, and is saved.
LEMMA StatusSettled ==
    ASSUME Settled, GoalInv', UNCHANGED <<births, birth, mutating, steps, gated>>,
           goal' \notin Drafting, Persist
    PROVE  Settled'
  <1>1. MemorySettled'
    BY DEF Settled, MemorySettled, GateAhead
  <1> QED
    BY <1>1, SavedSettled

LEMMA NewPlanSettled ==
    ASSUME ContractInv, NEW p \in PlanIds, NewSteps(p), gated' = gated, goal' = "planned",
           mutating' = mutating \/ \A q \in PlanIds : plans[q] = "absent"
    PROVE  MemorySettled'
  <1> USE DEF ContractInv, GoalInv, ExecutionInv, Settled, MemorySettled
  <1>1. /\ births \in Nat /\ birth \in [PlanIds -> 0..MaxBirths]
        /\ steps \in [PlanIds -> [StepIndexes -> StepStatus]]
        /\ births' = births + 1 /\ birth' = [birth EXCEPT ![p] = births + 1]
        /\ steps' = [steps EXCEPT ![p] = [i \in StepIndexes |-> "pending"]]
        /\ gated \subseteq StepIds
    BY DEF NewSteps, ExecutionTypeOK
  <1>2. GateAhead(birth, steps, mutating)'
    <2> SUFFICES ASSUME NEW q \in PlanIds, NEW i \in StepIndexes,
                        steps'[q][i] \in {"pending", "blocked-needs-gate"}
                 PROVE  /\ birth'[q] # 0 => <<birth'[q], i>> \notin gated
                        /\ steps'[q][i] = "blocked-needs-gate" => i \in mutating'
      BY DEF GateAhead
    <2>1. CASE q = p
      <3>1. birth'[q] = births + 1 /\ steps'[q][i] = "pending"
        BY <1>1, <2>1
      <3> QED
        BY <1>1, <3>1
    <2>2. CASE q # p
      <3>1. birth'[q] = birth[q] /\ steps'[q] = steps[q]
        BY <1>1, <2>2
      <3>2. steps[q][i] = "blocked-needs-gate" => mutating' = mutating
        BY DEF MemoryAccounted, StepApproved
      <3> QED
        BY <3>1, <3>2 DEF GateAhead
    <2> QED
      BY <2>1, <2>2
  <1>3. \A s \in gated' : s[1] <= births'
    <2>1. \A s \in gated : s[1] \in Nat
      BY <1>1 DEF StepIds, Births
    <2> QED
      BY <1>1, <2>1
  <1> QED
    BY <1>2, <1>3 DEF Drafting

\* A step moves on; it may be let through its gate.
LEMMA TransitionSettled ==
    ASSUME ContractInv, GoalInv', NEW i \in StepIndexes, NEW status, Transition(i, status), Persist,
           steps[current][i] \in {"pending", "blocked-needs-gate", "gated-approved"},
           \/ /\ status = "gated-approved" /\ gated' = gated \cup {StepOf(current, i)}
           \/ /\ status = "blocked-needs-gate" /\ steps[current][i] = "pending" /\ i \in mutating
              /\ gated' = gated
           \/ status = "done" /\ gated' = gated
    PROVE  Settled'
  <1> USE DEF ContractInv, GoalInv, ExecutionInv, Settled, MemorySettled
  <1> DEFINE b == birth[current]
  <1>1. /\ current \in PlanIds /\ births \in Nat
        /\ birth \in [PlanIds -> 0..MaxBirths]
        /\ steps \in [PlanIds -> [StepIndexes -> StepStatus]]
        /\ steps' = [steps EXCEPT ![current][i] = status]
        /\ UNCHANGED <<births, birth, mutating>>
        /\ plans[current] \in {"approved", "executing"}
    BY DEF Transition, InRun, ExecutionTypeOK, GoalTypeOK
  <1>2. b # 0 /\ b <= births /\ \A q \in PlanIds : q # current => birth[q] # b
    BY <1>1 DEF MemoryAccounted, BornOnce
  <1>3. gated \subseteq gated' /\ gated' \subseteq gated \cup {<<b, i>>}
    BY DEF StepOf
  <1>4. GateAhead(birth, steps, mutating)'
    <2> SUFFICES ASSUME NEW q \in PlanIds, NEW j \in StepIndexes,
                        steps'[q][j] \in {"pending", "blocked-needs-gate"}
                 PROVE  /\ birth[q] # 0 => <<birth[q], j>> \notin gated'
                        /\ steps'[q][j] = "blocked-needs-gate" => j \in mutating
      BY <1>1 DEF GateAhead
    <2>1. CASE q = current /\ j = i
      <3>1. steps'[q][j] = status /\ status = "blocked-needs-gate"
        BY <1>1, <2>1
      <3>2. gated' = gated /\ steps[current][i] = "pending" /\ i \in mutating
        BY <3>1
      <3> QED
        BY <1>1, <2>1, <3>2 DEF GateAhead
    <2>2. CASE ~(q = current /\ j = i)
      <3>1. steps'[q][j] = steps[q][j]
        BY <1>1, <2>2
      <3>2. <<birth[q], j>> # <<b, i>>
        BY <1>2, <2>2
      <3>3. /\ birth[q] # 0 => <<birth[q], j>> \notin gated
            /\ steps[q][j] = "blocked-needs-gate" => j \in mutating
        BY <3>1 DEF GateAhead
      <3> QED
        BY <1>3, <3>1, <3>2, <3>3
    <2> QED
      BY <2>1, <2>2
  <1>5. \A s \in gated' : s[1] <= births'
    BY <1>1, <1>2, <1>3
  <1>6. goal' \notin Drafting
    BY <1>1 DEF Transition, Drafting, MemoryAccounted, BornOnce
  <1> QED
    BY <1>4, <1>5, <1>6, SavedSettled

LEMMA GoalCallSettled ==
    ASSUME ContractInv, GoalInv', GoalCall
    PROVE  Settled'
  <1> USE DEF ContractInv
  <1>1. ASSUME Approve, Persist PROVE Settled'
    <2>1. UNCHANGED <<births, birth, mutating, steps, gated>> /\ goal' \notin Drafting
      BY <1>1 DEF Approve, ApprovePlan, stepVars, Drafting
    <2> QED
      BY <1>1, <2>1, StatusSettled
  <1>2. ASSUME GenerateAttach, Persist PROVE Settled'
    <2>1. /\ 1 \in PlanIds /\ NewSteps(1) /\ gated' = gated /\ goal' = "planned"
          /\ goal = "draft"
      BY <1>2, GoalAssumption DEF GenerateAttach, AttachPlan, observedSteps, PlanIds
    <2>2. \A q \in PlanIds : plans[q] = "absent"
      BY <2>1 DEF GoalInv, ExecutionInv, MemoryAccounted, BornOnce
    <2> QED
      BY <1>2, <2>1, <2>2, NewPlanSettled, SavedSettled
  <1>3. ASSUME GenerateStart \/ GenerateFails \/ \E p \in PlanIds : Bind(p),
               Persist \/ UNCHANGED disk
        PROVE  Settled'
    <2>1. UNCHANGED <<births, birth, plans, mutating, steps, gated, goal>>
      BY <1>3 DEF GenerateStart, GenerateFails, Bind, SetBinding, goalVars, stepVars, observedSteps
    <2> QED
      BY <1>3, <2>1, FrameSettled
  <1>4. ASSUME PauseOrCancel, Persist PROVE Settled'
    <2>1. UNCHANGED <<births, birth, mutating, steps, gated>> /\ goal' \notin Drafting
      BY <1>4 DEF PauseOrCancel, PausePlan, CancelGoal, stepVars, observedSteps, Drafting
    <2> QED
      BY <1>4, <2>1, StatusSettled
  <1>5. ASSUME Advance, Persist PROVE Settled'
    <2> PICK i \in StepIndexes :
           /\ IsNext(i)
           /\ \/ NeedsGate(i) /\ Transition(i, "blocked-needs-gate")
              \/ Transition(i, "done")
      BY <1>5 DEF Advance
    <2>1. /\ gated' = gated /\ steps[current][i] \in {"pending", "gated-approved"}
          /\ NeedsGate(i) => steps[current][i] = "pending" /\ i \in mutating
      BY <1>5 DEF Advance, IsNext, Runnable, NeedsGate
    <2> QED
      BY <1>5, <2>1, TransitionSettled
  <1>6. ASSUME NEW i \in StepIndexes, ApproveGate(i), Persist PROVE Settled'
    BY <1>6, TransitionSettled DEF ApproveGate
  <1> QED
    BY <1>1, <1>2, <1>3, <1>4, <1>5, <1>6 DEF GoalCall, StepPersist

LEMMA GoalDeriveSettled ==
    ASSUME ContractInv, GoalInv',
           NEW parent \in PlanIds, NEW child \in PlanIds, GoalDerive(parent, child)
    PROVE  Settled'
  <1> USE DEF ContractInv, GoalInv
  <1>1. /\ NewSteps(child) /\ gated' = gated /\ goal' = "planned" /\ mutating' = mutating
        /\ plans[parent] # "absent" /\ plans' = [plans EXCEPT ![child] = "awaiting-approval"]
    BY DEF GoalDerive, Derive, DerivePlan, DeriveSteps, observedSteps
  <1>2. MemorySettled'
    BY <1>1, NewPlanSettled
  <1>3. CASE UNCHANGED disk
    <2>1. /\ births \in Nat /\ births' = births + 1
          /\ birth \in [PlanIds -> 0..MaxBirths] /\ birth' = [birth EXCEPT ![child] = births + 1]
          /\ plans \in [PlanIds -> PlanStatus] /\ disk.birth \in [PlanIds -> 0..MaxBirths]
          /\ \A p \in PlanIds : disk.birth[p] <= births
      BY <1>1 DEF NewSteps, ExecutionInv, ExecutionTypeOK, GoalTypeOK, DiskInv, DiskTyped, BornOnce
    <2>2. \A p \in PlanIds : /\ disk.birth[p] # births + 1
                             /\ p # child => birth'[p] = birth[p] /\ plans'[p] = plans[p]
      BY <1>1, <2>1
    <2>3. OnlyBirthsUnsaved'
      <3>1. birth'[child] = births + 1
        BY <2>1
      <3> QED
        BY <1>1, <1>3, <2>2, <3>1 DEF OnlyBirthsUnsaved, Settled
    <2>4. births # 0
      <3>1. birth[parent] # 0 /\ birth[parent] <= births
        BY <1>1 DEF ExecutionInv, MemoryAccounted, BornOnce
      <3> QED
        BY <2>1, <3>1
    <2>5. GateAhead(disk.birth, disk.steps, disk.mutating)' /\ disk'.goal \notin Drafting
      BY <1>1, <1>3, <2>4 DEF Settled, GateAhead
    <2> QED
      BY <1>2, <2>3, <2>5 DEF Settled
  <1> QED
    BY <1>2, <1>3, SavedSettled DEF GoalDerive

LEMMA RestartSettled ==
    ASSUME ContractInv, Restart
    PROVE  Settled'
  <1>1. /\ goal' = disk.goal /\ plans' = disk.plans /\ birth' = disk.birth
        /\ mutating' = disk.mutating /\ steps' = disk.steps
        /\ UNCHANGED <<births, gated, disk>>
    BY DEF Restart, observedSteps
  <1>2. MemorySettled'
    BY <1>1 DEF ContractInv, Settled, MemorySettled, GateAhead
  <1>3. OnlyBirthsUnsaved'
    BY <1>1 DEF OnlyBirthsUnsaved, ContractInv, GoalInv, DiskInv, BornOnce
  <1>4. GateAhead(disk.birth, disk.steps, disk.mutating)' /\ (disk'.goal \in Drafting => births' = 0)
    BY <1>1 DEF ContractInv, Settled, GateAhead
  <1> QED
    BY <1>2, <1>3, <1>4 DEF Settled

LEMMA NextSettled ==
    ASSUME ContractInv, [Next]_vars
    PROVE  ContractInv'
  <1> USE DEF ContractInv
  <1>1. GoalInv'
    BY NextInv
  <1>2. CASE GoalCreate
    <2>1. UNCHANGED <<births, birth, plans, mutating, steps, gated>> /\ goal = "absent" /\ Persist
      BY <1>2 DEF GoalCreate, CreateGoal, stepVars, observedSteps
    <2> QED
      BY <1>1, <2>1, FrameSettled DEF Drafting
  <1>3. ASSUME ReasoningCall PROVE Settled'
    <2>1. UNCHANGED <<births, birth, mutating, steps, gated>>
      BY <1>3
      DEF ReasoningCall, ReasoningSaved, ReasoningUnsaved, stepVars, observedSteps
    <2>2. CASE ReasoningSaved /\ Persist /\ ~(UNCHANGED goalVars)
      <3>1. goal' = "paused"
        BY <2>2
        DEF ReasoningSaved, PlanFails, DraftPauses, EvidenceReturned, ReviewFailed, PauseCurrent,
            PausePlan
      <3> QED
        BY <1>1, <2>1, <2>2, <3>1, StatusSettled DEF Drafting
    <2>3. CASE ReasoningUnsaved /\ UNCHANGED disk
      <3>1. UNCHANGED goalVars
        BY <2>3
        DEF ReasoningUnsaved, Ask, Retry, AskFails, DraftReturned, DraftRecorded, CritiqueArrives
      <3> QED
        BY <1>1, <2>1, <2>3, <3>1, FrameSettled DEF goalVars
    <2>4. CASE Persist /\ UNCHANGED goalVars
      BY <1>1, <2>1, <2>4, FrameSettled DEF goalVars
    <2> QED
      BY <1>3, <2>2, <2>3, <2>4 DEF ReasoningCall
  <1>4. ASSUME \/ ProjectArchive \/ ProjectPatch \/ TeamCall \/ ApplyCall \/ RolesCall
               \/ CheckCall \/ OtherPersists \/ UNCHANGED vars
        PROVE  Settled'
    <2>1. UNCHANGED goalExecutionVars
      BY <1>4
      DEF ProjectArchive, ProjectPatch, TeamCall, ApplyCall, RolesCall, CheckCall, OtherPersists,
          vars
    <2>2. Persist \/ UNCHANGED disk
      <3>1. CASE RolesCall
        BY <3>1
        DEF RolesCall, Rebind, EndpointCall, PresetStart, PresetPut, PresetRefused, PresetDelete
      <3> QED
        BY <1>4, <3>1
        DEF ProjectArchive, ProjectPatch, TeamCall, ApplyCall, CheckCall, OtherPersists, vars
    <2> QED
      BY <1>1, <2>1, <2>2, FrameSettled DEF goalExecutionVars, goalVars, stepVars, observedSteps
  <1> QED
    BY <1>1, <1>2, <1>3, <1>4, GoalCallSettled, GoalDeriveSettled, RestartSettled DEF Next

LEMMA InitSettled == Init => ContractInv
  <1> SUFFICES ASSUME Init PROVE Settled
    BY InitInv DEF ContractInv
  <1>1. /\ disk.goal = goal /\ disk.plans = plans /\ disk.birth = birth
        /\ disk.mutating = mutating /\ disk.steps = steps
    BY DEF Init, Saved
  <1> QED
    BY <1>1
    DEF Init, ExecutionInit, NoGoal, Settled, MemorySettled, OnlyBirthsUnsaved, GateAhead

\* Memory and snapshot are as the contract of a goal needs them.
THEOREM AlwaysContractInv == Spec => []ContractInv
  BY InitSettled, NextSettled, PTL DEF Spec

-----------------------------------------------------------------------------
(* The stages of the births.                                               *)

Kind(status) ==
    IF status = "awaiting-approval" THEN "offered"
    ELSE IF status \in {"approved", "executing"} THEN "approved"
    ELSE "ended"

StageFacts ==
    /\ births \in Nat
    /\ \A p \in PlanIds : birth[p] # 0 =>
          birth[p] \in Births /\ birth[p] <= births /\ StageOf(birth[p]) = Kind(plans[p])
    /\ \A p \in PlanIds : disk.birth[p] # 0 =>
          /\ disk.birth[p] \in Births /\ disk.birth[p] <= births
          /\ StageOf(disk.birth[p]) = Kind(disk.plans[p])
    /\ \A n \in Births : n > births => StageOf(n) = "none"
    /\ \A n \in Births : n <= births => StageOf(n) \in {"offered", "approved", "ended"}
    /\ \A n \in Births :
          (n <= births /\ \A p \in PlanIds : birth[p] # n /\ disk.birth[p] # n)
             => StageOf(n) = "ended"

LEMMA StagesKnown == ContractInv => StageFacts
  <1> SUFFICES ASSUME ContractInv PROVE StageFacts
    OBVIOUS
  <1> USE DEF ContractInv, GoalInv
  <1>1. /\ births \in Nat /\ MaxBirths \in Nat
        /\ birth \in [PlanIds -> 0..MaxBirths] /\ disk.birth \in [PlanIds -> 0..MaxBirths]
    BY GenerationAssumption DEF ExecutionInv, ExecutionTypeOK, DiskInv, DiskTyped
  <1>2. /\ \A p \in PlanIds : birth[p] <= births /\ disk.birth[p] <= births
        /\ \A p, q \in PlanIds : p # q /\ birth[p] = birth[q] => birth[p] = 0
        /\ \A p, q \in PlanIds : p # q /\ disk.birth[p] = disk.birth[q] => disk.birth[p] = 0
    BY DEF ExecutionInv, MemoryAccounted, DiskInv, BornOnce
  <1>3. /\ \A p \in PlanIds : (birth[p] # 0 /\ disk.birth[p] = birth[p])
                                 => disk.plans[p] = plans[p]
        /\ \A p, q \in PlanIds : (p # q /\ disk.birth[q] = birth[p]) => birth[p] = 0
    BY DEF Settled, OnlyBirthsUnsaved
  <1>4. ASSUME NEW p \in PlanIds, birth[p] # 0
        PROVE  birth[p] \in Births /\ birth[p] <= births /\ StageOf(birth[p]) = Kind(plans[p])
    <2>1. birth[p] \in Births /\ birth[p] <= births
      BY <1>1, <1>2, <1>4 DEF Births
    <2>2. ASSUME NEW S PROVE Held(birth[p], S) <=> plans[p] \in S
      BY <1>2, <1>3, <1>4 DEF Held
    <2> QED
      BY <1>1, <2>1, <2>2 DEF StageOf, Kind, Births
  <1>5. ASSUME NEW p \in PlanIds, disk.birth[p] # 0
        PROVE  /\ disk.birth[p] \in Births /\ disk.birth[p] <= births
               /\ StageOf(disk.birth[p]) = Kind(disk.plans[p])
    <2>1. disk.birth[p] \in Births /\ disk.birth[p] <= births
      BY <1>1, <1>2, <1>5 DEF Births
    <2>2. ASSUME NEW S PROVE Held(disk.birth[p], S) <=> disk.plans[p] \in S
      BY <1>2, <1>3, <1>5 DEF Held
    <2> QED
      BY <1>1, <2>1, <2>2 DEF StageOf, Kind, Births
  <1>6. \A n \in Births : n > births => StageOf(n) = "none"
    BY DEF StageOf
  <1>7. \A n \in Births : n <= births => StageOf(n) \in {"offered", "approved", "ended"}
    BY <1>1 DEF StageOf, Births
  <1>8. ASSUME NEW n \in Births, n <= births,
               \A p \in PlanIds : birth[p] # n /\ disk.birth[p] # n
        PROVE  StageOf(n) = "ended"
    BY <1>1, <1>8 DEF StageOf, Held, Births
  <1> QED
    BY <1>1, <1>4, <1>5, <1>6, <1>7, <1>8 DEF StageFacts

LEMMA StagesKnownNext == ContractInv' => StageFacts'
  BY StagesKnown, PTL

\* In a step, birth n stays where it is, or ends.
MayEnd(n) ==
    \/ StageOf(n)' = StageOf(n)
    \/ StageOf(n) \in {"offered", "approved"} /\ StageOf(n)' = "ended"

\* A birth that memory keeps, or loses, when it is saved.
LEMMA SavedStage ==
    ASSUME StageFacts, StageFacts', Persist, NEW n \in Births, births <= births',
           n <= births \/ n > births',
           \A p \in PlanIds : birth'[p] = n =>
              birth[p] = n /\ Kind(plans'[p]) \in {Kind(plans[p]), "ended"}
    PROVE  MayEnd(n)
  <1>1. births \in Nat /\ births' \in Nat /\ n \in Nat /\ n # 0
    BY DEF StageFacts, Births
  <1>2. disk'.birth = birth' /\ disk'.plans = plans'
    BY DEF Persist, Saved
  <1>3. CASE n > births'
    <2>1. StageOf(n) = "none" /\ StageOf(n)' = "none"
      BY <1>1, <1>3 DEF StageFacts
    <2> QED
      BY <2>1 DEF MayEnd
  <1>4. CASE n <= births
    <2>1. StageOf(n) \in {"offered", "approved", "ended"} /\ n <= births'
      BY <1>1, <1>4 DEF StageFacts
    <2>2. ASSUME NEW p \in PlanIds, birth'[p] = n PROVE MayEnd(n)
      <3>1. StageOf(n) = Kind(plans[p])
        BY <1>1, <2>2 DEF StageFacts
      <3>2. StageOf(n)' = Kind(plans'[p])
        BY <1>1, <2>2 DEF StageFacts
      <3>3. Kind(plans[p]) \in {"offered", "approved", "ended"}
        BY DEF Kind
      <3> QED
        BY <2>2, <3>1, <3>2, <3>3 DEF MayEnd
    <2>3. CASE \A p \in PlanIds : birth'[p] # n
      <3>1. StageOf(n)' = "ended"
        BY <1>2, <2>1, <2>3 DEF StageFacts
      <3> QED
        BY <2>1, <3>1 DEF MayEnd
    <2> QED
      BY <2>2, <2>3
  <1> QED
    BY <1>3, <1>4

LEMMA CloseIf ==
    ASSUME \A n \in Births : MayEnd(n), UNCHANGED <<mutating, gated, runs>>
    PROVE  Contract!Next
  BY DEF MayEnd, Contract!Next, Contract!Close, Contract!Stays, Contract!Ends

-----------------------------------------------------------------------------
(* Each step is one of the contract.                                       *)

\* Plans are left alone, or paused or cancelled.
LEMMA FrameCloses ==
    ASSUME ContractInv, ContractInv', UNCHANGED <<births, birth, mutating, gated, runs>>,
           \/ Persist /\ \A p \in PlanIds : plans'[p] \in {plans[p], "paused", "cancelled"}
           \/ UNCHANGED <<plans, disk>>
    PROVE  Contract!Next
  <1>1. StageFacts /\ StageFacts'
    BY StagesKnown, StagesKnownNext
  <1>2. ASSUME NEW n \in Births PROVE MayEnd(n)
    <2>1. CASE UNCHANGED <<plans, disk>>
      BY <2>1 DEF MayEnd, StageOf, Held
    <2>2. CASE Persist /\ \A p \in PlanIds : plans'[p] \in {plans[p], "paused", "cancelled"}
      <3>1. \A p \in PlanIds : Kind(plans'[p]) \in {Kind(plans[p]), "ended"}
        BY <2>2 DEF Kind
      <3>2. births \in Nat /\ n \in Nat
        BY <1>1 DEF StageFacts, Births
      <3> QED
        BY <1>1, <2>2, <3>1, <3>2, SavedStage
    <2> QED
      BY <2>1, <2>2
  <1> QED
    BY <1>2, CloseIf

LEMMA ApproveRefines ==
    ASSUME ContractInv, ContractInv', Approve, Persist
    PROVE  Contract!Next
  <1>1. StageFacts /\ StageFacts'
    BY StagesKnown, StagesKnownNext
  <1>2. /\ current \in PlanIds /\ plans \in [PlanIds -> PlanStatus]
        /\ plans[current] = "awaiting-approval"
        /\ plans' = [plans EXCEPT ![current] = "approved"]
        /\ UNCHANGED <<births, birth, mutating, gated, runs>>
    BY DEF Approve, ApprovePlan, stepVars, ContractInv, GoalInv, ExecutionInv, ExecutionTypeOK,
           GoalTypeOK
  <1>3. /\ birth[current] # 0 /\ birth[current] \in Births
        /\ \A p \in PlanIds : p # current => birth[p] # birth[current]
    BY <1>1, <1>2 DEF StageFacts, ContractInv, GoalInv, ExecutionInv, MemoryAccounted, BornOnce
  <1> PICK p \in PlanIds : p = current
    BY <1>2
  <1> PICK v \in Births : v = birth[p]
    BY <1>3
  <1>4. StageOf(v) = "offered" /\ StageOf(v)' = "approved"
    <2>1. v # 0 /\ birth'[p] = v
      BY <1>2, <1>3
    <2>2. StageOf(v) = Kind(plans[p])
      BY <1>1, <2>1 DEF StageFacts
    <2>3. StageOf(v)' = Kind(plans'[p])
      BY <1>1, <2>1 DEF StageFacts
    <2> QED
      BY <1>2, <2>2, <2>3 DEF Kind
  <1>5. ASSUME NEW n \in Births, n # v PROVE MayEnd(n)
    <2>1. \A q \in PlanIds : birth'[q] = n => birth[q] = n /\ plans'[q] = plans[q]
      BY <1>2, <1>5
    <2>2. births \in Nat /\ n \in Nat
      BY <1>1 DEF StageFacts, Births
    <2> QED
      BY <1>1, <1>2, <2>1, <2>2, SavedStage
  <1>6. Contract!Others(v)
    BY <1>5 DEF MayEnd, Contract!Others, Contract!Stays, Contract!Ends
  <1>7. Contract!Approve(v)
    BY <1>2, <1>4, <1>6 DEF Contract!Approve
  <1> QED
    BY <1>4, <1>7 DEF Contract!Next

\* A plan is born, under an id in use or not; the plan it replaces ends when
\* this is saved, and a plan it replaces that was not saved ends now.
LEMMA NewPlanRefines ==
    ASSUME ContractInv, ContractInv', NEW p \in PlanIds, NewSteps(p),
           plans' = [plans EXCEPT ![p] = "awaiting-approval"],
           mutating' = mutating \/ births = 0,
           UNCHANGED <<gated, runs>>, Persist \/ UNCHANGED disk
    PROVE  Contract!Next
  <1>1. StageFacts /\ StageFacts'
    BY StagesKnown, StagesKnownNext
  <1>2. /\ births \in Nat /\ births < MaxBirths /\ MaxBirths \in Nat /\ births' = births + 1
        /\ birth \in [PlanIds -> 0..MaxBirths] /\ birth' = [birth EXCEPT ![p] = births + 1]
        /\ plans \in [PlanIds -> PlanStatus]
    BY GenerationAssumption
    DEF NewSteps, ContractInv, GoalInv, ExecutionInv, ExecutionTypeOK, GoalTypeOK
  <1> PICK v \in Births : v = births + 1
    BY <1>2 DEF Births
  <1>3. /\ v \in Nat /\ v > births /\ births' = v /\ birth'[p] = v /\ v # 0
        /\ plans'[p] = "awaiting-approval"
        /\ \A q \in PlanIds : q # p => birth'[q] = birth[q] /\ plans'[q] = plans[q]
    BY <1>2 DEF Births
  <1>4. StageOf(v) = "none"
    BY <1>1, <1>3 DEF StageFacts
  <1>5. StageOf(v)' = "offered"
    BY <1>2, <1>3 DEF StageOf, Held
  <1>6. ASSUME NEW n \in Births, n # v PROVE MayEnd(n)
    <2>1. /\ n \in Nat /\ n # 0
          /\ \A q \in PlanIds : birth'[q] = n => birth[q] = n /\ plans'[q] = plans[q]
          /\ n <= births \/ n > births'
      BY <1>2, <1>3, <1>6 DEF Births
    <2>2. CASE Persist
      BY <1>1, <1>2, <2>1, <2>2, SavedStage
    <2>3. CASE UNCHANGED disk
      <3>1. CASE n > births'
        <4>1. n > births
          BY <1>2, <2>1, <3>1
        <4>2. StageOf(n) = "none" /\ StageOf(n)' = "none"
          BY <1>1, <3>1, <4>1 DEF StageFacts
        <4> QED
          BY <4>2 DEF MayEnd
      <3>2. ASSUME n <= births, NEW q \in PlanIds, birth'[q] = n PROVE MayEnd(n)
        <4>1. birth[q] = n /\ plans'[q] = plans[q]
          BY <2>1, <3>2
        <4>2. StageOf(n) = Kind(plans[q])
          BY <1>1, <2>1, <4>1 DEF StageFacts
        <4>3. StageOf(n)' = Kind(plans'[q])
          BY <1>1, <2>1, <3>2 DEF StageFacts
        <4> QED
          BY <4>1, <4>2, <4>3 DEF MayEnd
      <3>3. ASSUME n <= births, NEW q \in PlanIds, disk.birth[q] = n PROVE MayEnd(n)
        <4>1. StageOf(n) = Kind(disk.plans[q])
          BY <1>1, <2>1, <3>3 DEF StageFacts
        <4>2. disk'.birth[q] = n /\ disk'.plans[q] = disk.plans[q]
          BY <2>3, <3>3
        <4>3. StageOf(n)' = Kind(disk'.plans[q])
          BY <1>1, <2>1, <4>2 DEF StageFacts
        <4> QED
          BY <4>1, <4>2, <4>3 DEF MayEnd
      <3>4. CASE n <= births /\ \A q \in PlanIds : birth'[q] # n /\ disk.birth[q] # n
        <4>1. n <= births'
          BY <1>2, <2>1, <3>4
        <4>2. StageOf(n)' = "ended"
          BY <1>1, <2>3, <3>4, <4>1 DEF StageFacts
        <4>3. StageOf(n) \in {"offered", "approved", "ended"}
          BY <1>1, <3>4 DEF StageFacts
        <4> QED
          BY <4>2, <4>3 DEF MayEnd
      <3> QED
        BY <2>1, <3>1, <3>2, <3>3, <3>4
    <2> QED
      BY <2>2, <2>3
  <1>7. Contract!Others(v)
    BY <1>6 DEF MayEnd, Contract!Others, Contract!Stays, Contract!Ends
  <1>8. births = 0 => \A n \in Births : StageOf(n) = "none"
    <2>1. ASSUME births = 0, NEW n \in Births PROVE n > births
      BY <2>1 DEF Births
    <2> QED
      BY <1>1, <2>1 DEF StageFacts
  <1>9. Contract!Offer(v)
    BY <1>3, <1>4, <1>5, <1>7, <1>8 DEF Contract!Offer
  <1> QED
    BY <1>3, <1>9 DEF Contract!Next

\* A step of the current plan moves on: where the plan is, then and before.
LEMMA TransitionStages ==
    ASSUME ContractInv, ContractInv', NEW i \in StepIndexes, NEW status, Transition(i, status),
           Persist
    PROVE  \E v \in Births :
             /\ v = birth[current] /\ v # 0
             /\ StageOf(v) = "approved"
             /\ StageOf(v)' = IF \A j \in StepIndexes : steps'[current][j] = "done"
                                THEN "ended" ELSE "approved"
             /\ \A n \in Births : n # v => MayEnd(n)
  <1>1. StageFacts /\ StageFacts'
    BY StagesKnown, StagesKnownNext
  <1> DEFINE allDone == \A j \in StepIndexes : steps'[current][j] = "done"
  <1>2. /\ current \in PlanIds /\ plans \in [PlanIds -> PlanStatus]
        /\ plans[current] \in {"approved", "executing"}
        /\ plans' = [plans EXCEPT ![current] = IF allDone THEN "done" ELSE "executing"]
        /\ UNCHANGED <<births, birth>>
    BY DEF Transition, InRun, ContractInv, GoalInv, ExecutionInv, ExecutionTypeOK, GoalTypeOK
  <1> HIDE DEF allDone
  <1>3. /\ birth[current] # 0 /\ birth[current] \in Births
        /\ \A p \in PlanIds : p # current => birth[p] # birth[current]
    BY <1>1, <1>2 DEF StageFacts, ContractInv, GoalInv, ExecutionInv, MemoryAccounted, BornOnce
  <1> PICK p \in PlanIds : p = current
    BY <1>2
  <1> PICK v \in Births : v = birth[p]
    BY <1>3
  <1>4. StageOf(v) = "approved" /\ StageOf(v)' = IF allDone THEN "ended" ELSE "approved"
    <2>1. v # 0 /\ birth'[p] = v
      BY <1>2, <1>3
    <2>2. StageOf(v) = Kind(plans[p])
      BY <1>1, <2>1 DEF StageFacts
    <2>3. StageOf(v)' = Kind(plans'[p])
      BY <1>1, <2>1 DEF StageFacts
    <2>4. plans'[p] = IF allDone THEN "done" ELSE "executing"
      BY <1>2
    <2> QED
      BY <1>2, <2>2, <2>3, <2>4 DEF Kind
  <1>5. ASSUME NEW n \in Births, n # v PROVE MayEnd(n)
    <2>1. \A q \in PlanIds : birth'[q] = n => birth[q] = n /\ plans'[q] = plans[q]
      BY <1>2, <1>5
    <2>2. births \in Nat /\ n \in Nat
      BY <1>1 DEF StageFacts, Births
    <2> QED
      BY <1>1, <1>2, <2>1, <2>2, SavedStage
  <1> QED
    BY <1>3, <1>4, <1>5 DEF allDone

\* A step runs, or waits at its gate.
LEMMA AdvanceRefines ==
    ASSUME ContractInv, ContractInv', Advance, Persist
    PROVE  Contract!Next
  <1> USE DEF ContractInv, GoalInv
  <1> PICK i \in StepIndexes :
         /\ IsNext(i) /\ TierPermitted(i)
         /\ IF NeedsGate(i)
              THEN /\ Transition(i, "blocked-needs-gate")
                   /\ UNCHANGED runs
              ELSE /\ Transition(i, "done")
                   /\ runs' = [runs EXCEPT ![StepOf(current, i)] = IF @ = 2 THEN 2 ELSE @ + 1]
    BY DEF Advance
  <1>1. /\ gated' = gated /\ mutating' = mutating /\ birth' = birth /\ current' = current
        /\ current \in PlanIds /\ runs \in [StepIds -> 0..2]
        /\ steps \in [PlanIds -> [StepIndexes -> StepStatus]]
        /\ steps[current][i] \in {"pending", "gated-approved"}
    BY DEF Advance, Transition, IsNext, Runnable, ExecutionInv, ExecutionTypeOK, GoalTypeOK
  <1>2. CASE NeedsGate(i)
    <2>1. Transition(i, "blocked-needs-gate") /\ runs' = runs
      BY <1>2
    <2> PICK v \in Births :
           /\ v = birth[current] /\ v # 0
           /\ StageOf(v) = "approved"
           /\ StageOf(v)' = IF \A j \in StepIndexes : steps'[current][j] = "done"
                              THEN "ended" ELSE "approved"
           /\ \A n \in Births : n # v => MayEnd(n)
      BY <2>1, TransitionStages
    <2>2. \A n \in Births : MayEnd(n)
      BY DEF MayEnd
    <2> QED
      BY <1>1, <2>1, <2>2, CloseIf
  <1>3. CASE ~NeedsGate(i)
    <2>1. Transition(i, "done")
      BY <1>3
    <2> PICK v \in Births :
           /\ v = birth[current] /\ v # 0
           /\ StageOf(v) = "approved"
           /\ StageOf(v)' = IF \A j \in StepIndexes : steps'[current][j] = "done"
                              THEN "ended" ELSE "approved"
           /\ \A n \in Births : n # v => MayEnd(n)
      BY <2>1, TransitionStages
    <2>2. <<v, i>> \in StepIds /\ StepOf(current, i) = <<v, i>>
      BY DEF StepIds, StepOf
    <2>3. runs[<<v, i>>] = 0
      BY <1>1, <2>2 DEF ExecutionInv, MemoryAccounted, RunsRecorded
    <2>4. runs' = [runs EXCEPT ![<<v, i>>] = 1]
      BY <1>1, <1>3, <2>2, <2>3
    <2>5. i \in mutating => <<v, i>> \in gated
      BY <1>1, <1>3 DEF NeedsGate, ExecutionInv, MemoryAccounted, StepApproved
    <2>6. \A j \in StepIndexes : runs'[<<v, j>>] = 1 <=> steps'[current][j] = "done"
      BY <1>1 DEF ExecutionInv, MemoryAccounted, RunsRecorded
    <2>7. Contract!Others(v)
      BY DEF MayEnd, Contract!Others, Contract!Stays, Contract!Ends
    <2>8. IF \A j \in StepIndexes : runs'[<<v, j>>] = 1
            THEN StageOf(v) = "approved" /\ StageOf(v)' = "ended"
            ELSE StageOf(v)' = StageOf(v)
      BY <2>6
    <2>9. Contract!Run(v, i)
      BY <1>1, <2>3, <2>4, <2>5, <2>7, <2>8 DEF Contract!Run, Contract!Ends, Contract!Stays
    <2> QED
      BY <2>9 DEF Contract!Next
  <1> QED
    BY <1>2, <1>3

LEMMA GateRefines ==
    ASSUME ContractInv, ContractInv', NEW i \in StepIndexes, ApproveGate(i), Persist
    PROVE  Contract!Next
  <1> USE DEF ContractInv, GoalInv
  <1>1. /\ Transition(i, "gated-approved") /\ gated' = gated \cup {StepOf(current, i)}
        /\ runs' = runs /\ mutating' = mutating /\ current \in PlanIds
        /\ steps[current][i] = "blocked-needs-gate"
        /\ steps \in [PlanIds -> [StepIndexes -> StepStatus]]
        /\ steps' = [steps EXCEPT ![current][i] = "gated-approved"]
    BY DEF ApproveGate, Transition, ExecutionInv, ExecutionTypeOK, GoalTypeOK
  <1> PICK v \in Births :
         /\ v = birth[current] /\ v # 0
         /\ StageOf(v) = "approved"
         /\ StageOf(v)' = IF \A j \in StepIndexes : steps'[current][j] = "done"
                            THEN "ended" ELSE "approved"
         /\ \A n \in Births : n # v => MayEnd(n)
    BY <1>1, TransitionStages
  <1>2. StepOf(current, i) = <<v, i>>
    BY DEF StepOf
  <1>3. i \in mutating /\ <<v, i>> \notin gated
    BY <1>1 DEF Settled, MemorySettled, GateAhead
  <1>4. runs[<<v, i>>] = 0
    BY <1>1 DEF ExecutionInv, MemoryAccounted, RunsRecorded
  <1>5. StageOf(v)' = StageOf(v)
    <2>1. steps'[current][i] = "gated-approved"
      BY <1>1
    <2> QED
      BY <2>1
  <1>6. Contract!Others(v)
    BY DEF MayEnd, Contract!Others, Contract!Stays, Contract!Ends
  <1>7. Contract!Pass(v, i)
    BY <1>1, <1>2, <1>3, <1>4, <1>5, <1>6 DEF Contract!Pass, Contract!Stays
  <1> QED
    BY <1>7 DEF Contract!Next

\* A restart loses the births that were not saved, and brings back what they
\* replaced, where it was.
LEMMA RestartRefines ==
    ASSUME ContractInv, ContractInv', Restart
    PROVE  Contract!Next
  <1>1. StageFacts /\ StageFacts'
    BY StagesKnown, StagesKnownNext
  <1>2. /\ plans' = disk.plans /\ birth' = disk.birth
        /\ UNCHANGED <<births, gated, runs, disk>> /\ mutating' = mutating
    BY DEF Restart, observedSteps, ContractInv, Settled, OnlyBirthsUnsaved
  <1>3. ASSUME NEW n \in Births PROVE MayEnd(n)
    <2>1. births \in Nat /\ n \in Nat /\ n # 0
      BY <1>1 DEF StageFacts, Births
    <2>2. CASE n > births
      <3>1. StageOf(n) = "none" /\ StageOf(n)' = "none"
        BY <1>1, <1>2, <2>2 DEF StageFacts
      <3> QED
        BY <3>1 DEF MayEnd
    <2>3. ASSUME NEW p \in PlanIds, disk.birth[p] = n PROVE MayEnd(n)
      <3>1. StageOf(n) = Kind(disk.plans[p])
        BY <1>1, <2>1, <2>3 DEF StageFacts
      <3>2. disk'.birth[p] = n /\ disk'.plans[p] = disk.plans[p]
        BY <1>2, <2>3
      <3>3. StageOf(n)' = Kind(disk'.plans[p])
        BY <1>1, <2>1, <3>2 DEF StageFacts
      <3> QED
        BY <3>1, <3>2, <3>3 DEF MayEnd
    <2>4. CASE n <= births /\ \A p \in PlanIds : disk.birth[p] # n
      <3>1. StageOf(n)' = "ended"
        BY <1>1, <1>2, <2>4 DEF StageFacts
      <3>2. StageOf(n) \in {"offered", "approved", "ended"}
        BY <1>1, <2>4 DEF StageFacts
      <3> QED
        BY <3>1, <3>2 DEF MayEnd
    <2> QED
      BY <2>1, <2>2, <2>3, <2>4
  <1> QED
    BY <1>2, <1>3, CloseIf

LEMMA NextRefines ==
    ASSUME ContractInv, [Next]_vars
    PROVE  Contract!Next
  <1>1. ContractInv'
    BY NextSettled
  <1>2. CASE GoalCall
    <2>1. CASE GenerateAttach /\ Persist
      <3>1. /\ 1 \in PlanIds /\ NewSteps(1) /\ goal = "draft"
            /\ plans' = [plans EXCEPT ![1] = "awaiting-approval"]
            /\ UNCHANGED <<gated, runs>>
        BY <2>1, GoalAssumption DEF GenerateAttach, AttachPlan, observedSteps, PlanIds
      <3>2. births = 0
        BY <3>1 DEF ContractInv, Settled, MemorySettled, Drafting
      <3> QED
        BY <1>1, <2>1, <3>1, <3>2, NewPlanRefines
    <2>2. CASE /\ GenerateStart \/ GenerateFails \/ \E p \in PlanIds : Bind(p)
               /\ Persist \/ UNCHANGED disk
      <3>1. UNCHANGED <<births, birth, plans, mutating, gated, runs>>
        BY <2>2 DEF GenerateStart, GenerateFails, Bind, SetBinding, goalVars, stepVars, observedSteps
      <3> QED
        BY <1>1, <2>2, <3>1, FrameCloses
    <2>3. CASE PauseOrCancel /\ Persist
      <3>1. UNCHANGED <<births, birth, mutating, gated, runs>>
        BY <2>3 DEF PauseOrCancel, stepVars, observedSteps
      <3>2. \A p \in PlanIds : plans'[p] \in {plans[p], "paused", "cancelled"}
        BY <2>3
        DEF PauseOrCancel, PausePlan, CancelGoal, ContractInv, GoalInv, ExecutionInv,
            ExecutionTypeOK, GoalTypeOK
      <3> QED
        BY <1>1, <2>3, <3>1, <3>2, FrameCloses
    <2> QED
      BY <1>1, <1>2, <2>1, <2>2, <2>3, ApproveRefines, AdvanceRefines, GateRefines
      DEF GoalCall, StepPersist
  <1>3. ASSUME NEW parent \in PlanIds, NEW child \in PlanIds, GoalDerive(parent, child)
        PROVE  Contract!Next
    <2>1. /\ NewSteps(child) /\ UNCHANGED <<mutating, gated, runs>>
          /\ plans' = [plans EXCEPT ![child] = "awaiting-approval"]
          /\ Persist \/ UNCHANGED disk
      BY <1>3 DEF GoalDerive, Derive, DerivePlan, DeriveSteps, observedSteps
    <2> QED
      BY <1>1, <2>1, NewPlanRefines
  <1>4. CASE GoalCreate
    <2>1. UNCHANGED <<births, birth, plans, mutating, gated, runs>> /\ Persist
      BY <1>4 DEF GoalCreate, CreateGoal, stepVars, observedSteps
    <2> QED
      BY <1>1, <2>1, FrameCloses
  <1>5. CASE ReasoningCall
    <2>1. UNCHANGED <<births, birth, mutating, gated, runs>>
      BY <1>5 DEF ReasoningCall, ReasoningSaved, ReasoningUnsaved, stepVars, observedSteps
    <2>2. \/ Persist /\ (PausePlan \/ UNCHANGED goalVars)
          \/ UNCHANGED goalVars /\ UNCHANGED disk
      BY <1>5
      DEF ReasoningCall, ReasoningSaved, PlanFails, DraftPauses, EvidenceReturned, ReviewFailed,
          PauseCurrent, ReasoningUnsaved, Ask, Retry, AskFails, DraftReturned, DraftRecorded,
          CritiqueArrives
    <2>3. /\ \A p \in PlanIds : plans'[p] \in {plans[p], "paused", "cancelled"}
          /\ UNCHANGED goalVars => plans' = plans
      BY <2>2
      DEF PausePlan, goalVars, ContractInv, GoalInv, ExecutionInv, ExecutionTypeOK, GoalTypeOK
    <2> QED
      BY <1>1, <2>1, <2>2, <2>3, FrameCloses
  <1>6. ASSUME \/ ProjectArchive \/ ProjectPatch \/ TeamCall \/ ApplyCall \/ RolesCall
               \/ CheckCall \/ OtherPersists \/ UNCHANGED vars
        PROVE  Contract!Next
    <2>1. UNCHANGED goalExecutionVars
      BY <1>6
      DEF ProjectArchive, ProjectPatch, TeamCall, ApplyCall, RolesCall, CheckCall, OtherPersists,
          vars
    <2>2. Persist \/ UNCHANGED disk
      <3>1. CASE RolesCall
        BY <3>1
        DEF RolesCall, Rebind, EndpointCall, PresetStart, PresetPut, PresetRefused, PresetDelete
      <3> QED
        BY <1>6, <3>1
        DEF ProjectArchive, ProjectPatch, TeamCall, ApplyCall, CheckCall, OtherPersists, vars
    <2>3. UNCHANGED <<births, birth, plans, mutating, gated, runs>>
      BY <2>1 DEF goalExecutionVars, goalVars, stepVars, observedSteps
    <2> QED
      BY <1>1, <2>2, <2>3, FrameCloses
  <1> QED
    BY <1>1, <1>2, <1>3, <1>4, <1>5, <1>6, RestartRefines DEF Next

\* What an operator is promised of a goal and its plans (ADR-0003) is what
\* goal-store.ts and goal-orchestrator.ts do, for any number of plans, steps and
\* derivations, whatever is called in what order, refused, or lost by a restart.
THEOREM RefinesGoalContract == Spec => ImplementsGoalContract
  <1>1. Init => Contract!Init
    <2> SUFFICES ASSUME Init PROVE Contract!Init
      OBVIOUS
    <2>1. \A n \in Births : StageOf(n) = "none"
      <3>1. StageFacts /\ births = 0
        BY InitSettled, StagesKnown DEF Init, ExecutionInit
      <3> QED
        BY <3>1 DEF StageFacts, Births
    <2> QED
      BY <2>1 DEF Init, ExecutionInit, Contract!Init, StepIds
  <1>2. ContractInv /\ [Next]_vars => [Contract!Next]_(Contract!vars)
    BY NextRefines
  <1> QED
    BY <1>1, <1>2, AlwaysContractInv, PTL DEF Spec, ImplementsGoalContract, Contract!Spec
=============================================================================
