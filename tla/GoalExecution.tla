--------------------------- MODULE GoalExecution ---------------------------
(***************************************************************************)
(* How a goal gets its plan and how the plan's steps run: plan generation  *)
(* (goal/goal-plan-generator.ts), the orchestrator (goal/                  *)
(* goal-orchestrator.ts) and the step transitions of storage/goal-store.ts.*)
(*                                                                         *)
(* Generation awaits a planner command between its check of the goal and   *)
(* the attach; everything else is one step.  Attaching or deriving a plan  *)
(* gives its steps new random ids: the n-th such call is birth n, and a    *)
(* step's id is the pair of its plan's birth and its index.  No caller asks*)
(* the orchestrator to simulate a failure.                                 *)
(***************************************************************************)
EXTENDS GoalPlan, GoalPlanParser, FiniteSets

CONSTANTS
    MaxBirths,        \* bound: plans attached or derived
    MaxGenerations    \* bound: generations awaiting the planner at once

ASSUME GenerationAssumption == MaxBirths \in Nat \ {0} /\ MaxGenerations \in Nat

Births == 1..MaxBirths

StepIds == Births \X StepIndexes

VARIABLES
    births,      \* plans attached or derived so far
    birth,       \* which of them each plan id holds
    mutating,    \* indexes of the state-mutating steps (copied when deriving)
    permitted,   \* permittedTiers of the plan (copied when deriving)
    steps,       \* status of each step of each plan id
    generating,  \* generations awaiting the planner command
    granted,     \* observed: births the operator approved
    gated,       \* observed: step ids the operator approved at the gate
    runs         \* observed: how often each step id ran to completion

stepVars == <<birth, mutating, permitted, steps>>
observedSteps == <<granted, gated, runs>>
goalExecutionVars == <<goalVars, births, stepVars, generating, observedSteps>>

StepStatus == {"pending", "blocked-needs-gate", "gated-approved", "done"}

ExecutionTypeOK ==
    /\ GoalTypeOK
    /\ births \in 0..MaxBirths
    /\ birth \in [PlanIds -> 0..MaxBirths]
    /\ mutating \subseteq StepIndexes
    /\ permitted \subseteq Tiers
    /\ steps \in [PlanIds -> [StepIndexes -> StepStatus]]
    /\ generating \in 0..MaxGenerations
    /\ granted \subseteq Births
    /\ gated \subseteq StepIds
    /\ runs \in [StepIds -> 0..2]

NoGoal ==
    /\ goal = "absent"
    /\ plans = [p \in PlanIds |-> "absent"]
    /\ current = 1
    /\ bindings = [p \in PlanIds |-> [content |-> NoBinding, locked |-> FALSE]]

ExecutionInit ==
    /\ NoGoal
    /\ births = 0
    /\ birth = [p \in PlanIds |-> 0]
    /\ mutating = {}
    /\ permitted = {"patch-proposal"}
    /\ steps = [p \in PlanIds |-> [i \in StepIndexes |-> "pending"]]
    /\ generating = 0
    /\ granted = {}
    /\ gated = {}
    /\ runs = [s \in StepIds |-> 0]

StepOf(p, i) == <<birth[p], i>>

HasPlan == plans[current] # "absent"

-----------------------------------------------------------------------------
(* Plan generation.                                                        *)

\* createGoal (its project and binding snapshot are ControlPlane's).
CreateGoal ==
    /\ goal = "absent"
    /\ goal' = "draft"
    /\ UNCHANGED <<plans, current, bindings, births, stepVars, generating, observedSteps>>

\* POST /bridge/goals/plan up to the planner command.
GenerateStart ==
    /\ goal = "draft"
    /\ generating < MaxGenerations
    /\ generating' = generating + 1
    /\ UNCHANGED <<goalVars, births, stepVars, observedSteps>>

\* A plan is stored under p with steps that have not run.
NewSteps(p) ==
    /\ births < MaxBirths
    /\ births' = births + 1
    /\ birth' = [birth EXCEPT ![p] = births + 1]
    /\ steps' = [steps EXCEPT ![p] = [i \in StepIndexes |-> "pending"]]

\* Faulty variant: attachPlan trusts the status looked at before the await.
GenerateAttach_late ==
    /\ generating > 0
    /\ goal # "absent"
    /\ plans' = [plans EXCEPT ![1] = "awaiting-approval"]
    /\ current' = 1
    /\ goal' = "planned"
    /\ NewSteps(1)
    /\ \E plan \in Parsed : mutating' = plan.mutating /\ permitted' = plan.permitted
    /\ generating' = generating - 1
    /\ UNCHANGED <<bindings, observedSteps>>

\* The command's answer parses: attachPlan, if the goal is still a draft.
GenerateAttach ==
    /\ generating > 0
    /\ AttachPlan
    /\ NewSteps(1)
    /\ \E plan \in Parsed : mutating' = plan.mutating /\ permitted' = plan.permitted
    /\ generating' = generating - 1
    /\ UNCHANGED observedSteps

\* The command fails, its answer is refused, or the goal is no draft any more.
GenerateFails ==
    /\ generating > 0
    /\ generating' = generating - 1
    /\ UNCHANGED <<goalVars, births, stepVars, observedSteps>>

-----------------------------------------------------------------------------
(* The operator's calls and the orchestrator.                              *)

Approve ==
    /\ ApprovePlan
    /\ granted' = granted \cup {birth[current]}
    /\ UNCHANGED <<births, stepVars, generating, gated, runs>>

\* Reasoning for a bound plan failed, or the goal was cancelled.
PauseOrCancel ==
    /\ PausePlan \/ CancelGoal
    /\ UNCHANGED <<births, stepVars, generating, observedSteps>>

Bind(p) ==
    /\ SetBinding(p)
    /\ UNCHANGED <<births, stepVars, generating, observedSteps>>

\* Faulty variant: the steps are copied as they are.
DeriveSteps_asTheyAre(parent, child) ==
    /\ births < MaxBirths
    /\ births' = births + 1
    /\ birth' = [birth EXCEPT ![child] = births + 1]
    /\ steps' = [steps EXCEPT ![child] = steps[parent]]

\* derivePlan copies the parent's steps as new, pending ones.
DeriveSteps(parent, child) == NewSteps(child)

Derive(parent, child) ==
    /\ DerivePlan(parent, child)
    /\ DeriveSteps(parent, child)
    /\ UNCHANGED <<mutating, permitted, generating, observedSteps>>

\* Statuses in which a step of the current plan may change.
InRun == plans[current] \in {"approved", "executing"}

\* transitionStep: the plan executes, and is done with its last step.
Transition(i, status) ==
    /\ InRun
    /\ steps' = [steps EXCEPT ![current][i] = status]
    /\ LET allDone == \A j \in StepIndexes : steps'[current][j] = "done" IN
         /\ plans' = [plans EXCEPT ![current] = IF allDone THEN "done" ELSE "executing"]
         /\ goal' = IF allDone THEN "done" ELSE goal
    /\ UNCHANGED <<current, bindings, births, birth, mutating, permitted, generating, granted>>

\* nextRunnableStep: the first step that is neither at its gate nor done.
Runnable == {i \in StepIndexes : steps[current][i] \in {"pending", "gated-approved"}}

IsNext(i) == i \in Runnable /\ \A j \in Runnable : i <= j

TierPermitted(i) == i \in mutating => "workspace-write" \in permitted

NeedsGate(i) == i \in mutating /\ steps[current][i] = "pending"

\* POST /bridge/goals/step: one advance() of a fresh orchestrator.
Advance ==
    /\ goal = "approved"
    /\ \E i \in StepIndexes :
         /\ IsNext(i) /\ TierPermitted(i)
         /\ IF NeedsGate(i)
              THEN /\ Transition(i, "blocked-needs-gate")
                   /\ UNCHANGED runs
              ELSE /\ Transition(i, "done")
                   /\ runs' = [runs EXCEPT ![StepOf(current, i)] =
                                 IF @ = 2 THEN 2 ELSE @ + 1]
    /\ UNCHANGED gated

\* POST /bridge/goals/gate
ApproveGate(i) ==
    /\ steps[current][i] = "blocked-needs-gate"
    /\ Transition(i, "gated-approved")
    /\ gated' = gated \cup {StepOf(current, i)}
    /\ UNCHANGED runs

-----------------------------------------------------------------------------
(* Safety.                                                                 *)

\* ADR-0003: nothing of a plan runs before its approval, and no step that
\* changes state before its own gate, nor at all unless the plan's request
\* permitted it.  Both approvals are for these very
\* steps: those given to a plan that was derived anew under the same id, or
\* lost by a restart, do not count.
RunsOnlyApproved ==
    \A p \in PlanIds, i \in StepIndexes :
        (plans[p] # "absent" /\ steps[p][i] = "done") =>
            /\ birth[p] \in granted
            /\ i \in mutating => StepOf(p, i) \in gated /\ "workspace-write" \in permitted

\* A step completes once, whatever is repeated, cancelled or restarted.
StepsRunOnce == \A s \in StepIds : runs[s] <= 1

\* Two generations may await the planner for one draft.  The later answer finds
\* a goal that was planned, perhaps approved or cancelled, and must leave alone
\* what the operator has seen.
LateAnswerPlansNothing ==
    [][(births' > births /\ generating' < generating) =>
         /\ goal = "draft"
         /\ \A p \in PlanIds : plans[p] = "absent" /\ birth[p] = 0]_goalExecutionVars
=============================================================================
