--------------------------- MODULE GoalPlanParser ---------------------------
(***************************************************************************)
(* What the planner command answered, and what of it may become a plan     *)
(* (goal/goal-plan-parser.ts with validatePlan of packages/shared/src/     *)
(* schemas.ts), as operators.  The route has it parsed strictly: an answer *)
(* that oversteps is refused, never corrected.                             *)
(*                                                                         *)
(* The ceiling of ten steps is NumSteps here, and the plans of the model   *)
(* have exactly so many; a longer answer stands for one beyond it.         *)
(***************************************************************************)
EXTENDS Integers

CONSTANT NumSteps     \* steps of the goal's plans

ASSUME StepAssumption == NumSteps \in Nat \ {0}

StepIndexes == 1..NumSteps

Tiers == {"patch-proposal", "workspace-write"}

\* A step as the model wrote it: whether its kind changes state, and its tier
\* ("invalid" if a field of the step does not pass the schema).
AnsweredStep == [mutating : BOOLEAN, tier : Tiers \cup {"invalid"}]

\* The object found in the output, if there is one: it may name another goal
\* or claim a field that only the bridge may set, such as autoApprove.
Answers ==
    [found : BOOLEAN, ourGoal : BOOLEAN, forbidden : BOOLEAN,
     steps : [StepIndexes -> AnsweredStep] \cup [1..(NumSteps + 1) -> AnsweredStep]]

\* permittedTiers of the request, as a sequence: it need not name any.
GivenTiers == {<<>>} \cup {<<tiers>> : tiers \in SUBSET Tiers}

\* normalizeCallerPermittedTiers
tiersValid(given) == given = <<>> \/ "patch-proposal" \in given[1]

callerTiers(given) == IF given = <<>> THEN {"patch-proposal"} ELSE given[1]

\* Rules A and B: a step writes the workspace if and only if its kind says so.
coherent(answer) ==
    \A i \in DOMAIN answer.steps :
        answer.steps[i].mutating <=> answer.steps[i].tier = "workspace-write"

\* Rule C: the model cannot grant itself what the caller did not.
withinTiers(answer, given) ==
    \A i \in DOMAIN answer.steps :
        answer.steps[i].tier = "workspace-write" => "workspace-write" \in callerTiers(given)

wellFormed(answer) == \A i \in DOMAIN answer.steps : answer.steps[i].tier \in Tiers

\* parseGoalPlanResult, in strict mode.
parses(answer, given) ==
    /\ answer.found /\ answer.ourGoal /\ ~answer.forbidden
    /\ DOMAIN answer.steps = StepIndexes
    /\ tiersValid(given)
    /\ coherent(answer)
    /\ withinTiers(answer, given)
    /\ wellFormed(answer)

\* attachPlan takes a step's effect from its kind, not from what it claims.
mutatingSteps(answer) == {i \in DOMAIN answer.steps : answer.steps[i].mutating}

\* What an answer can leave in the store: the steps that change state, and the
\* tiers the plan may use.
Parsed == {[mutating |-> mutatingSteps(x[1]), permitted |-> callerTiers(x[2])] :
              x \in {y \in Answers \X GivenTiers : parses(y[1], y[2])}}
=============================================================================
