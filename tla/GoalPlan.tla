------------------------------ MODULE GoalPlan ------------------------------
(***************************************************************************)
(* A goal, its plans and their endpoint bindings (storage/goal-store.ts,   *)
(* storage/automation-binding-store.ts): what each handler does to them.   *)
(* ExecutionProposal adds the proposals, GoalExecution the steps of a plan *)
(* and ControlPlane everything else that hangs on a goal; they also add    *)
(* the snapshot, and turn these actions into steps.                        *)
(*                                                                         *)
(* Plan ids are chosen by the client that derives a plan; here a new one   *)
(* is the next number, so the largest plan is the last one of the Map.     *)
(***************************************************************************)
EXTENDS Integers

CONSTANTS
    MaxPlans,       \* bound: plans of the goal
    Bindings        \* contents (hashes) an endpoint binding can have

ASSUME GoalAssumption == MaxPlans \in Nat \ {0}

PlanIds == 1..MaxPlans

NoBinding == "none"

VARIABLES
    goal,       \* the goal's status
    plans,      \* status of each plan
    current,    \* plansByGoal: the plan approve, pause and cancel act on
    bindings    \* automationBindingStore.bindingsByPlan

goalVars == <<goal, plans, current, bindings>>

GoalStatus == {"absent", "draft", "planned", "approved", "paused", "cancelled", "done"}

PlanStatus == {"absent", "awaiting-approval", "approved", "executing", "paused",
               "cancelled", "done"}

Binding == [content : Bindings \cup {NoBinding}, locked : BOOLEAN]

GoalTypeOK ==
    /\ goal \in GoalStatus
    /\ plans \in [PlanIds -> PlanStatus]
    /\ current \in PlanIds
    /\ bindings \in [PlanIds -> Binding]

\* createGoal and attachPlan have been called; nothing is bound yet.
GoalInit ==
    /\ goal = "planned"
    /\ plans = [p \in PlanIds |-> IF p = 1 THEN "awaiting-approval" ELSE "absent"]
    /\ current = 1
    /\ bindings = [p \in PlanIds |-> [content |-> NoBinding, locked |-> FALSE]]

-----------------------------------------------------------------------------

\* attachPlan, for a goal that has no plan yet.
AttachPlan ==
    /\ goal = "draft"
    /\ plans' = [plans EXCEPT ![1] = "awaiting-approval"]
    /\ current' = 1
    /\ goal' = "planned"
    /\ UNCHANGED bindings

\* POST /bridge/goals/approve: approvePlan, then lockBinding if there is one.
ApprovePlan ==
    /\ plans[current] = "awaiting-approval"
    /\ plans' = [plans EXCEPT ![current] = "approved"]
    /\ goal' = "approved"
    /\ bindings' = [bindings EXCEPT ![current].locked = (@ \/ bindings[current].content # NoBinding)]
    /\ UNCHANGED current

\* pausePlan, after reasoning for a bound plan of the goal failed (whichever
\* plan that was, the current one is paused).  Nothing resumes a plan.
PausePlan ==
    /\ \E p \in PlanIds : bindings[p].content # NoBinding
    /\ plans[current] \notin {"absent", "done", "cancelled"}
    /\ plans' = [plans EXCEPT ![current] = "paused"]
    /\ goal' = "paused"
    /\ UNCHANGED <<current, bindings>>

\* POST /bridge/goals/cancel
CancelGoal ==
    /\ goal \notin {"absent", "done", "cancelled"}
    /\ goal' = "cancelled"
    /\ plans' = [plans EXCEPT ![current] =
                   IF @ \in {"absent", "done"} THEN @ ELSE "cancelled"]
    /\ UNCHANGED <<current, bindings>>

\* POST /bridge/automation/bindings: create or update, unless it is locked.
SetBinding(p) ==
    /\ plans[p] # "absent"
    /\ ~bindings[p].locked
    /\ \E b \in Bindings : bindings' = [bindings EXCEPT ![p].content = b]
    /\ UNCHANGED <<goal, plans, current>>

\* Ids a client may derive a plan with: one in use, or a new one.
DerivableIds == {p \in PlanIds : p = 1 \/ plans[p - 1] # "absent"}

\* Faulty variant: the lock of an existing binding is not looked at.
CommitBinding_overLock(p) ==
    \E b \in Bindings : bindings' = [bindings EXCEPT ![p] = [content |-> b, locked |-> FALSE]]

\* commitBinding, which throws (409) if the id already has a locked binding.
CommitBinding(p) ==
    IF bindings[p].locked
      THEN UNCHANGED bindings
      ELSE \E b \in Bindings : bindings' = [bindings EXCEPT ![p].content = b]

\* POST /bridge/automation/bindings/derive: derivePlan runs first, and an id in
\* use replaces that plan, also if commitBinding throws afterwards.
DerivePlan(parent, child) ==
    /\ plans[parent] # "absent"
    /\ bindings[parent].content # NoBinding
    /\ child \in DerivableIds
    /\ plans' = [plans EXCEPT ![child] = "awaiting-approval"]
    /\ current' = child
    /\ goal' = "planned"
    /\ CommitBinding(child)

DeriveAnswered(child) == ~bindings[child].locked

\* The plan a restarted process takes for the goal's: the last of the Map
\* (1 if there is none).
LastPlan(ps) == CHOOSE p \in PlanIds :
                    /\ p = 1 \/ ps[p] # "absent"
                    /\ \A q \in PlanIds : q > p => ps[q] = "absent"
=============================================================================
