------------------------- MODULE ExecutionProposal -------------------------
(***************************************************************************)
(* Execution proposals (storage/execution-proposal-store.ts) and their     *)
(* dispatch (execution/execution-dispatcher.ts): a proposed command runs   *)
(* after an operator confirmed it.  The dispatch handler awaits the command*)
(* and writes the snapshot only afterwards, so any other handler, another  *)
(* dispatch, or a crash can come in between.  All other handlers are one   *)
(* step.  Proposals with a command run it; the WorkBuddy inbox is not      *)
(* modelled here.                                                          *)
(***************************************************************************)
EXTENDS GoalPlan, FiniteSets

CONSTANTS
    MaxProposals,   \* bound: proposals created in one behaviour
    MaxExecutions,  \* bound: commands started for one proposal
    ConfirmTTL      \* expiresAt - createdAt, in ticks

ASSUME ProposalAssumption ==
    MaxProposals \in Nat /\ MaxExecutions \in Nat /\ ConfirmTTL \in Nat

ProposalIds == 1..MaxProposals

VARIABLES
    proposals,  \* executionProposalStore.proposals
    disk,       \* the last snapshot persist() wrote
    created,    \* proposals created so far
    running,    \* dispatch handlers awaiting their command, per proposal
    executions, \* commands ever started, per proposal
    approved    \* proposals the operator's confirm was accepted for

vars == <<goalVars, proposals, disk, created, running, executions, approved>>

ProposalStatus == {"absent", "awaiting-confirmation", "confirmed", "dispatching",
                   "returned", "paused", "cancelled", "timed-out"}

Proposal == [status    : ProposalStatus,
             plan      : PlanIds,
             onPlan    : BOOLEAN,               \* is stepId a step of the plan?
             binding   : Bindings \cup {NoBinding},     \* bindingHash
             confirmed : BOOLEAN,                       \* is confirmedAt set?
             age       : 0..(ConfirmTTL + 1)]

AbsentProposal == [status |-> "absent", plan |-> 1, onPlan |-> FALSE,
                   binding |-> NoBinding, confirmed |-> FALSE, age |-> 0]

Snapshot == [goal : GoalStatus,
             plans : [PlanIds -> PlanStatus],
             bindings : [PlanIds -> Binding],
             proposals : [ProposalIds -> Proposal]]

TypeOK ==
    /\ GoalTypeOK
    /\ proposals \in [ProposalIds -> Proposal]
    /\ disk \in Snapshot
    /\ created \in 0..MaxProposals
    /\ running \in [ProposalIds -> 0..MaxExecutions]
    /\ executions \in [ProposalIds -> 0..MaxExecutions]
    /\ approved \subseteq ProposalIds

-----------------------------------------------------------------------------

Init ==
    /\ GoalInit
    /\ proposals = [p \in ProposalIds |-> AbsentProposal]
    /\ disk = [goal |-> goal, plans |-> plans, bindings |-> bindings,
               proposals |-> proposals]
    /\ created = 0
    /\ running = [p \in ProposalIds |-> 0]
    /\ executions = [p \in ProposalIds |-> 0]
    /\ approved = {}

Persist == disk' = [goal |-> goal', plans |-> plans', bindings |-> bindings',
                    proposals |-> proposals']

commandVars == <<running, executions, approved>>

\* POST /bridge/execution-proposals: createDraft and requestConfirmation.
Create(plan) ==
    /\ created < MaxProposals
    /\ plans[plan] # "absent"
    /\ bindings[plan].content # NoBinding
    /\ created' = created + 1
    /\ proposals' = [proposals EXCEPT ![created + 1] =
                       [AbsentProposal EXCEPT !.status = "awaiting-confirmation",
                                              !.plan = plan,
                                              !.onPlan = TRUE,
                                              !.binding = bindings[plan].content]]
    /\ UNCHANGED <<goalVars, commandVars>>
    /\ Persist

\* POST .../confirm with the proposal's own identity and hashes; any other is
\* refused.  A late one times the proposal out, without persist().
Confirm(p) ==
    /\ proposals[p].status = "awaiting-confirmation"
    /\ UNCHANGED <<goalVars, created, running, executions>>
    /\ IF proposals[p].age > ConfirmTTL
         THEN /\ proposals' = [proposals EXCEPT ![p].status = "timed-out"]
              /\ UNCHANGED <<approved, disk>>
         ELSE /\ proposals' = [proposals EXCEPT ![p].status = "confirmed",
                                                ![p].confirmed = TRUE]
              /\ approved' = approved \cup {p}
              /\ Persist

\* Faulty variant: the edited proposal keeps the confirmation time.
Edited_confirmed(proposal) == [proposal EXCEPT !.status = "awaiting-confirmation"]

\* Faulty variant: confirmation is not requested for it, and it stays a draft.
Edited_draft(proposal) == [proposal EXCEPT !.status = "draft", !.confirmed = FALSE]

\* The proposal that replaces an edited one.  expiresAt is copied, and so is
\* the binding hash.
Edited(proposal) ==
    [proposal EXCEPT !.status = "awaiting-confirmation", !.confirmed = FALSE]

\* POST .../edit
Edit(p) ==
    /\ created < MaxProposals
    /\ proposals[p].status \notin {"absent", "returned", "dispatching"}
    /\ created' = created + 1
    /\ proposals' = [proposals EXCEPT ![p].status = "cancelled",
                                      ![created + 1] = Edited(proposals[p])]
    /\ UNCHANGED <<goalVars, commandVars>>
    /\ Persist

Pausable == {"awaiting-confirmation", "confirmed", "dispatching"}

\* POST .../pause: also while the command runs.
Pause(p) ==
    /\ proposals[p].status \in Pausable
    /\ proposals' = [proposals EXCEPT ![p].status = "paused"]
    /\ UNCHANGED <<goalVars, created, commandVars>>
    /\ Persist

\* POST .../resume: back to confirmed, whatever happened after confirmation.
Resume(p) ==
    /\ proposals[p].status = "paused"
    /\ proposals' = [proposals EXCEPT ![p].status =
                       IF proposals[p].confirmed THEN "confirmed"
                                                 ELSE "awaiting-confirmation"]
    /\ UNCHANGED <<goalVars, created, commandVars>>
    /\ Persist

\* POST .../cancel
Cancel(p) ==
    /\ proposals[p].status \in {"awaiting-confirmation", "confirmed", "paused"}
    /\ proposals' = [proposals EXCEPT ![p].status = "cancelled"]
    /\ UNCHANGED <<goalVars, created, commandVars>>
    /\ Persist

-----------------------------------------------------------------------------
(* POST .../dispatch                                                       *)

BindingMatches(p) == proposals[p].binding = bindings[proposals[p].plan].content

\* Plan paused or cancelled, rebound, or derived anew under its old id (with
\* other steps): the proposal is stopped, not run.
DispatchRefused(p) ==
    /\ proposals[p].status = "confirmed"
    /\ LET plan == plans[proposals[p].plan] IN
         /\ \/ plan \in {"paused", "cancelled"}
            \/ ~BindingMatches(p)
            \/ ~proposals[p].onPlan
         /\ proposals' = [proposals EXCEPT ![p].status =
                            IF plan = "cancelled" THEN "cancelled" ELSE "paused"]
    /\ UNCHANGED <<goalVars, created, commandVars>>
    /\ Persist

\* Up to the await: markDispatching, and the command is started.
Dispatch(p) ==
    /\ proposals[p].status = "confirmed"
    /\ plans[proposals[p].plan] \notin {"paused", "cancelled"}
    /\ BindingMatches(p)
    /\ proposals[p].onPlan
    /\ executions[p] < MaxExecutions
    /\ proposals' = [proposals EXCEPT ![p].status = "dispatching"]
    /\ executions' = [executions EXCEPT ![p] = @ + 1]
    /\ running' = [running EXCEPT ![p] = @ + 1]
    /\ UNCHANGED <<goalVars, created, approved, disk>>

\* After the await: a result is recorded whatever became of the proposal in
\* the meantime.
CommandReturns(p) ==
    /\ running[p] > 0
    /\ running' = [running EXCEPT ![p] = @ - 1]
    /\ proposals' = [proposals EXCEPT ![p].status = "returned"]
    /\ UNCHANGED <<goalVars, created, executions, approved>>
    /\ Persist

\* Faulty variant: a failed command pauses its proposal whatever it is by now.
CommandFails_always(p) ==
    /\ running[p] > 0
    /\ running' = [running EXCEPT ![p] = @ - 1]
    /\ UNCHANGED <<goalVars, created, executions, approved>>
    /\ proposals' = [proposals EXCEPT ![p].status = "paused"]
    /\ Persist

\* After a failure or timeout: pause() throws if the proposal is no longer
\* pausable, and the handler ends without persist().
CommandFails(p) ==
    /\ running[p] > 0
    /\ running' = [running EXCEPT ![p] = @ - 1]
    /\ UNCHANGED <<goalVars, created, executions, approved>>
    /\ IF proposals[p].status \in Pausable
         THEN proposals' = [proposals EXCEPT ![p].status = "paused"] /\ Persist
         ELSE UNCHANGED <<proposals, disk>>

-----------------------------------------------------------------------------

\* The goal's handlers that leave the proposals alone.
GoalCall ==
    /\ \/ ApprovePlan \/ PausePlan \/ CancelGoal
       \/ \E plan \in PlanIds : SetBinding(plan)
    /\ UNCHANGED <<proposals, created, commandVars>>
    /\ Persist

\* A derivation gives its plan new steps; one that answers 409 is not persisted.
Derive(parent, child) ==
    /\ DerivePlan(parent, child)
    /\ proposals' = [p \in ProposalIds |->
                       IF proposals[p].plan = child
                         THEN [proposals[p] EXCEPT !.onPlan = FALSE] ELSE proposals[p]]
    /\ UNCHANGED <<created, commandVars>>
    /\ IF DeriveAnswered(child) THEN Persist ELSE UNCHANGED disk

\* Any other handler that ends in persist(): it saves a dispatch whose command
\* is still awaited, or what a derivation that answered 409 left in memory.
OtherPersists ==
    /\ UNCHANGED <<goalVars, proposals, created, commandVars>>
    /\ Persist

\* The process stops (its commands with it, or unobserved) and comes back.
Restart ==
    /\ goal' = disk.goal
    /\ plans' = disk.plans
    /\ current' = LastPlan(disk.plans)
    /\ bindings' = disk.bindings
    /\ proposals' = disk.proposals
    /\ running' = [p \in ProposalIds |-> 0]
    /\ UNCHANGED <<disk, created, executions, approved>>

Age(proposal) ==
    [proposal EXCEPT !.age = IF proposal.status = "absent" \/ @ > ConfirmTTL
                               THEN @ ELSE @ + 1]

Tick ==
    /\ proposals' = [p \in ProposalIds |-> Age(proposals[p])]
    /\ disk' = [disk EXCEPT !.proposals = [p \in ProposalIds |-> Age(@[p])]]
    /\ UNCHANGED <<goalVars, created, commandVars>>

ProposalCall(p) ==
    \/ Confirm(p) \/ Edit(p) \/ Pause(p) \/ Resume(p) \/ Cancel(p)
    \/ DispatchRefused(p) \/ Dispatch(p) \/ CommandReturns(p) \/ CommandFails(p)

Next ==
    \/ \E plan \in PlanIds : Create(plan)
    \/ \E p \in ProposalIds : ProposalCall(p)
    \/ GoalCall
    \/ \E parent, child \in PlanIds : Derive(parent, child)
    \/ OtherPersists
    \/ Restart
    \/ Tick

Spec == Init /\ [][Next]_vars

-----------------------------------------------------------------------------
(* Safety.                                                                 *)

\* A command is started only for a proposal that an operator's confirm was
\* accepted for (not for one that inherited or regained the status by edits,
\* pauses, resumes or restarts), under the binding and for the step it was
\* proposed for, and in a plan that is neither paused nor cancelled.
ExecutesWhatWasConfirmed ==
    [][\A p \in ProposalIds : executions'[p] > executions[p] =>
         /\ p \in approved
         /\ proposals[p].onPlan
         /\ proposals[p].binding = bindings[proposals[p].plan].content
         /\ plans[proposals[p].plan] \notin {"paused", "cancelled"}]_vars

\* A cancelled (or edited) proposal can never be dispatched again: neither its
\* own command ending late, nor a resume, nor a restart revives it; at most
\* the result of a command already started is recorded on it.
CancelledNeverRevived ==
    [][\A p \in ProposalIds :
         proposals[p].status = "cancelled" =>
             proposals'[p].status \in {"cancelled", "returned"}]_vars

\* ADR-0024: bindings are immutable during a run.  Once a plan's approval
\* locked its binding, nothing replaces or unlocks it: not an update, not a
\* derivation that reuses the plan's id, not a restart.
LockedBindingImmutable ==
    [][\A p \in PlanIds : bindings[p].locked => bindings'[p] = bindings[p]]_vars

-----------------------------------------------------------------------------
(* The proposals implement the operator's gate.                            *)

\* Where a proposal is: paused or being dispatched it is as confirmed as before.
GateOf(proposal) ==
    CASE proposal.status = "absent" -> "none"
      [] proposal.status \in {"returned", "cancelled"} -> "closed"
      [] proposal.status \notin {"absent", "returned", "cancelled"} ->
           IF proposal.confirmed THEN "confirmed" ELSE "proposed"

Operator == INSTANCE OperatorGate WITH
    Items <- ProposalIds,
    gate <- [p \in ProposalIds |-> GateOf(proposals[p])],
    accepted <- approved,
    times <- executions

\* Confirmed by an operator's accepted confirm alone, executed only while
\* confirmed, and never open again once cancelled, replaced or returned -
\* through edits, pauses, resumes, refused dispatches, late results and
\* restarts on a snapshot that is behind.
ImplementsOperatorGate == Operator!Spec

-----------------------------------------------------------------------------
(* What ADR-0024 says of confirmations and the code does not do.           *)

\* ADR-0024: a confirmation is single-use, and a resume must not replay an
\* execution that may have been dispatched.
ConfirmationSingleUse == \A p \in ProposalIds : executions[p] <= 1
=============================================================================
