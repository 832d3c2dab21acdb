---------------------- MODULE ExecutionProposal_proofs ----------------------
(***************************************************************************)
(* Proofs about ExecutionProposal, for any number of plans, bindings,      *)
(* proposals and commands, and any time to confirm.                        *)
(***************************************************************************)
EXTENDS ExecutionProposal, WellFoundedInduction, TLAPS

-----------------------------------------------------------------------------
(* The inductive invariant.                                                *)

\* A proposal says confirmed only if it bears a confirmation, and awaits none
\* if it bears one.
StatusAgrees(status, confirmed) ==
    /\ status \in {"confirmed", "dispatching"} => confirmed
    /\ status \in {"absent", "awaiting-confirmation", "timed-out"} => ~confirmed

\* Of proposals `ps', in memory or on disk: the ones that bear a confirmation
\* are those that got it from the operator.
ConfirmedByOperator(ps) ==
    \A p \in ProposalIds :
        /\ StatusAgrees(ps[p].status, ps[p].confirmed)
        /\ ps[p].confirmed <=> p \in approved

\* What was created is there, in memory and on disk, and the rest has no traces.
FutureAbsent ==
    \A p \in ProposalIds :
        /\ p > created <=> proposals[p].status = "absent"
        /\ p > created <=> disk.proposals[p].status = "absent"
        /\ p > created => running[p] = 0

\* A cancellation is always saved, and so is every change of a binding: the
\* snapshot may only be behind in what a restart is allowed to undo.
CancelledSaved ==
    \A p \in ProposalIds :
        proposals[p].status = "cancelled" => disk.proposals[p].status = "cancelled"

BindingsSaved == disk.bindings = bindings

\* Nor does a proposal move at the operator's gate without being saved.
GateSaved == \A p \in ProposalIds : GateOf(disk.proposals[p]) = GateOf(proposals[p])

\* The handlers that await a command are among the commands started.
AwaitedWereStarted == \A p \in ProposalIds : running[p] <= executions[p]

ProposalInv ==
    /\ TypeOK
    /\ ConfirmedByOperator(proposals)
    /\ ConfirmedByOperator(disk.proposals)
    /\ FutureAbsent
    /\ CancelledSaved
    /\ BindingsSaved
    /\ GateSaved
    /\ AwaitedWereStarted

-----------------------------------------------------------------------------
(* The plan a restart takes for the current one.                           *)

\* A set of naturals has a least element.
LEMMA LeastElement ==
    ASSUME NEW S \in SUBSET Nat, S # {}
    PROVE  \E i \in S : \A j \in S : i <= j
  <1> DEFINE Less == OpToRel(<, Nat)
  <1>1. IsWellFoundedOn(Less, Nat)
    BY NatLessThanWellFounded
  <1>2. \A i, j \in Nat : i < j => <<i, j>> \in Less
    BY DEF OpToRel
  <1> HIDE DEF Less
  <1>3. PICK i \in S : \A j \in S : <<j, i>> \notin Less
    BY <1>1, WFMin
  <1>4. \A j \in S : ~(j < i)
    BY <1>2, <1>3
  <1> QED
    BY <1>4

\* LastPlan is a plan id: there is a last one that is taken, MaxPlans less the
\* least distance of one from it.
LEMMA LastPlanTyped ==
    ASSUME NEW ps
    PROVE  LastPlan(ps) \in PlanIds
  <1> DEFINE Taken(p) == p = 1 \/ ps[p] # "absent"
  <1> DEFINE S == {d \in 0..(MaxPlans - 1) : Taken(MaxPlans - d)}
  <1>1. MaxPlans \in Nat \ {0}
    BY GoalAssumption
  <1>2. MaxPlans - 1 \in S
    BY <1>1
  <1>3. PICK d \in S : \A e \in S : d <= e
    <2>1. S \in SUBSET Nat /\ S # {}
      BY <1>1, <1>2
    <2> HIDE DEF S
    <2> QED
      BY <2>1, LeastElement
  <1> DEFINE last == MaxPlans - d
  <1>4. last \in PlanIds /\ Taken(last)
    BY <1>1, <1>3 DEF PlanIds
  <1>5. ASSUME NEW q \in PlanIds, q > last PROVE ps[q] = "absent"
    <2>1. MaxPlans - q \in 0..(MaxPlans - 1) /\ MaxPlans - q < d /\ MaxPlans - (MaxPlans - q) = q
      BY <1>1, <1>3, <1>5 DEF PlanIds
    <2>2. MaxPlans - q \notin S
      BY <1>3, <2>1
    <2>3. ~Taken(MaxPlans - (MaxPlans - q))
      BY <2>1, <2>2
    <2> QED
      BY <2>1, <2>3
  <1> QED
    BY <1>4, <1>5 DEF LastPlan

-----------------------------------------------------------------------------
(* The handlers of the goal.                                               *)

\* What the goal's handlers do to the goal keeps its types.
LEMMA GoalTyped ==
    ASSUME GoalTypeOK,
           \/ ApprovePlan \/ PausePlan \/ CancelGoal
           \/ \E plan \in PlanIds : SetBinding(plan)
           \/ \E parent, child \in PlanIds : DerivePlan(parent, child)
    PROVE  GoalTypeOK'
  <1> USE DEF GoalTypeOK, GoalStatus, PlanStatus, Binding
  <1>1. CASE ApprovePlan
    BY <1>1 DEF ApprovePlan
  <1>2. CASE PausePlan
    BY <1>2 DEF PausePlan
  <1>3. CASE CancelGoal
    BY <1>3 DEF CancelGoal
  <1>4. CASE \E plan \in PlanIds : SetBinding(plan)
    BY <1>4 DEF SetBinding
  <1>5. CASE \E parent, child \in PlanIds : DerivePlan(parent, child)
    BY <1>5 DEF DerivePlan, CommitBinding
  <1> QED
    BY <1>1, <1>2, <1>3, <1>4, <1>5

\* A locked binding stays as it is under every handler of the goal.
LEMMA LockHolds ==
    ASSUME GoalTypeOK,
           \/ ApprovePlan \/ PausePlan \/ CancelGoal
           \/ \E plan \in PlanIds : SetBinding(plan)
           \/ \E parent, child \in PlanIds : DerivePlan(parent, child),
           NEW p \in PlanIds, bindings[p].locked
    PROVE  bindings'[p] = bindings[p]
  <1>1. bindings \in [PlanIds -> Binding] /\ bindings[p] \in Binding
    BY DEF GoalTypeOK
  <1>2. CASE ApprovePlan
    BY <1>1, <1>2 DEF ApprovePlan, Binding
  <1>3. CASE PausePlan \/ CancelGoal
    BY <1>3 DEF PausePlan, CancelGoal
  <1>4. CASE \E plan \in PlanIds : SetBinding(plan)
    BY <1>1, <1>4 DEF SetBinding
  <1>5. CASE \E parent, child \in PlanIds : DerivePlan(parent, child)
    BY <1>1, <1>5 DEF DerivePlan, CommitBinding
  <1> QED
    BY <1>2, <1>3, <1>4, <1>5

-----------------------------------------------------------------------------
(* One step keeps the invariant.                                           *)

\* The invariant after a handler that persists: it is enough to look at memory.
LEMMA PersistKeeps ==
    ASSUME Persist, GoalTypeOK', (proposals \in [ProposalIds -> Proposal])',
           created' \in 0..MaxProposals, approved' \subseteq ProposalIds,
           running' \in [ProposalIds -> 0..MaxExecutions],
           executions' \in [ProposalIds -> 0..MaxExecutions],
           ConfirmedByOperator(proposals)', AwaitedWereStarted',
           \A p \in ProposalIds :
                /\ p > created' <=> proposals'[p].status = "absent"
                /\ p > created' => running'[p] = 0
    PROVE  ProposalInv'
  <1>1. /\ disk'.proposals = proposals' /\ disk'.bindings = bindings'
        /\ disk'.goal = goal' /\ disk'.plans = plans'
    BY DEF Persist
  <1>2. (disk \in Snapshot)'
    BY DEF Persist, Snapshot, GoalTypeOK
  <1>3. TypeOK'
    BY <1>2 DEF TypeOK
  <1> QED
    BY <1>1, <1>3
    DEF ProposalInv, ConfirmedByOperator, FutureAbsent, CancelledSaved, BindingsSaved, GateSaved

\* The server starts with nothing proposed: the invariant holds.
LEMMA InitInv == Init => ProposalInv
  <1> SUFFICES ASSUME Init PROVE ProposalInv
    OBVIOUS
  <1>1. GoalTypeOK
    BY GoalAssumption DEF Init, GoalInit, GoalTypeOK, GoalStatus, PlanStatus, PlanIds, Binding
  <1>2. AbsentProposal \in Proposal
    BY GoalAssumption, ProposalAssumption DEF AbsentProposal, Proposal, ProposalStatus, PlanIds
  <1>3. TypeOK
    BY <1>1, <1>2, ProposalAssumption DEF Init, TypeOK, Snapshot, GoalTypeOK
  <1>4. \A p \in ProposalIds : p > 0
    BY ProposalAssumption DEF ProposalIds
  <1> QED
    BY <1>3, <1>4
    DEF Init, ProposalInv, ConfirmedByOperator, StatusAgrees, FutureAbsent, CancelledSaved,
        BindingsSaved, GateSaved, AwaitedWereStarted, AbsentProposal

\* A new proposal, or one that replaces an edited one, is awaiting confirmation.
LEMMA CreateKeeps ==
    ASSUME ProposalInv,
           \/ \E plan \in PlanIds : Create(plan)
           \/ \E p \in ProposalIds : Edit(p)
    PROVE  ProposalInv'
  <1> USE DEF ProposalInv, TypeOK
  <1>1. created + 1 \in ProposalIds /\ created' = created + 1 /\ created' \in 0..MaxProposals
    <2>1. created < MaxProposals /\ created' = created + 1
      BY DEF Create, Edit
    <2>2. created \in 0..MaxProposals
      OBVIOUS
    <2> QED
      BY <2>1, <2>2, ProposalAssumption DEF ProposalIds
  <1>2. UNCHANGED <<goalVars, commandVars>> /\ Persist
    BY DEF Create, Edit
  <1>3. UNCHANGED <<goal, plans, current, bindings, running, executions, approved>>
    BY <1>2 DEF goalVars, commandVars
  <1>4. GoalTypeOK'
    BY <1>3 DEF GoalTypeOK
  <1>5. /\ proposals' \in [ProposalIds -> Proposal]
        /\ ~proposals'[created + 1].confirmed
        /\ proposals'[created + 1].status = "awaiting-confirmation"
        /\ created + 1 \notin approved
        /\ \A q \in ProposalIds \ {created + 1} :
             \/ proposals'[q] = proposals[q]
             \/ /\ proposals'[q].status = "cancelled" /\ proposals[q].status # "absent"
                /\ proposals'[q].confirmed = proposals[q].confirmed
    <2>a. created + 1 \notin approved
      <3>1. proposals[created + 1].status = "absent"
        BY <1>1 DEF FutureAbsent
      <3> QED
        BY <1>1, <3>1 DEF ConfirmedByOperator, StatusAgrees
    <2>1. CASE \E plan \in PlanIds : Create(plan)
      <3>1. PICK plan \in PlanIds : Create(plan)
        BY <2>1
      <3> DEFINE new == [AbsentProposal EXCEPT !.status = "awaiting-confirmation",
                           !.plan = plan, !.onPlan = TRUE, !.binding = bindings[plan].content]
      <3>2. new \in Proposal /\ ~new.confirmed /\ new.status = "awaiting-confirmation"
        <4>1. bindings[plan].content \in Bindings \cup {NoBinding}
          BY DEF GoalTypeOK, Binding
        <4>2. AbsentProposal \in Proposal /\ ~AbsentProposal.confirmed
          BY GoalAssumption, ProposalAssumption
          DEF AbsentProposal, Proposal, ProposalStatus, PlanIds
        <4> QED
          BY <4>1, <4>2 DEF Proposal, ProposalStatus
      <3>3. proposals' = [proposals EXCEPT ![created + 1] = new]
        BY <3>1 DEF Create
      <3> QED
        BY <1>1, <2>a, <3>2, <3>3
    <2>2. CASE \E p \in ProposalIds : Edit(p)
      <3>1. PICK p \in ProposalIds : Edit(p)
        BY <2>2
      <3> DEFINE old == [proposals[p] EXCEPT !.status = "cancelled"]
                 new == Edited(proposals[p])
      <3>2. /\ proposals[p] \in Proposal /\ old \in Proposal /\ new \in Proposal
            /\ old.status = "cancelled" /\ old.confirmed = proposals[p].confirmed
            /\ ~new.confirmed /\ new.status = "awaiting-confirmation"
        BY DEF Proposal, ProposalStatus, Edited
      <3>3. proposals[p].status # "absent"
        BY <3>1 DEF Edit
      <3>4. proposals' = [proposals EXCEPT ![p] = old, ![created + 1] = new]
        BY <3>1 DEF Edit
      <3> HIDE DEF old, new
      <3> QED
        BY <1>1, <2>a, <3>2, <3>3, <3>4
    <2> QED
      BY <2>1, <2>2
  <1>6. ConfirmedByOperator(proposals)'
    BY <1>3, <1>5 DEF ConfirmedByOperator, StatusAgrees
  <1>7. \A q \in ProposalIds :
           /\ q > created' <=> proposals'[q].status = "absent"
           /\ q > created' => running'[q] = 0
    <2> SUFFICES ASSUME NEW q \in ProposalIds
                 PROVE  /\ q > created' <=> proposals'[q].status = "absent"
                        /\ q > created' => running'[q] = 0
      OBVIOUS
    <2>1. q > created' <=> q > created /\ q # created + 1
      BY <1>1 DEF ProposalIds
    <2>2. /\ q > created <=> proposals[q].status = "absent"
          /\ q > created => running[q] = 0
      BY DEF FutureAbsent
    <2> QED
      BY <1>3, <1>5, <2>1, <2>2
  <1>8. AwaitedWereStarted'
    BY <1>3 DEF AwaitedWereStarted
  <1> QED
    BY <1>1, <1>2, <1>3, <1>4, <1>5, <1>6, <1>7, <1>8, PersistKeeps

\* What a handler may do to a proposal: nothing to another one, and it is
\* confirmed only with the operator's confirmation.
SettledTo(p, new) ==
    /\ proposals' = [proposals EXCEPT ![p] = new]
    /\ new \in Proposal /\ new.status # "absent"
    /\ StatusAgrees(new.status, new.confirmed)
    /\ new.confirmed <=> p \in approved'
    /\ \A q \in ProposalIds \ {p} : q \in approved' <=> q \in approved

Settled(p) == \E new \in Proposal : SettledTo(p, new)

\* What it may leave unsaved: no cancellation, and nothing at the gate.
Unsaved(p) ==
    /\ disk' = disk /\ approved' = approved
    /\ \/ proposals' = proposals
       \/ /\ proposals'[p].status # "cancelled"
          /\ GateOf(proposals'[p]) = GateOf(proposals[p])

\* A new status is a change of the proposal.
LEMMA StatusSettles ==
    ASSUME ProposalInv, NEW p \in ProposalIds, NEW status \in ProposalStatus \ {"absent"},
           proposals' = [proposals EXCEPT ![p].status = status],
           StatusAgrees(status, proposals[p].confirmed), approved' = approved
    PROVE  /\ Settled(p)
           /\ proposals'[p].status = status
           /\ proposals'[p].confirmed = proposals[p].confirmed
  <1> DEFINE new == [proposals[p] EXCEPT !.status = status]
  <1>1. proposals \in [ProposalIds -> Proposal] /\ proposals[p] \in Proposal
    BY DEF ProposalInv, TypeOK
  <1>2. new \in Proposal /\ new.status = status /\ new.confirmed = proposals[p].confirmed
    BY <1>1 DEF Proposal
  <1>3. proposals' = [proposals EXCEPT ![p] = new]
    BY <1>1
  <1>4. proposals[p].confirmed <=> p \in approved'
    BY DEF ProposalInv, ConfirmedByOperator
  <1> HIDE DEF new
  <1> QED
    BY <1>1, <1>2, <1>3, <1>4 DEF Settled, SettledTo

\* The operator's handlers on one proposal.
LEMMA OperatorSettles ==
    ASSUME ProposalInv, NEW p \in ProposalIds,
           \/ Confirm(p) \/ Pause(p) \/ Resume(p) \/ Cancel(p) \/ DispatchRefused(p)
    PROVE  /\ Settled(p) /\ proposals[p].status # "absent"
           /\ Persist \/ Unsaved(p)
  <1> USE DEF StatusAgrees, ProposalStatus
  <1>0. /\ proposals \in [ProposalIds -> Proposal] /\ proposals[p] \in Proposal
        /\ StatusAgrees(proposals[p].status, proposals[p].confirmed)
    BY DEF ProposalInv, TypeOK, ConfirmedByOperator
  <1>1. CASE Confirm(p) /\ proposals[p].age > ConfirmTTL
    <2>1. /\ proposals' = [proposals EXCEPT ![p].status = "timed-out"]
          /\ approved' = approved /\ disk' = disk
          /\ proposals[p].status = "awaiting-confirmation"
      BY <1>1 DEF Confirm
    <2>2. /\ Settled(p) /\ proposals'[p].status = "timed-out"
          /\ proposals'[p].confirmed = proposals[p].confirmed
      BY <1>0, <2>1, StatusSettles
    <2> QED
      BY <2>1, <2>2 DEF Unsaved, GateOf
  <1>2. CASE Confirm(p) /\ ~(proposals[p].age > ConfirmTTL)
    <2> DEFINE new == [proposals[p] EXCEPT !.status = "confirmed", !.confirmed = TRUE]
    <2>1. /\ proposals' = [proposals EXCEPT ![p].status = "confirmed", ![p].confirmed = TRUE]
          /\ approved' = approved \cup {p} /\ Persist /\ proposals[p].status # "absent"
      BY <1>2 DEF Confirm
    <2>2. new \in Proposal /\ new.status = "confirmed" /\ new.confirmed
      BY <1>0 DEF Proposal
    <2>3. proposals' = [proposals EXCEPT ![p] = new]
      BY <1>0, <2>1
    <2> HIDE DEF new
    <2> QED
      BY <2>1, <2>2, <2>3 DEF Settled, SettledTo
  <1>3. CASE Pause(p) \/ Cancel(p)
    <2>1. PICK status \in {"paused", "cancelled"} :
              proposals' = [proposals EXCEPT ![p].status = status]
      BY <1>3 DEF Pause, Cancel
    <2>2. approved' = approved /\ Persist /\ proposals[p].status # "absent"
      BY <1>3 DEF Pause, Cancel, commandVars, Pausable
    <2> QED
      BY <2>1, <2>2, StatusSettles
  <1>4. CASE Resume(p)
    <2>1. PICK status \in {"confirmed", "awaiting-confirmation"} :
              /\ proposals' = [proposals EXCEPT ![p].status = status]
              /\ status = "confirmed" <=> proposals[p].confirmed
      BY <1>4 DEF Resume
    <2>2. approved' = approved /\ Persist /\ proposals[p].status # "absent"
      BY <1>4 DEF Resume, commandVars
    <2> QED
      BY <2>1, <2>2, StatusSettles
  <1>5. CASE DispatchRefused(p)
    <2>1. PICK status \in {"cancelled", "paused"} :
              proposals' = [proposals EXCEPT ![p].status = status]
      BY <1>5 DEF DispatchRefused
    <2>2. approved' = approved /\ Persist /\ proposals[p].status # "absent"
      BY <1>5 DEF DispatchRefused, commandVars
    <2> QED
      BY <2>1, <2>2, StatusSettles
  <1> QED
    BY <1>1, <1>2, <1>3, <1>4, <1>5

\* The start of a command and its end.
LEMMA CommandSettles ==
    ASSUME ProposalInv, NEW p \in ProposalIds,
           Dispatch(p) \/ CommandReturns(p) \/ CommandFails(p)
    PROVE  /\ Settled(p) \/ (proposals' = proposals /\ approved' = approved)
           /\ p <= created
           /\ \/ Persist
              \/ Unsaved(p)
  <1>1. p <= created
    <2>1. p \in Nat /\ created \in Nat
      BY ProposalAssumption DEF ProposalIds, ProposalInv, TypeOK
    <2>2. proposals[p].status # "absent" \/ running[p] > 0
      BY DEF Dispatch, CommandReturns, CommandFails
    <2> QED
      BY <2>1, <2>2 DEF ProposalInv, FutureAbsent
  <1> USE DEF StatusAgrees, ProposalStatus
  <1>2. StatusAgrees(proposals[p].status, proposals[p].confirmed)
    BY DEF ProposalInv, ConfirmedByOperator
  <1>3. CASE Dispatch(p)
    <2>1. /\ proposals' = [proposals EXCEPT ![p].status = "dispatching"]
          /\ approved' = approved /\ disk' = disk /\ proposals[p].status = "confirmed"
      BY <1>3 DEF Dispatch
    <2>2. /\ Settled(p) /\ proposals'[p].status = "dispatching"
          /\ proposals'[p].confirmed = proposals[p].confirmed
      BY <1>2, <2>1, StatusSettles
    <2>3. Unsaved(p)
      BY <2>1, <2>2 DEF Unsaved, GateOf
    <2> QED
      BY <1>1, <2>2, <2>3
  <1>4. CASE CommandReturns(p)
    <2>1. /\ proposals' = [proposals EXCEPT ![p].status = "returned"]
          /\ approved' = approved /\ Persist
      BY <1>4 DEF CommandReturns
    <2> QED
      BY <1>1, <2>1, StatusSettles
  <1>5. CASE CommandFails(p)
    <2>1. /\ approved' = approved
          /\ \/ proposals' = [proposals EXCEPT ![p].status = "paused"] /\ Persist
             \/ proposals' = proposals /\ disk' = disk
      BY <1>5 DEF CommandFails
    <2> QED
      BY <1>1, <2>1, StatusSettles DEF Unsaved
  <1> QED
    BY <1>3, <1>4, <1>5

\* The invariant after a change of one proposal.
LEMMA SettledKeeps ==
    ASSUME ProposalInv, NEW p \in ProposalIds, p <= created,
           Settled(p) \/ (proposals' = proposals /\ approved' = approved),
           UNCHANGED <<goal, plans, current, bindings, created>>,
           approved \subseteq approved', approved' \subseteq ProposalIds,
           running' \in [ProposalIds -> 0..MaxExecutions],
           executions' \in [ProposalIds -> 0..MaxExecutions],
           AwaitedWereStarted', \A q \in ProposalIds : q # p => running'[q] = running[q],
           Persist \/ Unsaved(p)
    PROVE  ProposalInv'
  <1> USE DEF ProposalInv, TypeOK
  <1>1. /\ proposals' \in [ProposalIds -> Proposal]
        /\ \A q \in ProposalIds : q # p => proposals'[q] = proposals[q]
        /\ (proposals' = proposals /\ approved' = approved) \/ Settled(p)
    BY DEF Settled, SettledTo
  <1>2. ConfirmedByOperator(proposals)'
    BY <1>1 DEF ConfirmedByOperator, Settled, SettledTo
  <1>3. \A q \in ProposalIds :
            /\ q > created' <=> proposals'[q].status = "absent"
            /\ q > created' <=> disk.proposals[q].status = "absent"
            /\ q > created' => running'[q] = 0
    <2>1. ~(p > created) /\ proposals[p].status # "absent" /\ proposals'[p].status # "absent"
      BY <1>1, ProposalAssumption DEF FutureAbsent, ProposalIds, Settled, SettledTo
    <2>2. ASSUME NEW q \in ProposalIds, q # p
          PROVE  proposals'[q] = proposals[q] /\ running'[q] = running[q]
      BY <1>1, <2>2
    <2> QED
      BY <2>1, <2>2 DEF FutureAbsent
  <1>4. GoalTypeOK'
    BY DEF GoalTypeOK
  <1>5. CASE Persist
    BY <1>1, <1>2, <1>3, <1>4, <1>5, PersistKeeps
  <1>6. CASE Unsaved(p)
    <2> USE DEF Unsaved
    <2>1. TypeOK'
      BY <1>1, <1>4, <1>6
    <2>2. ConfirmedByOperator(disk.proposals)'
      BY <1>6 DEF ConfirmedByOperator
    <2>3. FutureAbsent'
      BY <1>3, <1>6 DEF FutureAbsent
    <2>4. CancelledSaved'
      BY <1>1, <1>6 DEF CancelledSaved
    <2>5. BindingsSaved'
      BY <1>6 DEF BindingsSaved
    <2>6. GateSaved'
      BY <1>1, <1>6 DEF GateSaved
    <2> QED
      BY <1>2, <2>1, <2>2, <2>3, <2>4, <2>5, <2>6
  <1> QED
    BY <1>5, <1>6

\* A command that is started or ends keeps the invariant.
LEMMA CommandKeeps ==
    ASSUME ProposalInv, NEW p \in ProposalIds,
           Dispatch(p) \/ CommandReturns(p) \/ CommandFails(p)
    PROVE  ProposalInv'
  <1>1. UNCHANGED <<goal, plans, current, bindings, created, approved>>
    BY DEF Dispatch, CommandReturns, CommandFails, goalVars
  <1>2. /\ running \in [ProposalIds -> 0..MaxExecutions]
        /\ executions \in [ProposalIds -> 0..MaxExecutions]
        /\ running[p] \in 0..MaxExecutions /\ executions[p] \in 0..MaxExecutions
        /\ \A q \in ProposalIds : running[q] <= executions[q]
        /\ approved \subseteq ProposalIds
    BY DEF ProposalInv, TypeOK, AwaitedWereStarted
  <1>3. CASE Dispatch(p)
    <2>1. /\ executions[p] < MaxExecutions
          /\ executions' = [executions EXCEPT ![p] = executions[p] + 1]
          /\ running' = [running EXCEPT ![p] = running[p] + 1]
      BY <1>3 DEF Dispatch
    <2>2. executions[p] + 1 \in 0..MaxExecutions /\ running[p] + 1 \in 0..MaxExecutions
      BY <1>2, <2>1, ProposalAssumption
    <2>3. AwaitedWereStarted'
      BY <1>2, <2>1 DEF AwaitedWereStarted
    <2> QED
      BY <1>1, <1>2, <1>3, <2>1, <2>2, <2>3, CommandSettles, SettledKeeps
  <1>4. CASE CommandReturns(p) \/ CommandFails(p)
    <2>1. /\ running[p] > 0 /\ executions' = executions
          /\ running' = [running EXCEPT ![p] = running[p] - 1]
      BY <1>4 DEF CommandReturns, CommandFails
    <2>2. running[p] - 1 \in 0..MaxExecutions
      BY <1>2, <2>1, ProposalAssumption
    <2>3. AwaitedWereStarted'
      BY <1>2, <2>1 DEF AwaitedWereStarted
    <2> QED
      BY <1>1, <1>2, <1>4, <2>1, <2>2, <2>3, CommandSettles, SettledKeeps
  <1> QED
    BY <1>3, <1>4

\* So do the operator's handlers on one proposal.
LEMMA OperatorKeeps ==
    ASSUME ProposalInv, NEW p \in ProposalIds,
           \/ Confirm(p) \/ Pause(p) \/ Resume(p) \/ Cancel(p) \/ DispatchRefused(p)
    PROVE  ProposalInv'
  <1>1. /\ UNCHANGED <<goal, plans, current, bindings, created, running, executions>>
        /\ approved' \in {approved, approved \cup {p}}
    BY DEF Confirm, Pause, Resume, Cancel, DispatchRefused, goalVars, commandVars
  <1>2. p <= created
    <2>1. p \in Nat /\ created \in Nat
      BY ProposalAssumption DEF ProposalIds, ProposalInv, TypeOK
    <2>2. proposals[p].status # "absent"
      BY OperatorSettles
    <2> QED
      BY <2>1, <2>2 DEF ProposalInv, FutureAbsent
  <1>3. AwaitedWereStarted'
    BY <1>1 DEF AwaitedWereStarted, ProposalInv
  <1>4. /\ running \in [ProposalIds -> 0..MaxExecutions]
        /\ executions \in [ProposalIds -> 0..MaxExecutions]
        /\ approved \subseteq ProposalIds
    BY DEF ProposalInv, TypeOK
  <1> QED
    BY <1>1, <1>2, <1>3, <1>4, OperatorSettles, SettledKeeps

\* The handlers of the goal: a derivation that is refused changes the plans,
\* but no binding, in memory only.
LEMMA GoalKeeps ==
    ASSUME ProposalInv, GoalCall \/ \E parent, child \in PlanIds : Derive(parent, child)
    PROVE  ProposalInv'
  <1> USE DEF ProposalInv, TypeOK
  <1>1. GoalTypeOK' /\ UNCHANGED <<created, running, executions, approved>>
    BY GoalTyped DEF GoalCall, Derive, commandVars
  <1>2. /\ proposals' \in [ProposalIds -> Proposal]
        /\ \A p \in ProposalIds : /\ proposals'[p].status = proposals[p].status
                                  /\ proposals'[p].confirmed = proposals[p].confirmed
    <2>1. CASE GoalCall
      BY <2>1 DEF GoalCall
    <2>2. CASE \E parent, child \in PlanIds : Derive(parent, child)
      <3>1. PICK child \in PlanIds :
               proposals' = [p \in ProposalIds |->
                              IF proposals[p].plan = child
                                THEN [proposals[p] EXCEPT !.onPlan = FALSE] ELSE proposals[p]]
        BY <2>2 DEF Derive
      <3>2. ASSUME NEW proposal \in Proposal
            PROVE  LET off == [proposal EXCEPT !.onPlan = FALSE]
                   IN  /\ off \in Proposal /\ off.status = proposal.status
                       /\ off.confirmed = proposal.confirmed
        BY DEF Proposal
      <3> QED
        BY <3>1, <3>2
    <2> QED
      BY <2>1, <2>2
  <1>3. /\ ConfirmedByOperator(proposals)' /\ AwaitedWereStarted'
        /\ \A p \in ProposalIds :
             /\ p > created' <=> proposals'[p].status = "absent"
             /\ p > created' => running'[p] = 0
    BY <1>1, <1>2 DEF ConfirmedByOperator, AwaitedWereStarted, FutureAbsent
  <1>4. CASE Persist
    BY <1>1, <1>2, <1>3, <1>4, PersistKeeps
  <1>5. CASE ~Persist
    <2>1. PICK parent, child \in PlanIds : Derive(parent, child) /\ bindings[child].locked
      BY <1>5 DEF GoalCall, Derive, DeriveAnswered
    <2>2. disk' = disk /\ bindings' = bindings
      BY <1>5, <2>1 DEF Derive, DerivePlan, CommitBinding
    <2>3. TypeOK'
      BY <1>1, <1>2, <2>2
    <2> QED
      BY <1>1, <1>2, <1>3, <2>2, <2>3
      DEF ConfirmedByOperator, FutureAbsent, CancelledSaved, BindingsSaved, GateSaved, GateOf
  <1> QED
    BY <1>4, <1>5

\* A handler of something else saves what is in memory.
LEMMA OtherPersistsKeeps ==
    ASSUME ProposalInv, OtherPersists
    PROVE  ProposalInv'
  <1> USE DEF ProposalInv, TypeOK
  <1>1. /\ UNCHANGED <<goal, plans, current, bindings, proposals, created, running,
                      executions, approved>>
        /\ Persist
    BY DEF OtherPersists, goalVars, commandVars
  <1>2. /\ GoalTypeOK' /\ ConfirmedByOperator(proposals)' /\ AwaitedWereStarted'
        /\ \A p \in ProposalIds :
             /\ p > created' <=> proposals'[p].status = "absent"
             /\ p > created' => running'[p] = 0
    BY <1>1 DEF GoalTypeOK, ConfirmedByOperator, AwaitedWereStarted, FutureAbsent
  <1> QED
    BY <1>1, <1>2, PersistKeeps

\* A restart forgets the commands under way and what was not saved.
LEMMA RestartKeeps ==
    ASSUME ProposalInv, Restart
    PROVE  ProposalInv'
  <1> USE DEF ProposalInv, TypeOK
  <1>1. /\ goal' = disk.goal /\ plans' = disk.plans /\ bindings' = disk.bindings
        /\ proposals' = disk.proposals /\ current' = LastPlan(disk.plans)
        /\ running' = [p \in ProposalIds |-> 0]
        /\ UNCHANGED <<disk, created, executions, approved>>
    BY DEF Restart
  <1>2. GoalTypeOK' /\ (proposals \in [ProposalIds -> Proposal])'
    BY <1>1, LastPlanTyped DEF GoalTypeOK, Snapshot
  <1>3. (running \in [ProposalIds -> 0..MaxExecutions])' /\ AwaitedWereStarted'
    BY <1>1, ProposalAssumption DEF AwaitedWereStarted
  <1>4. TypeOK'
    BY <1>1, <1>2, <1>3
  <1> QED
    BY <1>1, <1>3, <1>4
    DEF ConfirmedByOperator, FutureAbsent, CancelledSaved, BindingsSaved, GateSaved

\* Time leaves everything but ages as it is.
LEMMA TickKeeps ==
    ASSUME ProposalInv, Tick
    PROVE  ProposalInv'
  <1> USE DEF ProposalInv, TypeOK
  <1>1. ASSUME NEW proposal \in Proposal
        PROVE  /\ Age(proposal) \in Proposal /\ Age(proposal).status = proposal.status
               /\ Age(proposal).confirmed = proposal.confirmed
    BY ProposalAssumption DEF Proposal, Age
  <1>2. /\ UNCHANGED <<goal, plans, current, bindings, created, running, executions, approved>>
        /\ proposals' = [p \in ProposalIds |-> Age(proposals[p])]
        /\ disk' = [disk EXCEPT !.proposals = [p \in ProposalIds |-> Age(disk.proposals[p])]]
    BY DEF Tick, goalVars, commandVars
  <1>3. /\ disk' \in Snapshot /\ disk'.bindings = disk.bindings
        /\ disk'.proposals = [p \in ProposalIds |-> Age(disk.proposals[p])]
    BY <1>1, <1>2 DEF Snapshot
  <1>4. TypeOK'
    BY <1>1, <1>2, <1>3 DEF GoalTypeOK
  <1>5. \A p \in ProposalIds :
           /\ proposals'[p].status = proposals[p].status
           /\ proposals'[p].confirmed = proposals[p].confirmed
           /\ disk'.proposals[p].status = disk.proposals[p].status
           /\ disk'.proposals[p].confirmed = disk.proposals[p].confirmed
    BY <1>1, <1>2, <1>3 DEF Snapshot
  <1>6. ConfirmedByOperator(proposals)' /\ ConfirmedByOperator(disk.proposals)'
    BY <1>2, <1>5 DEF ConfirmedByOperator
  <1>7. FutureAbsent' /\ AwaitedWereStarted'
    BY <1>2, <1>5 DEF FutureAbsent, AwaitedWereStarted
  <1>8. CancelledSaved' /\ BindingsSaved' /\ GateSaved'
    BY <1>2, <1>3, <1>5 DEF CancelledSaved, BindingsSaved, GateSaved, GateOf
  <1> QED
    BY <1>4, <1>6, <1>7, <1>8

\* Every step keeps the invariant.
LEMMA NextInv == ProposalInv /\ [Next]_vars => ProposalInv'
  <1> SUFFICES ASSUME ProposalInv, [Next]_vars PROVE ProposalInv'
    OBVIOUS
  <1>1. CASE \E plan \in PlanIds : Create(plan)
    BY <1>1, CreateKeeps
  <1>2. ASSUME NEW p \in ProposalIds, ProposalCall(p) PROVE ProposalInv'
    BY <1>2, CreateKeeps, CommandKeeps, OperatorKeeps DEF ProposalCall
  <1>3. CASE GoalCall \/ \E parent, child \in PlanIds : Derive(parent, child)
    BY <1>3, GoalKeeps
  <1>4. CASE Restart
    BY <1>4, RestartKeeps
  <1>5. CASE Tick
    BY <1>5, TickKeeps
  <1>6. CASE UNCHANGED vars
    BY <1>6
    DEF vars, goalVars, ProposalInv, TypeOK, GoalTypeOK, ConfirmedByOperator, FutureAbsent,
        CancelledSaved, BindingsSaved, GateSaved, AwaitedWereStarted
  <1>7. CASE OtherPersists
    BY <1>7, OtherPersistsKeeps
  <1> QED
    BY <1>1, <1>2, <1>3, <1>4, <1>5, <1>6, <1>7 DEF Next

LEMMA AlwaysInv == Spec => []ProposalInv
  BY InitInv, NextInv, PTL DEF Spec

-----------------------------------------------------------------------------
(* The theorems.                                                           *)

\* The typing of the goal, the proposals, their commands and the snapshot
\* (execution-proposal-store.ts, execution-dispatcher.ts).
THEOREM TypeCorrect == Spec => []TypeOK
  <1>1. ProposalInv => TypeOK
    BY DEF ProposalInv
  <1> QED
    BY <1>1, AlwaysInv, PTL

\* A command is started for a confirmed proposal only, under its own binding,
\* for a step its plan has, in a plan that goes on: whatever was edited,
\* resumed, derived anew or brought back by a restart since the confirmation.
THEOREM OnlyConfirmedExecuted == Spec => ExecutesWhatWasConfirmed
  <1>1. ASSUME ProposalInv, [Next]_vars, NEW p \in ProposalIds, executions'[p] > executions[p]
        PROVE  /\ p \in approved
               /\ proposals[p].onPlan
               /\ proposals[p].binding = bindings[proposals[p].plan].content
               /\ plans[proposals[p].plan] \notin {"paused", "cancelled"}
    <2>1. executions \in [ProposalIds -> 0..MaxExecutions] /\ executions[p] \in Int
      BY <1>1, ProposalAssumption DEF ProposalInv, TypeOK
    <2>2. executions' # executions
      BY <1>1, <2>1
    <2>3. PICK q \in ProposalIds : Dispatch(q)
      BY <1>1, <2>2
      DEF Next, vars, commandVars, Create, ProposalCall, Confirm, Edit, Pause, Resume, Cancel,
          DispatchRefused, CommandReturns, CommandFails, GoalCall, Derive,
          OtherPersists, Restart, Tick
    <2>4. q = p
      BY <1>1, <2>1, <2>3 DEF Dispatch
    <2> QED
      BY <1>1, <2>3, <2>4
      DEF Dispatch, BindingMatches, ProposalInv, ConfirmedByOperator, StatusAgrees
  <1>2. ProposalInv /\ [Next]_vars =>
          [\A p \in ProposalIds : executions'[p] > executions[p] =>
              /\ p \in approved
              /\ proposals[p].onPlan
              /\ proposals[p].binding = bindings[proposals[p].plan].content
              /\ plans[proposals[p].plan] \notin {"paused", "cancelled"}]_vars
    BY <1>1
  <1> QED
    BY <1>2, AlwaysInv, PTL DEF Spec, ExecutesWhatWasConfirmed

\* A cancelled or edited proposal stays cancelled, but for the result of a
\* command that was already running: the cancellation is in the snapshot too.
THEOREM CancelledStaysCancelled == Spec => CancelledNeverRevived
  <1>1. ASSUME ProposalInv, [Next]_vars, NEW p \in ProposalIds, proposals[p].status = "cancelled"
        PROVE  proposals'[p].status \in {"cancelled", "returned"}
    <2> USE DEF ProposalInv, TypeOK
    <2>1. CASE proposals' = proposals
      BY <1>1, <2>1
    <2>2. CASE \E plan \in PlanIds : Create(plan)
      <3>1. created + 1 # p
        BY <1>1, ProposalAssumption DEF FutureAbsent, ProposalIds
      <3> QED
        BY <1>1, <2>2, <3>1 DEF Create
    <2>3. ASSUME NEW q \in ProposalIds, Edit(q)
          PROVE  proposals'[p].status \in {"cancelled", "returned"}
      <3>1. created + 1 # p
        BY <1>1, ProposalAssumption DEF FutureAbsent, ProposalIds
      <3> DEFINE old == [proposals[q] EXCEPT !.status = "cancelled"]
      <3>2. proposals' = [proposals EXCEPT ![q] = old, ![created + 1] = Edited(proposals[q])]
        BY <2>3 DEF Edit
      <3>3. proposals \in [ProposalIds -> Proposal] /\ old.status = "cancelled"
        BY <1>1 DEF Proposal
      <3> QED
        BY <1>1, <3>1, <3>2, <3>3
    <2>4. ASSUME NEW q \in ProposalIds,
                 \/ Confirm(q) \/ Pause(q) \/ Resume(q) \/ Cancel(q) \/ DispatchRefused(q)
                 \/ Dispatch(q) \/ CommandReturns(q) \/ CommandFails(q)
          PROVE  proposals'[p].status \in {"cancelled", "returned"}
      <3>1. proposals \in [ProposalIds -> Proposal] /\ proposals[p] \in Proposal
        BY <1>1
      <3>2. CASE CommandReturns(q)
        BY <1>1, <3>1, <3>2 DEF CommandReturns, Proposal
      <3>3. CASE ~CommandReturns(q)
        <4>1. q # p \/ proposals' = proposals
          BY <1>1, <2>4, <3>3
          DEF Confirm, Pause, Resume, Cancel, DispatchRefused, Dispatch, CommandFails, Pausable
        <4>2. q # p => proposals'[p] = proposals[p]
          BY <1>1, <2>4, <3>1, <3>3
          DEF Confirm, Pause, Resume, Cancel, DispatchRefused, Dispatch, CommandFails
        <4> QED
          BY <1>1, <4>1, <4>2
      <3> QED
        BY <3>2, <3>3
    <2>5. CASE \E parent, child \in PlanIds : Derive(parent, child)
      <3>1. proposals \in [ProposalIds -> Proposal] /\ proposals[p] \in Proposal
        BY <1>1
      <3> QED
        BY <1>1, <2>5, <3>1 DEF Derive, Proposal
    <2>6. CASE Restart
      BY <1>1, <2>6 DEF Restart, CancelledSaved
    <2>7. CASE Tick
      <3>1. proposals \in [ProposalIds -> Proposal] /\ proposals[p] \in Proposal
        BY <1>1
      <3> QED
        BY <1>1, <2>7, <3>1 DEF Tick, Age, Proposal
    <2>8. CASE GoalCall \/ OtherPersists \/ UNCHANGED vars
      BY <2>1, <2>8 DEF GoalCall, OtherPersists, vars
    <2> QED
      BY <1>1, <2>2, <2>3, <2>4, <2>5, <2>6, <2>7, <2>8 DEF Next, ProposalCall
  <1>2. ProposalInv /\ [Next]_vars =>
          [\A p \in ProposalIds : proposals[p].status = "cancelled" =>
              proposals'[p].status \in {"cancelled", "returned"}]_vars
    BY <1>1
  <1> QED
    BY <1>2, AlwaysInv, PTL DEF Spec, CancelledNeverRevived

\* A locked binding is never changed, not by a derivation that was refused
\* half-way and not by a restart: bindings are saved with every change.
THEOREM LockedBindingKept == Spec => LockedBindingImmutable
  <1>1. ASSUME ProposalInv, [Next]_vars, NEW p \in PlanIds, bindings[p].locked
        PROVE  bindings'[p] = bindings[p]
    <2>1. CASE GoalCall \/ \E parent, child \in PlanIds : Derive(parent, child)
      BY <1>1, <2>1, LockHolds DEF GoalCall, Derive, ProposalInv, TypeOK
    <2>2. CASE Restart
      BY <1>1, <2>2 DEF Restart, ProposalInv, BindingsSaved
    <2>3. CASE ~(GoalCall \/ \E parent, child \in PlanIds : Derive(parent, child)) /\ ~Restart
      BY <1>1, <2>3
      DEF Next, vars, goalVars, Create, ProposalCall, Confirm, Edit, Pause, Resume, Cancel,
          DispatchRefused, Dispatch, CommandReturns, CommandFails, OtherPersists, Tick
    <2> QED
      BY <2>1, <2>2, <2>3
  <1>2. ProposalInv /\ [Next]_vars =>
          [\A p \in PlanIds : bindings[p].locked => bindings'[p] = bindings[p]]_vars
    BY <1>1
  <1> QED
    BY <1>2, AlwaysInv, PTL DEF Spec, LockedBindingImmutable

-----------------------------------------------------------------------------
(* The proposals implement the operator's gate.                            *)

LEMMA GateFacts ==
    ASSUME NEW proposal
    PROVE  /\ proposal.status = "absent" => GateOf(proposal) = "none"
           /\ proposal.status \in {"returned", "cancelled"} => GateOf(proposal) = "closed"
           /\ proposal.status \notin {"absent", "returned", "cancelled"} =>
                GateOf(proposal) = IF proposal.confirmed THEN "confirmed" ELSE "proposed"
  BY DEF GateOf

\* One proposal in one step, as the gate sees it.
MovesAtGate(q) ==
    \/ Operator!Stays(q) \/ Operator!IsProposed(q) \/ Operator!IsConfirmed(q)
    \/ Operator!Happens(q) \/ Operator!Closes(q)

LEMMA StaysIf ==
    ASSUME NEW q \in ProposalIds, GateOf(proposals'[q]) = GateOf(proposals[q]),
           executions' = executions, q \in approved' <=> q \in approved
    PROVE  MovesAtGate(q)
  BY DEF MovesAtGate, Operator!Stays, Operator!Quiet

LEMMA SameStatusStays ==
    ASSUME NEW q \in ProposalIds, proposals'[q].status = proposals[q].status,
           proposals'[q].confirmed = proposals[q].confirmed,
           executions' = executions, approved' = approved
    PROVE  MovesAtGate(q)
  BY StaysIf DEF GateOf

LEMMA ProposedIf ==
    ASSUME NEW q \in ProposalIds, proposals[q].status = "absent",
           proposals'[q].status = "awaiting-confirmation", ~proposals'[q].confirmed,
           executions' = executions, approved' = approved
    PROVE  MovesAtGate(q)
  <1>1. GateOf(proposals[q]) = "none" /\ GateOf(proposals'[q]) = "proposed"
    BY GateFacts
  <1> QED
    BY <1>1 DEF MovesAtGate, Operator!IsProposed, Operator!Quiet

\* Whatever is closed was open, or closed already.
LEMMA ClosesIf ==
    ASSUME NEW q \in ProposalIds, proposals[q].status # "absent",
           proposals'[q].status \in {"cancelled", "returned"},
           executions' = executions, approved' = approved
    PROVE  MovesAtGate(q)
  <1>1. GateOf(proposals[q]) \in {"proposed", "confirmed", "closed"}
    BY GateFacts
  <1>2. GateOf(proposals'[q]) = "closed"
    BY GateFacts
  <1>3. CASE GateOf(proposals[q]) = "closed"
    BY <1>2, <1>3, StaysIf
  <1>4. CASE GateOf(proposals[q]) \in {"proposed", "confirmed"}
    BY <1>2, <1>4 DEF MovesAtGate, Operator!Closes, Operator!Quiet
  <1> QED
    BY <1>1, <1>3, <1>4

\* A change between statuses that are open keeps the gate.
LEMMA OpenStays ==
    ASSUME NEW q \in ProposalIds,
           proposals[q].status \notin {"absent", "returned", "cancelled"},
           proposals'[q].status \notin {"absent", "returned", "cancelled"},
           proposals'[q].confirmed = proposals[q].confirmed,
           executions' = executions, approved' = approved
    PROVE  MovesAtGate(q)
  BY GateFacts, StaysIf

\* A new proposal, alone or for an edited one.
LEMMA CreateMoves ==
    ASSUME ProposalInv, NEW q \in ProposalIds,
           \/ \E plan \in PlanIds : Create(plan)
           \/ \E p \in ProposalIds : Edit(p)
    PROVE  MovesAtGate(q)
  <1> USE DEF ProposalInv, TypeOK
  <1>1. created + 1 \in ProposalIds /\ created + 1 > created
    <2>1. created < MaxProposals /\ created \in 0..MaxProposals
      BY DEF Create, Edit
    <2> QED
      BY <2>1, ProposalAssumption DEF ProposalIds
  <1>2. proposals[created + 1].status = "absent"
    BY <1>1 DEF FutureAbsent
  <1>3. executions' = executions /\ approved' = approved
    BY DEF Create, Edit, commandVars
  <1>4. CASE \E plan \in PlanIds : Create(plan)
    <2>1. PICK plan \in PlanIds : Create(plan)
      BY <1>4
    <2> DEFINE new == [AbsentProposal EXCEPT !.status = "awaiting-confirmation",
                         !.plan = plan, !.onPlan = TRUE, !.binding = bindings[plan].content]
    <2>2. new.status = "awaiting-confirmation" /\ ~new.confirmed
      BY DEF AbsentProposal
    <2>3. proposals' = [proposals EXCEPT ![created + 1] = new]
      BY <2>1 DEF Create
    <2> HIDE DEF new
    <2>4. q # created + 1 => proposals'[q] = proposals[q]
      BY <2>3
    <2> QED
      BY <1>1, <1>2, <1>3, <2>2, <2>3, <2>4, ProposedIf, SameStatusStays
  <1>5. CASE \E p \in ProposalIds : Edit(p)
    <2>1. PICK p \in ProposalIds : Edit(p)
      BY <1>5
    <2> DEFINE old == [proposals[p] EXCEPT !.status = "cancelled"]
               new == Edited(proposals[p])
    <2>2. /\ old.status = "cancelled" /\ old.confirmed = proposals[p].confirmed
          /\ new.status = "awaiting-confirmation" /\ ~new.confirmed
      BY DEF Edited, Proposal
    <2>3. proposals' = [proposals EXCEPT ![p] = old, ![created + 1] = new]
      BY <2>1 DEF Edit
    <2>4. proposals[p].status # "absent"
      BY <2>1 DEF Edit
    <2> HIDE DEF old, new
    <2>5. CASE q = created + 1
      BY <1>1, <1>2, <1>3, <2>2, <2>3, <2>5, ProposedIf
    <2>6. CASE q = p /\ q # created + 1
      BY <1>3, <2>2, <2>3, <2>4, <2>6, ClosesIf
    <2>7. CASE q # p /\ q # created + 1
      <3>1. proposals'[q] = proposals[q]
        BY <2>3, <2>7
      <3> QED
        BY <1>3, <3>1, SameStatusStays
    <2> QED
      BY <2>5, <2>6, <2>7
  <1> QED
    BY <1>4, <1>5

\* The handlers on one proposal.
LEMMA CallMoves ==
    ASSUME ProposalInv, NEW p \in ProposalIds, NEW q \in ProposalIds,
           \/ Confirm(p) \/ Pause(p) \/ Resume(p) \/ Cancel(p) \/ DispatchRefused(p)
           \/ Dispatch(p) \/ CommandReturns(p) \/ CommandFails(p)
    PROVE  MovesAtGate(q)
  <1>1. /\ proposals \in [ProposalIds -> Proposal] /\ proposals[p] \in Proposal
        /\ executions \in [ProposalIds -> 0..MaxExecutions]
        /\ StatusAgrees(proposals[p].status, proposals[p].confirmed)
        /\ proposals[p].confirmed <=> p \in approved
    BY DEF ProposalInv, TypeOK, ConfirmedByOperator
  <1>2. ASSUME q # p PROVE MovesAtGate(q)
    <2>1. proposals'[q] = proposals[q] /\ executions'[q] = executions[q]
      BY <1>1, <1>2
      DEF Confirm, Pause, Resume, Cancel, DispatchRefused, Dispatch, CommandReturns,
          CommandFails, commandVars
    <2>2. q \in approved' <=> q \in approved
      BY <1>2
      DEF Confirm, Pause, Resume, Cancel, DispatchRefused, Dispatch, CommandReturns,
          CommandFails, commandVars
    <2> QED
      BY <2>1, <2>2 DEF MovesAtGate, Operator!Stays, Operator!Quiet
  <1>3. ASSUME Confirm(p) PROVE MovesAtGate(p)
    <2>1. proposals[p].status = "awaiting-confirmation" /\ ~proposals[p].confirmed
      BY <1>1, <1>3 DEF Confirm, StatusAgrees
    <2>2. CASE proposals[p].age > ConfirmTTL
      BY <1>1, <1>3, <2>1, <2>2, OpenStays DEF Confirm, Proposal
    <2>3. CASE ~(proposals[p].age > ConfirmTTL)
      <3>1. /\ proposals'[p].status = "confirmed" /\ proposals'[p].confirmed
            /\ executions' = executions /\ p \in approved'
        BY <1>1, <1>3, <2>3 DEF Confirm, Proposal
      <3>2. GateOf(proposals[p]) = "proposed" /\ GateOf(proposals'[p]) = "confirmed"
        BY <2>1, <3>1, GateFacts
      <3> QED
        BY <1>1, <2>1, <3>1, <3>2 DEF MovesAtGate, Operator!IsConfirmed
    <2> QED
      BY <2>2, <2>3
  <1>4. ASSUME Pause(p) \/ Resume(p) PROVE MovesAtGate(p)
    BY <1>1, <1>4, OpenStays DEF Pause, Resume, Pausable, commandVars, Proposal
  <1>5. ASSUME Cancel(p) PROVE MovesAtGate(p)
    BY <1>1, <1>5, ClosesIf DEF Cancel, commandVars, Proposal
  <1>6. ASSUME DispatchRefused(p) PROVE MovesAtGate(p)
    <2>1. PICK status \in {"cancelled", "paused"} :
              proposals' = [proposals EXCEPT ![p].status = status]
      BY <1>6 DEF DispatchRefused
    <2>2. /\ proposals'[p].status = status /\ proposals'[p].confirmed = proposals[p].confirmed
          /\ executions' = executions /\ approved' = approved
          /\ proposals[p].status = "confirmed"
      BY <1>1, <1>6, <2>1 DEF DispatchRefused, commandVars, Proposal
    <2> QED
      BY <2>2, OpenStays, ClosesIf
  <1>7. ASSUME Dispatch(p) PROVE MovesAtGate(p)
    <2>1. /\ proposals'[p].status = "dispatching" /\ proposals[p].status = "confirmed"
          /\ proposals'[p].confirmed = proposals[p].confirmed /\ approved' = approved
          /\ executions'[p] = executions[p] + 1
      BY <1>1, <1>7 DEF Dispatch, Proposal
    <2>2. /\ p \in approved
          /\ GateOf(proposals[p]) = "confirmed" /\ GateOf(proposals'[p]) = "confirmed"
      BY <1>1, <2>1, GateFacts DEF StatusAgrees
    <2> QED
      BY <2>1, <2>2 DEF MovesAtGate, Operator!Happens
  <1>8. ASSUME CommandReturns(p) \/ CommandFails(p) PROVE MovesAtGate(p)
    <2>1. proposals[p].status # "absent"
      BY <1>8 DEF CommandReturns, CommandFails, ProposalInv, FutureAbsent
    <2>2. executions' = executions /\ approved' = approved
      BY <1>8 DEF CommandReturns, CommandFails
    <2>3. \/ proposals' = proposals
          \/ proposals'[p].status = "returned"
          \/ /\ proposals[p].status \in Pausable
             /\ proposals'[p].status = "paused"
             /\ proposals'[p].confirmed = proposals[p].confirmed
      BY <1>1, <1>8 DEF CommandReturns, CommandFails, Proposal
    <2> QED
      BY <2>1, <2>2, <2>3, ClosesIf, OpenStays, SameStatusStays DEF Pausable
  <1> QED
    BY <1>2, <1>3, <1>4, <1>5, <1>6, <1>7, <1>8

LEMMA StepsRefine ==
    ProposalInv /\ [Next]_vars => [Operator!Next]_(Operator!vars)
  <1> SUFFICES ASSUME ProposalInv, [Next]_vars, NEW q \in ProposalIds
               PROVE  MovesAtGate(q)
    BY DEF Operator!Next, MovesAtGate
  <1>1. CASE \E plan \in PlanIds : Create(plan)
    BY <1>1, CreateMoves
  <1>2. ASSUME NEW p \in ProposalIds, ProposalCall(p) PROVE MovesAtGate(q)
    BY <1>2, CreateMoves, CallMoves DEF ProposalCall
  <1>3. CASE GoalCall \/ OtherPersists \/ UNCHANGED vars
    BY <1>3, SameStatusStays DEF GoalCall, OtherPersists, commandVars, vars
  <1>4. CASE \E parent, child \in PlanIds : Derive(parent, child)
    <2>1. /\ proposals'[q].status = proposals[q].status
          /\ proposals'[q].confirmed = proposals[q].confirmed
          /\ executions' = executions /\ approved' = approved
      BY <1>4 DEF Derive, commandVars, ProposalInv, TypeOK, Proposal
    <2> QED
      BY <2>1, SameStatusStays
  <1>5. CASE Restart
    BY <1>5, StaysIf DEF Restart, ProposalInv, GateSaved
  <1>6. CASE Tick
    <2>1. /\ proposals'[q].status = proposals[q].status
          /\ proposals'[q].confirmed = proposals[q].confirmed
          /\ executions' = executions /\ approved' = approved
      BY <1>6 DEF Tick, Age, commandVars, ProposalInv, TypeOK, Proposal
    <2> QED
      BY <2>1, SameStatusStays
  <1> QED
    BY <1>1, <1>2, <1>3, <1>4, <1>5, <1>6 DEF Next

\* Whatever operators, dispatches, commands that end late and restarts do to a
\* proposal, it goes through the operator's gate (execution-proposal-store.ts).
THEOREM ProposalsGated == Spec => ImplementsOperatorGate
  <1>1. Init => Operator!Init
    BY GateFacts DEF Init, Operator!Init, AbsentProposal
  <1> QED
    BY <1>1, StepsRefine, AlwaysInv, PTL DEF Spec, ImplementsOperatorGate, Operator!Spec
=============================================================================
