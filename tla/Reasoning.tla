----------------------------- MODULE Reasoning -----------------------------
(***************************************************************************)
(* Reasoning about a goal that leaves evidence for one of its plans: a     *)
(* draft from a model provider (model/openai-adapter.ts, planner-model.ts, *)
(* critic-model.ts, POST /bridge/goals/plan with plannerSource model-api), *)
(* a reply from ChatGPT or a review's result (recordReasoningArtifactOr-   *)
(* Pause in routes/bridge-api.ts, reasoning/).                             *)
(*                                                                         *)
(* The request to the provider awaits each attempt; the plan and its       *)
(* binding are looked at before it and read again when the draft is there. *)
(* The draft itself is only returned: no plan is attached.                 *)
(***************************************************************************)
EXTENDS GoalExecution

CONSTANT MaxAttempts     \* attempts of a call of the provider (4 in the code)

ASSUME AttemptAssumption == MaxAttempts \in Nat \ {0}

-----------------------------------------------------------------------------
(* What the planner model and the critic model answer, and whether it is   *)
(* accepted.                                                               *)

\* A step of a draft; known: it has an intent and one of the given endpoints.
DraftStep == [kind : {"plain", "mutating", "forbidden", "invalid"},
              tier : Tiers \cup {"invalid"}, known : BOOLEAN]

\* No step, some, or more than the ceiling.
Drafts == UNION {[1..n -> DraftStep] : n \in {0, NumSteps, NumSteps + 1}}

\* The request's tiers, of which the route keeps the valid ones.
resolvedTiers(given) == IF given = <<>> THEN {"patch-proposal"} ELSE given[1]

\* generateModelPlan.  A kind that changes state may come with any tier.
draftAccepted(draft, given) ==
    /\ DOMAIN draft # {} /\ DOMAIN draft \subseteq StepIndexes
    /\ \A i \in DOMAIN draft :
         /\ draft[i].known
         /\ draft[i].kind \in {"plain", "mutating"}
         /\ draft[i].tier \in resolvedTiers(given)

\* An item of a critique; allowed: free of commands, secrets and the like.
CritiqueItem == [valid : BOOLEAN, allowed : BOOLEAN, step : 0..(NumSteps + 1)]

\* As many items as the ceiling of ten (here one), or more.
Critiques == UNION {[1..n -> CritiqueItem] : n \in 0..2}

\* validateCritiqueResult, for a draft of NumSteps steps (0: no step named).
critiqueAccepted(critique) ==
    /\ DOMAIN critique \subseteq {1}
    /\ \A i \in DOMAIN critique :
         /\ critique[i].valid /\ critique[i].allowed
         /\ critique[i].step \in StepIndexes \cup {0}

\* One attempt of sendWithRetry: it is down (no connection, or a 5xx), which
\* may be tried again; refused (a 4xx, the attempt's timeout, an input over its
\* budget, an answer that does not parse); or answered.
PlanReplies ==
    {"down", "refused"} \cup
    {IF draftAccepted(d, g) THEN "accepted" ELSE "refused" : d \in Drafts, g \in GivenTiers}

CritiqueReplies ==
    {"down", "refused"} \cup
    {IF critiqueAccepted(c) THEN "accepted" ELSE "refused" : c \in Critiques}

-----------------------------------------------------------------------------

VARIABLES
    asking,      \* the request that awaits the provider
    evidence     \* reasoningArtifactStore: the binding each artifact names

reasoningVars == <<asking, evidence>>

NoAsking == [stage |-> "none", plan |-> 0, critic |-> FALSE, attempt |-> 0]

Asking == [stage : {"none", "plan", "critique"}, plan : {0} \cup PlanIds,
           critic : BOOLEAN, attempt : 0..MaxAttempts]

ReasoningTypeOK ==
    /\ asking \in Asking
    /\ evidence \subseteq [plan : PlanIds, content : Bindings]

ReasoningInit == asking = NoAsking /\ evidence = {}

Bound(p) == plans[p] # "absent" /\ bindings[p].content # NoBinding

\* Up to the first await: for a draft goal (plan 0), or for a plan with a
\* binding, which may also be unlocked.  One request at a time, as a bound.
Ask(p, critic) ==
    /\ asking = NoAsking
    /\ IF p = 0 THEN goal = "draft" ELSE Bound(p)
    /\ asking' = [stage |-> "plan", plan |-> p, critic |-> critic, attempt |-> 1]
    /\ UNCHANGED <<goalVars, evidence>>

\* pausePlan, with the plan the goal has now.
PauseCurrent ==
    \/ PausePlan
    \/ /\ plans[current] \in {"done", "cancelled"}
       /\ UNCHANGED goalVars

\* What a returned text may be apart from its plan: from the endpoint the
\* binding names, with a summary and a size within limits, without a field that
\* claims authority.
Returned == [fromReasoner : BOOLEAN, withinLimits : BOOLEAN, claimsAuthority : BOOLEAN]

\* Faulty variant: the binding need not be locked.
normalizes_unlocked(p, returned) ==
    returned.fromReasoner /\ returned.withinLimits /\ ~returned.claimsAuthority

\* normalizeReasoningArtifact
normalizes(p, returned) ==
    /\ bindings[p].locked
    /\ returned.fromReasoner /\ returned.withinLimits /\ ~returned.claimsAuthority

Recorded(p) == evidence' = evidence \cup {[plan |-> p, content |-> bindings[p].content]}

\* An attempt that failed for the moment, but not the last one.
Retry ==
    /\ asking.stage # "none"
    /\ asking.attempt < MaxAttempts
    /\ asking' = [asking EXCEPT !.attempt = @ + 1]
    /\ UNCHANGED <<goalVars, evidence>>

GivesUp ==
    \/ asking.stage = "plan" /\ "refused" \in PlanReplies
    \/ asking.stage = "critique" /\ "refused" \in CritiqueReplies
    \/ asking.stage # "none" /\ asking.attempt = MaxAttempts

\* The call fails for good, without a plan or as a critique.
AskFails ==
    /\ GivesUp
    /\ asking.stage = "critique" \/ asking.plan = 0
    /\ asking' = NoAsking
    /\ UNCHANGED <<goalVars, evidence>>

\* No draft for a bound plan.
PlanFails ==
    /\ GivesUp
    /\ asking.stage = "plan" /\ asking.plan # 0
    /\ asking' = NoAsking
    /\ PauseCurrent
    /\ UNCHANGED evidence

\* The draft is there; it is criticised if the request says so.
Drafted == asking.stage = "plan" /\ "accepted" \in PlanReplies

GoesOn ==
    asking' = IF asking.critic
                THEN [asking EXCEPT !.stage = "critique", !.attempt = 1]
                ELSE NoAsking

DraftReturned ==
    /\ Drafted /\ asking.plan = 0
    /\ GoesOn
    /\ UNCHANGED <<goalVars, evidence>>

\* A validated draft has no field that claims authority, but it may name
\* another endpoint (as the request does) or have too long a rationale.
DraftRecorded ==
    /\ Drafted /\ asking.plan # 0
    /\ \E returned \in Returned :
         ~returned.claimsAuthority /\ normalizes(asking.plan, returned)
    /\ Recorded(asking.plan)
    /\ GoesOn
    /\ UNCHANGED goalVars

DraftPauses ==
    /\ Drafted /\ asking.plan # 0
    /\ \E returned \in Returned :
         ~returned.claimsAuthority /\ ~normalizes(asking.plan, returned)
    /\ PauseCurrent
    /\ asking' = NoAsking
    /\ UNCHANGED evidence

CritiqueArrives ==
    /\ asking.stage = "critique" /\ "accepted" \in CritiqueReplies
    /\ asking' = NoAsking
    /\ UNCHANGED <<goalVars, evidence>>

\* recordReasoningArtifactOrPause, for POST /bridge/extract-return or /bridge/reviews/dispatch with a plan: what
\* ChatGPT or the reviewer returned.
EvidenceReturned(p) ==
    /\ Bound(p)
    /\ \E returned \in Returned :
         IF normalizes(p, returned)
           THEN Recorded(p) /\ UNCHANGED goalVars
           ELSE PauseCurrent /\ UNCHANGED evidence
    /\ UNCHANGED asking

\* POST /bridge/reviews/dispatch with a plan, whose review fails.
ReviewFailed(p) ==
    /\ bindings[p].content # NoBinding
    /\ PauseCurrent
    /\ UNCHANGED reasoningVars

\* Steps after which the route persists, and the others.
ReasoningSaved ==
    /\ PlanFails \/ DraftPauses \/ \E p \in PlanIds : EvidenceReturned(p) \/ ReviewFailed(p)
    /\ UNCHANGED <<births, stepVars, generating, observedSteps>>

ReasoningUnsaved ==
    /\ \/ \E p \in {0} \cup PlanIds, critic \in BOOLEAN : Ask(p, critic)
       \/ Retry \/ AskFails \/ DraftReturned \/ DraftRecorded \/ CritiqueArrives
    /\ UNCHANGED <<births, stepVars, generating, observedSteps>>

-----------------------------------------------------------------------------
(* Safety.                                                                 *)

\* Evidence is for the endpoints an operator approved: as long as the server
\* keeps it, its plan is bound to exactly the content the artifact names, and
\* locked, although binding, approval, derivation and pausing go on while the
\* provider is awaited.
EvidenceMatchesBinding ==
    \A artifact \in evidence :
        bindings[artifact.plan] = [content |-> artifact.content, locked |-> TRUE]
=============================================================================
