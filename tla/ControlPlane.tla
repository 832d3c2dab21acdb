---------------------------- MODULE ControlPlane ----------------------------
(***************************************************************************)
(* What hangs on a goal and its plan: the project it belongs to            *)
(* (storage/project-store.ts), the team that works on an approved plan, the*)
(* files the team's slots propose and the requests to write them, and the  *)
(* endpoints bound to the goal (storage/project-team-preset-store.ts,      *)
(* storage/goal-binding-snapshot-store.ts).  A handler is one step with its*)
(* persist(), except where it awaits: plan generation awaits a command,    *)
(* reasoning a provider and a check its command or GitHub, and the preset  *)
(* route awaits its body after it looked at the project.                   *)
(*                                                                         *)
(* One project, one goal, one team.  The parts meet only in the goal, its  *)
(* plans and the project.                                                  *)
(***************************************************************************)
EXTENDS Reasoning, TeamSlots, WorkspaceApply, EndpointRegistry, ProjectChecks

CONSTANTS
    MaxArtifacts,   \* bound: artifacts recorded
    MaxApplies,     \* bound: apply requests created
    MaxSnapshots    \* bound: versions of the goal's binding

ASSUME ControlAssumption ==
    /\ MaxArtifacts \in Nat /\ MaxApplies \in Nat /\ MaxSnapshots \in Nat \ {0}
    /\ NumSlots <= NumSteps

ApplyIds == 1..MaxApplies

VARIABLES
    project,     \* the project: archived, workspace apply enabled
    team,        \* the team
    artifacts,   \* its artifacts, oldest first
    applies,     \* apply requests ever created
    forgotten,   \* those a restarted server knows nothing of
    directories, \* the isolated directory of each request
    registry,    \* the endpoints
    preset,      \* the project's team preset, if there is one, as a sequence
    putting,     \* a PUT of the preset awaits its body
    snapshots,   \* versions of the goal's endpoint binding
    disk,        \* the last snapshot persist() wrote
    confirmedApplies,  \* observed: requests an operator's confirm was written for
    boundAt,     \* observed: length of snapshots when a birth was approved
    newest       \* observed: the plan attached or derived last, of those kept

teamVars == <<team, artifacts>>
applyVars == <<applies, forgotten, directories, confirmedApplies>>
bindVars == <<registry, preset, putting, snapshots>>
watchVars == <<boundAt, newest>>
vars == <<goalExecutionVars, reasoningVars, checkVars, project, teamVars, applyVars,
          bindVars, watchVars, disk>>

Project == [archived : BOOLEAN, applyEnabled : BOOLEAN]

Artifact == [slot : Slots, birth : Births, files : SUBSET Files]

Apply == [status : ApplyStatus, slot : Slots, birth : 0..MaxBirths,
          files : SUBSET Files, own : BOOLEAN]

\* What persist() writes of this (and the plan observed to be the newest of it).
Saved == [goal |-> goal, plans |-> plans, bindings |-> bindings, birth |-> birth,
          mutating |-> mutating, permitted |-> permitted, steps |-> steps, project |-> project, team |-> team,
          artifacts |-> artifacts, preset |-> preset, snapshots |-> snapshots,
          records |-> records, newest |-> newest]

TypeOK ==
    /\ ExecutionTypeOK /\ ReasoningTypeOK /\ ChecksTypeOK
    /\ project \in Project
    /\ team \in Team
    /\ Len(artifacts) <= MaxArtifacts
    /\ \A i \in DOMAIN artifacts : artifacts[i] \in Artifact
    /\ applies \in [ApplyIds -> Apply]
    /\ forgotten \subseteq ApplyIds
    /\ directories \in [ApplyIds -> {"none", "staging", "complete"}]
    /\ confirmedApplies \subseteq ApplyIds
    /\ registry \in [EndpointIds -> EndpointStatus]
    /\ Len(preset) <= 1 /\ \A v \in DOMAIN preset : preset[v] \in Roles
    /\ putting \in BOOLEAN
    /\ Len(snapshots) <= MaxSnapshots
    /\ \A v \in DOMAIN snapshots : snapshots[v] \in Roles
    /\ boundAt \in [Births -> 0..MaxSnapshots]
    /\ newest \in PlanIds

-----------------------------------------------------------------------------

Init ==
    /\ ExecutionInit /\ ReasoningInit /\ ChecksInit
    /\ project = [archived |-> FALSE, applyEnabled |-> FALSE]
    /\ team = AbsentTeam
    /\ artifacts = <<>>
    /\ applies = [a \in ApplyIds |-> AbsentApply]
    /\ forgotten = {}
    /\ directories = [a \in ApplyIds |-> "none"]
    /\ confirmedApplies = {}
    /\ registry = initialRegistry
    /\ preset = <<>>
    /\ putting = FALSE
    /\ snapshots = <<>>
    /\ boundAt = [n \in Births |-> 0]
    /\ newest = 1
    /\ disk = Saved

Persist == disk' = Saved'

-----------------------------------------------------------------------------
(* The goal and its plan.                                                  *)

\* POST /bridge/goals: a preset becomes the first version of its binding.
GoalCreate ==
    /\ ~project.archived
    /\ CreateGoal
    /\ snapshots' = preset
    /\ UNCHANGED <<reasoningVars, checkVars, project, teamVars, applyVars, registry, preset,
                   putting, watchVars>>
    /\ Persist

othersVars == <<checkVars, project, teamVars, applyVars, bindVars>>

\* Faulty variant: the step route does not persist.
StepPersist_not == UNCHANGED disk

StepPersist == Persist

GoalCall ==
    /\ UNCHANGED <<reasoningVars, othersVars>>
    /\ \/ /\ Approve
          /\ boundAt' = [boundAt EXCEPT ![birth[current]] = Len(snapshots)]
          /\ UNCHANGED newest
          /\ Persist
       \/ /\ GenerateAttach
          /\ newest' = 1
          /\ UNCHANGED boundAt
          /\ Persist
       \/ /\ GenerateStart
          /\ UNCHANGED <<boundAt, newest, disk>>
       \/ /\ \/ GenerateFails \/ PauseOrCancel
             \/ \E p \in PlanIds : Bind(p)
          /\ UNCHANGED <<boundAt, newest>>
          /\ Persist
       \/ /\ Advance \/ \E i \in StepIndexes : ApproveGate(i)
          /\ UNCHANGED <<boundAt, newest>>
          /\ StepPersist

\* POST /bridge/automation/bindings/derive: one that answers 409 is not saved.
GoalDerive(parent, child) ==
    /\ Derive(parent, child)
    /\ newest' = child
    /\ UNCHANGED <<reasoningVars, othersVars, boundAt>>
    /\ IF DeriveAnswered(child) THEN Persist ELSE UNCHANGED disk

ReasoningCall ==
    /\ UNCHANGED <<othersVars, watchVars>>
    /\ \/ ReasoningSaved /\ Persist
       \/ ReasoningUnsaved /\ UNCHANGED disk

-----------------------------------------------------------------------------
(* The project.                                                            *)

\* POST .../archive and .../unarchive
ProjectArchive ==
    /\ project' = [project EXCEPT !.archived = ~@]
    /\ UNCHANGED <<goalExecutionVars, reasoningVars, checkVars, teamVars, applyVars, bindVars,
                   watchVars>>
    /\ Persist

\* PATCH /bridge/projects/:key, also of an archived project.
ProjectPatch ==
    /\ project' = [project EXCEPT !.applyEnabled = ~@]
    /\ UNCHANGED <<goalExecutionVars, reasoningVars, checkVars, teamVars, applyVars, bindVars,
                   watchVars>>
    /\ Persist

-----------------------------------------------------------------------------
(* The team.                                                               *)

\* POST .../teams: for the goal's approved plan none of whose steps has run.
TeamCreate ==
    /\ team.status = "absent"
    /\ goal = "approved" /\ plans[current] = "approved"
    /\ team' = createTeam
    /\ UNCHANGED artifacts

TeamApprove == canApproveTeam(team) /\ team' = approveTeam(team) /\ UNCHANGED artifacts

TeamCancel == canCancelTeam(team) /\ team' = cancelTeam(team) /\ UNCHANGED artifacts

\* POST .../slots/:slotId/advance
SlotAdvance(s, status) ==
    /\ canAdvanceSlot(team, s, status)
    /\ team' = advanceSlot(team, s, status)
    /\ UNCHANGED artifacts

\* POST .../artifacts: for any slot, whatever it and the team are doing, and for
\* the goal's present plan, which may be derived since the team was approved.
ArtifactRecord(s, files) ==
    /\ team.status # "absent"
    /\ HasPlan
    /\ Len(artifacts) < MaxArtifacts
    /\ artifacts' = Append(artifacts, [slot |-> s, birth |-> birth[current], files |-> files])
    /\ UNCHANGED team

TeamCall ==
    /\ ~project.archived
    /\ \/ TeamCreate \/ TeamApprove \/ TeamCancel
       \/ \E s \in Slots, status \in SettableStatus : SlotAdvance(s, status)
       \/ \E s \in Slots, files \in SUBSET Files \ {{}} : ArtifactRecord(s, files)
    /\ UNCHANGED <<goalExecutionVars, reasoningVars, checkVars, project, applyVars, bindVars,
                   watchVars>>
    /\ Persist

-----------------------------------------------------------------------------
(* Apply requests.  Nothing of them is persisted.                          *)

NextApply == Cardinality({a \in ApplyIds : applies[a].status # "absent"}) + 1

KnownRequests == {applies[a] : a \in ApplyIds \ forgotten}

ApplyAllowed == ~project.archived /\ project.applyEnabled

\* POST .../apply-requests for the first artifact of a slot and plan step.
ApplyCreate(i, files) ==
    /\ ApplyAllowed
    /\ team.status # "absent"
    /\ NextApply \in ApplyIds
    /\ conflictFree(artifacts)
    /\ \A j \in 1..(i - 1) : artifacts[j].slot # artifacts[i].slot
                             \/ artifacts[j].birth # artifacts[i].birth
    /\ canCreateRequest(KnownRequests, artifacts[i], files)
    /\ applies' = [applies EXCEPT ![NextApply] = createRequest(artifacts[i], files)]
    /\ UNCHANGED <<forgotten, directories, confirmedApplies>>

\* POST .../confirm: the conflict report is not looked at again.
ApplyConfirm(a) ==
    /\ ApplyAllowed
    /\ a \notin forgotten /\ canConfirmApply(applies[a])
    /\ confirmedApplies' = confirmedApplies \cup {a}
    /\ \/ /\ applies' = [applies EXCEPT ![a] = confirmed(@)]
          /\ directories' = [directories EXCEPT ![a] = "complete"]
       \/ /\ applies' = [applies EXCEPT ![a] = writeFailed(@)]
          /\ \E left \in {"none", "staging"} : directories' = [directories EXCEPT ![a] = left]
    /\ UNCHANGED forgotten

\* POST .../discard, also in an archived project; it succeeds although the
\* directory could not be removed.
ApplyDiscard(a) ==
    /\ a \notin forgotten /\ canDiscard(applies[a])
    /\ applies' = [applies EXCEPT ![a] = discard(@)]
    /\ \E left \in discardLeaves(directories[a]) : directories' = [directories EXCEPT ![a] = left]
    /\ UNCHANGED <<forgotten, confirmedApplies>>

ApplyCall ==
    /\ \/ \E i \in DOMAIN artifacts :
            \E files \in {artifacts[i].files, {1}} : ApplyCreate(i, files)
       \/ \E a \in ApplyIds : ApplyConfirm(a) \/ ApplyDiscard(a)
    /\ UNCHANGED <<goalExecutionVars, reasoningVars, checkVars, project, teamVars, bindVars,
                   watchVars, disk>>

-----------------------------------------------------------------------------
(* Endpoints, preset and the goal's binding.                               *)

EndpointCall ==
    /\ \E e \in EndpointIds :
         \/ canRegister(registry, e) /\ registry' = register(registry, e)
         \/ canGoOffline(registry, e) /\ registry' = offline(registry, e)
    /\ UNCHANGED <<preset, putting, snapshots, disk>>

\* PUT /bridge/projects/:key/team-preset up to the awaited body.
PresetStart ==
    /\ ~project.archived /\ ~putting
    /\ putting' = TRUE
    /\ UNCHANGED <<registry, preset, snapshots, disk>>

PresetPut ==
    /\ putting
    /\ putting' = FALSE
    /\ \E roles \in Roles : validRoles(registry, roles) /\ preset' = <<roles>>
    /\ UNCHANGED <<registry, snapshots>>
    /\ Persist

\* A body that is refused, or never comes.
PresetRefused ==
    /\ putting
    /\ putting' = FALSE
    /\ UNCHANGED <<registry, preset, snapshots, disk>>

PresetDelete ==
    /\ ~project.archived
    /\ preset # <<>>
    /\ preset' = <<>>
    /\ UNCHANGED <<registry, putting, snapshots>>
    /\ Persist

\* Faulty variant: only a plan that executes locks the binding.
Rebindable_untilExecuting == plans[current] \notin {"executing", "done"}

\* The binding is locked by the goal's current plan.
Rebindable == plans[current] \in {"absent", "awaiting-approval"}

\* Faulty variant: the latest version is replaced.
NewVersion_replaces(roles) ==
    snapshots' = IF snapshots = <<>> THEN <<roles>>
                 ELSE [snapshots EXCEPT ![Len(snapshots)] = roles]

\* createManual for a first version, rebind for the others.
NewVersion(roles) == snapshots' = Append(snapshots, roles)

\* POST /bridge/goals/rebind
Rebind ==
    /\ goal # "absent"
    /\ Rebindable
    /\ Len(snapshots) < MaxSnapshots
    /\ \E roles \in Roles : validRoles(registry, roles) /\ NewVersion(roles)
    /\ UNCHANGED <<registry, preset, putting>>
    /\ Persist

RolesCall ==
    /\ UNCHANGED <<goalExecutionVars, reasoningVars, checkVars, project, teamVars, applyVars,
                   watchVars>>
    /\ Rebind \/ EndpointCall \/ PresetStart \/ PresetPut \/ PresetRefused \/ PresetDelete

-----------------------------------------------------------------------------
(* Checks.  None of their handlers persists.                               *)

\* The project is looked at when the call comes, not again after its awaits.
CheckCall ==
    /\ \/ ~project.archived /\ \E c \in Calls : VerifyAsked(c) \/ FetchAsked(c)
       \/ VerifyCalls \/ FetchCalls
    /\ UNCHANGED <<goalExecutionVars, reasoningVars, project, teamVars, applyVars, bindVars,
                   watchVars, disk>>

-----------------------------------------------------------------------------

\* Any other handler that ends in persist(): it saves what a derivation that
\* answered 409, a provider's answer or a check left in memory only.
OtherPersists ==
    /\ UNCHANGED <<goalExecutionVars, reasoningVars, checkVars, project, teamVars, applyVars,
                   bindVars, watchVars>>
    /\ Persist

\* The server stops and starts again; it may stop while it writes the files of
\* a request it was asked to confirm.
Restart ==
    /\ goal' = disk.goal
    /\ plans' = disk.plans
    /\ current' = LastPlan(disk.plans)
    /\ bindings' = disk.bindings
    /\ birth' = disk.birth
    /\ mutating' = disk.mutating
    /\ permitted' = disk.permitted
    /\ steps' = disk.steps
    /\ project' = disk.project
    /\ team' = disk.team
    /\ artifacts' = disk.artifacts
    /\ preset' = disk.preset
    /\ snapshots' = disk.snapshots
    /\ records' = disk.records
    /\ newest' = disk.newest
    /\ verifying' = [c \in Calls |-> "none"] /\ locked' = FALSE /\ process' = NoProcess
    /\ fetching' = [c \in Calls |-> NoFetch] /\ inFlight' = FALSE
    /\ asking' = NoAsking /\ evidence' = {}
    /\ generating' = 0
    /\ putting' = FALSE
    /\ registry' = initialRegistry
    /\ forgotten' = {a \in ApplyIds : applies[a].status # "absent"}
    /\ \/ UNCHANGED <<directories, confirmedApplies>>
       \/ \E a \in ApplyIds \ forgotten :
            /\ ApplyAllowed /\ canConfirmApply(applies[a])
            /\ confirmedApplies' = confirmedApplies \cup {a}
            /\ \E left \in Interrupted :
                 directories' = [directories EXCEPT ![a] = left]
    /\ UNCHANGED <<births, observedSteps, applies, boundAt, disk>>

Next ==
    \/ GoalCreate
    \/ GoalCall
    \/ \E parent, child \in PlanIds : GoalDerive(parent, child)
    \/ ReasoningCall
    \/ ProjectArchive \/ ProjectPatch
    \/ TeamCall
    \/ ApplyCall
    \/ RolesCall
    \/ CheckCall
    \/ OtherPersists
    \/ Restart

Spec == Init /\ [][Next]_vars

-----------------------------------------------------------------------------
(* Safety.                                                                 *)

\* A team's slots run one after the other: those before the current one are
\* done, those after it have not started, none starts before the operator
\* approved the team, and the team is done when and only when all of them are.
SlotChain ==
    /\ \A s \in Slots : s < team.slot => team.slots[s] = "done"
    /\ \A s \in Slots : s > team.slot => team.slots[s] = "pending"
    /\ team.status \in {"absent", "pending-approval", "approved"} =>
         \A s \in Slots : team.slots[s] = "pending"
    /\ team.status = "done" <=> \A s \in Slots : team.slots[s] = "done"

\* Two directories that exist were not written from artifacts that propose the
\* same file: not by requests admitted before the conflict was recorded, not
\* after discards, and not on both sides of a restart, which forgets the
\* requests and leaves their directories.
DirectoriesDisjoint ==
    \A a, b \in ApplyIds :
        (/\ directories[a] = "complete" /\ directories[b] = "complete"
         /\ applies[a].own /\ applies[b].own
         /\ <<applies[a].slot, applies[a].birth>> # <<applies[b].slot, applies[b].birth>>)
        => applies[a].files \cap applies[b].files = {}

\* What the server tells of the directories is so as long as it knows of them.  A
\* complete one was confirmed and its request says applied, or discarded when
\* the clean-up failed; one that says applied is complete; and at most one is
\* applied for a slot and plan step, however often it was asked for, failed,
\* discarded and forgotten in between.
DirectoriesAccounted ==
    /\ \A a \in ApplyIds :
         /\ directories[a] = "complete" =>
              /\ a \in confirmedApplies
              /\ a \in forgotten \/ applies[a].status \in {"applied", "discarded"}
         /\ (applies[a].status = "applied" /\ a \notin forgotten) => directories[a] = "complete"
    /\ \A a, b \in ApplyIds \ forgotten :
         (applies[a].status = "applied" /\ applies[b].status = "applied" /\ a # b) =>
             <<applies[a].slot, applies[a].birth>> # <<applies[b].slot, applies[b].birth>>

\* While a plan that the operator approved runs, the goal keeps the endpoints
\* it was approved with.  (Unless a restart made an older plan the current one:
\* the plan derived last may have been rebound.)
RunsUnderApprovedBinding ==
    (current = newest /\ plans[current] \in {"approved", "executing"}) =>
        Len(snapshots) = boundAt[birth[current]]

\* No version of a goal's binding is changed or lost, by rebinding, creating
\* presets, or a restart.
BindingHistoryKept ==
    [][\A v \in DOMAIN snapshots :
          v \in DOMAIN snapshots' /\ snapshots'[v] = snapshots[v]]_vars

-----------------------------------------------------------------------------
(* What it implements.                                                     *)

\* Birth n's plan has one of the statuses, in memory or where a restart finds it.
Held(n, statuses) ==
    \E p \in PlanIds : \/ birth[p] = n /\ plans[p] \in statuses
                       \/ disk.birth[p] = n /\ disk.plans[p] \in statuses

\* A paused plan has ended: nothing resumes one.
StageOf(n) ==
    IF n > births THEN "none"
    ELSE IF Held(n, {"awaiting-approval"}) THEN "offered"
    ELSE IF Held(n, {"approved", "executing"}) THEN "approved"
    ELSE "ended"

Contract == INSTANCE GoalContract WITH
    Versions <- Births, Steps <- StepIndexes,
    stage <- [n \in Births |-> StageOf(n)], guarded <- mutating, passed <- gated, times <- runs

\* ADR-0003, for all the plans of a goal: an approval is for one plan and a
\* gate for one step; what was approved runs step by step, each once, and a plan
\* that was finished, paused, cancelled, replaced or lost never runs again,
\* although a restart may bring it back.
ImplementsGoalContract == Contract!Spec

-----------------------------------------------------------------------------
(* What the v2.3 handoff says of conflicts and the report does not find.   *)

\* v2.3 handoff, 5.2: a path that is a directory of another artifact's path is a
\* conflict, and no request is made for the team while there is one.
ConflictsBlockApply ==
    [][(\E i, j \in DOMAIN artifacts :
          i # j /\ \E f \in artifacts[i].files, g \in artifacts[j].files : <<f, g>> \in Contains)
       => \A a \in ApplyIds : applies[a].status = "absent" => applies'[a].status = "absent"]_vars
=============================================================================
