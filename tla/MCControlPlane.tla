--------------------------- MODULE MCControlPlane ---------------------------
(***************************************************************************)
(* Instance of ControlPlane for TLC.  The product of its parts is out of   *)
(* reach, but they meet only in the goal, its plans and the project: so the*)
(* clients of one behaviour use one part, its focus, next to the goal's own*)
(* calls.  Every behaviour of MCSpec is one of Spec.                       *)
(***************************************************************************)
EXTENDS ControlPlane

\* Two paths, the first the directory of the second: src and src/y.
twoFilesContains == {<<1, 2>>}
twoFilesBeside == {<<1, 2>>}

\* Three, in the order of their strings: src, src-gen/x and src/y.
threeFilesContains == {<<1, 3>>}
threeFilesBeside == {<<1, 2>>, <<1, 3>>}

VARIABLE focus      \* bound: the part this behaviour's clients use

Focuses == {"steps", "team", "files", "roles", "versions", "reasoning", "checks", "github"}

\* Bound on the goal: one content of a binding unless reasoning looks at it; and
\* where it serves another focus than "steps", one generation at a time, no step
\* that runs or that changes state and one derivation (two for "versions"), and
\* for "files", which has no eye for a goal's status, none paused or cancelled;
\* nor is a plan derived under its own id there (see MCNext).
SmallGoal ==
    /\ focus # "reasoning" =>
         \A p \in PlanIds : bindings'[p].content \in {NoBinding, CHOOSE b \in Bindings : TRUE}
    /\ focus # "steps" =>
         /\ generating' <= 1
         /\ mutating' = {} /\ permitted' = {"patch-proposal"}
         /\ births' = births => steps' = steps
         /\ births' <= IF focus = "versions" THEN 3 ELSE 2
         /\ focus = "files" => goal' \notin {"paused", "cancelled"}

SmallTeam ==
    /\ focus = "team" => artifacts' = artifacts
    /\ focus = "files" => team' = team \/ team.status = "absent"

SmallRoles == focus = "versions" => UNCHANGED <<registry, preset, putting>>

SmallChecks ==
    /\ focus = "checks" => UNCHANGED <<fetching, inFlight>>
    /\ focus = "github" => UNCHANGED <<verifying, locked, process>>

MCInit == Init /\ focus \in Focuses

MCNext ==
    /\ focus' = focus
    /\ \/ focus \notin {"checks", "github"} /\ GoalCreate
       \/ GoalCall /\ SmallGoal
       \/ \E parent, child \in PlanIds :
            GoalDerive(parent, child) /\ SmallGoal /\ (focus = "files" => child # parent)
       \/ focus = "reasoning" /\ ReasoningCall
       \/ focus \in {"team", "roles", "checks", "github"} /\ ProjectArchive
       \/ focus = "files" /\ ProjectPatch
       \/ focus \in {"team", "files"} /\ TeamCall /\ SmallTeam
       \/ focus = "files" /\ ApplyCall
       \/ focus \in {"roles", "versions"} /\ RolesCall /\ SmallRoles
       \/ focus \in {"checks", "github"} /\ CheckCall /\ SmallChecks
       \/ OtherPersists
       \/ Restart

MCSpec == MCInit /\ [][MCNext]_<<vars, focus>>
=============================================================================
