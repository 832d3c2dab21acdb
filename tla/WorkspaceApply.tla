--------------------------- MODULE WorkspaceApply ---------------------------
(***************************************************************************)
(* Requests to write a slot's files into an isolated directory             *)
(* (storage/workspace-apply-store.ts) and the conflict report that admits  *)
(* them (detectFileConflicts in packages/shared/src/schemas.ts), as        *)
(* operators.  An artifact is what a slot proposed for a plan step.        *)
(***************************************************************************)
EXTENDS FiniteSets, Integers, Sequences

CONSTANTS
    NumFiles,     \* proposable paths, numbered in the order of their strings
    Contains,     \* pairs of paths: the first is a directory of the second
    BesideOf      \* pairs: the second starts with the directory of the first

Files == 1..NumFiles

ASSUME FileAssumption ==
    NumFiles \in Nat \ {0} /\ Contains \subseteq Files \X Files /\ BesideOf \subseteq Files \X Files

-----------------------------------------------------------------------------
(* The conflict report.  The paths of all artifacts are sorted together.   *)

Proposed(artifacts) == UNION {artifacts[i].files : i \in DOMAIN artifacts}

\* The same path twice, be it by one slot in two artifacts.
SamePath(artifacts) ==
    \E i, j \in DOMAIN artifacts : i # j /\ artifacts[i].files \cap artifacts[j].files # {}

\* A path below a proposed one: the scan goes back from the path and stops at
\* the first one in whose directory it does not lie.
BelowAnother(artifacts) ==
    \E f, g \in Proposed(artifacts) :
        /\ <<f, g>> \in Contains
        /\ \A h \in Proposed(artifacts) : f < h /\ h < g => <<h, g>> \in BesideOf

\* Faulty variant: a slot's newer artifact replaces its older ones.
conflictFree_latest(artifacts) ==
    LET latest == {i \in DOMAIN artifacts :
                     \A j \in DOMAIN artifacts :
                        artifacts[j].slot = artifacts[i].slot => j <= i}
    IN \A i, j \in latest : i # j => artifacts[i].files \cap artifacts[j].files = {}

conflictFree(artifacts) == ~SamePath(artifacts) /\ ~BelowAnother(artifacts)

-----------------------------------------------------------------------------
(* A request.                                                              *)

ApplyStatus == {"absent", "pending", "applied", "failed", "discarded"}

AbsentApply == [status |-> "absent", slot |-> 1, birth |-> 0, files |-> {}, own |-> TRUE]

\* One request at a time for a slot's step (of whatever team).
canCreateRequest(requests, artifact, files) ==
    /\ files # {}
    /\ \A r \in requests : (r.slot = artifact.slot /\ r.birth = artifact.birth) =>
                              r.status \in {"absent", "discarded"}

\* The client may name other files than the artifact does; own tells.
createRequest(artifact, files) ==
    [status |-> "pending", slot |-> artifact.slot, birth |-> artifact.birth,
     files |-> files, own |-> files = artifact.files]

canConfirmApply(request) == request.status = "pending"

\* What confirmApply leaves: the request's status and its directory.  The
\* files go to a staging directory, which is renamed at the end or removed.
confirmed(request) == [request EXCEPT !.status = "applied"]

\* Faulty variant: the status is set before the files are written.
writeFailed_applied(request) == confirmed(request)

writeFailed(request) == [request EXCEPT !.status = "failed"]

\* What a server that stops while it writes may leave behind.
Interrupted == {"staging", "complete"}

canDiscard(request) == request.status \notin {"absent", "discarded"}

discard(request) == [request EXCEPT !.status = "discarded"]

\* What a discard may leave of the directory.  cleanup() does its best: a complete
\* one may stay, or a part of it, which counts as complete.  A staging directory
\* is not the request's and stays.
discardLeaves(directory) == IF directory = "complete" THEN {"none", "complete"} ELSE {directory}
=============================================================================
