--------------------------- MODULE ProjectChecks ---------------------------
(***************************************************************************)
(* The checks an operator runs for a project: its verification profile, a  *)
(* contained command (verification/profile-runner.ts), and what GitHub says*)
(* of its branch (verification/git-status-reader.ts, github-checks-        *)
(* provider.ts), with the records of both (storage/verification-run-       *)
(* store.ts).  Each route checks the project, awaits, and then takes a lock*)
(* that admits one run per project; a call the lock refuses is recorded    *)
(* like any other.  The handlers do not persist: records reach the disk    *)
(* with the next snapshot some other handler writes.                       *)
(***************************************************************************)
EXTENDS ContainedProcess, FiniteSets, Integers, Sequences

CONSTANTS
    MaxCalls,     \* bound: calls of one kind at a time
    RecordCap     \* records kept per project (50 in the code)

ASSUME CheckAssumption == MaxCalls \in Nat /\ RecordCap \in Nat \ {0}

Calls == 1..MaxCalls

VerificationResult == {"passed", "failed", "skipped", "errored", "unknown"}

VARIABLES
    verifying,   \* POST .../verification/confirm: where each call is
    locked,      \* LOCK holds the project
    process,     \* the command of the call that holds it
    fetching,    \* POST .../github-checks/confirm: where each call is
    inFlight,    \* inFlight holds the project
    records      \* the project's records, oldest first

checkVars == <<verifying, locked, process, fetching, inFlight, records>>

-----------------------------------------------------------------------------
(* What GitHub answers.                                                    *)

Signal == {"failed", "errored", "pending", "passed", "skipped", "none"}

\* The first of order, a sequence, that is present.
firstOf(order, present) ==
    CHOOSE i \in DOMAIN order :
        order[i] \in present /\ \A j \in 1..(i - 1) : order[j] \notin present

Conclusions == {"failure", "running", "success", "other", "skipped"}

checkRunsSignal(conclusions) ==
    IF conclusions = {} THEN "none"
    ELSE <<"failed", "pending", "passed", "none", "skipped">>[
             firstOf(<<"failure", "running", "success", "other", "skipped">>, conclusions)]

\* The commit's combined state, which is pending also without any status.
statusSignal(state, total) ==
    [failure |-> "failed", success |-> "passed", other |-> "none",
     pending |-> IF total = 0 THEN "none" ELSE "pending"][state]

\* What a query can end in: a body, one that does not parse or another failure
\* ("errored"), or a commit GitHub does not know ("none").
CheckRunsSignals ==
    {checkRunsSignal(c) : c \in SUBSET Conclusions} \cup {"none", "errored"}

StatusSignals ==
    {statusSignal(s, n) : s \in {"failure", "success", "pending", "other"}, n \in 0..1}
    \cup {"none", "errored"}

mergeLadder(cr, st) ==
    <<"failed", "errored", "unknown", "passed", "skipped", "unknown">>[
        firstOf(<<"failed", "errored", "pending", "passed", "skipped", "none">>, {cr, st})]

-----------------------------------------------------------------------------

\* A call to verify: awaiting its body, or running its command.
VerifyStage == {"none", "body", "running"}

\* A call to GitHub: reading the branch, then the check runs, then the status,
\* each tried once more if it is unreachable.
Fetch == [stage : {"none", "branch", "checkRuns", "status"},
          attempt : 1..2, checkRuns : Signal]

NoFetch == [stage |-> "none", attempt |-> 1, checkRuns |-> "none"]

Record == [profile : {"profile", "github-checks"}, result : VerificationResult]

ChecksTypeOK ==
    /\ verifying \in [Calls -> VerifyStage]
    /\ locked \in BOOLEAN
    /\ process \in Process
    /\ fetching \in [Calls -> Fetch]
    /\ inFlight \in BOOLEAN
    /\ Len(records) <= RecordCap
    /\ \A i \in DOMAIN records : records[i] \in Record

ChecksInit ==
    /\ verifying = [c \in Calls |-> "none"]
    /\ locked = FALSE
    /\ process = NoProcess
    /\ fetching = [c \in Calls |-> NoFetch]
    /\ inFlight = FALSE
    /\ records = <<>>

\* add: the oldest record makes room.
added(record) ==
    LET all == Append(records, record) IN
      IF Len(all) > RecordCap THEN Tail(all) ELSE all

verifyVars == <<verifying, locked, process>>
fetchVars == <<fetching, inFlight>>

-----------------------------------------------------------------------------
(* The verification profile.                                               *)

\* The project has a profile and a workspace; the body is awaited.
VerifyAsked(c) ==
    /\ verifying[c] = "none"
    /\ verifying' = [verifying EXCEPT ![c] = "body"]
    /\ UNCHANGED <<locked, process, fetchVars, records>>

\* The body does not confirm, or names what only the operator's configuration
\* may.
VerifyRefused(c) ==
    /\ verifying[c] = "body"
    /\ verifying' = [verifying EXCEPT ![c] = "none"]
    /\ UNCHANGED <<locked, process, fetchVars, records>>

\* Faulty variant: the finally that frees the lock is around its check too.
VerifyLocked_frees(c) ==
    /\ verifying[c] = "body"
    /\ locked
    /\ locked' = FALSE
    /\ verifying' = [verifying EXCEPT ![c] = "none"]
    /\ records' = added([profile |-> "profile", result |-> "errored"])
    /\ UNCHANGED <<process, fetchVars>>

\* The lock is taken, or the working directory escapes the workspace.
VerifyLocked(c) ==
    /\ verifying[c] = "body"
    /\ verifying' = [verifying EXCEPT ![c] = "none"]
    /\ records' = added([profile |-> "profile", result |-> "errored"])
    /\ UNCHANGED <<locked, process, fetchVars>>

VerifyRun(c) ==
    /\ verifying[c] = "body"
    /\ ~locked
    /\ locked' = TRUE
    /\ verifying' = [verifying EXCEPT ![c] = "running"]
    /\ process' = spawn
    /\ UNCHANGED <<fetchVars, records>>

\* spawn throws (an argument no process can have): the finally frees the lock
\* before another handler runs, and the 500 leaves no record.
VerifyThrows(c) ==
    /\ verifying[c] = "body"
    /\ ~locked
    /\ verifying' = [verifying EXCEPT ![c] = "none"]
    /\ UNCHANGED <<locked, process, fetchVars, records>>

\* The command writes too much, exits, leaves a helper behind, is terminated
\* and killed.
CommandSteps ==
    /\ \/ canWrite(process) /\ process' = overflow(process)
       \/ canFork(process) /\ \E h \in {"holds", "escaped"} :
                                process' = [process EXCEPT !.helper = h]
       \/ process.child = "running" /\ \E exit \in {"exit0", "exited"} :
                                process' = [process EXCEPT !.child = exit]
       \/ process.helper # "none" /\ process' = [process EXCEPT !.helper = "none"]
       \/ /\ locked /\ process.timer = "armed"
          /\ process' = timeout(process)
       \/ /\ locked /\ process.timer = "termed"
          /\ process' = escalation(process)
    /\ UNCHANGED <<verifying, locked, fetchVars, records>>

\* exitToResult, of a command that exits by a signal or a code (cut output is
\* noted but decides nothing).
exitResults ==
    IF timedOut(process) THEN {"errored"}
    ELSE IF process.child = "exit0" THEN {"passed"}
    ELSE {"failed", "errored"}

VerifyEnds(c) ==
    /\ verifying[c] = "running"
    /\ closes(process)
    /\ verifying' = [verifying EXCEPT ![c] = "none"]
    /\ \E result \in exitResults :
         records' = added([profile |-> "profile", result |-> result])
    /\ locked' = FALSE
    /\ process' = NoProcess
    /\ UNCHANGED fetchVars

-----------------------------------------------------------------------------
(* GitHub's checks.                                                        *)

FetchAsked(c) ==
    /\ fetching[c].stage = "none"
    /\ fetching' = [fetching EXCEPT ![c].stage = "branch"]
    /\ UNCHANGED <<verifyVars, inFlight, records>>

\* readGitStatus: is it a repository, and on which branch (of three commands
\* that run at once this one counts).
branchKnown(isRepo, branch) == isRepo = "true" /\ branch = "named"

Branches == {branchKnown(r, b) : r \in {"true", "false", "error"},
                                 b \in {"named", "detached", "error"}}

NoBranch(c) ==
    /\ fetching[c].stage = "branch"
    /\ FALSE \in Branches
    /\ fetching' = [fetching EXCEPT ![c] = NoFetch]
    /\ UNCHANGED <<verifyVars, inFlight, records>>

FetchLocked(c) ==
    /\ fetching[c].stage = "branch"
    /\ TRUE \in Branches
    /\ fetching' = [fetching EXCEPT ![c] = NoFetch]
    /\ records' = added([profile |-> "github-checks", result |-> "errored"])
    /\ UNCHANGED <<verifyVars, inFlight>>

FetchRuns(c) ==
    /\ fetching[c].stage = "branch"
    /\ TRUE \in Branches
    /\ ~inFlight
    /\ inFlight' = TRUE
    /\ fetching' = [fetching EXCEPT ![c].stage = "checkRuns"]
    /\ UNCHANGED <<verifyVars, records>>

FetchRetry(c) ==
    /\ fetching[c].stage \in {"checkRuns", "status"}
    /\ fetching[c].attempt = 1
    /\ fetching' = [fetching EXCEPT ![c].attempt = 2]
    /\ UNCHANGED <<verifyVars, inFlight, records>>

\* The branch is looked up anew for the status: it may have moved.
FetchStatus(c) ==
    /\ fetching[c].stage = "checkRuns"
    /\ \E signal \in CheckRunsSignals :
         fetching' = [fetching EXCEPT ![c] =
                        [stage |-> "status", attempt |-> 1, checkRuns |-> signal]]
    /\ UNCHANGED <<verifyVars, inFlight, records>>

FetchEnds(c) ==
    /\ fetching[c].stage = "status"
    /\ \E signal \in StatusSignals :
         records' = added([profile |-> "github-checks",
                           result |-> mergeLadder(fetching[c].checkRuns, signal)])
    /\ fetching' = [fetching EXCEPT ![c] = NoFetch]
    /\ inFlight' = FALSE
    /\ UNCHANGED verifyVars

-----------------------------------------------------------------------------

VerifyCalls ==
    \/ CommandSteps
    \/ \E c \in Calls : \/ VerifyRefused(c) \/ VerifyLocked(c) \/ VerifyThrows(c)
                       \/ VerifyRun(c) \/ VerifyEnds(c)

FetchCalls ==
    \E c \in Calls : \/ NoBranch(c) \/ FetchLocked(c) \/ FetchRuns(c)
                     \/ FetchRetry(c) \/ FetchStatus(c) \/ FetchEnds(c)

-----------------------------------------------------------------------------
(* Safety.                                                                 *)

\* One verification command and one query of GitHub at a time, whatever calls
\* come in, are refused, time out or end in between; and a project whose run
\* has ended, however it ended, is free for the next one.
OneCheckAtATime ==
    LET running == {c \in Calls : verifying[c] = "running"}
        asked == {c \in Calls : fetching[c].stage \in {"checkRuns", "status"}}
    IN /\ Cardinality(running) = IF locked THEN 1 ELSE 0
       /\ Cardinality(asked) = IF inFlight THEN 1 ELSE 0
       /\ running = {} => process = NoProcess
=============================================================================
