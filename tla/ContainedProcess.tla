-------------------------- MODULE ContainedProcess --------------------------
(***************************************************************************)
(* A command run with a timeout and an output cap (process/contained-      *)
(* process.ts, adapters/command-runner.ts), on a POSIX system: the child   *)
(* leads a process group of its own and may have a helper process.  The    *)
(* run ends when `close' is emitted: the child has exited and nobody holds *)
(* its output pipes.  Operators on one run.                                *)
(***************************************************************************)

\* A helper that holds the output pipes, in the child's group or out of it (one
\* that closed them changes nothing, and outlives the run if it ignores SIGTERM).
Helper == {"none", "holds", "escaped"}

Process == [child : {"none", "running", "exit0", "exited"},     \* exited: not 0
            helper : Helper,
            timer : {"armed", "termed", "killed"},
            truncated : BOOLEAN]

NoProcess == [child |-> "none", helper |-> "none", timer |-> "armed", truncated |-> FALSE]

spawn == [NoProcess EXCEPT !.child = "running"]

started(process) == process.child # "none"

canFork(process) == process.child = "running" /\ process.helper = "none"

canWrite(process) == process.child = "running" \/ process.helper # "none"

\* capture() once the cap is passed.
overflow(process) == [process EXCEPT !.truncated = TRUE]

timedOut(process) == process.timer # "armed"

\* The timeout sends SIGTERM, which any process may ignore or obey by exiting.
timeout(process) == [process EXCEPT !.timer = "termed"]

\* Faulty variant: only the child is killed, not its group.
escalation_childOnly(process) ==
    [process EXCEPT !.timer = "killed",
                    !.child = IF @ = "running" THEN "exited" ELSE @]

\* The escalation sends SIGKILL to the group.
escalation(process) ==
    [process EXCEPT !.timer = "killed",
                    !.child = IF @ = "running" THEN "exited" ELSE @,
                    !.helper = IF @ = "escaped" THEN @ ELSE "none"]

closes(process) ==
    process.child \in {"exit0", "exited"} /\ process.helper = "none"

\* Faulty variant: a command that exits with 0 after its timeout succeeded.
commandOk_late(process) == process.child = "exit0" /\ ~process.truncated

\* runAllowlistedCommand: a timeout, cut output and an exit code other than 0
\* are failures, in this order of precedence.
commandOk(process) ==
    ~timedOut(process) /\ ~process.truncated /\ process.child = "exit0"
=============================================================================
