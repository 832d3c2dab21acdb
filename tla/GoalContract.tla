---------------------------- MODULE GoalContract ----------------------------
(***************************************************************************)
(* What an operator is promised who gives a goal and approves a plan for   *)
(* it.  Each plan made for the goal is a version of its own, whatever id   *)
(* the server keeps it under: it is offered, the operator approves it, its *)
(* steps run one by one, each once, and it ends when they all did, or when *)
(* it is paused, cancelled, replaced or lost.  A guarded step waits for an *)
(* approval of its own, which is given once.  No version that has ended    *)
(* gets a step or an approval again, restarts included.                    *)
(*                                                                         *)
(* ControlPlane implements it.                                             *)
(***************************************************************************)
EXTENDS Naturals

CONSTANTS Versions, Steps

VARIABLES
    stage,      \* where each version is
    guarded,    \* steps that change state, the same in all versions
    passed,     \* guarded steps (of a version) the operator let through
    times       \* how often each step (of a version) ran

vars == <<stage, guarded, passed, times>>

Stages == {"none", "offered", "approved", "ended"}

Init == /\ stage = [v \in Versions |-> "none"]
        /\ guarded = {}
        /\ passed = {}
        /\ times = [s \in Versions \X Steps |-> 0]

-----------------------------------------------------------------------------

Stays(v) == stage'[v] = stage[v]

Ends(v) == stage[v] \in {"offered", "approved"} /\ stage'[v] = "ended"

\* Meanwhile another version may end: one handler may save what replaced it.
Others(v) == \A w \in Versions \ {v} : Stays(w) \/ Ends(w)

\* The first version says which steps are guarded.
Offer(v) == /\ stage[v] = "none" /\ stage'[v] = "offered"
            /\ Others(v)
            /\ guarded' = guarded \/ \A w \in Versions : stage[w] = "none"
            /\ UNCHANGED <<passed, times>>

Approve(v) == /\ stage[v] = "offered" /\ stage'[v] = "approved"
              /\ Others(v)
              /\ UNCHANGED <<guarded, passed, times>>

Pass(v, i) == /\ stage[v] = "approved" /\ Stays(v)
              /\ Others(v)
              /\ i \in guarded
              /\ <<v, i>> \notin passed /\ times[<<v, i>>] = 0
              /\ passed' = passed \cup {<<v, i>>}
              /\ UNCHANGED <<guarded, times>>

\* The last step ends the version.
Run(v, i) == /\ stage[v] = "approved"
             /\ i \in guarded => <<v, i>> \in passed
             /\ times[<<v, i>>] = 0
             /\ times' = [times EXCEPT ![<<v, i>>] = 1]
             /\ IF \A j \in Steps : times'[<<v, j>>] = 1 THEN Ends(v) ELSE Stays(v)
             /\ Others(v)
             /\ UNCHANGED <<guarded, passed>>

Close == /\ \A v \in Versions : Stays(v) \/ Ends(v)
         /\ UNCHANGED <<guarded, passed, times>>

Next == \/ Close
        \/ \E v \in Versions : Offer(v) \/ Approve(v)
        \/ \E v \in Versions, i \in Steps : Pass(v, i) \/ Run(v, i)

Spec == Init /\ [][Next]_vars
=============================================================================
