---------------------------- MODULE OperatorGate ----------------------------
(***************************************************************************)
(* What a human-in-the-loop gate promises, whatever stands behind it: an   *)
(* item is proposed, an operator's confirm may be accepted for it, only    *)
(* then may it happen, and once it is closed - done, cancelled, replaced,  *)
(* forgotten - nothing opens it again.  Bookkeeping, failures and restarts *)
(* do not show, and one handler may move several items: an edit closes one *)
(* and proposes another, a restart closes all it forgets.                  *)
(*                                                                         *)
(* ExecutionProposal implements the gate; Handoff implements the stricter  *)
(* one, where a confirmation is used up by the first happening.            *)
(***************************************************************************)
EXTENDS Naturals

CONSTANT Items

VARIABLES
    gate,       \* where each item is
    accepted,   \* items an operator's confirm was accepted for
    times       \* how often each item happened

vars == <<gate, accepted, times>>

Gates == {"none", "proposed", "confirmed", "closed"}

Init == /\ gate = [i \in Items |-> "none"]
        /\ accepted = {}
        /\ times = [i \in Items |-> 0]

-----------------------------------------------------------------------------
(* One item in one step.                                                   *)

Quiet(i) == times'[i] = times[i] /\ (i \in accepted' <=> i \in accepted)

Stays(i) == gate'[i] = gate[i] /\ Quiet(i)

IsProposed(i) == gate[i] = "none" /\ gate'[i] = "proposed" /\ Quiet(i)

IsConfirmed(i) == /\ gate[i] = "proposed"
                  /\ gate'[i] = "confirmed"
                  /\ i \notin accepted /\ i \in accepted'
                  /\ times'[i] = times[i]

Happens(i) == /\ gate[i] = "confirmed"
              /\ gate'[i] \in {"confirmed", "closed"}
              /\ times'[i] = times[i] + 1
              /\ i \in accepted /\ i \in accepted'

Closes(i) == gate[i] \in {"proposed", "confirmed"} /\ gate'[i] = "closed" /\ Quiet(i)

-----------------------------------------------------------------------------

Next == \A i \in Items :
            Stays(i) \/ IsProposed(i) \/ IsConfirmed(i) \/ Happens(i) \/ Closes(i)

Spec == Init /\ [][Next]_vars

\* The stricter gate: what happened is closed.
UsedUp == \A i \in Items : times[i] > 0 => gate[i] = "closed"

SingleUseSpec == Spec /\ []UsedUp
=============================================================================
