----------------------------- MODULE TurnTaking -----------------------------
(***************************************************************************)
(* What an automated conversation promises its operator.  Each loop asks,  *)
(* is answered, and only then asks again, each time for a reply it has not *)
(* heard before and never more often than allowed; a paused loop may still *)
(* be answered, but takes no turn; a question that fails is not asked      *)
(* again, and a loop that is over stays over.  Deadlines, progress checks, *)
(* retries and restarts do not show: all they can do is end a loop.        *)
(***************************************************************************)
EXTENDS Naturals

CONSTANTS
    Talks,      \* the loops
    Heard,      \* the replies one may hear
    MaxTurns    \* how often a loop may ask

VARIABLES
    phase,      \* where each loop is
    turns,      \* how often it has asked
    heard,      \* the replies it went on from, or ended with
    paused      \* the loops that are paused

vars == <<phase, turns, heard, paused>>

Alive == {"asking", "answered", "unanswered"}

Init == /\ phase = [l \in Talks |-> "none"]
        /\ turns = [l \in Talks |-> 0]
        /\ heard = [l \in Talks |-> {}]
        /\ paused = {}

-----------------------------------------------------------------------------
(* One loop in one step.                                                   *)

Quiet(l) == turns'[l] = turns[l] /\ heard'[l] = heard[l]

StillPaused(l) == l \in paused' <=> l \in paused

HearsNew(l) == \E r \in Heard \ heard[l] : heard'[l] = heard[l] \cup {r}

Rests(l) == phase'[l] = phase[l] /\ Quiet(l) /\ StillPaused(l)

PausesOrResumes(l) == phase[l] \in Alive /\ phase'[l] = phase[l] /\ Quiet(l)

Asks(l) == /\ phase[l] = "none" /\ phase'[l] = "asking"
           /\ turns'[l] = 1 /\ heard'[l] = heard[l]
           /\ l \notin paused'

Settles(l) == /\ phase[l] = "asking" /\ phase'[l] \in {"answered", "unanswered"}
              /\ Quiet(l) /\ StillPaused(l)

AsksAgain(l) == /\ phase[l] = "answered" /\ phase'[l] = "asking"
                /\ turns[l] < MaxTurns /\ turns'[l] = turns[l] + 1
                /\ HearsNew(l)
                /\ l \notin paused /\ l \notin paused'

Ends(l) == /\ phase[l] \in Alive /\ phase'[l] = "over"
           /\ turns'[l] = turns[l]
           /\ \/ heard'[l] = heard[l]
              \/ phase[l] = "answered" /\ l \notin paused /\ HearsNew(l)
           /\ l \notin paused'

-----------------------------------------------------------------------------

Moves(l) == \/ Rests(l) \/ PausesOrResumes(l) \/ Asks(l) \/ Settles(l)
            \/ AsksAgain(l) \/ Ends(l)

Next == \A l \in Talks : Moves(l)

Spec == Init /\ [][Next]_vars
=============================================================================
