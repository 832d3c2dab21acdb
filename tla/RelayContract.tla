---------------------------- MODULE RelayContract ----------------------------
(***************************************************************************)
(* What an operator who queues a prompt is promised, whoever relays it.    *)
(* The prompt is open until it is handed to one page for submission or is  *)
(* over; a page holds it only because it was handed over while it was      *)
(* open, and posts it once or not at all; nothing that is over, or was     *)
(* posted, comes back.  A prompt that was handed over may be answered,     *)
(* once, and the answer stays; one that is still open never is.  What the  *)
(* answer says is not promised.  Texts without a route are kept, too.      *)
(*                                                                         *)
(* Leases, expiries, tokens, retries, late requests and restarts do not    *)
(* show.  One step may move several prompts: a poll ends all that lapsed.  *)
(***************************************************************************)
EXTENDS Naturals

CONSTANT Prompts

VARIABLES
    stage,      \* where each prompt is
    posts,      \* how often each prompt was posted
    answers,    \* the inbound messages that answer each prompt
    unrouted    \* the sessions with a text that had no route

vars == <<stage, posts, answers, unrouted>>

Stages == {"none", "open", "held", "posted", "over"}

Init == /\ stage = [p \in Prompts |-> "none"]
        /\ posts = [p \in Prompts |-> 0]
        /\ answers = [p \in Prompts |-> {}]
        /\ unrouted = {}

-----------------------------------------------------------------------------
(* One prompt in one step.                                                 *)

Rests(p) == stage'[p] = stage[p] /\ posts'[p] = posts[p]

IsQueued(p) == stage[p] = "none" /\ stage'[p] = "open" /\ posts'[p] = posts[p]

IsHandedOver(p) == stage[p] = "open" /\ stage'[p] = "held" /\ posts'[p] = posts[p]

IsPosted(p) == stage[p] = "held" /\ stage'[p] = "posted" /\ posts'[p] = posts[p] + 1

Ends(p) == stage[p] \in {"open", "held"} /\ stage'[p] = "over" /\ posts'[p] = posts[p]

Moves(p) == Rests(p) \/ IsQueued(p) \/ IsHandedOver(p) \/ IsPosted(p) \/ Ends(p)

IsAnswered(p) == /\ answers[p] = {}
                 /\ stage[p] \notin {"none", "open"}
                 /\ answers'[p] # {}
                 /\ \A m, n \in answers'[p] : m = n

-----------------------------------------------------------------------------

KeepUnrouted == unrouted \subseteq unrouted'

Next == /\ \A p \in Prompts : Moves(p)
        /\ \A p \in Prompts : answers'[p] = answers[p] \/ IsAnswered(p)
        /\ KeepUnrouted

Spec == Init /\ [][Next]_vars
=============================================================================
