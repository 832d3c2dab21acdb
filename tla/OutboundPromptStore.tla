------------------------ MODULE OutboundPromptStore ------------------------
(***************************************************************************)
(* The outbound prompt store (storage/outbound-prompt-store.ts): what each *)
(* store method does to one prompt, or to the whole map of prompts.  The   *)
(* modules OutboundRelay and WebRelayLoop turn these operators into        *)
(* actions.                                                                *)
(*                                                                         *)
(* Time.  The code compares Date.now() with timestamps it stored earlier.  *)
(* Here a prompt carries the AGE of each such timestamp instead, counted   *)
(* in ticks and saturating one past the limit it is compared with, so      *)
(* `now > authorization.expiresAt' is `age > AuthTTL'.  The comparisons    *)
(* come out as in the code and time itself needs no bound.                 *)
(*                                                                         *)
(* Order.  A prompt id is the position of the prompt in creation order:    *)
(* the code's stable sort by createdAt over an insertion-ordered Map is    *)
(* then the order of the ids (the clock is assumed not to step back).      *)
(***************************************************************************)
EXTENDS Integers

CONSTANTS
    ClaimTTL,       \* CLAIMED_OUTBOUND_PROMPT_TTL_MS, in ticks
    AuthTTL,        \* OUTBOUND_AUTHORIZATION_TTL_MS, in ticks
    RoundTTL        \* the longest perRoundTimeoutMs of a loop, in ticks

ASSUME TTLAssumption ==
    ClaimTTL \in Nat /\ AuthTTL \in Nat /\ RoundTTL \in Nat

\* The absent claimToken.
NoToken == 0

\* "absent" is the status of an id the Map has no entry for.
OutboundPromptStatus ==
    {"absent", "queued", "claimed", "waiting_manual_send", "submitted",
     "responding", "response_ready", "returned", "expired", "failed",
     "cancelled"}

\* Statuses in which the authorization can still lapse or be withdrawn.
PreSubmission == {"queued", "claimed", "waiting_manual_send"}

\* isTerminalOutbound; `completed' is accepted there but no code sets it.
TerminalOutbound == {"returned", "expired", "failed", "cancelled"}

OutboundPrompt ==
    [status   : OutboundPromptStatus,
     age      : 0..(AuthTTL + 1),     \* since createdAt
     claimAge : 0..(ClaimTTL + 1),    \* since claimedAt
     subAge   : 0..(RoundTTL + 1),    \* since submittedAt
     token    : Nat]                  \* claimToken

AbsentPrompt ==
    [status |-> "absent", age |-> 0, claimAge |-> 0, subAge |-> 0,
     token |-> NoToken]

-----------------------------------------------------------------------------
(* Time passing for one prompt.  An age is advanced only while the code    *)
(* can still compare the timestamp it stands for.                          *)

Older(n, ttl) == IF n > ttl THEN n ELSE n + 1

Age(p) ==
    [p EXCEPT
       !.age      = IF p.status \in PreSubmission THEN Older(@, AuthTTL) ELSE @,
       !.claimAge = IF p.status = "claimed" THEN Older(@, ClaimTTL) ELSE @,
       !.subAge   = IF p.status \in {"submitted", "responding",
                                     "response_ready", "returned"}
                      THEN Older(@, RoundTTL) ELSE @]

AuthorizationLapsed(p) == p.age > AuthTTL
LeaseLapsed(p) == p.claimAge > ClaimTTL

-----------------------------------------------------------------------------
(* The store methods on one prompt.                                        *)

createOutboundPrompt == [AbsentPrompt EXCEPT !.status = "queued"]

\* A prompt that ended: the timestamps and the token the code leaves on it are
\* never compared again (acknowledge looks at the status first).
Ended(status) == [AbsentPrompt EXCEPT !.status = status]

\* Faulty variant: a prompt whose submission was never confirmed is queued
\* again, with a new authorization, instead of expired.
recoverStale_requeues(p) ==
    CASE p.status = "waiting_manual_send" /\ AuthorizationLapsed(p) ->
           [AbsentPrompt EXCEPT !.status = "queued"]
      [] p.status \in PreSubmission \ {"waiting_manual_send"}
           /\ AuthorizationLapsed(p) -> Ended("expired")
      [] p.status = "claimed" /\ ~AuthorizationLapsed(p) /\ LeaseLapsed(p) ->
           Ended("failed")
      [] OTHER -> p

\* Faulty variant: a prompt already filled is not expired any more.
recoverStale_skipsWaiting(p) ==
    CASE p.status \in {"queued", "claimed"} /\ AuthorizationLapsed(p) -> Ended("expired")
      [] p.status = "claimed" /\ ~AuthorizationLapsed(p) /\ LeaseLapsed(p) ->
           Ended("failed")
      [] OTHER -> p

\* One iteration of recoverStaleClaims: a lapsed authorization wins over a
\* lapsed claim lease, and neither puts the prompt back in the queue.
recoverStale(p) ==
    CASE p.status \in PreSubmission /\ AuthorizationLapsed(p) ->
           Ended("expired")
      [] p.status = "claimed" /\ ~AuthorizationLapsed(p) /\ LeaseLapsed(p) ->
           Ended("failed")
      [] OTHER -> p

claim(p, token) ==
    [p EXCEPT !.status = "claimed", !.claimAge = 0, !.token = token]

\* Neither the lease nor the authorization is looked at here: a claim that
\* lapsed is only noticed by the next claimNext.
canAcknowledge(p, token) ==
    p.status = "claimed" /\ p.token # NoToken /\ p.token = token

\* Faulty variant: the prompt is called delivered, a status the types know and
\* no handler goes on from.
acknowledge_delivered(p, ok) ==
    IF ok THEN [AbsentPrompt EXCEPT !.status = "delivered", !.age = p.age]
          ELSE Ended("failed")

acknowledge(p, ok) ==
    IF ok THEN [AbsentPrompt EXCEPT !.status = "waiting_manual_send", !.age = p.age]
          ELSE Ended("failed")

\* markSubmitted: an expired authorization changes the prompt and yet answers
\* undefined, so canMarkSubmitted is the answer and markSubmitted the effect.
canMarkSubmitted(p) ==
    p.status = "waiting_manual_send" /\ ~AuthorizationLapsed(p)

markSubmitted(p) ==
    IF p.status # "waiting_manual_send" THEN p
    ELSE IF AuthorizationLapsed(p) THEN Ended("expired")
    ELSE [AbsentPrompt EXCEPT !.status = "submitted"]

\* transition(): the status each later stage starts from and leads to.
StageFrom == [responding |-> "submitted", response_ready |-> "responding",
              returned |-> "response_ready"]

\* Faulty variant: any known prompt can be marked failed.
canMarkFailed_anyStatus(p) == p.status # "absent"

canMarkFailed(p) == p.status \notin TerminalOutbound \cup {"absent"}

markFailed(p) == Ended("failed")

canCancel(p) == p.status \in PreSubmission

cancel(p) == Ended("cancelled")

-----------------------------------------------------------------------------
(* The store methods on the map of prompts.                                *)

recoverStaleClaims(ps) == [i \in DOMAIN ps |-> recoverStale(ps[i])]

\* The prompts claimNext chooses from, after it has recovered stale claims.
Claimable(ps) == {i \in DOMAIN ps : recoverStaleClaims(ps)[i].status = "queued"}

NextClaim(ps) == CHOOSE i \in Claimable(ps) : \A j \in Claimable(ps) : i <= j

claimNext(ps, token) ==
    IF Claimable(ps) = {}
      THEN recoverStaleClaims(ps)
      ELSE [recoverStaleClaims(ps) EXCEPT ![NextClaim(ps)] = claim(@, token)]
=============================================================================
