---------------------------- MODULE WebRelayLoop ----------------------------
(***************************************************************************)
(* Automated relay loops (storage/web-relay-loop-store.ts) on top of the   *)
(* outbound prompt store: a loop sends one prompt per round; a client that *)
(* observed the round's reply calls advance, which ends the loop or creates*)
(* the next round's prompt.                                                *)
(*                                                                         *)
(* Here the pages are any clients that may make the outbound calls in any  *)
(* order the store accepts (OutboundRelay has the page itself), so calls   *)
(* repeated, late or out of order are included.  Each handler is one step: *)
(* it does not await after reading its body.                               *)
(***************************************************************************)
EXTENDS OutboundPromptStore, FiniteSets

CONSTANTS
    Loops,          \* loop ids
    MaxPrompts,     \* bound: prompts created in one behaviour
    Replies,        \* contents (hashes) a reply can have
    MaxRounds,      \* maxRounds of each loop
    NoProgressLimit,\* noProgressLimit of each loop
    DeadlineTTL     \* totalDeadlineMs of each loop, in ticks

NoLoop == "no loop"

ASSUME LoopAssumption ==
    /\ NoLoop \notin Loops
    /\ MaxPrompts \in Nat
    /\ MaxRounds \in 1..10              \* create() accepts no other
    /\ NoProgressLimit \in Nat
    /\ DeadlineTTL \in Nat

PromptIds == 1..MaxPrompts
NoPrompt == 0

\* A progressHash a client may pass instead of the reply's own hash.
SameProgress == "same progress"
NoProgressHash == "none"
ProgressHashes == Replies \cup {SameProgress}

VARIABLES
    prompts,    \* outboundPromptStore.prompts
    loopOf,     \* their loopId
    loops,      \* webRelayLoopStore.loops
    disk,       \* the last snapshot persist() wrote
    created     \* prompts created so far

vars == <<prompts, loopOf, loops, disk, created>>

LoopStatus == {"absent", "running", "paused", "cancelled", "done", "failed"}
Terminal == {"cancelled", "done", "failed"}
UncertainOutbound == {"submitted", "responding"}

Loop == [status       : LoopStatus,
         round        : 0..MaxRounds,
         current      : PromptIds \cup {NoPrompt},   \* currentOutboundPromptId
         age          : 0..(DeadlineTTL + 1),        \* since createdAt
         seen         : SUBSET Replies,              \* seenContentHashes
         lastProgress : ProgressHashes \cup {NoProgressHash},
         noProgress   : 0..(MaxRounds + 1)]          \* noProgressCount

AbsentLoop == [status |-> "absent", round |-> 0, current |-> NoPrompt, age |-> 0,
               seen |-> {}, lastProgress |-> NoProgressHash, noProgress |-> 0]

Snapshot == [prompts : [PromptIds -> OutboundPrompt],
             loopOf  : [PromptIds -> Loops \cup {NoLoop}],
             loops   : [Loops -> Loop]]

TypeOK ==
    /\ prompts \in [PromptIds -> OutboundPrompt]
    /\ loopOf \in [PromptIds -> Loops \cup {NoLoop}]
    /\ loops \in [Loops -> Loop]
    /\ disk \in Snapshot
    /\ created \in 0..MaxPrompts

-----------------------------------------------------------------------------

Init ==
    /\ prompts = [i \in PromptIds |-> AbsentPrompt]
    /\ loopOf = [i \in PromptIds |-> NoLoop]
    /\ loops = [l \in Loops |-> AbsentLoop]
    /\ disk = [prompts |-> prompts, loopOf |-> loopOf, loops |-> loops]
    /\ created = 0

Persist == disk' = [prompts |-> prompts', loopOf |-> loopOf', loops |-> loops']

\* createOutboundPrompt for loop l.
NewPrompt(l) ==
    /\ created < MaxPrompts
    /\ created' = created + 1
    /\ prompts' = [prompts EXCEPT ![created + 1] = createOutboundPrompt]
    /\ loopOf' = [loopOf EXCEPT ![created + 1] = l]

PromptsOf(l) == {i \in PromptIds : loopOf[i] = l}

\* The id of a new loop is a fresh one.
IsFresh(l) == loops[l].status = "absent" /\ PromptsOf(l) = {}

\* POST /bridge/loops with a limit that is no finite number (JSON's 1e999):
\* create() has queued the prompt when assertWebRelayLoop throws, and the 500
\* leaves it in memory, a prompt of a loop there never is.
CreateThrows(l) ==
    /\ IsFresh(l)
    /\ NewPrompt(l)
    /\ UNCHANGED <<loops, disk>>

\* POST /bridge/loops
Create(l) ==
    /\ IsFresh(l)
    /\ NewPrompt(l)
    /\ loops' = [loops EXCEPT ![l] = [AbsentLoop EXCEPT !.status = "running",
                                                        !.round = 1,
                                                        !.current = created + 1]]
    /\ Persist

\* POST /bridge/loops/pause and /resume: the current prompt is left as it is.
Pause(l) ==
    /\ loops[l].status = "running"
    /\ loops' = [loops EXCEPT ![l].status = "paused"]
    /\ UNCHANGED <<prompts, loopOf, created>>
    /\ Persist

Resume(l) ==
    /\ loops[l].status = "paused"
    /\ loops' = [loops EXCEPT ![l].status = "running"]
    /\ UNCHANGED <<prompts, loopOf, created>>
    /\ Persist

\* Faulty variant: a loop whose prompt cannot be cancelled is called cancelling,
\* a status the types know and no handler goes on from.
Cancel_cancelling(l) ==
    /\ loops[l].status \in {"running", "paused"}
    /\ loops' = [loops EXCEPT ![l].status =
                    IF canCancel(prompts[loops[l].current]) THEN "cancelled" ELSE "cancelling"]
    /\ prompts' = [i \in PromptIds |->
                     IF i = loops[l].current /\ canCancel(prompts[i])
                       THEN cancel(prompts[i]) ELSE prompts[i]]
    /\ UNCHANGED <<loopOf, created>>
    /\ Persist

\* POST /bridge/loops/cancel: a prompt already submitted is not cancelled.
Cancel(l) ==
    /\ loops[l].status \in {"running", "paused"}
    /\ loops' = [loops EXCEPT ![l].status = "cancelled"]
    /\ prompts' = [i \in PromptIds |->
                     IF i = loops[l].current /\ canCancel(prompts[i])
                       THEN cancel(prompts[i]) ELSE prompts[i]]
    /\ UNCHANGED <<loopOf, created>>
    /\ Persist

-----------------------------------------------------------------------------
(* POST /bridge/loops/advance                                              *)

\* The reply is recorded before the limits are looked at.
Observed(loop, reply, progress) ==
    [loop EXCEPT
       !.seen = @ \cup {reply},
       !.lastProgress = progress,
       !.noProgress = IF loop.lastProgress = progress THEN @ + 1 ELSE 0]

\* Faulty variant: a reply seen before is taken as the next round's.
RoundFails_repeats(loop, reply) ==
    \/ loop.age >= DeadlineTTL
    \/ prompts[loop.current].status \in UncertainOutbound
    \/ /\ prompts[loop.current].status = "returned"
       /\ prompts[loop.current].subAge > RoundTTL

\* Why advance ends the loop before it records the reply; a loop whose prompt
\* is not returned for another reason is left running (409).
RoundFails(loop, reply) ==
    \/ loop.age >= DeadlineTTL
    \/ prompts[loop.current].status \in UncertainOutbound
    \/ /\ prompts[loop.current].status = "returned"
       /\ \/ prompts[loop.current].subAge > RoundTTL
          \/ reply \in loop.seen

\* Faulty variant: the failure is not persisted.
AdvanceFails_unsaved(l) ==
    /\ loops[l].status = "running"
    /\ \E reply \in Replies : RoundFails(loops[l], reply)
    /\ loops' = [loops EXCEPT ![l].status = "failed"]
    /\ UNCHANGED <<prompts, loopOf, created, disk>>

AdvanceFails(l) ==
    /\ loops[l].status = "running"
    /\ \E reply \in Replies : RoundFails(loops[l], reply)
    /\ loops' = [loops EXCEPT ![l].status = "failed"]
    /\ UNCHANGED <<prompts, loopOf, created>>
    /\ Persist

AdvanceEnds(l, reply, progress, next) ==
    LET observed == Observed(loops[l], reply, progress)
        status == IF observed.noProgress >= NoProgressLimit THEN "failed" ELSE "done"
    IN  /\ \/ observed.noProgress >= NoProgressLimit
           \/ observed.round >= MaxRounds
           \/ ~next
        /\ loops' = [loops EXCEPT ![l] = [observed EXCEPT !.status = status]]
        /\ UNCHANGED <<prompts, loopOf, created>>

NextRound(l, reply, progress) ==
    LET observed == Observed(loops[l], reply, progress)
    IN  /\ observed.noProgress < NoProgressLimit
        /\ observed.round < MaxRounds
        /\ NewPrompt(l)
        /\ loops' = [loops EXCEPT ![l] = [observed EXCEPT !.round = @ + 1,
                                                          !.current = created + 1]]

\* Faulty variant: a round whose reply is only ready may be advanced.
Advance_early(l) ==
    /\ loops[l].status = "running"
    /\ prompts[loops[l].current].status \in {"response_ready", "returned"}
    /\ \E reply \in Replies :
         /\ ~RoundFails(loops[l], reply)
         /\ \E progress \in {reply, SameProgress} :
              \/ \E next \in BOOLEAN : AdvanceEnds(l, reply, progress, next)
              \/ NextRound(l, reply, progress)
    /\ Persist

\* Faulty variant: the round after one that failed may be asked for, too.
Advance_afterFailure(l) ==
    /\ loops[l].status = "running"
    /\ prompts[loops[l].current].status \in {"returned", "failed"}
    /\ \E reply \in Replies :
         /\ ~RoundFails(loops[l], reply)
         /\ \E progress \in {reply, SameProgress} :
              \/ \E next \in BOOLEAN : AdvanceEnds(l, reply, progress, next)
              \/ NextRound(l, reply, progress)
    /\ Persist

\* `next': did the client pass a nextPrompt?
Advance(l) ==
    /\ loops[l].status = "running"
    /\ prompts[loops[l].current].status = "returned"
    /\ \E reply \in Replies :
         /\ ~RoundFails(loops[l], reply)
         /\ \E progress \in {reply, SameProgress} :
              \/ \E next \in BOOLEAN : AdvanceEnds(l, reply, progress, next)
              \/ NextRound(l, reply, progress)
    /\ Persist

-----------------------------------------------------------------------------
(* The outbound handlers, for any client.  Tokens are OutboundRelay's       *)
(* matter: here whoever acknowledges has the token of the last claim.      *)

Token == 1

OutboundNext ==
    /\ prompts' = claimNext(prompts, Token)
    /\ UNCHANGED <<loopOf, loops, created>>
    /\ Persist

OutboundAck(i) ==
    /\ canAcknowledge(prompts[i], Token)
    /\ \E delivered \in BOOLEAN :
         prompts' = [prompts EXCEPT ![i] = acknowledge(@, delivered)]
    /\ UNCHANGED <<loopOf, loops, created>>
    /\ Persist

\* Stage `submitted'; when the authorization has lapsed, the 409 is answered
\* without persist() and the expiry stays in memory.
OutboundSubmitted(i) ==
    /\ prompts[i].status = "waiting_manual_send"
    /\ prompts' = [prompts EXCEPT ![i] = markSubmitted(@)]
    /\ UNCHANGED <<loopOf, loops, created>>
    /\ IF canMarkSubmitted(prompts[i]) THEN Persist ELSE UNCHANGED disk

OutboundStage(i) ==
    /\ \/ \E stage \in DOMAIN StageFrom :
            /\ prompts[i].status = StageFrom[stage]
            /\ prompts' = [prompts EXCEPT ![i].status = stage]
       \/ /\ canMarkFailed(prompts[i])
          /\ prompts' = [prompts EXCEPT ![i] = markFailed(@)]
    /\ UNCHANGED <<loopOf, loops, created>>
    /\ Persist

OutboundCancel(i) ==
    /\ canCancel(prompts[i])
    /\ prompts' = [prompts EXCEPT ![i] = cancel(@)]
    /\ UNCHANGED <<loopOf, loops, created>>
    /\ Persist

-----------------------------------------------------------------------------
(* Restart: restore, then recoverAfterRestart (not persisted by itself).   *)

\* Faulty variant: only a submission that may have happened stops its loop.
Interrupted_onlyUncertain(loop, ps) ==
    /\ loop.status \notin Terminal \cup {"absent"}
    /\ ps[loop.current].status \in UncertainOutbound

\* A loop whose round was under way, or whose prompt was cancelled.
Interrupted(loop, ps) ==
    /\ loop.status \notin Terminal \cup {"absent"}
    /\ ps[loop.current].status \notin TerminalOutbound \ {"cancelled"}

Restart ==
    LET ps == disk.prompts
        stopped == {l \in Loops : Interrupted(disk.loops[l], ps)}
        current == {disk.loops[l].current : l \in stopped}
    IN  /\ loops' = [l \in Loops |-> IF l \in stopped
                                       THEN [disk.loops[l] EXCEPT !.status = "failed"]
                                       ELSE disk.loops[l]]
        /\ prompts' = [i \in PromptIds |-> IF i \in current /\ canMarkFailed(ps[i])
                                             THEN markFailed(ps[i]) ELSE ps[i]]
        /\ loopOf' = disk.loopOf
        /\ UNCHANGED <<disk, created>>

\* Any other handler that ends in persist(): it saves what a recovery, an
\* expiry that was answered 409, or a create that threw left in memory only.
OtherPersists ==
    /\ UNCHANGED <<prompts, loopOf, loops, created>>
    /\ Persist

LoopAge(loop) ==
    [loop EXCEPT !.age = IF loop.status \in {"running", "paused"}
                           THEN Older(@, DeadlineTTL) ELSE @]

Tick ==
    /\ prompts' = [i \in PromptIds |-> Age(prompts[i])]
    /\ loops' = [l \in Loops |-> LoopAge(loops[l])]
    /\ disk' = [disk EXCEPT !.prompts = [i \in PromptIds |-> Age(@[i])],
                            !.loops = [l \in Loops |-> LoopAge(@[l])]]
    /\ UNCHANGED <<loopOf, created>>

-----------------------------------------------------------------------------

LoopCall(l) ==
    \/ Create(l) \/ CreateThrows(l)
    \/ Pause(l) \/ Resume(l) \/ Cancel(l)
    \/ AdvanceFails(l) \/ Advance(l)

OutboundCall(i) ==
    OutboundAck(i) \/ OutboundSubmitted(i) \/ OutboundStage(i) \/ OutboundCancel(i)

Next ==
    \/ \E l \in Loops : LoopCall(l)
    \/ OutboundNext
    \/ \E i \in PromptIds : OutboundCall(i)
    \/ OtherPersists
    \/ Restart
    \/ Tick

Spec == Init /\ [][Next]_vars

-----------------------------------------------------------------------------
(* Safety.                                                                 *)

Live(i) == prompts[i].status \notin TerminalOutbound \cup {"absent"}

\* One active round per loop (ADR-0023): never two prompts of a loop that can
\* still be claimed, submitted or answered, whatever the clients' call order
\* and across restarts.
OneActiveRound == \A l \in Loops : Cardinality({i \in PromptsOf(l) : Live(i)}) <= 1

\* The loop's books agree with the prompts it really sent: as many prompts as
\* rounds, never more than maxRounds, and a different reply behind each round
\* after the first, so that a repeated advance cannot buy a round.  A create that
\* threw leaves one prompt of a loop that does not exist, and no second one.
RoundsAccounted ==
    \A l \in Loops :
        /\ IF loops[l].status = "absent"
             THEN Cardinality(PromptsOf(l)) <= 1
             ELSE Cardinality(PromptsOf(l)) = loops[l].round
        /\ loops[l].round <= MaxRounds
        /\ loops[l].round <= Cardinality(loops[l].seen) + 1

\* A loop that ended stays as it ended; a restart in particular brings none
\* back, although the failures it causes itself are not persisted.
EndedLoopStaysEnded ==
    [][\A l \in Loops : loops[l].status \in Terminal =>
         /\ loops'[l].status = loops[l].status
         /\ loops'[l].round = loops[l].round]_vars

\* Restart recovery never replays an uncertain round (ADR-0023): a loop still
\* alive after a restart has no prompt a page could yet claim, submit or
\* report on.
RestartReplaysNothing ==
    [][Restart => \A l \in Loops :
         loops'[l].status \in {"running", "paused"} =>
             prompts'[loops'[l].current].status \in {"returned", "expired", "failed"}]_vars

(***************************************************************************)
(* The contract.  A loop asks while its current prompt is under way.       *)
(***************************************************************************)

PhaseOf(l) ==
    CASE loops[l].status = "absent" -> "none"
      [] loops[l].status \in Terminal -> "over"
      [] loops[l].status \in {"running", "paused"} ->
           IF prompts[loops[l].current].status = "returned" THEN "answered"
           ELSE IF prompts[loops[l].current].status \in TerminalOutbound THEN "unanswered"
           ELSE "asking"

Turns == INSTANCE TurnTaking WITH
    Talks <- Loops, Heard <- Replies, MaxTurns <- MaxRounds,
    phase <- [l \in Loops |-> PhaseOf(l)],
    turns <- [l \in Loops |-> loops[l].round],
    heard <- [l \in Loops |-> loops[l].seen],
    paused <- {l \in Loops : loops[l].status = "paused"}

\* Loops keep TurnTaking: whatever is repeated, late, paused, timed out or
\* brought back by a restart, a loop goes on only from an answer it has not
\* heard before, and otherwise can only end.
ImplementsTurnTaking == Turns!Spec

-----------------------------------------------------------------------------
(* What ADR-0023 says of loops and the code does not do.                   *)

\* ADR-0023: pause and cancel win before any next claim.
PauseWinsBeforeClaim ==
    [][\A i \in PromptIds :
         /\ loopOf[i] # NoLoop
         /\ prompts[i].status = "queued"
         /\ prompts'[i].status = "claimed"
         => loops[loopOf[i]].status \notin {"paused", "cancelled"}]_vars
=============================================================================
