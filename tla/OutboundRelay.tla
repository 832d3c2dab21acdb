--------------------------- MODULE OutboundRelay ---------------------------
(***************************************************************************)
(* The Web relay: operators queue outbound prompts on the local server;    *)
(* a poller in every ChatGPT page (extension/content/outbound-poller.ts)   *)
(* claims one, fills and submits it, reports every stage, and returns the  *)
(* reply, which the server routes to the inbound queue.                    *)
(*                                                                         *)
(* A poller tick is a chain of awaits.  Each HTTP call is one of: answered,*)
(* served but the answer is lost (10 s abort, service worker stopped), not *)
(* served at all, or served LATE, after the page gave up and moved on.     *)
(* A server handler is one atomic step, because it does not await after    *)
(* reading the body.  A request answered 500 because the snapshot could    *)
(* not be written is a lost one here, or one whose answer is lost if the   *)
(* snapshot was in place already: the restart that must follow finds the   *)
(* state before or after it (see SnapshotStore).                           *)
(***************************************************************************)
EXTENDS OutboundPromptStore, Sequences, FiniteSets

CONSTANTS
    MaxPrompts,     \* bound: prompts created in one behaviour
    MaxLate,        \* bound: abandoned requests still under way
    Sessions,       \* relay session ids
    SessionOf,      \* the session each prompt is created for
    Tabs,           \* ChatGPT pages with the extension
    ChatTabs,       \* bound: those the operator chats on by hand, too
    HasEndpoint,    \* the prompts created while inboundRelayEndpointId was set
    ActiveTTL       \* ACTIVE_RELAY_SESSION_TTL_MS, in ticks

PromptIds == 1..MaxPrompts

ASSUME RelayAssumption ==
    /\ MaxPrompts \in Nat
    /\ MaxLate \in Nat
    /\ ActiveTTL \in Nat
    /\ ChatTabs \subseteq Tabs
    /\ HasEndpoint \subseteq PromptIds
    /\ SessionOf \in [PromptIds -> Sessions]

VARIABLES
    prompts,    \* outboundPromptStore.prompts
    contexts,   \* relayContextStore.contexts: session -> last delivered prompt
    inbound,    \* inboundMessageStore.messages, each as the prompt it answers
    pending,    \* the sessions with a text that became a pending prompt
    disk,       \* the last snapshot persist() wrote
    created,    \* prompts created so far (ids are never reused)
    tokens,     \* claim tokens issued so far (randomUUID: never reused)
    tabs,       \* the poller of each page
    pages,      \* what ChatGPT shows on each page
    late,       \* requests abandoned by their page and not served yet
    sends       \* how often each prompt was really submitted to ChatGPT

serverVars == <<prompts, contexts, inbound, pending, disk>>
vars == <<prompts, contexts, inbound, pending, disk, created, tokens,
          tabs, pages, late, sends>>

NoId == 0

(* Where a poller tick stands.  The pcs of CallPcs are HTTP calls under    *)
(* way: "next" is GET /outbound/next, "ackOk" and "ackFail" POST           *)
(* /outbound/ack, "extract" POST /extract-return, the others the stage     *)
(* POST /outbound/stage is asked for.                                      *)
StageCalls == {"submitted", "responding", "response_ready", "returned", "failed"}
CallPcs == {"next", "ackOk", "ackFail", "extract"} \cup StageCalls
TabPcs == CallPcs \cup {"idle", "fill", "submit", "wait"}

Tab == [pc : TabPcs, id : PromptIds \cup {NoId}, token : Nat,
        active : PromptIds \cup {NoId},      \* activeRelaySession
        activeAge : 0..(ActiveTTL + 1)]

(* What ChatGPT does on a page.  "due": the poller's prompt was sent, its   *)
(* reply has not started.  "streaming": a reply is being written, to that  *)
(* prompt or to one the operator sent by hand.  Which conversation a quiet *)
(* page shows, and what its last message answers, is not told apart: the   *)
(* server takes any text that a page or the panel returns.                 *)
PageStates == {"quiet", "due", "streaming"}

Request == [op : CallPcs, id : PromptIds \cup {NoId}, token : Nat]

Snapshot == [prompts : [PromptIds -> OutboundPrompt],
             contexts : [Sessions -> PromptIds \cup {NoId}],
             inbound : Seq(PromptIds),
             pending : SUBSET Sessions]

TypeOK ==
    /\ prompts \in [PromptIds -> OutboundPrompt]
    /\ contexts \in [Sessions -> PromptIds \cup {NoId}]
    /\ inbound \in Seq(PromptIds)
    /\ pending \subseteq Sessions
    /\ disk \in Snapshot
    /\ created \in 0..MaxPrompts
    /\ tokens \in Nat
    /\ tabs \in [Tabs -> Tab]
    /\ pages \in [Tabs -> PageStates]
    /\ late \subseteq Request
    /\ sends \in [PromptIds -> Nat]

-----------------------------------------------------------------------------

EmptySnapshot ==
    [prompts |-> [i \in PromptIds |-> AbsentPrompt],
     contexts |-> [s \in Sessions |-> NoId],
     inbound |-> << >>,
     pending |-> {}]

IdleTab == [pc |-> "idle", id |-> NoId, token |-> NoToken, active |-> NoId,
            activeAge |-> 0]

Init ==
    /\ prompts = EmptySnapshot.prompts
    /\ contexts = EmptySnapshot.contexts
    /\ inbound = << >>
    /\ pending = {}
    /\ disk = EmptySnapshot
    /\ created = 0
    /\ tokens = 0
    /\ tabs = [t \in Tabs |-> IdleTab]
    /\ pages = [t \in Tabs |-> "quiet"]
    /\ late = {}
    /\ sends = [i \in PromptIds |-> 0]

\* persist(): the whole runtime state goes to the snapshot.
Persist == disk' = [prompts |-> prompts', contexts |-> contexts',
                    inbound |-> inbound', pending |-> pending']

-----------------------------------------------------------------------------
(* The server's handlers.  `ok' is whether the answer is a 2xx the poller  *)
(* goes on from.                                                           *)

\* POST /bridge/outbound
OutboundCreate ==
    /\ created < MaxPrompts
    /\ created' = created + 1
    /\ prompts' = [prompts EXCEPT ![created + 1] = createOutboundPrompt]
    /\ UNCHANGED <<contexts, inbound, pending>>
    /\ Persist
    /\ UNCHANGED <<tokens, tabs, pages, late, sends>>

\* Faulty variant: the cancellation is not persisted.
OutboundCancel_unsaved(i) ==
    /\ canCancel(prompts[i])
    /\ prompts' = [prompts EXCEPT ![i] = cancel(@)]
    /\ UNCHANGED <<contexts, inbound, pending, disk>>
    /\ UNCHANGED <<created, tokens, tabs, pages, late, sends>>

\* POST /bridge/outbound/cancel
OutboundCancel(i) ==
    /\ canCancel(prompts[i])
    /\ prompts' = [prompts EXCEPT ![i] = cancel(@)]
    /\ UNCHANGED <<contexts, inbound, pending>>
    /\ Persist
    /\ UNCHANGED <<created, tokens, tabs, pages, late, sends>>

\* GET /bridge/outbound/next
OutboundNext(r, ok) ==
    /\ r.op = "next"
    /\ ok = (Claimable(prompts) # {})
    /\ prompts' = claimNext(prompts, tokens + 1)
    /\ tokens' = IF ok THEN tokens + 1 ELSE tokens
    /\ UNCHANGED <<contexts, inbound, pending>>
    /\ Persist

\* POST /bridge/outbound/ack.  Only a delivered prompt with an endpoint becomes
\* the session's relay context, and it replaces the one delivered before.
OutboundAck(r, ok) ==
    /\ r.op \in {"ackOk", "ackFail"}
    /\ ok = canAcknowledge(prompts[r.id], r.token)
    /\ IF ok
         THEN /\ prompts' = [prompts EXCEPT ![r.id] = acknowledge(@, r.op = "ackOk")]
              /\ contexts' = IF r.op = "ackOk" /\ r.id \in HasEndpoint
                               THEN [contexts EXCEPT ![SessionOf[r.id]] = r.id]
                               ELSE contexts
              /\ UNCHANGED <<inbound, pending>>
              /\ Persist
         ELSE UNCHANGED serverVars
    /\ UNCHANGED tokens

\* POST /bridge/outbound/stage.  The 409 branch returns before persist(), also
\* when markSubmitted has just expired the prompt in memory.
OutboundStage(r, ok) ==
    /\ r.op \in StageCalls
    /\ LET p == prompts[r.id] IN
         /\ ok = CASE r.op = "submitted" -> canMarkSubmitted(p)
                   [] r.op = "failed"    -> canMarkFailed(p)
                   [] OTHER              -> p.status = StageFrom[r.op]
         /\ prompts' =
              [prompts EXCEPT ![r.id] =
                 IF r.op = "submitted" THEN markSubmitted(p)
                 ELSE IF ~ok THEN p
                 ELSE IF r.op = "failed" THEN markFailed(p)
                 ELSE [p EXCEPT !.status = r.op]]
    /\ UNCHANGED <<contexts, inbound, pending>>
    /\ IF ok THEN Persist ELSE UNCHANGED disk
    /\ UNCHANGED tokens

\* Faulty variant: an earlier message of the operation is not looked up.
Returned_never(id) == {}

\* createIdempotent: the first message of the same outbound operation, if any.
Returned(id) == {m \in DOMAIN inbound : inbound[m] = id}

\* POST /bridge/extract-return from a page that holds an active session.  The
\* text becomes a pending prompt when the session has no relay context, or one
\* whose endpoint this server does not let receive inbound: any, here, because a
\* restart may come with other endpoints.
ExtractReturn(r, ok) ==
    /\ r.op = "extract"
    /\ LET context == contexts[SessionOf[r.id]] IN
         \/ /\ ok = TRUE                   \* no-relay-context, endpoint-cannot-...
            /\ pending' = pending \cup {SessionOf[r.id]}
            /\ UNCHANGED <<prompts, contexts, inbound>>
            /\ Persist
         \/ /\ context \notin {NoId, r.id} \* operationId mismatch
            /\ ok = FALSE
            /\ UNCHANGED serverVars
         \/ /\ context = r.id
            /\ Returned(r.id) = {}
            /\ ok = TRUE
            /\ inbound' = Append(inbound, r.id)
            /\ UNCHANGED <<prompts, contexts, pending>>
            /\ Persist
         \/ /\ context = r.id
            /\ Returned(r.id) # {}
            /\ ok \in BOOLEAN              \* a replay if the content is the same
            /\ UNCHANGED serverVars
    /\ UNCHANGED tokens

Serve(r, ok) ==
    \/ OutboundNext(r, ok)
    \/ OutboundAck(r, ok)
    \/ OutboundStage(r, ok)
    \/ ExtractReturn(r, ok)

\* Any other handler that ends in persist(): it saves the expiry that a 409 left
\* in memory only.
OtherPersists ==
    /\ UNCHANGED <<prompts, contexts, inbound, pending, created, tokens, tabs, pages,
                   late, sends>>
    /\ Persist

\* The process stops and comes back on the last snapshot.
Restart ==
    /\ prompts' = disk.prompts
    /\ contexts' = disk.contexts
    /\ inbound' = disk.inbound
    /\ pending' = disk.pending
    /\ UNCHANGED <<disk, created, tokens, tabs, pages, late, sends>>

-----------------------------------------------------------------------------
(* The poller tick.                                                        *)

ActiveFresh(tab) == tab.active # NoId /\ tab.activeAge <= ActiveTTL

StartTick(t) ==
    /\ tabs[t].pc = "idle"
    /\ ~ActiveFresh(tabs[t])
    /\ pages[t] # "streaming"
    /\ tabs' = [tabs EXCEPT ![t] = [IdleTab EXCEPT !.pc = "next"]]
    /\ UNCHANGED <<prompts, contexts, inbound, pending, disk, created, tokens,
                   pages, late, sends>>

\* fillComposerText
Fill(t) ==
    /\ tabs[t].pc = "fill"
    /\ \E pc \in {"ackOk", "ackFail"} : tabs' = [tabs EXCEPT ![t].pc = pc]
    /\ UNCHANGED <<prompts, contexts, inbound, pending, disk, created, tokens,
                   pages, late, sends>>

\* submitAuthorizedPrompt clicks the send control, which ChatGPT offers only
\* when no reply is due, and then looks for evidence of the submission; the
\* evidence may be missing although the click went through.
Submit(t) ==
    /\ tabs[t].pc = "submit"
    /\ \/ /\ pages[t] = "quiet"
          /\ pages' = [pages EXCEPT ![t] = "due"]
          /\ sends' = [sends EXCEPT ![tabs[t].id] = @ + 1]
          /\ \E pc \in {"submitted", "failed"} : tabs' = [tabs EXCEPT ![t].pc = pc]
       \/ /\ tabs' = [tabs EXCEPT ![t].pc = "failed"]
          /\ UNCHANGED <<pages, sends>>
    /\ UNCHANGED <<prompts, contexts, inbound, pending, disk, created, tokens, late>>

\* waitForStableAssistantResponse takes the last assistant message of the page,
\* whatever it answers, once it is stable and nothing streams, or gives up: there
\* may be none, and it waits a minute only.
WaitReply(t) ==
    /\ tabs[t].pc = "wait"
    /\ \/ /\ pages[t] # "streaming"
          /\ tabs' = [tabs EXCEPT ![t].pc = "response_ready"]
       \/ tabs' = [tabs EXCEPT ![t].pc = "failed"]
    /\ UNCHANGED <<prompts, contexts, inbound, pending, disk, created, tokens,
                   pages, late, sends>>

\* Faulty variant: the tick submits although the acknowledgement was refused.
After_unacknowledged(tab, ok) ==
    CASE tab.pc = "next" /\ ok ->
           [tab EXCEPT !.pc = "fill", !.id = NextClaim(prompts), !.token = tokens + 1]
      [] tab.pc = "ackOk" ->
           [tab EXCEPT !.pc = "submit", !.active = tab.id, !.activeAge = 0]
      [] tab.pc = "submitted" /\ ok -> [tab EXCEPT !.pc = "responding"]
      [] tab.pc = "responding" /\ ok -> [tab EXCEPT !.pc = "wait"]
      [] tab.pc = "response_ready" /\ ok -> [tab EXCEPT !.pc = "extract"]
      [] tab.pc = "extract" /\ ok -> [tab EXCEPT !.pc = "returned"]
      [] OTHER -> IdleTab

\* Faulty variant: the tick reports `returned' without returning the reply.
After_skipsExtract(tab, ok) ==
    CASE tab.pc = "next" /\ ok ->
           [tab EXCEPT !.pc = "fill", !.id = NextClaim(prompts), !.token = tokens + 1]
      [] tab.pc = "ackOk" /\ ok ->
           [tab EXCEPT !.pc = "submit", !.active = tab.id, !.activeAge = 0]
      [] tab.pc = "submitted" /\ ok -> [tab EXCEPT !.pc = "responding"]
      [] tab.pc = "responding" /\ ok -> [tab EXCEPT !.pc = "wait"]
      [] tab.pc = "response_ready" /\ ok -> [tab EXCEPT !.pc = "returned"]
      [] OTHER -> IdleTab

\* How the tick continues after a call; a lost answer is {ok: false}.  Only
\* the full round ends the active session, a failure leaves it to its TTL.
After(tab, ok) ==
    CASE tab.pc = "next" /\ ok ->
           [tab EXCEPT !.pc = "fill", !.id = NextClaim(prompts), !.token = tokens + 1]
      [] tab.pc = "ackOk" /\ ok ->
           [tab EXCEPT !.pc = "submit", !.active = tab.id, !.activeAge = 0]
      [] tab.pc = "submitted" /\ ok -> [tab EXCEPT !.pc = "responding"]
      [] tab.pc = "responding" /\ ok -> [tab EXCEPT !.pc = "wait"]
      [] tab.pc = "response_ready" /\ ok -> [tab EXCEPT !.pc = "extract"]
      [] tab.pc = "extract" /\ ok -> [tab EXCEPT !.pc = "returned"]
      [] tab.pc = "returned" /\ ok -> IdleTab
      [] tab.pc \in (StageCalls \ {"failed"}) \cup {"extract"} /\ ~ok ->
           [tab EXCEPT !.pc = "failed"]
      [] OTHER ->    \* nothing to claim, no ack, or the failure was reported
           [IdleTab EXCEPT !.active = tab.active, !.activeAge = tab.activeAge]

RequestOf(tab) ==
    [op |-> tab.pc, id |-> tab.id, token |-> tab.token]

Answered(t) ==
    /\ tabs[t].pc \in CallPcs
    /\ \E ok \in BOOLEAN :
         /\ Serve(RequestOf(tabs[t]), ok)
         /\ tabs' = [tabs EXCEPT ![t] = After(@, ok)]
    /\ UNCHANGED <<created, pages, late, sends>>

AnswerLost(t) ==
    /\ tabs[t].pc \in CallPcs
    /\ \E ok \in BOOLEAN : Serve(RequestOf(tabs[t]), ok)
    /\ tabs' = [tabs EXCEPT ![t] = After(@, FALSE)]
    /\ UNCHANGED <<created, pages, late, sends>>

\* The page gives up first; the request may still reach the server.
Abandon(r) ==
    \/ UNCHANGED late
    \/ Cardinality(late) < MaxLate /\ late' = late \cup {r}

RequestLost(t) ==
    /\ tabs[t].pc \in CallPcs
    /\ tabs' = [tabs EXCEPT ![t] = After(@, FALSE)]
    /\ Abandon(RequestOf(tabs[t]))
    /\ UNCHANGED <<serverVars, created, tokens, pages, sends>>

ServeLate(r) ==
    /\ r \in late
    /\ late' = late \ {r}
    /\ \E ok \in BOOLEAN : Serve(r, ok)
    /\ UNCHANGED <<created, tabs, pages, sends>>

\* submitExtractReturn: its call, too, may lose its answer or be served late.
SubmitReturn(t, r) ==
    \/ /\ \E ok \in BOOLEAN :
            /\ ExtractReturn(r, ok)
            /\ \/ UNCHANGED tabs
               \/ ok /\ tabs' = [tabs EXCEPT ![t].active = NoId, ![t].activeAge = 0]
       /\ UNCHANGED late
    \/ /\ Abandon(r)
       /\ UNCHANGED <<serverVars, tokens, tabs>>

\* The panel's return button, with an active session: the operator returns what
\* was previewed before, a selection or a marked block, of whatever conversation.
PanelReturn(t) ==
    /\ ActiveFresh(tabs[t])
    /\ SubmitReturn(t, [op |-> "extract", id |-> tabs[t].active, token |-> NoToken])
    /\ UNCHANGED <<created, pages, sends>>

\* The page is reloaded or closed: the tick and the active session vanish.  (A
\* request under way then is a RequestLost followed by a Reload.)
Reload(t) ==
    /\ tabs[t] # IdleTab
    /\ tabs' = [tabs EXCEPT ![t] = IdleTab]
    /\ UNCHANGED <<serverVars, created, tokens, pages, late, sends>>

-----------------------------------------------------------------------------
(* ChatGPT: a due reply starts streaming some time after the submission    *)
(* and ends as a new assistant message, or without one.  The operator uses *)
(* the same page for chats the relay knows nothing of.                     *)

\* The operator sends a prompt by hand, and its reply starts.
ManualSend(t) ==
    /\ t \in ChatTabs
    /\ pages[t] = "quiet"
    /\ pages' = [pages EXCEPT ![t] = "streaming"]
    /\ UNCHANGED <<serverVars, created, tokens, tabs, late, sends>>

\* The page shows another conversation, without being reloaded.
OpenChat(t) ==
    /\ t \in ChatTabs
    /\ pages[t] # "quiet"
    /\ pages' = [pages EXCEPT ![t] = "quiet"]
    /\ UNCHANGED <<serverVars, created, tokens, tabs, late, sends>>

ReplyStarts(t) ==
    /\ pages[t] = "due"
    /\ pages' = [pages EXCEPT ![t] = "streaming"]
    /\ UNCHANGED <<serverVars, created, tokens, tabs, late, sends>>

ReplyEnds(t) ==
    /\ pages[t] = "streaming"
    /\ pages' = [pages EXCEPT ![t] = "quiet"]
    /\ UNCHANGED <<serverVars, created, tokens, tabs, late, sends>>

Tick ==
    /\ prompts' = [i \in PromptIds |-> Age(prompts[i])]
    /\ disk' = [disk EXCEPT !.prompts = [i \in PromptIds |-> Age(@[i])]]
    /\ tabs' = [t \in Tabs |->
                  [tabs[t] EXCEPT !.activeAge =
                     IF tabs[t].active = NoId THEN @ ELSE Older(@, ActiveTTL)]]
    /\ UNCHANGED <<contexts, inbound, pending, created, tokens, pages, late, sends>>

-----------------------------------------------------------------------------

Call(t) == Answered(t) \/ AnswerLost(t) \/ RequestLost(t)

PollerStep(t) == StartTick(t) \/ Fill(t) \/ Submit(t) \/ WaitReply(t) \/ Call(t)

Chat(t) == ReplyStarts(t) \/ ReplyEnds(t) \/ ManualSend(t) \/ OpenChat(t)

PageStep(t) == PanelReturn(t) \/ Reload(t) \/ Chat(t)

Next ==
    \/ OutboundCreate
    \/ \E i \in PromptIds : OutboundCancel(i)
    \/ \E t \in Tabs : PollerStep(t) \/ PageStep(t)
    \/ \E r \in late : ServeLate(r)
    \/ OtherPersists
    \/ Restart
    \/ Tick

Spec == Init /\ [][Next]_vars

(* Fairness.  Time passes; the page's event loop finishes every await of a *)
(* tick (each has a timeout) and setInterval starts the next one; ChatGPT  *)
(* ends a reply.  A loopback request is not lost for ever: a page that     *)
(* keeps polling is answered some time.  An operator who chats on the page *)
(* pauses now and then, so that some timer finds nothing streaming: the SF *)
(* on StartTick.  Nothing else is assumed about operators, and nothing     *)
(* about reloads, restarts, or requests served late.                       *)
Fairness ==
    /\ WF_vars(Tick)
    /\ \A t \in Tabs :
         /\ WF_vars(PollerStep(t))
         /\ SF_vars(StartTick(t))
         /\ WF_vars(ReplyStarts(t) \/ ReplyEnds(t))
         /\ SF_vars(tabs[t].pc = "next" /\ Answered(t))

LiveSpec == Spec /\ Fairness

-----------------------------------------------------------------------------
(* Safety.                                                                 *)

\* No prompt is ever submitted to ChatGPT twice, whatever calls are lost, late
\* or answered twice, whichever pages compete and however often the server
\* restarts: only the page that claimed a prompt submits it, and nothing - a
\* lapsed lease, a failure, a lapsed authorization, the state a restart comes
\* back on - puts a prompt that was acknowledged back in the queue.
SubmittedAtMostOnce == \A i \in PromptIds : sends[i] <= 1

\* A prompt the server calls `returned' has its reply in the inbound queue or
\* in a fallback pending prompt: the poller asks for that stage last.
ReturnedHasReply ==
    \A i \in PromptIds :
        prompts[i].status = "returned" =>
            Returned(i) # {} \/ SessionOf[i] \in pending

\* Extract-return makes at most one inbound message per outbound prompt, with
\* the panel's button and the poller racing and requests repeated or late.
OneInboundPerOutbound ==
    \A m, n \in DOMAIN inbound : inbound[m] = inbound[n] => m = n

\* What a crash can lose: nothing that an answered request did.  Memory and
\* snapshot differ only in an expiry noticed by markSubmitted, whose 409 is
\* not followed by persist(); the prompt on disk is past its authorization, so
\* the restart does not give it back its life.
OnlyExpiryUnsaved ==
    /\ disk.contexts = contexts
    /\ disk.inbound = inbound
    /\ disk.pending = pending
    /\ \A i \in PromptIds :
         \/ disk.prompts[i] = prompts[i]
         \/ /\ prompts[i].status = "expired"
            /\ disk.prompts[i].status = "waiting_manual_send"
            /\ AuthorizationLapsed(disk.prompts[i])

\* A prompt that ended stays ended: no stage call, acknowledgement or claim,
\* in time or late, moves a returned, expired, failed or cancelled prompt.
\* A restart may only undo an unsaved expiry (see above).
EndedStaysEnded ==
    [][\A i \in PromptIds : prompts[i].status \in TerminalOutbound =>
         \/ prompts'[i].status = prompts[i].status
         \/ /\ prompts[i].status = "expired"
            /\ prompts'[i].status = "waiting_manual_send"
            /\ AuthorizationLapsed(prompts'[i])]_vars

(***************************************************************************)
(* The contract.  A prompt is posted when ChatGPT really got it; it is     *)
(* held while a page is about to click; otherwise the server's status      *)
(* says where it is, and one that was acknowledged by a page that did not  *)
(* learn of it, or left, is over.                                          *)
(***************************************************************************)

\* Is a page about to submit prompt i?
Held(i) == \E t \in Tabs : tabs[t].pc = "submit" /\ tabs[t].id = i

StageOf(i) ==
    CASE sends[i] > 0 -> "posted"
      [] sends[i] = 0 /\ Held(i) -> "held"
      [] sends[i] = 0 /\ ~Held(i) /\ prompts[i].status = "absent" -> "none"
      [] sends[i] = 0 /\ ~Held(i) /\ prompts[i].status \in {"queued", "claimed"} -> "open"
      [] OTHER -> "over"

Contract == INSTANCE RelayContract WITH
    Prompts <- PromptIds,
    stage <- [i \in PromptIds |-> StageOf(i)],
    posts <- sends,
    answers <- [i \in PromptIds |-> Returned(i)],
    unrouted <- pending

\* The relay keeps RelayContract: what a page submits was handed to it while it
\* was open, so that nothing cancelled, expired or failed before its
\* acknowledgement reaches ChatGPT, in time or late; and a prompt is answered
\* only after it was handed over, once and for good.  (With which text is left
\* open: see ReturnsOwnReply.)
ImplementsRelayContract == Contract!Spec

-----------------------------------------------------------------------------
(* Liveness.                                                               *)

\* While pages keep polling, no prompt stays queued, claimed or waiting for
\* its submission: it goes on, is cancelled, or its lease or authorization
\* lapses and the next poll sees it.
NothingStuckBeforeSubmission ==
    \A i \in PromptIds :
        prompts[i].status \in PreSubmission ~> prompts[i].status \notin PreSubmission

-----------------------------------------------------------------------------
(* What ADR-0023 says of the extension and the code does not do.           *)

\* ADR-0023: the extension may submit only while the claimed outbound is
\* current and unexpired and no cancel exists.
SubmitOnlyWhileAuthorized ==
    [][\A i \in PromptIds : sends'[i] > sends[i] =>
         /\ prompts[i].status = "waiting_manual_send"
         /\ ~AuthorizationLapsed(prompts[i])]_vars

\* ADR-0023: only the response associated with the submitted outbound is
\* returned for it, a stale one is rejected.  The message the wait ends with is
\* the one the tick returns; while the reply to its own prompt has not even
\* started, that message is an earlier one.
ReturnsOwnReply ==
    [][\A t \in Tabs : tabs[t].pc = "wait" /\ tabs'[t].pc = "response_ready" =>
         pages[t] # "due"]_vars
=============================================================================
