------------------------------ MODULE Handoff ------------------------------
(***************************************************************************)
(* What becomes of a reply on the server: routed to the executor that      *)
(* asked for it, or turned into a pending prompt an operator confirms and  *)
(* the agent gets; and the reviews of CLI output, run as local commands,   *)
(* whose next prompt is a pending prompt too (routes/bridge-api.ts).       *)
(*                                                                         *)
(* Every handler is one step but the review dispatch, which awaits its     *)
(* command; the steps of the process come in between, and so may any other *)
(* handler or a restart.  The agents there are (MockAgentAdapter,          *)
(* CodexManagedPtyAdapter) answer without leaving the event loop's turn:   *)
(* a prompt is sent in one step.  A restart loses reviews, processes and   *)
(* nothing else of this module.  Which endpoints the server lets receive   *)
(* replies is not fixed: it may come back with others (EndpointRegistry is *)
(* used by ControlPlane).                                                  *)
(*                                                                         *)
(* One relay session.  A record's id is its creation number, counted over  *)
(* messages, prompts and reviews.  The planId of extract-return and of the *)
(* dispatch, which may pause a goal's plan, is in GoalPlan.                *)
(***************************************************************************)
EXTENDS Integers, FiniteSets

CONSTANTS
    MaxRecords,     \* bound: messages, prompts and reviews of one behaviour
    InboundAgents,  \* endpoints replies can be routed to
    Operations,     \* outbound prompts that get delivered
    AskedBy         \* the endpoint each carries: the one the server was
                    \* configured with when it was created

ASSUME HandoffAssumption ==
    /\ MaxRecords \in Nat
    /\ AskedBy \in [Operations -> InboundAgents]
    /\ "none" \notin Operations
    /\ "nobody" \notin InboundAgents

Ids == 1..MaxRecords

INSTANCE InboundQueue WITH InboundIds <- Ids, Executors <- InboundAgents
INSTANCE PendingPrompts
INSTANCE AgentReviews
INSTANCE ContainedProcess

VARIABLES
    context,    \* relayContextStore: the operation delivered last
    messages,   \* inboundMessageStore.messages
    prompts,    \* pendingPromptStore.prompts
    reviews,    \* pendingReviewStore.reviews
    processes,  \* the command of each review under way
    disk,       \* the last snapshot persist() wrote
    created,    \* records created so far
    cli         \* the review CLI: the call it waits for, and its review

\* What was observed from outside.
VARIABLES
    acked,      \* operations delivered
    extracted,  \* messages made by extract-return
    handed,     \* how often each message was handed to an executor
    confirmed,  \* prompts and reviews an operator's confirm was accepted for
    delivered,  \* how often the agent took each prompt
    runs,       \* commands started for each review
    trusted     \* reviews whose command exited with 0 before its timeout
                \* fired, none of its output cut so far

storeVars == <<context, messages, prompts, reviews, created>>
observed == <<acked, extracted, handed, confirmed, delivered, runs, trusted>>
vars == <<context, messages, prompts, reviews, processes, disk,
          created, cli, acked, extracted, handed, confirmed, delivered, runs, trusted>>

NoId == 0

\* review.ts: three calls in a row, each with a timeout.
CliPcs == {"idle", "confirm", "dispatch", "waiting", "succeeded"}

Context == Operations \cup {NoOperation}

endpointOf(operation) == AskedBy[operation]

Snapshot == [context : Context, messages : [Ids -> InboundMessage],
             prompts : [Ids -> PendingPrompt]]

HandoffTypeOK ==
    /\ context \in Context
    /\ messages \in [Ids -> InboundMessage]
    /\ prompts \in [Ids -> PendingPrompt]
    /\ reviews \in [Ids -> Review]
    /\ processes \in [Ids -> Process]
    /\ disk \in Snapshot
    /\ created \in 0..MaxRecords
    /\ cli \in [pc : CliPcs, id : Ids \cup {NoId}]
    /\ acked \subseteq Operations
    /\ extracted \subseteq Ids
    /\ handed \in [Ids -> Nat]
    /\ confirmed \subseteq Ids
    /\ delivered \in [Ids -> Nat]
    /\ runs \in [Ids -> Nat]
    /\ trusted \subseteq Ids

-----------------------------------------------------------------------------

EmptySnapshot ==
    [context |-> NoOperation,
     messages |-> [i \in Ids |-> AbsentMessage],
     prompts |-> [i \in Ids |-> AbsentPending]]

Init ==
    /\ context = EmptySnapshot.context
    /\ messages = EmptySnapshot.messages
    /\ prompts = EmptySnapshot.prompts
    /\ reviews = [i \in Ids |-> AbsentReview]
    /\ processes = [i \in Ids |-> NoProcess]
    /\ disk = EmptySnapshot
    /\ created = 0
    /\ cli = [pc |-> "idle", id |-> NoId]
    /\ acked = {}
    /\ extracted = {}
    /\ handed = [i \in Ids |-> 0]
    /\ confirmed = {}
    /\ delivered = [i \in Ids |-> 0]
    /\ runs = [i \in Ids |-> 0]
    /\ trusted = {}

\* persist(): reviews, processes and endpoints are not part of the snapshot.
Persist == disk' = [context |-> context', messages |-> messages', prompts |-> prompts']

NextId == created + 1

CanCreate == created < MaxRecords

-----------------------------------------------------------------------------
(* Replies.                                                                *)

\* POST /bridge/outbound/ack of a delivered prompt (see OutboundRelay): its
\* operation and endpoint become the session's relay context.
Deliver(o) ==
    /\ o \notin acked
    /\ acked' = acked \cup {o}
    /\ context' = o
    /\ UNCHANGED <<messages, prompts>>
    /\ Persist
    /\ UNCHANGED <<reviews, processes, created, cli,
                   extracted, handed, confirmed, delivered, runs, trusted>>

AddMessage(e, source) ==
    /\ CanCreate
    /\ created' = NextId
    /\ messages' = [messages EXCEPT ![NextId] = createMessage(e, source)]

AddPrompt(transport) ==
    /\ CanCreate
    /\ created' = NextId
    /\ prompts' = [prompts EXCEPT ![NextId] = createPendingPrompt(transport)]

\* Faulty variant: the operation is not compared with the session's context.
ExtractReturnRouted_anyOperation(o) ==
    /\ context # NoOperation
    /\ Answering(messages, o) = {}
    /\ AddMessage(endpointOf(context), o)
    /\ extracted' = extracted \cup {NextId}
    /\ UNCHANGED <<context, prompts>>
    /\ Persist
    /\ UNCHANGED <<reviews, processes, cli,
                   acked, handed, confirmed, delivered, runs, trusted>>

\* POST /bridge/extract-return with a context: only the operation delivered
\* last is accepted, and createIdempotent makes one message of it.  A repeated
\* call is a replay, or a conflict if it differs; neither changes anything.
ExtractReturnRouted(o) ==
    /\ context = o
    /\ Answering(messages, o) = {}
    /\ AddMessage(endpointOf(context), o)
    /\ extracted' = extracted \cup {NextId}
    /\ UNCHANGED <<context, prompts>>
    /\ Persist
    /\ UNCHANGED <<reviews, processes, cli,
                   acked, handed, confirmed, delivered, runs, trusted>>

\* POST /bridge/extract-return without a relay context, or with one whose
\* endpoint the server does not let receive inbound: a pending prompt.
ExtractReturnFallback ==
    /\ AddPrompt("managed-pty")
    /\ UNCHANGED <<context, messages>>
    /\ Persist
    /\ UNCHANGED <<reviews, processes, cli, observed>>

\* POST /bridge/inbound: addressed by the context, but the operation the
\* message claims to answer is the client's word, and create() does not look
\* for an earlier message.
InboundCreate(source) ==
    /\ context # NoOperation
    /\ AddMessage(endpointOf(context), source)
    /\ UNCHANGED <<context, prompts>>
    /\ Persist
    /\ UNCHANGED <<reviews, processes, cli, observed>>

\* GET /bridge/inbound/next
InboundNext(e) ==
    /\ QueuedFor(messages, e) # {}
    /\ messages' = claimNextMessage(messages, e)
    /\ handed' = [handed EXCEPT ![OldestFor(messages, e)] = @ + 1]
    /\ UNCHANGED <<context, prompts>>
    /\ Persist
    /\ UNCHANGED <<reviews, processes, created, cli,
                   acked, extracted, confirmed, delivered, runs, trusted>>

\* POST /bridge/inbound/ack
InboundAck(e, m) ==
    /\ resolves(messages, m, e)
    /\ \E ok \in BOOLEAN : messages' = ackMessage(messages, m, ok)
    /\ UNCHANGED <<context, prompts>>
    /\ Persist
    /\ UNCHANGED <<reviews, processes, created, cli, observed>>

\* POST /bridge/inbound/cancel
InboundCancel(e, m) ==
    /\ resolves(messages, m, e)
    /\ messages' = cancelMessage(messages, m)
    /\ UNCHANGED <<context, prompts>>
    /\ Persist
    /\ UNCHANGED <<reviews, processes, created, cli, observed>>

-----------------------------------------------------------------------------
(* Pending prompts.                                                        *)

\* POST /bridge/pending-prompts
PromptCreate ==
    /\ AddPrompt("clipboard")
    /\ UNCHANGED <<context, messages>>
    /\ Persist
    /\ UNCHANGED <<reviews, processes, cli, observed>>

\* POST /bridge/pending-prompts/confirm
PromptConfirm(i) ==
    /\ canConfirmPrompt(prompts[i])
    /\ prompts' = [prompts EXCEPT ![i] = confirmPrompt(@)]
    /\ confirmed' = confirmed \cup {i}
    /\ UNCHANGED <<context, messages>>
    /\ Persist
    /\ UNCHANGED <<reviews, processes, created, cli,
                   acked, extracted, handed, delivered, runs, trusted>>

\* POST /bridge/pending-prompts/send.  A failed delivery is answered 409 before
\* persist().
PromptSend(i) ==
    /\ canSendPrompt(prompts[i])
    /\ \E ok \in BOOLEAN :
         /\ prompts' = [prompts EXCEPT ![i] = sentPrompt(@, ok)]
         /\ delivered' = IF ok THEN [delivered EXCEPT ![i] = @ + 1] ELSE delivered
         /\ UNCHANGED <<context, messages>>
         /\ IF ok THEN Persist ELSE UNCHANGED disk
    /\ UNCHANGED <<reviews, processes, created, cli,
                   acked, extracted, handed, confirmed, runs, trusted>>

\* Faulty variant: the cancellation is not persisted.
PromptCancel_unsaved(i) ==
    /\ canCancelPrompt(prompts[i])
    /\ prompts' = [prompts EXCEPT ![i] = cancelPrompt(@)]
    /\ UNCHANGED <<context, messages, reviews, processes, disk, created, cli,
                   observed>>

\* POST /bridge/pending-prompts/cancel
PromptCancel(i) ==
    /\ canCancelPrompt(prompts[i])
    /\ prompts' = [prompts EXCEPT ![i] = cancelPrompt(@)]
    /\ UNCHANGED <<context, messages>>
    /\ Persist
    /\ UNCHANGED <<reviews, processes, created, cli, observed>>

-----------------------------------------------------------------------------
(* Reviews, called by an operator's client or by the review CLI.           *)

AddReview ==
    /\ CanCreate
    /\ created' = NextId
    /\ reviews' = [reviews EXCEPT ![NextId] = createReview]

reviewsSaved == UNCHANGED <<context, messages, prompts>> /\ Persist

\* POST /bridge/reviews
ReviewCreate ==
    /\ AddReview
    /\ reviewsSaved
    /\ UNCHANGED <<processes, cli, observed>>

ConfirmReview(i) ==
    /\ canConfirmReview(reviews[i])
    /\ reviews' = [reviews EXCEPT ![i] = confirmReview(@)]
    /\ confirmed' = confirmed \cup {i}

\* POST /bridge/reviews/confirm
ReviewConfirm(i) ==
    /\ ConfirmReview(i)
    /\ reviewsSaved
    /\ UNCHANGED <<processes, created, cli,
                   acked, extracted, handed, delivered, runs, trusted>>

\* POST /bridge/reviews/cancel
ReviewCancel(i) ==
    /\ canCancelReview(reviews[i])
    /\ reviews' = [reviews EXCEPT ![i] = cancelReview(@)]
    /\ reviewsSaved
    /\ UNCHANGED <<processes, created, cli, observed>>

DispatchReview(i) ==
    /\ canSendReview(reviews[i])
    /\ reviews' = [reviews EXCEPT ![i] = sendReview(@)]
    /\ processes' = [processes EXCEPT ![i] = spawn]
    /\ runs' = [runs EXCEPT ![i] = @ + 1]

\* POST /bridge/reviews/dispatch, up to the await: sent, not persisted.
ReviewDispatch(i) ==
    /\ DispatchReview(i)
    /\ UNCHANGED <<context, messages, prompts, disk, created, cli,
                   acked, extracted, handed, confirmed, delivered, trusted>>

\* The result of a review and, if it names one, the draft of a next prompt.
ReturnReview(i, parsed) ==
    /\ reviews' = [reviews EXCEPT ![i] = returnResult(@)]
    /\ IF parsed.next THEN AddPrompt("managed-pty")
                      ELSE UNCHANGED <<prompts, created>>

\* The same handler after the await: the command has closed.
ReviewEnds(i) ==
    /\ started(processes[i])
    /\ closes(processes[i])
    /\ processes' = [processes EXCEPT ![i] = NoProcess]
    /\ \E stdout \in Stdout :
         LET parsed == parseClaudeReviewResult(selectReviewText(stdout)) IN
           IF commandOk(processes[i]) /\ parsed.ok /\ canReturnResult(reviews[i])
             THEN ReturnReview(i, parsed)
             ELSE /\ reviews' = [reviews EXCEPT ![i] = failReview(@)]
                  /\ UNCHANGED <<prompts, created>>
    /\ UNCHANGED <<context, messages>>
    /\ Persist
    /\ UNCHANGED <<cli, observed>>

-----------------------------------------------------------------------------
(* The process of a review.                                                *)

ProcessStep(i, process) ==
    /\ processes' = [processes EXCEPT ![i] = process]
    /\ UNCHANGED <<context, messages, prompts, reviews, disk, created, cli,
                   acked, extracted, handed, confirmed, delivered, runs>>

\* The command starts a helper process, prints, or exits.
Fork(i) ==
    /\ canFork(processes[i])
    /\ \E helper \in Helper \ {"none"} :
         ProcessStep(i, [processes[i] EXCEPT !.helper = helper])
    /\ UNCHANGED trusted

\* A helper may still write when the command has exited.
Overflow(i) ==
    /\ canWrite(processes[i])
    /\ ~processes[i].truncated
    /\ ProcessStep(i, overflow(processes[i]))
    /\ trusted' = trusted \ {i}

ChildExits(i) ==
    /\ processes[i].child = "running"
    /\ \E code \in {"exit0", "exited"} :
         /\ ProcessStep(i, [processes[i] EXCEPT !.child = code])
         /\ trusted' = IF /\ code = "exit0"
                          /\ processes[i].timer = "armed"
                          /\ ~processes[i].truncated
                         THEN trusted \cup {i} ELSE trusted

HelperExits(i) ==
    /\ processes[i].helper # "none"
    /\ ProcessStep(i, [processes[i] EXCEPT !.helper = "none"])
    /\ UNCHANGED trusted

Timeout(i) ==
    /\ started(processes[i])
    /\ processes[i].timer = "armed"
    /\ ProcessStep(i, timeout(processes[i]))
    /\ UNCHANGED trusted

Escalate(i) ==
    /\ processes[i].timer = "termed"
    /\ ProcessStep(i, escalation(processes[i]))
    /\ UNCHANGED trusted

-----------------------------------------------------------------------------
(* The review CLI: create, confirm, dispatch, each served and answered,    *)
(* served after the CLI gave up, or refused.  Its timeout is shorter than  *)
(* the command's: a command may go on when the CLI has given up, and is    *)
(* called again by whoever started it.                                     *)

cliObserved == <<acked, extracted, handed, delivered, trusted>>

CliTo(pc, id) == cli' = [pc |-> pc, id |-> id]

CliCreate ==
    /\ cli.pc \in {"idle", "succeeded"}
    /\ AddReview
    /\ CliTo("confirm", NextId)
    /\ reviewsSaved
    /\ UNCHANGED <<processes, observed>>

CliConfirm ==
    /\ cli.pc = "confirm"
    /\ ConfirmReview(cli.id)
    /\ CliTo("dispatch", cli.id)
    /\ reviewsSaved
    /\ UNCHANGED <<processes, created, runs, cliObserved>>

CliDispatch ==
    /\ cli.pc = "dispatch"
    /\ DispatchReview(cli.id)
    /\ CliTo("waiting", cli.id)
    /\ UNCHANGED <<context, messages, prompts, disk, created, confirmed,
                   cliObserved>>

\* The dispatch is answered: 200 only if the review returned.
CliAnswered ==
    /\ cli.pc = "waiting"
    /\ reviews[cli.id].status \in {"returned", "failed"}
    /\ IF reviews[cli.id].status = "returned" THEN CliTo("succeeded", cli.id)
                                              ELSE CliTo("idle", NoId)
    /\ UNCHANGED <<storeVars, processes, disk, observed>>

\* A timeout, a refused or a reset call.
CliGivesUp ==
    /\ cli.pc \in {"confirm", "dispatch", "waiting"}
    /\ CliTo("idle", NoId)
    /\ UNCHANGED <<storeVars, processes, disk, observed>>

-----------------------------------------------------------------------------
(* Restarts.                                                               *)

\* Any other handler that ends in persist(): it saves the failure of a delivery
\* that a 409 left in memory only.
OtherPersists ==
    /\ UNCHANGED <<context, messages, prompts, reviews, processes, cli, created, observed>>
    /\ Persist

\* The server stops, and comes back on the last snapshot.  The CLI's call is
\* reset, or its next one names a review that is gone: it gives up.
Restart ==
    /\ context' = disk.context
    /\ messages' = disk.messages
    /\ prompts' = disk.prompts
    /\ reviews' = [i \in Ids |-> AbsentReview]
    /\ processes' = [i \in Ids |-> NoProcess]
    /\ CliTo("idle", NoId)
    /\ UNCHANGED <<disk, created, observed>>

-----------------------------------------------------------------------------

ReplyStep ==
    \/ \E o \in Operations : Deliver(o) \/ ExtractReturnRouted(o)
    \/ ExtractReturnFallback
    \/ \E source \in Operations \cup {NoOperation} : InboundCreate(source)

ExecutorStep(e) ==
    \/ InboundNext(e)
    \/ \E m \in Ids : InboundAck(e, m) \/ InboundCancel(e, m)

PromptStep(i) == PromptConfirm(i) \/ PromptSend(i) \/ PromptCancel(i)

ReviewStep(i) == ReviewConfirm(i) \/ ReviewCancel(i) \/ ReviewDispatch(i) \/ ReviewEnds(i)

CommandStep(i) ==
    Fork(i) \/ Overflow(i) \/ ChildExits(i) \/ HelperExits(i) \/ Timeout(i) \/ Escalate(i)

CliStep ==
    CliCreate \/ CliConfirm \/ CliDispatch \/ CliAnswered \/ CliGivesUp

Next ==
    \/ ReplyStep
    \/ \E e \in InboundAgents : ExecutorStep(e)
    \/ PromptCreate
    \/ \E i \in Ids : PromptStep(i) \/ ReviewStep(i) \/ CommandStep(i)
    \/ ReviewCreate
    \/ CliStep
    \/ OtherPersists
    \/ Restart

\* The timers of a run fire, and its handler goes on once the command closed.
\* Nothing is assumed of the command itself, of operators or of restarts.
Fairness == \A i \in Ids : WF_vars(Timeout(i) \/ Escalate(i) \/ ReviewEnds(i))

Spec == Init /\ [][Next]_vars /\ Fairness

-----------------------------------------------------------------------------
(* Safety.                                                                 *)

\* A reply is handed to an executor at most once, whoever polls and however
\* often the server restarts: the claim is on disk before it is answered.
HandedOutOnce == \A m \in Ids : handed[m] <= 1

\* Extract-return addresses a reply to the endpoint its operation was queued
\* for, although the session's context may have moved on to another, and makes
\* no message of an operation that has one.
RepliesReachTheirAsker ==
    \A m \in extracted :
        /\ messages[m].endpoint = AskedBy[messages[m].source]
        /\ \A n \in Answering(messages, messages[m].source) : n >= m

\* What a restart can change among messages and prompts: nothing but a failed
\* delivery, whose 409 is not followed by persist(); the prompt comes back as
\* the confirmed one it was.
OnlyFailureUnsaved ==
    /\ disk.context = context
    /\ disk.messages = messages
    /\ \A i \in Ids :
         \/ disk.prompts[i] = prompts[i]
         \/ /\ prompts[i].status = "failed"
            /\ disk.prompts[i] = [prompts[i] EXCEPT !.status = "confirmed"]

\* What the gate below means for prompts: the agent takes one at most once, and
\* only one an operator confirmed, not the draft a review or a fallback left,
\* and not again after a restart that forgot a failed delivery.
DeliveredOnceConfirmed ==
    \A i \in Ids : delivered[i] <= 1 /\ (delivered[i] > 0 => i \in confirmed)

\* And for reviews: the command is started at most once, after a confirm, with
\* operators, the CLI and its retries dispatching as they like.
ReviewRunsOnceConfirmed ==
    \A i \in Ids : runs[i] <= 1 /\ (runs[i] > 0 => i \in confirmed)

\* A review returned, and a CLI that reports success, stand for a command that
\* exited with 0 before its timeout fired and whose output was never cut: also
\* when a helper holds the pipes and goes on writing after that exit, when exit,
\* timeout and SIGTERM race, and when the handler goes on much later.
ReturnedIsTrusted ==
    /\ \A i \in Ids : reviews[i].status = "returned" => i \in trusted
    /\ cli.pc = "succeeded" => cli.id \in trusted

-----------------------------------------------------------------------------
(* Prompts and reviews implement the operator's gate, for single use.      *)

\* An id that was given out, and is nobody's any more, was a review's.
Forgotten(i) ==
    /\ i <= created
    /\ messages[i].status = "absent"
    /\ prompts[i].status = "absent"
    /\ reviews[i].status = "absent"

\* Where a record is: a prompt whose delivery failed is as confirmed as before.
GateOf(i) ==
    IF prompts[i].status = "draft" \/ reviews[i].status = "previewed"
      THEN "proposed"
    ELSE IF prompts[i].status \in {"confirmed", "failed"} \/ reviews[i].status = "confirmed"
      THEN "confirmed"
    ELSE IF \/ prompts[i].status \in {"sent", "cancelled"}
            \/ reviews[i].status \in {"sent", "returned", "cancelled", "failed"}
            \/ Forgotten(i)
      THEN "closed"
      ELSE "none"

Operator == INSTANCE OperatorGate WITH
    Items <- Ids,
    gate <- [i \in Ids |-> GateOf(i)],
    accepted <- confirmed,
    times <- [i \in Ids |-> delivered[i] + runs[i]]

\* A prompt reaches the agent, and a review's command starts, while an
\* operator's confirm stands and at most once in the life of its id: not again
\* after a restart that forgot a failed delivery or the review, and never once
\* it was sent, cancelled, failed or forgotten.
ImplementsSingleUseGate == Operator!SingleUseSpec

-----------------------------------------------------------------------------
(* Liveness.                                                               *)

\* A review that was sent, and that nobody can cancel any more, is settled,
\* whatever its command and the command's helpers do - unless a helper leaves
\* the process group with the output pipes in hand.
SentReviewSettles ==
    \A i \in Ids : reviews[i].status = "sent" ~>
        (reviews[i].status # "sent" \/ processes[i].helper = "escaped")
=============================================================================
