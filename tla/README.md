# A verification development of cli-bridge

cli-bridge is a local server and a browser extension that carry prompts from
command-line agents to a ChatGPT web page and the replies back, under an
operator's control, and that plan, confirm, run and check the work of local
agents. This directory holds TLA+ models of its protocols, the TLC runs that
check them on small instances, and TLAPS proofs of their safety properties for
every instance.

    tlc -workers 2 -config RelayPages.cfg MCOutboundRelay     # a run
    tlapm OutboundRelay_proofs.tla                            # a proof module

`PROJECT.json` lists the components, the runs, the mutants that show that each
property can fail, the source lines behind every definition, the findings, the
hazards and the theorems. In this file *server* is `src/apps/local-server/src`,
*extension* is `src/apps/extension/src`.

## 1. Inventory

### Components, state and operations

| component (source) | state | operations | modelled in |
|---|---|---|---|
| outbound prompt store (server `storage/outbound-prompt-store.ts`) | prompts: status, claim token, timestamps | create, claimNext (with recoverStaleClaims), acknowledge, stages, markFailed, cancel | OutboundPromptStore |
| relay context store (`storage/relay-context-store.ts`) | per session: the prompt delivered last and its endpoint | recordDelivered | OutboundRelay, Handoff |
| poller and active session (extension `content/outbound-poller.ts`, `content/active-relay-session.ts`) | tick in flight, active session with TTL | one tick: claim, fill, ack, submit, report, wait, return | OutboundRelay |
| ChatGPT DOM adapter, extraction (`content/chatgpt-dom.ts`, `content/extraction.ts`) | none; reads the page | fill, submit, detect streaming, wait for a stable reply | OutboundRelay |
| panel (`ui/bridge-panel.tsx`), bridge client, background proxy | previewed reply; calls under way | return; fetch with a 10 s timeout | OutboundRelay |
| Web relay loops (`storage/web-relay-loop-store.ts`) | loops: round, current prompt, seen replies | create, pause, resume, cancel, advance, recoverAfterRestart | WebRelayLoop |
| snapshot store, persist, restore (`storage/json-snapshot-store.ts`, `routes/bridge-api.ts`) | snapshot, backup, temporary files, persistence fault | write, read, restore | SnapshotStore, DurableState |
| inbound message store (`storage/inbound-message-store.ts`) | replies waiting for an executor | create, createIdempotent, claimNext, ack, cancel | InboundQueue, Handoff |
| pending prompts (`storage/pending-prompt-store.ts`) | prompts an operator confirms before an agent gets them | create, confirm, send, cancel | PendingPrompts, Handoff |
| reviews (`storage/pending-review-store.ts`, `review/`, `adapters/command-review-adapter.ts`) | review requests; the CLI's call | create, confirm, dispatch (awaits its command), cancel | AgentReviews, Handoff |
| process containment (`process/contained-process.ts`, `adapters/command-runner.ts`) | a command, its group, its timers | start, time out, escalate, cap output, end | ContainedProcess |
| goals, plans and their steps (`storage/goal-store.ts`) | goal and plan status, current plan, steps | create, attach, approve, derive, pause, cancel, step transitions | GoalPlan, GoalExecution |
| plan generation and orchestrator (`goal/`) | a generation awaiting the planner | generate, advance, approve a gate | GoalPlanParser, GoalExecution |
| automation bindings (`storage/automation-binding-store.ts`) | one binding per plan, its hash, its lock | create, update, lock, derive | GoalPlan |
| execution proposals (`storage/execution-proposal-store.ts`, `execution/execution-dispatcher.ts`) | proposals | create, confirm, edit, pause, resume, cancel, dispatch | ExecutionProposal |
| reasoning artifacts, model providers (`reasoning/`, `model/`) | a request awaiting the provider; evidence | ask, retry, record, pause on refusal | Reasoning |
| teams (`storage/team-store.ts`) | team, slots, artifacts | create, approve, advance, record, cancel | TeamSlots, ControlPlane |
| presets and binding snapshots (`storage/project-team-preset-store.ts`, `storage/goal-binding-snapshot-store.ts`) | preset; versions of the goal's endpoints | put, delete, take at creation, rebind | ControlPlane |
| workspace apply (`storage/workspace-apply-store.ts`, `detectFileConflicts`) | apply requests, isolated directories | create, confirm, discard | WorkspaceApply, ControlPlane |
| endpoint registry (`endpoints/`) | endpoints and whether they are online | register, go offline, who may review | EndpointRegistry |
| verification (`verification/`, `storage/verification-run-store.ts`) | locks, calls under way, records | run the profile, ask GitHub | ProjectChecks |
| projects (`storage/project-store.ts`) | archived, workspace apply enabled | archive, unarchive, patch | ControlPlane |

Not modelled, with the reasons:

* the **WorkBuddy inbox** (`adapters/workbuddy-execution-adapter.ts`): no route can
  give it work. The execution routes (`routes/bridge-api.ts:4004-4009`) and
  `validateExecutionInvocation` (`execution/execution-dispatcher.ts:35-53`) refuse
  its endpoint, so its queue stays empty in the running server; the branch of the
  dispatcher that leads to it is left out of ExecutionProposal for that reason;
* **observability and consoles**: HTML and JSON views of the other stores;
* **packets, redaction, audit log, metrics**: append-only records and text
  transformations that no decision of the protocols reads;
* **pairing, origin guard, server**: stateless admission; every modelled request
  is an admitted one;
* the **legacy bridge loop, sessions and health routes**: display only;
* the **release scripts**: test drivers, clients of the routes.

What is left out of a component listed as *partly* is said in its note in
`PROJECT.json`.

### How they interact

    executor / operator --HTTP--> routes/bridge-api.ts --calls--> stores
                                        |  persist() after each change
                                        v
                                  snapshot store (files)
    ChatGPT page: poller tick --HTTP through the service worker--> the same routes
    loop client: POST /loops/advance --> loop store --creates--> outbound prompt
    extract-return --> inbound message of the executor that asked, or pending prompt
    review CLI --HTTP--> review store --> command --> result, pending prompt
    goal --> plan (generated, derived) --> steps, team --> artifacts --> directories
      |         \--> binding --> proposals --> commands; reasoning --> evidence
      \--> endpoint binding (preset, rebind)        project --> checks

The server is one Node process. A handler reads its body (an await) and is then
one atomic step, unless it awaits something else in the middle:

| handler | awaits | modelled in |
|---|---|---|
| dispatch of a proposal | its command | ExecutionProposal |
| dispatch of a review | its command | Handoff |
| plan generation | the planner command | GoalExecution |
| plan generation by a model | each attempt of the provider | Reasoning |
| verification, GitHub checks | command, git, GitHub | ProjectChecks |
| PUT of the team preset | its body, after it looked at the project | ControlPlane |

Sending a pending prompt awaits its agent too, but the agents there are
(MockAgentAdapter, CodexManagedPtyAdapter) settle within the same turn of the
event loop; only a slower adapter would open a window. The pages run concurrently
with the server and with each other, and each of their ticks is a chain of about
eight awaits. The process, the page and the service worker can stop at any point;
the server comes back on its last snapshot.

### What is hard

* **Relay.** A page acts on what it was told several awaits ago; a call can be
  served without its answer coming back, or served long after the page gave up;
  two pages compete; ChatGPT cannot be asked whether a prompt was submitted.
  Right means: never submitted twice, never answered twice, never stuck.
* **Loops.** Advances are repeated, early and concurrent; a restart meets rounds
  in every state. Right means: one live round, no round without a new reply, no
  replay of an uncertain one.
* **Hand-off.** Replies, prompts and reviews pass to executors, agents and
  commands that poll twice, give up early, outlive their timeout or leave helpers
  behind; the failure of a delivery is not saved. Right means: handed on once, to
  whom it is for, only when confirmed, and a result only from a clean command.
* **Snapshots.** A crash, a power failure or a failing call between any two
  system calls, damaged files, and requests that change memory while nothing
  can be saved. Right means: nothing answered is lost, nothing starts empty.
* **Goals and plans.** Late planner answers, derivations under ids in use, gates,
  repeated advances and restarts that choose another current plan. Right means:
  only approved steps run, each once.
* **Proposals.** Operators and commands race, and plan and binding change under
  a confirmed proposal. Right means: only what was confirmed runs.
* **Teams and files.** Slots are advanced by clients in any order; conflicts are
  looked at once; directories outlive the requests they belong to. Right means:
  the chain is kept, and directories that exist do not overwrite each other.
* **Evidence, endpoints, checks.** Bindings change while a provider is awaited;
  which plan is current decides what is locked; checks queue for a lock that
  exists in memory only. Right means: evidence of the locked binding, endpoints as
  they were approved, one check at a time.

The hazard list in `PROJECT.json` has each of these at its line, with the
properties that cover it or the reason why none does.

## 2. The modules

| module | what it is |
|---|---|
| OutboundPromptStore | the store's methods as operators on one prompt and on the map of prompts; no variables |
| OutboundRelay | server, pages, calls and ChatGPT: EXTENDS OutboundPromptStore |
| WebRelayLoop | loops and their clients: EXTENDS OutboundPromptStore |
| RelayContract | abstract: what an operator who queues a prompt is promised; OutboundRelay implements it |
| TurnTaking | abstract: what an automated conversation promises its operator; WebRelayLoop implements it |
| OperatorGate | abstract: what a human-in-the-loop gate promises; ExecutionProposal implements it, Handoff the single-use form |
| GoalContract | abstract: what an operator who gives a goal and approves plans is promised; ControlPlane implements it |
| DurableState | abstract: what the server expects of its data directory |
| SnapshotStore | the files and the system calls; implements DurableState |
| InboundQueue, PendingPrompts, AgentReviews, ContainedProcess | operators on messages, prompts, reviews, one run of a command |
| Handoff | replies, prompts, reviews, their clients and commands: INSTANCE of those four |
| GoalPlan | a goal's plans and bindings: operators and partial actions |
| ExecutionProposal | proposals and dispatch: EXTENDS GoalPlan |
| GoalPlanParser | what the strict parser and the plan rules admit of a planner's answer |
| GoalExecution | generation, steps, gates: EXTENDS GoalPlan, GoalPlanParser |
| Reasoning | providers and evidence: EXTENDS GoalExecution |
| TeamSlots, WorkspaceApply, EndpointRegistry | operators on a team, on requests and directories, on the registry |
| ProjectChecks | verification and GitHub: EXTENDS ContainedProcess; variables and partial actions |
| ControlPlane | everything that hangs on a goal: EXTENDS Reasoning, TeamSlots, WorkspaceApply, EndpointRegistry, ProjectChecks |
| MCOutboundRelay, MCWebRelayLoop, MCExecutionProposal, MCHandoff, MCControlPlane | instances for TLC |
| OutboundPromptStore_proofs | lemmas about the store's operators |
| SnapshotStore_, OutboundRelay_, WebRelayLoop_, Handoff_, ExecutionProposal_, GoalExecution_, ControlPlane_proofs | theorems and proofs |

Definitions whose name has a suffix after an underscore and whose comment begins
*Faulty variant* model plausible bugs. No specification uses them; each is
substituted for the definition it imitates to see the property of its run fail.

### Conventions

* **Time.** Code compares `Date.now()` with stored timestamps. The models keep the
  age of each timestamp, in ticks, saturating one past its limit; `Tick` ages
  everything, on disk too, since time passes while the server is down. The limits
  (ClaimTTL, AuthTTL, ...) are constants, 0 or 1 ticks in the runs: only whether
  a limit is exceeded matters, and which is exceeded first. The clock is assumed
  not to step back. Where a timer needs no age (a command's timeout and its
  escalation, a client that gives up), it may fire at any time.
* **Ids** count up in creation order, so the code's stable sort by `createdAt` is
  the order of the ids. Claim tokens are fresh numbers for `randomUUID`.
* **Persist** is the code's `persist()`: the snapshot takes the new state. That
  this is justified although a write is many system calls is SnapshotStore's
  result. Branches of the code that return before `persist()` leave `disk` alone
  in the model. The snapshot is one, of all stores together: what such a branch, a
  recovery or a command under way left in memory only is saved by the next handler
  that does reach `persist()`, whatever it is about. `OtherPersists` is that handler,
  in every module whose memory can be ahead of its snapshot.
* **Observed** variables are history: what really happened (submissions,
  commands, confirmations), which the code does not record and the properties
  speak of.
* **Faithful order.** In `claimNext` the recovery of stale claims comes first, in
  `advance` the deadline comes before the prompt's status, and so on; these
  orders are visible in the models as in the code.

### OutboundRelay

`tabs[t].pc` is the await at which a poller tick stands: "next", "ackOk",
"ackFail", "extract" and the stage names are HTTP calls under way, "fill",
"submit" and "wait" are the DOM awaits. `After` is the control flow of `tick`
between the awaits. A call is `Answered`, `AnswerLost` (served, the page sees a
network error), or `RequestLost` (not served), in which case it may join `late`
and be served at any later time (`ServeLate`). The handlers `OutboundNext`,
`OutboundAck`, `OutboundStage` and `ExtractReturn` are used for all of these.
`sends` counts real submissions, which no component of the program knows.
`Restart` brings memory back from `disk`; `Reload` makes a page forget.
`PanelReturn` is the operator's button. Its call and the clearing of the active
session are one step.

What a page returns is any text: the last message of whatever conversation it shows,
a reply previewed before, a selection, a marked block. Texts are therefore not told
apart: an inbound message is the prompt it was filed under, and whether a repeated
extract-return has the content of the first one, which decides between a replay and a
409, is open. `pages` is only what ChatGPT does: quiet, about to reply to the poller's
prompt ("due"), or streaming, to that prompt or to one that the operator sent by hand
(`ManualSend`; `OpenChat` switches conversations), on the pages in `ChatTabs`.
`HasEndpoint` are the prompts created while an inbound endpoint was configured, which
a restart may change; a server may also refuse to let a context's endpoint receive
inbound, so an extract-return may always fall back to a pending prompt.

`RelayContract` has four facts: the stage of a prompt, how often it was posted, the
messages that answer it, and the sessions with a text that had no route. `StageOf` maps
to it: *posted* is what ChatGPT really got, *held* is a page about to click, and
otherwise the server's status decides; a prompt that was acknowledged by a page that
did not learn of it, or that reloaded, is *over*. So the contract says across server
and page what neither knows: nothing that ended before its page was told to go ahead is
posted, and a prompt is answered only after it was handed over, once and for good. What
the answer says it does not promise. That the poller returns the reply to its own prompt
is `ReturnsOwnReply`, which fails (section 5): it looks at the moment the wait ends,
where the reply to the page's own prompt may not even have started.

Left out: stopping the poller and starting another while its tick is under way;
the panel's return without an active session; `autoRelay` false (the panel always
passes true); prompts with an expiry of their own; the server without a data
directory, where a restart is simply empty.

### WebRelayLoop

Pages are replaced by arbitrary clients that make the outbound calls in any
order. OutboundRelay's pages are among these clients (theorem `PagesActAsClients`),
so what is proved of loops and their prompts holds with them. A reply is
a value that `advance` hashes; a client passes the reply's own hash, or one of
its own, as progress. `CreateThrows` is `create()` with a limit that is no finite number,
which the route lets through (JSON's 1e999 parses to Infinity): the prompt is queued
before `assertWebRelayLoop` throws, and the 500 leaves it in memory, without a loop,
until another handler saves it. Clients may claim and answer it like any other.
RoundsAccounted therefore says of a loop that exists that it has as many prompts as
rounds, and of one that does not that there is at most that one prompt. `Restart` is the
restore and `recoverAfterRestart`, whose result stays in memory.

`TurnTaking` has no prompts: a loop is *asking*, *answered* or *unanswered*, and
`PhaseOf` reads that off the loop's current prompt. A page's late report, an expiry
and a recovery are steps of the prompt only, and show as a loop that settles or ends.

### SnapshotStore

`write()` is eight steps. `primary` and `backup` are what the running system sees;
`primaryMay` and `backupMay` are the sets of contents that a power failure may
leave: a rename adds a content (and garbage, if the file was not synced), an fsync
of the directory leaves one. POSIX directory fsync is assumed: `syncDirectory` opens
the directory, syncs and closes it, and an error of any of these calls fails the write.
The data directory itself is assumed to exist durably. `mem` is the number of the request that made the state; `Request`
is a handler that changes state, `RequestDuringFault` one that was past the 503
gate. Older snapshot versions, which are read more tolerantly, are not modelled.

`DurableState` has one cell: memory, the last acknowledged state, and the set of
states the next start can come up with. The refinement maps that set to
`Recoverable`, the outcomes of `read()` over all pairs the disks may hold. Before
the directory is synced, a new state may be seen by a start and be gone after the
next power failure; the set `may` says so. *No empty start after damage* is in
`Damage` and `Acknowledge`.

### Handoff

One relay session. `Deliver` makes an operation the session's context, an
operation being an outbound prompt with the executor the server was configured
with when it was created (`AskedBy`); `ExtractReturnRouted` and
`ExtractReturnFallback` are the two outcomes of extract-return, the latter without a
context and with one whose endpoint cannot receive inbound, `InboundCreate` is
`POST /bridge/inbound`, where the client chooses executor and operation. Messages,
prompts and reviews share one count of ids. `ReviewDispatch` is the handler up to
its await, `ReviewEnds` the rest, once the command's `close` has been emitted; in
between the steps of the process (`Fork`, `Overflow`, `ChildExits`, `HelperExits`,
`Timeout`, `Escalate`) and every other handler may come. `trusted` records from
these steps, and not from what the handler makes of them, which commands exited with 0
before their timeout fired and wrote no more than the cap, then or later. The review CLI is a client of
its own with three calls in a row, each of which it may give up. A restart loses
reviews and processes, which are not in the snapshot, and keeps the prompts that
reviews left.

### GoalPlan, GoalExecution and ExecutionProposal

One goal with its plans. A binding is its content (hash) and its lock. `Derive` is
one handler with the store's order: the plan is replaced before `commitBinding`
may refuse. Attaching or deriving a plan is a *birth*, which stands for the fresh
ids of its steps; a plan id may be born several times. `GenerateStart` is
generation up to the planner command, `GenerateAttach` and `GenerateFails` what
follows. `Advance` is a call of a fresh orchestrator: it runs the first step that
is not done, or blocks it for its gate. `granted`, `gated` and `runs` are observed.

A proposal remembers the binding hash it was made for and whether its step is a
step of the plan, which a derivation that replaces the plan under its id makes
false. `Dispatch` is the handler up to its await, `CommandReturns` and
`CommandFails` the rest; `running` counts the handlers in between, and a restart
forgets them. Steps are not looked at there: no proposal changes one. A proposal names
the endpoint that runs its command; one that runs Codex has to be added by the operator,
as EndpointRegistry has none, and is like any other here.

`OperatorGate` is what proposals, pending prompts and reviews have in common: proposed,
confirmed by an operator, and only then done. `GateOf` in ExecutionProposal reads a
paused or dispatching proposal as confirmed as before; `GateOf` in Handoff reads a
failed prompt so, which a restart takes back to `confirmed`, and a review that a
restart forgot as closed. A proposal may happen again while confirmed (section 5); a
prompt and a review may not, and implement the gate's `SingleUseSpec`.

### ControlPlane

`Saved` is what `persist()` writes, `Restart` what a start makes of it: the last
plan of the snapshot is the current one, requests to apply, evidence, registered
endpoints, locks and calls are gone, directories stay. A discard succeeds although its clean-up may fail, so its
directory may stay, too; and a verification whose `spawn` throws (`VerifyThrows`) frees its lock
and leaves no record. `ReasoningCall`, `TeamCall`,
`ApplyCall`, `RolesCall` and `CheckCall` are the routes of each part, with what they
check of goal, plan and project. In `Spec` every part's clients act at any time, and that is what the proofs are about.
The product of the parts is out of TLC's reach, but they share the goal, its plans and
the project and nothing else; so in the runs, which check `MCSpec` of MCControlPlane,
the clients of one behaviour use one part (`focus`) next to the goal's own calls, and
`SmallGoal` bounds those. For "steps" the goal has state-changing steps and generations
that overlap; for the other parts it is smaller, and for "files" a plan is derived under
another id only. Every behaviour of `MCSpec` is one of
`Spec`.

`GoalContract` has no plan ids, no snapshots and no current plan: a plan is a version, one
for each birth, that is *offered*, *approved*, runs its steps and is *ended*. `StageOf` says
where a version is, from memory or, where memory has another plan under its id, from the
snapshot, from which a restart would bring it back. A paused plan has ended, for
nothing resumes one. Two stages move in one step of the contract when a handler's
`persist()` saves what an earlier derivation, answered 409, had replaced.

`newest` and `boundAt` are observed. RunsUnderApprovedBinding excepts a current plan
that a restart took up again: the code then makes the last plan of the snapshot
current, which may be a plan superseded before (see section 5).

## 3. The runs

| run | states | bounds | shows |
|---|---|---|---|
| relay_pages | 781,086 | 2 pages with chats by hand, 2 prompts, one of them with an endpoint, 1 session | SubmittedAtMostOnce, OnlyExpiryUnsaved, ReturnedHasReply, ImplementsRelayContract, TypeOK |
| relay_live | 202,813 | 1 page with chats by hand, 2 prompts, one of them with an endpoint, 1 late request, fair | OneInboundPerOutbound, EndedStaysEnded, NothingStuckBeforeSubmission |
| snapshot | 18,195 | 4 writes, 2 damages | AckedSurvives, BackupHoldsPrevious, ImplementsDurableState, TypeOK |
| loop | 327,572 | 2 loops, 3 prompts, 3 rounds, 2 replies | OneActiveRound, RoundsAccounted, EndedLoopStaysEnded, RestartReplaysNothing, ImplementsTurnTaking, TypeOK |
| handoff | 242,970 | 2 records, 2 executors, 2 operations, asked by one executor each, fair | HandedOutOnce, RepliesReachTheirAsker, OnlyFailureUnsaved, ReturnedIsTrusted, ImplementsSingleUseGate, SentReviewSettles, HandoffTypeOK |
| proposal | 337,264 | 2 proposals, 2 executions each, 2 bindings, 1 plan id | ExecutesWhatWasConfirmed, LockedBindingImmutable, ImplementsOperatorGate, TypeOK |
| control | 917,155 | 2 plans, 2 bindings, 2 steps, 3 births, 2 generations, 2 slots, 2 files, 2 artifacts, 2 requests, 2 versions, 2 attempts, 2 calls, 2 records | RunsOnlyApproved, LateAnswerPlansNothing, ImplementsGoalContract, SlotChain, DirectoriesDisjoint, DirectoriesAccounted, RunsUnderApprovedBinding, BindingHistoryKept, EvidenceMatchesBinding, OneCheckAtATime, TypeOK |
| relay_unauthorized, relay_stale, loop_paused, proposal_replay | | as above | the findings of section 5 |
| control_conflicts | | as control, with 3 files | a finding of section 5 |

Why the bounds are enough. Two pages and two prompts are what a double claim, a
crossed acknowledgement, a replaced relay context and a stale reply need; both
prompts share a session so that the replacement happens. `relay_live` trades the
second page for a request that can be served at any later time, in between and after
those of the page.
Four writes let the backup be two generations deep and a fault come after a good
generation. Two loops compete for the queue; three prompts allow one loop three
rounds or both of them a second one. Two records are two messages of one or of two
operations, a message and the prompt that a fallback left, or a review and the
prompt it left: everything the hand-off relates is a pair. An edit, a second command
for a proposal and a rebinding all happen with two proposals, two executions and two
bindings. In `control` three births are an attached plan, a derivation under a new
id and one that replaces a plan under its id; a chain of two slots and two steps has
a first, a next and a last one; the first of the two files is the directory of the
second (`control_conflicts` has a third one that sorts between them); two calls compete for each lock and two records reach the cap. TTLs of 0 and
1 make each order of expiries occur. All safety properties are proved for every
bound (section 4).

The symmetry sets are sound: pages, loops, replies and bindings are only compared
for equality, and the runs with liveness use none. Deadlock is not checked where a
bound on what is created lets a behaviour end.

### Fairness

`relay_live` assumes: time passes (`Tick`); an await of a page ends and
`setInterval` starts the next tick, because every call and every wait has a timeout
(`PollerStep`); ChatGPT starts and ends replies; and a page that asks for the next
prompt again and again is answered some time (strong fairness, as a single loopback
call may fail). An operator who chats on the page by hand can keep it busy, and a timer
that finds it streaming starts no tick; it is assumed that such chats pause often enough
for one timer to find it quiet (strong fairness of `StartTick`). Nothing else is assumed of operators,
and nothing of reloads, restarts or late requests.
What the code does *not* give is also visible: a prompt whose page dies after the
submission is reported stays `submitted` or `responding` for ever.

`handoff` assumes that Node's timers fire and that a handler goes on once its command
closed (`Timeout`, `Escalate`, `ReviewEnds`, weakly fair together). Nothing is assumed of
the command, which may ignore SIGTERM and never exit, of its helpers, of operators or
of restarts. SentReviewSettles then says that a sent review is settled, unless a
helper has left the process group with the output pipes in hand: then `close` never
comes, and the review stays `sent`.

## 4. The proofs

TLAPS checks these for all values of the constants, from the named assumptions of
the modules (TTLAssumption, RelayAssumption, LoopAssumption, SnapshotAssumption,
HandoffAssumption, GoalAssumption, ProposalAssumption, StepAssumption,
GenerationAssumption, AttemptAssumption, SlotAssumption, FileAssumption,
EndpointAssumption, CheckAssumption, ControlAssumption): bounds are natural numbers,
maps have the types they are used with, and the value that stands for *none* is not
one of the others. Every safety property that a passing run checks is proved,
and every refinement.

**SnapshotStore_proofs.** `TypeCorrect`, `AckedNotLost` (AckedSurvives),
`BackupNotStale` (BackupHoldsPrevious) and `RefinesDurableState`. The inductive
invariant `Kept` says for each step of `write()` what the files can hold: while
nothing was damaged, everything the primary's slot may hold is the last answered
state or the one being written; the backup's slot holds the previous answered
state or a later one; a temporary file that is about to be renamed has been synced
and holds the new state (or the primary's). AckedSurvives is not inductive by
itself: that a rename of the temporary file keeps it is only known from what
that file holds. The refinement goes step by step: each system call is a stutter,
an Expose, a Settle or an Acknowledge of the abstract cell.

**OutboundPromptStore_proofs** has the lemmas that relay and loops share: what each
store operator makes of a prompt, and `ClaimNextFacts`: a claim hands out a queued
prompt, frees none and moves none that has ended. A lemma on least elements
(well-foundedness of the naturals) gives that the `CHOOSE` in `NextClaim` returns a
claimable prompt.

**OutboundRelay_proofs.** `TypeCorrect` and `SubmittedOnce` (SubmittedAtMostOnce).
The inductive invariant `SendInv` adds to it: a prompt that can still be claimed,
in memory or *on disk*, was never sent (`UnsentWhileClaimable`); a prompt whose
page is filling, acknowledging or submitting it was not sent either and cannot be
claimed again, not even after a restart (`UnsentWhileOwned`); no two pages are at
that point with the same prompt (`OneOwner`); prompts not created yet have no
traces (`FutureAbsent`). The disk part is needed because a restart brings back
earlier statuses. One lemma per handler shows that no call, in time or late, puts
a prompt back in the queue (`NothingFreed`).

`AnsweredOnce`, `RestartLosesOnlyExpiry`, `ReturnedWithReply` and `EndedStays`
(OneInboundPerOutbound, OnlyExpiryUnsaved, ReturnedHasReply, EndedStaysEnded) rest on
`RelayInv`, which adds `ReplyKnown`: the server takes the page's word that a prompt is
returned, so the reply must be on the server before the page, or a late request of
it, says so. One lemma per handler shows what serving a request may do
(`ServedWell`).

`RefinesRelayContract` maps every step to a step of RelayContract or a stutter, from
`ContractInv`. It adds to `RelayInv` that a prompt a page is about to submit, or that is
a session's relay context, has left the queue (`HandedWell`): the contract lets only a
prompt that was handed over be answered. The restart is the hard step: it may turn an expired prompt back into
one waiting for its submission, which the contract must not see as open again. It does
not, because OnlyExpiryUnsaved says that nothing else can differ on disk, and a prompt
acknowledged by a page that is not about to submit it is over for the contract already.

`PagesActAsClients` joins the two models of the outbound routes: whatever pages do, and
whenever their requests are served, prompts and their snapshot move as the clients of
WebRelayLoop move them, without loops. `Blank` forgets which page's token claimed a
prompt, since WebRelayLoop has one token for all: an acknowledgement that a token check
refuses here is a call that was not made there, and one that it accepts is accepted
there (`BlankFacts`). That a claim picks the same prompt in both is `ClaimNextBlanked`.
The proof attempt showed that WebRelayLoop lacked a step that pages take when their
extract-return saves an expiry which a refused stage left in memory; `OtherPersists`
was then added wherever the one snapshot of the code is written by another part's handler.

**WebRelayLoop_proofs.** `TypeCorrect`, `OneRoundAtATime`, `RoundsPaidFor`,
`EndedStays` and `RecoveryReplaysNothing`. `LoopInv` says that a loop's books agree with
the prompts that are its own (`LoopsOk`, `PromptsOwned`), that all its earlier prompts
have been returned, in memory and on disk (`EarlierReturned`), and that memory differs
from the snapshot only by what a recovery did and by the prompt that a create which threw
left behind (`SavedOrRecovered`). The former is needed because a recovery is not saved
until another handler saves: a second restart may start from before it. The latter makes
that a prompt may be a loop's that does not exist, and only one: a create uses a fresh id.

`RefinesTurnTaking` rests on `TurnInv`, which adds that a loop's replies heard are saved
(`HeardSaved`), that one not created yet has heard nothing (`AbsentUnheard`), and that the
status of a live loop's current prompt is saved, or an expiry that a restart undoes
(`CurrentSaved`). The last two are what a restart needs: it may bring a prompt back to
waiting for its submission, but recovery ends the loop of an uncertain round, so no
loop asks again that was unanswered. Outbound calls can only answer a loop's prompt or
leave it unanswered (`OutboundTurns`): none brings an ended prompt back (`EndedKept`).

**Handoff_proofs.** `TypeCorrect` and a theorem for each of the safety properties.
`HandoffInv` is made of `FutureAbsent`, `OnlyFailureUnsaved`, `MessageInv` (a message handed
out is neither new nor queued again), `PromptAccounts` (a prompt that was delivered is
sent, and past its draft it was confirmed) and `ReviewInv` (what a review's status says of its command
and of the CLI's call). OnlyFailureUnsaved is what makes a restart harmless: the only
prompt it turns back was never taken by its agent. `ReturnedReviewsTrusted` has an
invariant of its own on top, `TrustInv`: the history of a command says that it is trusted
whenever its process looks so (`InTimeIsTrusted`, one step of a process at a time), and no
step of a process comes after its review is settled (`ProcessesOfSent`), which is what
keeps a returned review trusted.

`PromptsAndReviewsGated` is the refinement of OperatorGate's single-use form. `RecordMoves`
lists the few things a step can do to one record, each handler is shown to do one of
them, and each of them is a step of the gate. `GateInv` says what the mapping needs
beyond `HandoffInv`: an id belongs to one store only, so that one gate per id is enough,
and what was confirmed is past its draft. `PromptsDeliveredOnce` and `ReviewsRunOnce` say
the same per store (DeliveredOnceConfirmed, ReviewRunsOnceConfirmed).

**GoalExecution_proofs**, about the specification of ControlPlane: `RunsApproved`,
`EachStepRunsOnce`, `LateAnswersPlanNothing` and `RefinesGoalContract` (RunsOnlyApproved,
StepsRunOnce, LateAnswerPlansNothing, ImplementsGoalContract; the contract implies that
steps run once, so no run checks StepsRunOnce by itself). `GoalInv` says the same three things of memory and of the
snapshot: plans have births of their own (`BornOnce`), a step that is done or passed its
gate was approved under its birth (`StepApproved`), and a step that ran is recorded as
done (`RunsRecorded`). The disk part is needed for restarts; births, which are never
reused, are what tells a plan from the one that replaces it under its id.

For the contract `ContractInv` adds how far memory and snapshot may be apart
(`OnlyBirthsUnsaved`): they agree on every plan they both have, so only the births of
derivations that answered 409 are unsaved, and a restart loses those and takes up what
they replaced where it was. `GateAhead` says that a step is let through its gate not
before its status says so, and that only a step that changes state waits at one, in memory and on
disk. `StageFacts` translates: which stage a plan in memory, or one that only the snapshot has,
stands for. Each handler is then a step of the contract or closes versions.

**ControlPlane_proofs.** `TypeCorrect`, `EvidenceTrustworthy`, `SlotsInOrder`,
`HistoryKept`, `ApprovedBindingKept`, `DirectoriesNeverOverlap`, `DirectoriesConfirmed` and
`ChecksExclusive`, each from an invariant of its part on top of `GoalInv`.
`EvidenceInv`: the artifact names the content of the plan's binding, which is locked from
then on. `DiskCurrent`: team, artifacts and versions are always on disk. `VersionInv`:
there are versions only of a goal that exists. `LatestInv`: the plan made last is the
current one or superseded, and as approved, on disk as well, because a restart decides
from the disk which plan is current. `FilesInv`: requests are counted
from one, each stands for an artifact that is still recorded, and two that were made of
different artifacts' own files share none, whether their directories are complete or not;
and of the requests of a slot and plan step that the server knows of, all but one were
discarded (`OneOpenRequest`), which DirectoriesAccounted needs for its *at most one is
applied*. A complete directory may belong to a request that was discarded, when the
clean-up failed, or forgotten.
`ReportCompleteWithoutBetween` bounds the finding control_conflicts: with `NothingBetween`,
that between a directory and a path below it sort only paths of that directory and paths
with the lower one in their own directory, no request is made while there is a directory
conflict (ConflictsBlockApply). `CheckInv`: a lock is held by exactly one call,
and a process exists only while it is.

**ExecutionProposal_proofs.** `TypeCorrect`, `OnlyConfirmedExecuted`,
`CancelledStaysCancelled`, `LockedBindingKept` (ExecutesWhatWasConfirmed,
CancelledNeverRevived, LockedBindingImmutable) and `ProposalsGated` (ImplementsOperatorGate). `ProposalInv`: what is confirmed, in memory
or on disk, was confirmed by the operator; a cancelled proposal is cancelled on disk
(`CancelledSaved`) and bindings are saved with every change (`BindingsSaved`); a handler
that awaits a command has started one. The disk parts are needed because a dispatch is
saved after its command, or with another handler's snapshot in the middle of it. For the gate `GateSaved` adds that memory and
snapshot agree on where each proposal is at its gate, although they may disagree on its
status: a restart in the middle of a dispatch is a stutter of the gate.

**Only model-checked.** NothingStuckBeforeSubmission and SentReviewSettles, which are
liveness under fairness. No module uses RECURSIVE operators; nothing is proved by
induction over data. ControlPlane's theorems are about `Spec`, with all parts at once;
`focus` and `SmallGoal` exist for TLC only.

## 5. Where the code differs from its documents

| run | document | code |
|---|---|---|
| relay_unauthorized | ADR-0023: submit only while the claimed prompt is current and unexpired and no cancel exists | the click follows the acknowledgement without another look at the prompt |
| relay_stale | ADR-0023: return only the response associated with the submitted outbound | the last stable assistant message is returned, whichever prompt it answers |
| loop_paused | ADR-0023: pause wins before any next claim | a paused loop's queued prompt is claimed |
| proposal_replay | ADR-0024: a confirmation is single-use; resume must not replay an uncertain dispatch | a restart (or pause and resume) during the command allows a second dispatch |
| control_conflicts | v2.3 handoff, 5.2: a path below another artifact's path is a conflict, which blocks the apply | the scan of `detectFileConflicts` stops at the first path outside the directory: src, src-gen/x and src/y are reported clean, and the request is made |

The hardening plan's "never silently starts empty" holds (ImplementsDurableState);
ADR-0023's "at most one inbound message for an outbound operation" holds for
extract-return. `POST /bridge/inbound` may make another of the same operation: its
client chooses both, and RepliesReachTheirAsker speaks of extracted replies only.

What the models also make visible, and no document settles:

* after a restart the last plan of the snapshot is the goal's current plan, also one
  that a derivation had superseded; `pausePlan` pauses the current plan, not the one
  whose reasoning failed, and nothing resumes a plan;
* a team goes on after its goal was cancelled; artifacts are recorded for the goal's
  plan of the moment, not for the one the team was approved for;
* a restart forgets the requests to apply and leaves their directories; the conflict
  report is not looked at again when a request is confirmed;
* a prompt that was handed to a page but never submitted can be answered by the panel's
  button, with an earlier reply: RelayContract allows it;
* a step that waits at its gate does not hold up the steps after it: the next runnable
  step is looked for beyond it;
* an endpoint that went offline comes back only with a restart;
* checks are recorded without `persist()`: they reach the disk with another handler's
  snapshot; a call the lock refuses is recorded like one that ran;
* a helper that leaves its process group with the output pipes keeps a review `sent`,
  or a project's verification locked, until the server restarts.

## 6. Plan

Done: relay, loops, snapshots, hand-off with reviews, goals with plans and steps,
proposals, reasoning, teams, files, endpoints and checks; all their safety properties
and the refinements of DurableState, RelayContract, TurnTaking, OperatorGate and
GoalContract proved, as is that pages are clients of WebRelayLoop.
What could follow, in this order:

1. Stopping and restarting a page's poller while its tick awaits: two ticks of one
   page share a composer, which needs a page with several ticks in OutboundRelay.
2. Several goals and teams in ControlPlane. They share a project, its preset, its lock
   and the endpoints, but no goal looks at another.
3. The rest of the panel: the fallback session and the proposal mirror.
4. The WorkBuddy inbox, once a route reaches it.
