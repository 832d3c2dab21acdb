--------------------------- MODULE Handoff_proofs ---------------------------
(***************************************************************************)
(* Proofs about Handoff, for any number of records, executors and          *)
(* operations.                                                             *)
(***************************************************************************)
EXTENDS Handoff, WellFoundedInduction, TLAPS

-----------------------------------------------------------------------------
(* The inductive invariant.                                                *)

\* A record that is not created yet is nobody's, and nothing was done with it.
FutureAbsent ==
    \A i \in Ids : i > created =>
        /\ messages[i].status = "absent"
        /\ prompts[i].status = "absent"
        /\ reviews[i].status = "absent"
        /\ i \notin confirmed /\ delivered[i] = 0 /\ runs[i] = 0

\* The CLI waits for a review it created.
CliNamesReview == cli.pc # "idle" => cli.id \in Ids

\* A message that was handed out is neither new nor queued again.
HandedIsClaimed ==
    \A m \in Ids :
        /\ handed[m] <= 1
        /\ handed[m] = 1 => messages[m].status \notin {"absent", "queued"}

\* A message of extract-return exists, and answers an operation.
ExtractedExist ==
    \A m \in extracted : messages[m].status # "absent" /\ messages[m].source \in Operations

\* Past its draft a prompt was confirmed, and it was delivered if and only if
\* it is sent.
PromptAccounts ==
    \A i \in Ids :
        /\ prompts[i].status \in {"confirmed", "sent", "failed"} => i \in confirmed
        /\ delivered[i] <= 1
        /\ delivered[i] = 1 => prompts[i].status = "sent"

\* The same of reviews and their commands.
ReviewAccounts ==
    \A i \in Ids :
        /\ (reviews[i].status = "confirmed" \/ runs[i] > 0) => i \in confirmed
        /\ runs[i] <= 1
        /\ runs[i] = 1 => reviews[i].status \notin {"previewed", "confirmed"}

MessageInv == HandedIsClaimed /\ ExtractedExist /\ RepliesReachTheirAsker

ReviewInv == CliNamesReview /\ ReviewAccounts

HandoffInv ==
    /\ HandoffTypeOK
    /\ FutureAbsent
    /\ OnlyFailureUnsaved
    /\ MessageInv
    /\ PromptAccounts
    /\ ReviewInv

-----------------------------------------------------------------------------
(* The values of the record types.                                         *)

LEMMA MessageFacts ==
    /\ AbsentMessage \in InboundMessage
    /\ \A e \in InboundAgents, source \in Operations \cup {NoOperation} :
         /\ createMessage(e, source) \in InboundMessage
         /\ createMessage(e, source).endpoint = e
         /\ createMessage(e, source).source = source
         /\ createMessage(e, source).status = "queued"
  BY DEF AbsentMessage, InboundMessage, createMessage, InboundStatus, NoOperation, NoExecutor

LEMMA PendingFacts ==
    /\ AbsentPending \in PendingPrompt
    /\ \A t \in {"managed-pty", "clipboard"} :
         /\ createPendingPrompt(t) \in PendingPrompt
         /\ createPendingPrompt(t).status = "draft"
  BY DEF AbsentPending, PendingPrompt, createPendingPrompt, PendingPromptStatus

LEMMA ReviewFacts ==
    /\ AbsentReview \in Review
    /\ createReview \in Review
    /\ createReview.status = "previewed"
  BY DEF AbsentReview, Review, createReview, ReviewStatus

LEMMA ProcessFacts ==
    /\ NoProcess \in Process /\ spawn \in Process
    /\ \A process \in Process :
         /\ overflow(process) \in Process
         /\ timeout(process) \in Process
         /\ escalation(process) \in Process
         /\ \A h \in Helper : [process EXCEPT !.helper = h] \in Process
         /\ \A c \in {"exit0", "exited"} : [process EXCEPT !.child = c] \in Process
  <1>1. NoProcess \in Process /\ spawn \in Process
    BY DEF NoProcess, Process, spawn, Helper
  <1>2. ASSUME NEW process \in Process
        PROVE  /\ overflow(process) \in Process
               /\ timeout(process) \in Process
               /\ escalation(process) \in Process
    BY DEF Process, Helper, overflow, timeout, escalation
  <1>3. ASSUME NEW process \in Process
        PROVE  /\ \A h \in Helper : [process EXCEPT !.helper = h] \in Process
               /\ \A c \in {"exit0", "exited"} : [process EXCEPT !.child = c] \in Process
    BY DEF Process
  <1> QED
    BY <1>1, <1>2, <1>3

-----------------------------------------------------------------------------
(* What a step that leaves variables alone, or saves, preserves.           *)

LEMMA SavedFrame ==
    ASSUME HandoffInv,
           Persist \/ UNCHANGED <<context, messages, prompts, disk>>
    PROVE  OnlyFailureUnsaved'
  BY DEF HandoffInv, OnlyFailureUnsaved, Persist

LEMMA MessageFrame ==
    ASSUME HandoffInv, UNCHANGED <<messages, extracted, handed>>
    PROVE  MessageInv'
  BY DEF HandoffInv, MessageInv, HandedIsClaimed, ExtractedExist, RepliesReachTheirAsker,
         Answering

LEMMA PromptFrame ==
    ASSUME HandoffInv, UNCHANGED <<prompts, delivered>>, confirmed \subseteq confirmed'
    PROVE  PromptAccounts'
  BY DEF HandoffInv, PromptAccounts

LEMMA ReviewFrame ==
    ASSUME HandoffInv, UNCHANGED <<reviews, cli, runs>>, confirmed \subseteq confirmed'
    PROVE  ReviewInv'
  BY DEF HandoffInv, ReviewInv, CliNamesReview, ReviewAccounts

LEMMA NextIdFacts ==
    ASSUME HandoffInv, CanCreate
    PROVE  /\ NextId \in Ids /\ NextId \in 0..MaxRecords /\ NextId = created + 1
           /\ messages[NextId].status = "absent"
           /\ prompts[NextId].status = "absent"
           /\ reviews[NextId].status = "absent"
           /\ NextId \notin confirmed /\ delivered[NextId] = 0 /\ runs[NextId] = 0
           /\ \A i \in Ids : i > NextId => i > created
  BY HandoffAssumption DEF HandoffInv, HandoffTypeOK, CanCreate, NextId, Ids, FutureAbsent

LEMMA MessageSet ==
    ASSUME HandoffTypeOK, NEW m \in Ids, NEW s \in InboundStatus,
           messages' = [messages EXCEPT ![m].status = s]
    PROVE  /\ messages' \in [Ids -> InboundMessage]
           /\ \A n \in Ids :
                /\ messages'[n].endpoint = messages[n].endpoint
                /\ messages'[n].source = messages[n].source
                /\ messages'[n].status = IF n = m THEN s ELSE messages[n].status
  <1>1. [messages[m] EXCEPT !.status = s] \in InboundMessage
    BY DEF HandoffTypeOK, InboundMessage
  <1> QED
    BY <1>1 DEF HandoffTypeOK, InboundMessage

LEMMA PromptSet ==
    ASSUME HandoffTypeOK, NEW i \in Ids, NEW s \in PendingPromptStatus,
           prompts' = [prompts EXCEPT ![i].status = s]
    PROVE  /\ prompts' \in [Ids -> PendingPrompt]
           /\ \A j \in Ids :
                /\ j # i => prompts'[j] = prompts[j]
                /\ prompts'[j].status = IF j = i THEN s ELSE prompts[j].status
  <1>1. [prompts[i] EXCEPT !.status = s] \in PendingPrompt
    BY DEF HandoffTypeOK, PendingPrompt
  <1> QED
    BY <1>1 DEF HandoffTypeOK, PendingPrompt

LEMMA ReviewSet ==
    ASSUME HandoffTypeOK, NEW i \in Ids, NEW s \in ReviewStatus,
           reviews' = [reviews EXCEPT ![i].status = s]
    PROVE  /\ reviews' \in [Ids -> Review]
           /\ \A j \in Ids : reviews'[j].status = IF j = i THEN s ELSE reviews[j].status
  <1>1. [reviews[i] EXCEPT !.status = s] \in Review
    BY DEF HandoffTypeOK, Review
  <1> QED
    BY <1>1 DEF HandoffTypeOK, Review

-----------------------------------------------------------------------------
(* The oldest message of an executor, which claimNext takes.               *)

LEMMA LeastElement ==
    ASSUME NEW S \in SUBSET Nat, S # {}
    PROVE  \E i \in S : \A j \in S : i <= j
  <1> DEFINE Less == OpToRel(<, Nat)
  <1>1. IsWellFoundedOn(Less, Nat)
    BY NatLessThanWellFounded
  <1>2. \A i, j \in Nat : i < j => <<i, j>> \in Less
    BY DEF OpToRel
  <1> HIDE DEF Less
  <1>3. \E i \in S : \A j \in S : <<j, i>> \notin Less
    BY <1>1, WFMin
  <1> QED
    <2> PICK i \in S : \A j \in S : <<j, i>> \notin Less
      BY <1>3
    <2> SUFFICES ASSUME NEW j \in S PROVE i <= j
      OBVIOUS
    <2>1. i \in Nat /\ j \in Nat /\ ~(j < i)
      BY <1>2
    <2> QED
      BY <2>1

LEMMA OldestIsQueued ==
    ASSUME NEW e, QueuedFor(messages, e) # {}
    PROVE  /\ OldestFor(messages, e) \in Ids
           /\ messages[OldestFor(messages, e)].status = "queued"
  <1> DEFINE S == QueuedFor(messages, e)
  <1>1. S \subseteq Ids /\ S \subseteq Nat
    BY DEF QueuedFor, Ids
  <1>2. \E m \in S : \A n \in S : m <= n
    BY <1>1, LeastElement
  <1>3. OldestFor(messages, e) \in S
    BY <1>2 DEF OldestFor
  <1> QED
    BY <1>1, <1>3 DEF QueuedFor

-----------------------------------------------------------------------------
(* The steps.                                                              *)

\* A fresh server has no message, prompt or review: the invariant holds.
THEOREM InitInv == Init => HandoffInv
  <1> SUFFICES ASSUME Init PROVE HandoffInv
    OBVIOUS
  <1> USE HandoffAssumption, MessageFacts, PendingFacts, ReviewFacts, ProcessFacts
  <1>1. HandoffTypeOK
    BY DEF Init, EmptySnapshot, HandoffTypeOK, Context, Snapshot, CliPcs, NoOperation, NoId
  <1>2. FutureAbsent /\ OnlyFailureUnsaved
    BY DEF Init, EmptySnapshot, FutureAbsent, OnlyFailureUnsaved, AbsentMessage, AbsentPending,
           AbsentReview
  <1>3. MessageInv /\ PromptAccounts
    BY DEF Init, EmptySnapshot, MessageInv, HandedIsClaimed, ExtractedExist,
           RepliesReachTheirAsker, PromptAccounts, AbsentPending
  <1>4. ReviewInv
    BY DEF Init, ReviewInv, CliNamesReview, ReviewAccounts, AbsentReview
  <1> QED
    BY <1>1, <1>2, <1>3, <1>4 DEF HandoffInv

LEMMA DeliverKeeps ==
    ASSUME HandoffInv, NEW o \in Operations, Deliver(o)
    PROVE  HandoffInv'
  <1> USE HandoffAssumption, MessageFacts, PendingFacts, ReviewFacts, ProcessFacts DEF HandoffInv
  <1>1. HandoffTypeOK'
    BY DEF Deliver, HandoffTypeOK, Persist, Snapshot, Context, CliPcs
  <1>2. FutureAbsent'
    BY DEF Deliver, FutureAbsent, HandoffTypeOK
  <1>3. OnlyFailureUnsaved'
    BY SavedFrame DEF Deliver
  <1>4. MessageInv'
    BY MessageFrame DEF Deliver
  <1>5. PromptAccounts'
    BY PromptFrame DEF Deliver
  <1>6. ReviewInv'
    BY ReviewFrame DEF Deliver
  <1> QED
    BY <1>1, <1>2, <1>3, <1>4, <1>5, <1>6

LEMMA RoutedKeeps ==
    ASSUME HandoffInv, NEW o \in Operations, ExtractReturnRouted(o)
    PROVE  HandoffInv'
  <1> USE HandoffAssumption, MessageFacts, PendingFacts, ReviewFacts, ProcessFacts DEF HandoffInv
  <1>a. CanCreate
    BY DEF ExtractReturnRouted, AddMessage
  <1> USE NextIdFacts, <1>a
  <1>1. HandoffTypeOK'
    BY DEF ExtractReturnRouted, AddMessage, endpointOf, HandoffTypeOK, Persist, Snapshot,
       Context, CliPcs
  <1>2. FutureAbsent'
    BY DEF ExtractReturnRouted, AddMessage, endpointOf, FutureAbsent, HandoffTypeOK
  <1>3. OnlyFailureUnsaved'
    BY SavedFrame DEF ExtractReturnRouted, AddMessage, endpointOf
  <1>4. MessageInv'
    BY DEF ExtractReturnRouted, AddMessage, endpointOf, MessageInv, HandedIsClaimed,
       ExtractedExist, RepliesReachTheirAsker, Answering, HandoffTypeOK
  <1>5. PromptAccounts'
    BY PromptFrame DEF ExtractReturnRouted, AddMessage, endpointOf
  <1>6. ReviewInv'
    BY ReviewFrame DEF ExtractReturnRouted, AddMessage, endpointOf
  <1> QED
    BY <1>1, <1>2, <1>3, <1>4, <1>5, <1>6

LEMMA FallbackKeeps ==
    ASSUME HandoffInv, ExtractReturnFallback
    PROVE  HandoffInv'
  <1> USE HandoffAssumption, MessageFacts, PendingFacts, ReviewFacts, ProcessFacts DEF HandoffInv
  <1>a. CanCreate
    BY DEF ExtractReturnFallback, AddPrompt
  <1> USE NextIdFacts, <1>a
  <1>1. HandoffTypeOK'
    BY DEF ExtractReturnFallback, AddPrompt, observed, HandoffTypeOK, Persist, Snapshot,
       Context, CliPcs
  <1>2. FutureAbsent'
    BY DEF ExtractReturnFallback, AddPrompt, observed, FutureAbsent, HandoffTypeOK
  <1>3. OnlyFailureUnsaved'
    BY SavedFrame DEF ExtractReturnFallback, AddPrompt, observed
  <1>4. MessageInv'
    BY MessageFrame DEF ExtractReturnFallback, AddPrompt, observed
  <1>5. PromptAccounts'
    BY DEF ExtractReturnFallback, AddPrompt, observed, PromptAccounts, HandoffTypeOK
  <1>6. ReviewInv'
    BY ReviewFrame DEF ExtractReturnFallback, AddPrompt, observed
  <1> QED
    BY <1>1, <1>2, <1>3, <1>4, <1>5, <1>6

LEMMA InboundCreateKeeps ==
    ASSUME HandoffInv, NEW source \in Operations \cup {NoOperation}, InboundCreate(source)
    PROVE  HandoffInv'
  <1> USE HandoffAssumption, MessageFacts, PendingFacts, ReviewFacts, ProcessFacts DEF HandoffInv
  <1>a. CanCreate
    BY DEF InboundCreate, AddMessage
  <1> USE NextIdFacts, <1>a
  <1>b. \A m \in extracted : m \in Ids /\ m < NextId /\ messages'[m] = messages[m]
    <2> SUFFICES ASSUME NEW m \in extracted
                 PROVE  m \in Ids /\ m < NextId /\ messages'[m] = messages[m]
      OBVIOUS
    <2>1. m \in Ids /\ messages[m].status # "absent" /\ created \in Nat
      BY DEF MessageInv, ExtractedExist, HandoffTypeOK
    <2>2. m < NextId
      BY <2>1 DEF FutureAbsent, Ids, NextId
    <2>3. m # NextId
      BY <2>1, <2>2 DEF Ids
    <2> QED
      BY <2>1, <2>2, <2>3 DEF InboundCreate, AddMessage, HandoffTypeOK
  <1>1. HandoffTypeOK'
    BY DEF InboundCreate, AddMessage, endpointOf, observed, HandoffTypeOK, Persist,
       Snapshot, Context, CliPcs
  <1>2. FutureAbsent'
    BY DEF InboundCreate, AddMessage, endpointOf, observed, FutureAbsent, HandoffTypeOK
  <1>3. OnlyFailureUnsaved'
    BY SavedFrame DEF InboundCreate, AddMessage, endpointOf, observed
  <1>4. MessageInv'
    <2>1. HandedIsClaimed'
      BY DEF InboundCreate, AddMessage, observed, MessageInv, HandedIsClaimed, HandoffTypeOK
    <2>2. ExtractedExist'
      BY <1>b DEF InboundCreate, observed, MessageInv, ExtractedExist
    <2>3. RepliesReachTheirAsker'
      <3> SUFFICES ASSUME NEW m \in extracted
                   PROVE  /\ messages'[m].endpoint = AskedBy[messages'[m].source]
                          /\ \A n \in Answering(messages', messages'[m].source) : n >= m
        BY DEF RepliesReachTheirAsker, InboundCreate, observed
      <3>1. /\ messages[m].endpoint = AskedBy[messages[m].source]
            /\ \A n \in Answering(messages, messages[m].source) : n >= m
        BY DEF MessageInv, RepliesReachTheirAsker
      <3>2. ASSUME NEW n \in Answering(messages', messages'[m].source) PROVE n >= m
        <4>1. n \in Ids
          BY DEF Answering
        <4>2. CASE n = NextId
          BY <1>b, <4>2 DEF Ids
        <4>3. CASE n # NextId
          BY <1>b, <3>1, <4>1, <4>3 DEF InboundCreate, AddMessage, HandoffTypeOK, Answering
        <4> QED
          BY <4>2, <4>3
      <3> QED
        BY <1>b, <3>1, <3>2
    <2> QED
      BY <2>1, <2>2, <2>3 DEF MessageInv
  <1>5. PromptAccounts'
    BY PromptFrame DEF InboundCreate, AddMessage, endpointOf, observed
  <1>6. ReviewInv'
    BY ReviewFrame DEF InboundCreate, AddMessage, endpointOf, observed
  <1> QED
    BY <1>1, <1>2, <1>3, <1>4, <1>5, <1>6

LEMMA InboundNextKeeps ==
    ASSUME HandoffInv, NEW e \in InboundAgents, InboundNext(e)
    PROVE  HandoffInv'
  <1> USE DEF HandoffInv
  <1> DEFINE m == OldestFor(messages, e)
  <1>a. m \in Ids /\ messages[m].status = "queued"
    BY OldestIsQueued DEF InboundNext
  <1>b. /\ messages' \in [Ids -> InboundMessage]
        /\ \A n \in Ids :
             /\ messages'[n].endpoint = messages[n].endpoint
             /\ messages'[n].source = messages[n].source
             /\ messages'[n].status = IF n = m THEN "claimed" ELSE messages[n].status
    BY <1>a, MessageSet DEF InboundNext, claimNextMessage, InboundStatus
  <1>c. handed' = [handed EXCEPT ![m] = @ + 1]
    BY DEF InboundNext
  <1> HIDE DEF m
  <1>1. HandoffTypeOK'
    <2>1. handed' \in [Ids -> Nat]
      BY <1>a, <1>c DEF HandoffTypeOK
    <2> QED
      BY <1>b, <2>1 DEF InboundNext, HandoffTypeOK, Persist, Snapshot
  <1>2. FutureAbsent'
    BY <1>a, <1>b DEF InboundNext, FutureAbsent
  <1>3. OnlyFailureUnsaved'
    BY SavedFrame DEF InboundNext
  <1>4. MessageInv'
    <2>1. handed[m] = 0
      BY <1>a DEF MessageInv, HandedIsClaimed, HandoffTypeOK
    <2>2. HandedIsClaimed'
      BY <1>a, <1>b, <1>c, <2>1 DEF MessageInv, HandedIsClaimed, HandoffTypeOK
    <2>3. ExtractedExist'
      BY <1>a, <1>b DEF InboundNext, MessageInv, ExtractedExist, HandoffTypeOK
    <2>4. RepliesReachTheirAsker'
      BY <1>a, <1>b DEF InboundNext, MessageInv, RepliesReachTheirAsker, Answering, HandoffTypeOK
    <2> QED
      BY <2>2, <2>3, <2>4 DEF MessageInv
  <1>5. PromptAccounts'
    BY PromptFrame DEF InboundNext
  <1>6. ReviewInv'
    BY ReviewFrame DEF InboundNext
  <1> QED
    BY <1>1, <1>2, <1>3, <1>4, <1>5, <1>6

LEMMA InboundAckKeeps ==
    ASSUME HandoffInv, NEW e \in InboundAgents, NEW m \in Ids, InboundAck(e, m)
    PROVE  HandoffInv'
  <1> USE DEF HandoffInv
  <1>a. messages[m].status \notin {"absent", "cancelled", "consumed", "failed"}
    BY DEF InboundAck, resolves, TerminalInbound
  <1> PICK s \in {"consumed", "failed"} : messages' = [messages EXCEPT ![m].status = s]
    BY DEF InboundAck, ackMessage
  <1>c. s \in InboundStatus
    BY DEF InboundStatus
  <1>b. /\ messages' \in [Ids -> InboundMessage]
        /\ \A n \in Ids :
             /\ messages'[n].endpoint = messages[n].endpoint
             /\ messages'[n].source = messages[n].source
             /\ messages'[n].status = IF n = m THEN s ELSE messages[n].status
    BY <1>c, MessageSet
  <1>1. HandoffTypeOK'
    BY <1>a, <1>b DEF InboundAck, observed, HandoffTypeOK, Persist, Snapshot
  <1>2. FutureAbsent'
    BY <1>a, <1>b DEF InboundAck, observed, FutureAbsent
  <1>3. OnlyFailureUnsaved'
    BY SavedFrame DEF InboundAck, observed
  <1>4. MessageInv'
    BY <1>a, <1>b DEF InboundAck, observed, MessageInv, HandedIsClaimed, ExtractedExist,
       RepliesReachTheirAsker, Answering, HandoffTypeOK
  <1>5. PromptAccounts'
    BY PromptFrame DEF InboundAck, observed
  <1>6. ReviewInv'
    BY ReviewFrame DEF InboundAck, observed
  <1> QED
    BY <1>1, <1>2, <1>3, <1>4, <1>5, <1>6

LEMMA InboundCancelKeeps ==
    ASSUME HandoffInv, NEW e \in InboundAgents, NEW m \in Ids, InboundCancel(e, m)
    PROVE  HandoffInv'
  <1> USE DEF HandoffInv
  <1>a. messages[m].status \notin {"absent", "cancelled", "consumed", "failed"}
    BY DEF InboundCancel, resolves, TerminalInbound
  <1> PICK s \in {"cancelled"} : messages' = [messages EXCEPT ![m].status = s]
    BY DEF InboundCancel, cancelMessage
  <1>c. s \in InboundStatus
    BY DEF InboundStatus
  <1>b. /\ messages' \in [Ids -> InboundMessage]
        /\ \A n \in Ids :
             /\ messages'[n].endpoint = messages[n].endpoint
             /\ messages'[n].source = messages[n].source
             /\ messages'[n].status = IF n = m THEN s ELSE messages[n].status
    BY <1>c, MessageSet
  <1>1. HandoffTypeOK'
    BY <1>a, <1>b DEF InboundCancel, observed, HandoffTypeOK, Persist, Snapshot
  <1>2. FutureAbsent'
    BY <1>a, <1>b DEF InboundCancel, observed, FutureAbsent
  <1>3. OnlyFailureUnsaved'
    BY SavedFrame DEF InboundCancel, observed
  <1>4. MessageInv'
    BY <1>a, <1>b DEF InboundCancel, observed, MessageInv, HandedIsClaimed, ExtractedExist,
       RepliesReachTheirAsker, Answering, HandoffTypeOK
  <1>5. PromptAccounts'
    BY PromptFrame DEF InboundCancel, observed
  <1>6. ReviewInv'
    BY ReviewFrame DEF InboundCancel, observed
  <1> QED
    BY <1>1, <1>2, <1>3, <1>4, <1>5, <1>6

LEMMA PromptCreateKeeps ==
    ASSUME HandoffInv, PromptCreate
    PROVE  HandoffInv'
  <1> USE HandoffAssumption, MessageFacts, PendingFacts, ReviewFacts, ProcessFacts DEF HandoffInv
  <1>a. CanCreate
    BY DEF PromptCreate, AddPrompt
  <1> USE NextIdFacts, <1>a
  <1>1. HandoffTypeOK'
    BY DEF PromptCreate, AddPrompt, observed, HandoffTypeOK, Persist, Snapshot, Context, CliPcs
  <1>2. FutureAbsent'
    BY DEF PromptCreate, AddPrompt, observed, FutureAbsent, HandoffTypeOK
  <1>3. OnlyFailureUnsaved'
    BY SavedFrame DEF PromptCreate, AddPrompt, observed
  <1>4. MessageInv'
    BY MessageFrame DEF PromptCreate, AddPrompt, observed
  <1>5. PromptAccounts'
    BY DEF PromptCreate, AddPrompt, observed, PromptAccounts, HandoffTypeOK
  <1>6. ReviewInv'
    BY ReviewFrame DEF PromptCreate, AddPrompt, observed
  <1> QED
    BY <1>1, <1>2, <1>3, <1>4, <1>5, <1>6

LEMMA PromptConfirmKeeps ==
    ASSUME HandoffInv, NEW i \in Ids, PromptConfirm(i)
    PROVE  HandoffInv'
  <1> USE DEF HandoffInv
  <1>a. prompts[i].status \notin {"absent", "sent"}
    BY DEF PromptConfirm, canConfirmPrompt
  <1>b. /\ prompts' \in [Ids -> PendingPrompt]
        /\ \A j \in Ids : prompts'[j].status = IF j = i THEN "confirmed" ELSE prompts[j].status
    BY PromptSet DEF PromptConfirm, confirmPrompt, PendingPromptStatus
  <1>1. HandoffTypeOK'
    BY <1>b DEF PromptConfirm, HandoffTypeOK, Persist, Snapshot
  <1>2. FutureAbsent'
    BY <1>a, <1>b DEF PromptConfirm, FutureAbsent
  <1>3. OnlyFailureUnsaved'
    BY SavedFrame DEF PromptConfirm
  <1>4. MessageInv'
    BY MessageFrame DEF PromptConfirm
  <1>5. PromptAccounts'
    BY <1>a, <1>b DEF PromptConfirm, PromptAccounts, HandoffTypeOK
  <1>6. ReviewInv'
    BY ReviewFrame DEF PromptConfirm
  <1> QED
    BY <1>1, <1>2, <1>3, <1>4, <1>5, <1>6

LEMMA PromptSendKeeps ==
    ASSUME HandoffInv, NEW i \in Ids, PromptSend(i)
    PROVE  HandoffInv'
  <1> USE DEF HandoffInv
  <1>a. prompts[i].status = "confirmed"
    BY DEF PromptSend, canSendPrompt
  <1> PICK ok \in BOOLEAN :
         /\ prompts' = [prompts EXCEPT ![i].status = IF ok THEN "sent" ELSE "failed"]
         /\ delivered' = IF ok THEN [delivered EXCEPT ![i] = @ + 1] ELSE delivered
         /\ UNCHANGED <<context, messages>>
         /\ IF ok THEN Persist ELSE UNCHANGED disk
    BY DEF PromptSend, sentPrompt
  <1>c. (IF ok THEN "sent" ELSE "failed") \in PendingPromptStatus
    BY DEF PendingPromptStatus
  <1>b. /\ prompts' \in [Ids -> PendingPrompt]
        /\ \A j \in Ids :
             /\ j # i => prompts'[j] = prompts[j]
             /\ prompts'[j].status = IF j = i THEN (IF ok THEN "sent" ELSE "failed")
                                     ELSE prompts[j].status
    BY <1>c, PromptSet, ZenonT(40)
  <1>1. HandoffTypeOK'
    BY <1>b DEF PromptSend, HandoffTypeOK, Persist, Snapshot
  <1>2. FutureAbsent'
    BY <1>a, <1>b DEF PromptSend, FutureAbsent
  <1>3. OnlyFailureUnsaved'
    <2>1. CASE ok
      BY <2>1, SavedFrame
    <2>2. CASE ~ok
      <3>1. disk.prompts[i] = prompts[i]
        BY <1>a DEF OnlyFailureUnsaved
      <3>2. [prompts'[i] EXCEPT !.status = "confirmed"] = prompts[i]
        BY <1>a, <2>2 DEF HandoffTypeOK, PendingPrompt
      <3>3. ASSUME NEW j \in Ids
            PROVE  \/ disk.prompts[j] = prompts'[j]
                   \/ /\ prompts'[j].status = "failed"
                      /\ disk.prompts[j] = [prompts'[j] EXCEPT !.status = "confirmed"]
        <4>1. CASE j = i
          BY <1>b, <2>2, <3>1, <3>2, <4>1
        <4>2. CASE j # i
          BY <1>b, <4>2 DEF OnlyFailureUnsaved
        <4> QED
          BY <4>1, <4>2
      <3> QED
        BY <2>2, <3>3 DEF OnlyFailureUnsaved
    <2> QED
      BY <2>1, <2>2
  <1>4. MessageInv'
    BY MessageFrame DEF PromptSend
  <1>5. PromptAccounts'
    <2>1. delivered[i] = 0
      <3>1. delivered[i] \in Nat
        BY DEF HandoffTypeOK
      <3>2. delivered[i] <= 1 /\ delivered[i] # 1
        BY <1>a DEF PromptAccounts
      <3> QED
        BY <3>1, <3>2
    <2> QED
      BY <1>a, <1>b, <2>1 DEF PromptSend, PromptAccounts, HandoffTypeOK
  <1>6. ReviewInv'
    BY ReviewFrame DEF PromptSend
  <1> QED
    BY <1>1, <1>2, <1>3, <1>4, <1>5, <1>6

LEMMA PromptCancelKeeps ==
    ASSUME HandoffInv, NEW i \in Ids, PromptCancel(i)
    PROVE  HandoffInv'
  <1> USE DEF HandoffInv
  <1>a. prompts[i].status \notin {"absent", "sent"}
    BY DEF PromptCancel, canCancelPrompt
  <1>b. /\ prompts' \in [Ids -> PendingPrompt]
        /\ \A j \in Ids : prompts'[j].status = IF j = i THEN "cancelled" ELSE prompts[j].status
    BY PromptSet DEF PromptCancel, cancelPrompt, PendingPromptStatus
  <1>1. HandoffTypeOK'
    BY <1>b DEF PromptCancel, observed, HandoffTypeOK, Persist, Snapshot
  <1>2. FutureAbsent'
    BY <1>a, <1>b DEF PromptCancel, observed, FutureAbsent
  <1>3. OnlyFailureUnsaved'
    BY SavedFrame DEF PromptCancel, observed
  <1>4. MessageInv'
    BY MessageFrame DEF PromptCancel, observed
  <1>5. PromptAccounts'
    BY <1>a, <1>b DEF PromptCancel, observed, PromptAccounts, HandoffTypeOK
  <1>6. ReviewInv'
    BY ReviewFrame DEF PromptCancel, observed
  <1> QED
    BY <1>1, <1>2, <1>3, <1>4, <1>5, <1>6

LEMMA ReviewCreateKeeps ==
    ASSUME HandoffInv, ReviewCreate
    PROVE  HandoffInv'
  <1> USE HandoffAssumption, MessageFacts, PendingFacts, ReviewFacts, ProcessFacts DEF HandoffInv
  <1>a. CanCreate
    BY DEF ReviewCreate, AddReview
  <1> USE NextIdFacts, <1>a
  <1>1. HandoffTypeOK'
    BY DEF ReviewCreate, AddReview, reviewsSaved, observed, HandoffTypeOK, Persist,
       Snapshot, Context, CliPcs
  <1>2. FutureAbsent'
    BY DEF ReviewCreate, AddReview, reviewsSaved, observed, FutureAbsent, HandoffTypeOK
  <1>3. OnlyFailureUnsaved'
    BY SavedFrame DEF ReviewCreate, AddReview, reviewsSaved, observed
  <1>4. MessageInv'
    BY MessageFrame DEF ReviewCreate, AddReview, reviewsSaved, observed
  <1>5. PromptAccounts'
    BY PromptFrame DEF ReviewCreate, AddReview, reviewsSaved, observed
  <1>6. ReviewInv'
    BY DEF ReviewCreate, AddReview, reviewsSaved, observed, ReviewInv, CliNamesReview,
       ReviewAccounts, HandoffTypeOK
  <1> QED
    BY <1>1, <1>2, <1>3, <1>4, <1>5, <1>6

LEMMA ReviewConfirmKeeps ==
    ASSUME HandoffInv, NEW i \in Ids, ReviewConfirm(i)
    PROVE  HandoffInv'
  <1> USE HandoffAssumption, MessageFacts, PendingFacts, ReviewFacts, ProcessFacts DEF HandoffInv
  <1>1. HandoffTypeOK'
    BY DEF ReviewConfirm, ConfirmReview, canConfirmReview, confirmReview, reviewsSaved,
       Review, ReviewStatus, HandoffTypeOK, Persist, Snapshot, Context, CliPcs
  <1>2. FutureAbsent'
    BY DEF ReviewConfirm, ConfirmReview, canConfirmReview, confirmReview, reviewsSaved,
       FutureAbsent, HandoffTypeOK, Review
  <1>3. OnlyFailureUnsaved'
    BY SavedFrame DEF ReviewConfirm, ConfirmReview, canConfirmReview, confirmReview, reviewsSaved
  <1>4. MessageInv'
    BY MessageFrame DEF ReviewConfirm, ConfirmReview, canConfirmReview, confirmReview, reviewsSaved
  <1>5. PromptAccounts'
    BY PromptFrame DEF ReviewConfirm, ConfirmReview, canConfirmReview, confirmReview, reviewsSaved
  <1>6. ReviewInv'
    BY DEF ReviewConfirm, ConfirmReview, canConfirmReview, confirmReview, reviewsSaved,
       Review, ReviewInv, CliNamesReview, ReviewAccounts, HandoffTypeOK
  <1> QED
    BY <1>1, <1>2, <1>3, <1>4, <1>5, <1>6

LEMMA ReviewCancelKeeps ==
    ASSUME HandoffInv, NEW i \in Ids, ReviewCancel(i)
    PROVE  HandoffInv'
  <1> USE HandoffAssumption, MessageFacts, PendingFacts, ReviewFacts, ProcessFacts DEF HandoffInv
  <1>1. HandoffTypeOK'
    BY DEF ReviewCancel, canCancelReview, cancelReview, reviewsSaved, observed, Review,
       ReviewStatus, HandoffTypeOK, Persist, Snapshot, Context, CliPcs
  <1>2. FutureAbsent'
    BY DEF ReviewCancel, canCancelReview, cancelReview, reviewsSaved, observed,
       FutureAbsent, HandoffTypeOK, Review
  <1>3. OnlyFailureUnsaved'
    BY SavedFrame DEF ReviewCancel, canCancelReview, cancelReview, reviewsSaved, observed
  <1>4. MessageInv'
    BY MessageFrame DEF ReviewCancel, canCancelReview, cancelReview, reviewsSaved, observed
  <1>5. PromptAccounts'
    BY PromptFrame DEF ReviewCancel, canCancelReview, cancelReview, reviewsSaved, observed
  <1>6. ReviewInv'
    BY DEF ReviewCancel, canCancelReview, cancelReview, reviewsSaved, observed, Review,
       ReviewInv, CliNamesReview, ReviewAccounts, HandoffTypeOK
  <1> QED
    BY <1>1, <1>2, <1>3, <1>4, <1>5, <1>6

LEMMA ReviewDispatchKeeps ==
    ASSUME HandoffInv, NEW i \in Ids, ReviewDispatch(i)
    PROVE  HandoffInv'
  <1> USE HandoffAssumption, MessageFacts, PendingFacts, ReviewFacts, ProcessFacts DEF HandoffInv
  <1>1. HandoffTypeOK'
    BY DEF ReviewDispatch, DispatchReview, canSendReview, sendReview, Review, ReviewStatus,
       HandoffTypeOK, Persist, Snapshot, Context, CliPcs
  <1>2. FutureAbsent'
    BY DEF ReviewDispatch, DispatchReview, canSendReview, sendReview, FutureAbsent,
       HandoffTypeOK, Review
  <1>3. OnlyFailureUnsaved'
    BY SavedFrame DEF ReviewDispatch, DispatchReview, canSendReview, sendReview
  <1>4. MessageInv'
    BY MessageFrame DEF ReviewDispatch, DispatchReview, canSendReview, sendReview
  <1>5. PromptAccounts'
    BY PromptFrame DEF ReviewDispatch, DispatchReview, canSendReview, sendReview
  <1>6. ReviewInv'
    <2>1. reviews[i].status = "confirmed"
      BY DEF ReviewDispatch, DispatchReview, canSendReview, sendReview
    <2>2. \A j \in Ids : reviews'[j].status = IF j = i THEN "sent" ELSE reviews[j].status
      BY ReviewSet DEF ReviewDispatch, DispatchReview, canSendReview, sendReview, ReviewStatus
    <2>3. runs[i] = 0
      <3>1. runs[i] \in Nat
        BY DEF HandoffTypeOK
      <3>2. runs[i] <= 1 /\ runs[i] # 1
        BY <2>1 DEF ReviewInv, ReviewAccounts
      <3> QED
        BY <3>1, <3>2
    <2>4. ReviewAccounts'
      BY <2>1, <2>2, <2>3 DEF ReviewDispatch, DispatchReview, canSendReview, sendReview,
         cliObserved, ReviewInv, ReviewAccounts, HandoffTypeOK
    <2>5. CliNamesReview'
      BY <2>2 DEF ReviewDispatch, CliTo, cliObserved, ReviewInv, CliNamesReview
    <2> QED
      BY <2>4, <2>5 DEF ReviewInv
  <1> QED
    BY <1>1, <1>2, <1>3, <1>4, <1>5, <1>6

LEMMA ReviewEndsKeeps ==
    ASSUME HandoffInv, NEW i \in Ids, ReviewEnds(i)
    PROVE  HandoffInv'
  <1> USE HandoffAssumption, MessageFacts, PendingFacts, ReviewFacts, ProcessFacts DEF HandoffInv
  <1>a. /\ processes' = [processes EXCEPT ![i] = NoProcess]
        /\ UNCHANGED <<context, messages>>
        /\ Persist
        /\ UNCHANGED <<cli, acked, extracted, handed, confirmed, delivered, runs, trusted>>
    BY DEF ReviewEnds, observed
  <1>b. \/ /\ UNCHANGED <<prompts, created>>
           /\ \/ reviews' = reviews
              \/ reviews' = [reviews EXCEPT ![i].status = "failed"] /\ canFail(reviews[i])
        \/ /\ reviews' = [reviews EXCEPT ![i].status = "returned"]
           /\ reviews[i].status = "sent"
           /\ UNCHANGED <<prompts, created>> \/ AddPrompt("managed-pty")
    BY DEF ReviewEnds, ReturnReview, commandOk, timedOut, canReturnResult, returnResult,
           failReview, HandoffTypeOK, Review
  <1>c. AddPrompt("managed-pty") => CanCreate
    BY DEF AddPrompt
  <1>1. HandoffTypeOK'
    <2>1. prompts' \in [Ids -> PendingPrompt] /\ created' \in 0..MaxRecords
      BY <1>b, <1>c, NextIdFacts DEF AddPrompt, HandoffTypeOK
    <2>2. reviews' \in [Ids -> Review]
      BY <1>b, ReviewSet DEF HandoffTypeOK, ReviewStatus
    <2> QED
      <3>1. processes' \in [Ids -> Process]
        BY <1>a DEF HandoffTypeOK
      <3>2. disk' \in Snapshot
        BY <1>a, <2>1 DEF HandoffTypeOK, Persist, Snapshot
      <3> QED
        BY <1>a, <2>1, <2>2, <3>1, <3>2 DEF HandoffTypeOK
  <1>2. FutureAbsent'
    <2>0. \A j \in Ids : j > created => prompts[j].status = "absent"
      BY DEF FutureAbsent
    <2>1. \A j \in Ids : j > created' => j > created /\ prompts'[j].status = "absent"
      BY <1>b, <1>c, <2>0, NextIdFacts DEF AddPrompt, HandoffTypeOK
    <2>2. \A j \in Ids : reviews[j].status = "absent" => reviews'[j].status = "absent"
      BY <1>b, ReviewSet DEF HandoffTypeOK, canFail, ReviewStatus
    <2> QED
      <3>1. \A j \in Ids : j > created' => j > created /\ UNCHANGED <<delivered, runs, confirmed>>
        BY <1>a, <2>1
      <3> QED
        BY <1>a, <2>1, <2>2, <3>1 DEF FutureAbsent
  <1>3. OnlyFailureUnsaved'
    BY <1>a, SavedFrame
  <1>4. MessageInv'
    BY <1>a, MessageFrame
  <1>5. PromptAccounts'
    <2>1. CASE UNCHANGED prompts
      BY <1>a, <2>1, PromptFrame
    <2>2. CASE AddPrompt("managed-pty")
      BY <1>a, <1>c, <2>2, NextIdFacts DEF AddPrompt, PromptAccounts, HandoffTypeOK
    <2> QED
      BY <1>b, <2>1, <2>2
  <1>6. ReviewInv'
    <2>1. \/ \A j \in Ids : reviews'[j] = reviews[j]
          \/ /\ reviews[i].status # "absent"
             /\ \A j \in Ids : reviews'[j].status = IF j = i THEN "failed" ELSE reviews[j].status
          \/ /\ reviews[i].status = "sent"
             /\ \A j \in Ids : reviews'[j].status = IF j = i THEN "returned" ELSE reviews[j].status
      BY <1>b, ReviewSet DEF canFail, ReviewStatus
    <2>2. ReviewAccounts'
      BY <1>a, <2>1 DEF ReviewInv, ReviewAccounts
    <2>3. CliNamesReview'
      BY <1>a, <2>1 DEF ReviewInv, CliNamesReview
    <2> QED
      BY <2>2, <2>3 DEF ReviewInv
  <1> QED
    BY <1>1, <1>2, <1>3, <1>4, <1>5, <1>6

LEMMA CommandKeeps ==
    ASSUME HandoffInv, NEW i \in Ids, CommandStep(i)
    PROVE  HandoffInv'
  <1> USE HandoffAssumption, ProcessFacts DEF HandoffInv
  <1>a. \E p \in Process : ProcessStep(i, p) /\ trusted' \subseteq trusted \cup {i}
    BY DEF CommandStep, Fork, Overflow, ChildExits, HelperExits, Timeout, Escalate, HandoffTypeOK,
           Helper
  <1> PICK p \in Process : ProcessStep(i, p) /\ trusted' \subseteq trusted \cup {i}
    BY <1>a
  <1>1. HandoffTypeOK'
    BY DEF ProcessStep, observed, HandoffTypeOK
  <1>2. FutureAbsent'
    BY DEF ProcessStep, observed, FutureAbsent
  <1>3. OnlyFailureUnsaved'
    BY SavedFrame DEF ProcessStep
  <1>4. MessageInv' /\ PromptAccounts' /\ ReviewInv'
    BY MessageFrame, PromptFrame, ReviewFrame DEF ProcessStep, observed
  <1> QED
    BY <1>1, <1>2, <1>3, <1>4

LEMMA CliCreateKeeps ==
    ASSUME HandoffInv, CliCreate
    PROVE  HandoffInv'
  <1> USE HandoffAssumption, MessageFacts, PendingFacts, ReviewFacts, ProcessFacts DEF HandoffInv
  <1>a. CanCreate
    BY DEF CliCreate, AddReview
  <1> USE NextIdFacts, <1>a
  <1>1. HandoffTypeOK'
    BY DEF CliCreate, AddReview, CliTo, reviewsSaved, observed, Review, ReviewStatus,
       HandoffTypeOK, Persist, Snapshot, Context, CliPcs
  <1>2. FutureAbsent'
    BY DEF CliCreate, AddReview, CliTo, reviewsSaved, observed, FutureAbsent, HandoffTypeOK, Review
  <1>3. OnlyFailureUnsaved'
    BY SavedFrame DEF CliCreate, AddReview, CliTo, reviewsSaved, observed
  <1>4. MessageInv'
    BY MessageFrame DEF CliCreate, AddReview, CliTo, reviewsSaved, observed
  <1>5. PromptAccounts'
    BY PromptFrame DEF CliCreate, AddReview, CliTo, reviewsSaved, observed
  <1>6. ReviewInv'
    BY DEF CliCreate, AddReview, CliTo, reviewsSaved, observed, Review, ReviewInv,
       CliNamesReview, ReviewAccounts, HandoffTypeOK
  <1> QED
    BY <1>1, <1>2, <1>3, <1>4, <1>5, <1>6

LEMMA CliConfirmKeeps ==
    ASSUME HandoffInv, CliConfirm
    PROVE  HandoffInv'
  <1> USE HandoffAssumption, MessageFacts, PendingFacts, ReviewFacts, ProcessFacts DEF HandoffInv
  <1>a. cli.id \in Ids
    BY DEF CliConfirm, ReviewInv, CliNamesReview
  <1>1. HandoffTypeOK'
    BY <1>a DEF CliConfirm, ConfirmReview, confirmReview, CliTo, reviewsSaved, cliObserved,
       Review, ReviewStatus, HandoffTypeOK, Persist, Snapshot, Context, CliPcs
  <1>2. FutureAbsent'
    BY <1>a DEF CliConfirm, ConfirmReview, canConfirmReview, confirmReview, reviewsSaved,
       cliObserved, FutureAbsent, HandoffTypeOK, Review
  <1>3. OnlyFailureUnsaved'
    BY SavedFrame DEF CliConfirm, ConfirmReview, canConfirmReview, confirmReview,
       reviewsSaved, CliTo, cliObserved
  <1>4. MessageInv'
    BY MessageFrame DEF CliConfirm, ConfirmReview, canConfirmReview, confirmReview,
       reviewsSaved, CliTo, cliObserved
  <1>5. PromptAccounts'
    BY PromptFrame DEF CliConfirm, ConfirmReview, canConfirmReview, confirmReview,
       reviewsSaved, CliTo, cliObserved
  <1>6. ReviewInv'
    BY <1>a DEF CliConfirm, ConfirmReview, canConfirmReview, confirmReview, CliTo,
       cliObserved, Review, ReviewInv, CliNamesReview, ReviewAccounts,
       HandoffTypeOK
  <1> QED
    BY <1>1, <1>2, <1>3, <1>4, <1>5, <1>6

LEMMA CliDispatchKeeps ==
    ASSUME HandoffInv, CliDispatch
    PROVE  HandoffInv'
  <1> USE HandoffAssumption, MessageFacts, PendingFacts, ReviewFacts, ProcessFacts DEF HandoffInv
  <1>a. cli.id \in Ids
    BY DEF CliDispatch, ReviewInv, CliNamesReview
  <1>1. HandoffTypeOK'
    BY <1>a DEF CliDispatch, DispatchReview, sendReview, CliTo, cliObserved, Review,
       ReviewStatus, HandoffTypeOK, Persist, Snapshot, Context, CliPcs
  <1>2. FutureAbsent'
    BY <1>a DEF CliDispatch, DispatchReview, canSendReview, sendReview, cliObserved,
       FutureAbsent, HandoffTypeOK, Review
  <1>3. OnlyFailureUnsaved'
    BY SavedFrame DEF CliDispatch, DispatchReview, canSendReview, sendReview, CliTo, cliObserved
  <1>4. MessageInv'
    BY MessageFrame DEF CliDispatch, DispatchReview, canSendReview, sendReview, CliTo, cliObserved
  <1>5. PromptAccounts'
    BY PromptFrame DEF CliDispatch, DispatchReview, canSendReview, sendReview, CliTo, cliObserved
  <1>6. ReviewInv'
    <2>1. reviews[cli.id].status = "confirmed"
      BY DEF CliDispatch, DispatchReview, canSendReview, sendReview
    <2>2. \A j \in Ids : reviews'[j].status = IF j = cli.id THEN "sent" ELSE reviews[j].status
      BY <1>a, ReviewSet DEF CliDispatch, DispatchReview, canSendReview, sendReview, ReviewStatus
    <2>3. runs[cli.id] = 0
      <3>1. runs[cli.id] \in Nat
        BY <1>a DEF HandoffTypeOK
      <3>2. runs[cli.id] <= 1 /\ runs[cli.id] # 1
        BY <1>a, <2>1 DEF ReviewInv, ReviewAccounts
      <3> QED
        BY <3>1, <3>2
    <2>4. ReviewAccounts'
      BY <1>a, <2>1, <2>2, <2>3 DEF CliDispatch, DispatchReview, canSendReview,
         sendReview, cliObserved, ReviewInv, ReviewAccounts, HandoffTypeOK
    <2>5. CliNamesReview'
      BY <1>a, <2>2 DEF CliDispatch, CliTo, cliObserved, ReviewInv, CliNamesReview
    <2> QED
      BY <2>4, <2>5 DEF ReviewInv
  <1> QED
    BY <1>1, <1>2, <1>3, <1>4, <1>5, <1>6

LEMMA CliAnsweredKeeps ==
    ASSUME HandoffInv, CliAnswered
    PROVE  HandoffInv'
  <1> USE HandoffAssumption, MessageFacts, PendingFacts, ReviewFacts, ProcessFacts DEF HandoffInv
  <1>a. cli.id \in Ids
    BY DEF CliAnswered, ReviewInv, CliNamesReview
  <1>1. HandoffTypeOK'
    BY <1>a DEF CliAnswered, CliTo, storeVars, observed, NoId, HandoffTypeOK, Persist,
       Snapshot, Context, CliPcs
  <1>2. FutureAbsent'
    BY DEF CliAnswered, CliTo, storeVars, observed, FutureAbsent, HandoffTypeOK
  <1>3. OnlyFailureUnsaved'
    BY SavedFrame DEF CliAnswered, CliTo, storeVars, observed
  <1>4. MessageInv'
    BY MessageFrame DEF CliAnswered, CliTo, storeVars, observed
  <1>5. PromptAccounts'
    BY PromptFrame DEF CliAnswered, CliTo, storeVars, observed
  <1>6. ReviewInv'
    BY <1>a DEF CliAnswered, CliTo, storeVars, observed, ReviewInv, CliNamesReview,
       ReviewAccounts, HandoffTypeOK
  <1> QED
    BY <1>1, <1>2, <1>3, <1>4, <1>5, <1>6

LEMMA CliGivesUpKeeps ==
    ASSUME HandoffInv, CliGivesUp
    PROVE  HandoffInv'
  <1> USE HandoffAssumption, MessageFacts, PendingFacts, ReviewFacts, ProcessFacts DEF HandoffInv
  <1>1. HandoffTypeOK'
    BY DEF CliGivesUp, CliTo, storeVars, observed, NoId, HandoffTypeOK, Persist, Snapshot,
       Context, CliPcs
  <1>2. FutureAbsent'
    BY DEF CliGivesUp, CliTo, storeVars, observed, FutureAbsent, HandoffTypeOK
  <1>3. OnlyFailureUnsaved'
    BY SavedFrame DEF CliGivesUp, CliTo, storeVars, observed
  <1>4. MessageInv'
    BY MessageFrame DEF CliGivesUp, CliTo, storeVars, observed
  <1>5. PromptAccounts'
    BY PromptFrame DEF CliGivesUp, CliTo, storeVars, observed
  <1>6. ReviewInv'
    BY DEF CliGivesUp, CliTo, storeVars, observed, ReviewInv, CliNamesReview,
       ReviewAccounts, HandoffTypeOK
  <1> QED
    BY <1>1, <1>2, <1>3, <1>4, <1>5, <1>6

LEMMA OtherPersistsKeeps ==
    ASSUME HandoffInv, OtherPersists
    PROVE  HandoffInv'
  <1> USE DEF HandoffInv
  <1>1. HandoffTypeOK' /\ FutureAbsent'
    BY DEF OtherPersists, observed, HandoffTypeOK, FutureAbsent, Persist, Snapshot
  <1>2. OnlyFailureUnsaved' /\ MessageInv' /\ PromptAccounts' /\ ReviewInv'
    BY SavedFrame, MessageFrame, PromptFrame, ReviewFrame DEF OtherPersists, observed
  <1> QED
    BY <1>1, <1>2

LEMMA RestartKeeps ==
    ASSUME HandoffInv, Restart
    PROVE  HandoffInv'
  <1> USE HandoffAssumption, ReviewFacts, ProcessFacts DEF HandoffInv
  <1>a. /\ messages' = messages /\ disk.prompts \in [Ids -> PendingPrompt]
        /\ \A i \in Ids : \/ prompts'[i] = prompts[i]
                          \/ prompts[i].status = "failed" /\ prompts'[i].status = "confirmed"
    BY DEF Restart, OnlyFailureUnsaved, HandoffTypeOK, Snapshot, PendingPrompt
  <1>1. HandoffTypeOK'
    BY <1>a DEF Restart, observed, CliTo, NoId, HandoffTypeOK, Snapshot, CliPcs
  <1>2. FutureAbsent'
    BY <1>a DEF Restart, observed, FutureAbsent, AbsentReview
  <1>3. OnlyFailureUnsaved'
    BY DEF Restart, OnlyFailureUnsaved
  <1>4. MessageInv'
    BY <1>a, MessageFrame DEF Restart, observed
  <1>5. PromptAccounts'
    BY <1>a DEF Restart, observed, PromptAccounts
  <1>6. ReviewInv'
    BY DEF Restart, observed, CliTo, ReviewInv, CliNamesReview, ReviewAccounts, AbsentReview
  <1> QED
    BY <1>1, <1>2, <1>3, <1>4, <1>5, <1>6

LEMMA StutterKeeps ==
    ASSUME HandoffInv, UNCHANGED vars
    PROVE  HandoffInv'
  <1> USE DEF HandoffInv, vars
  <1>1. HandoffTypeOK' /\ FutureAbsent'
    BY DEF HandoffTypeOK, FutureAbsent
  <1>2. OnlyFailureUnsaved' /\ MessageInv' /\ PromptAccounts' /\ ReviewInv'
    BY SavedFrame, MessageFrame, PromptFrame, ReviewFrame
  <1> QED
    BY <1>1, <1>2

\* No handler, executor, command, timer or restart breaks the invariant.
THEOREM NextInv == HandoffInv /\ [Next]_vars => HandoffInv'
  <1> SUFFICES ASSUME HandoffInv, [Next]_vars PROVE HandoffInv'
    OBVIOUS
  <1>1. CASE ReplyStep
    BY <1>1, DeliverKeeps, RoutedKeeps, FallbackKeeps, InboundCreateKeeps DEF ReplyStep
  <1>2. ASSUME NEW e \in InboundAgents, ExecutorStep(e) PROVE HandoffInv'
    BY <1>2, InboundNextKeeps, InboundAckKeeps, InboundCancelKeeps DEF ExecutorStep
  <1>3. CASE PromptCreate \/ ReviewCreate
    BY <1>3, PromptCreateKeeps, ReviewCreateKeeps
  <1>4. ASSUME NEW i \in Ids, PromptStep(i) PROVE HandoffInv'
    BY <1>4, PromptConfirmKeeps, PromptSendKeeps, PromptCancelKeeps DEF PromptStep
  <1>5. ASSUME NEW i \in Ids, ReviewStep(i) PROVE HandoffInv'
    BY <1>5, ReviewConfirmKeeps, ReviewCancelKeeps, ReviewDispatchKeeps, ReviewEndsKeeps
       DEF ReviewStep
  <1>6. ASSUME NEW i \in Ids, CommandStep(i) PROVE HandoffInv'
    BY <1>6, CommandKeeps
  <1>7. CASE CliStep
    BY <1>7, CliCreateKeeps, CliConfirmKeeps, CliDispatchKeeps, CliAnsweredKeeps,
       CliGivesUpKeeps DEF CliStep
  <1>8. CASE Restart
    BY <1>8, RestartKeeps
  <1>9. CASE UNCHANGED vars
    BY <1>9, StutterKeeps
  <1>10. CASE OtherPersists
    BY <1>10, OtherPersistsKeeps
  <1> QED
    BY <1>1, <1>2, <1>3, <1>4, <1>5, <1>6, <1>7, <1>8, <1>9, <1>10 DEF Next

-----------------------------------------------------------------------------
(* The theorems.                                                           *)

\* The inductive invariant holds in every reachable state.
THEOREM AlwaysHandoffInv == Spec => []HandoffInv
  BY InitInv, NextInv, PTL DEF Spec

\* The stores of inbound messages, pending prompts and reviews, their clients
\* and the snapshot keep their types.
THEOREM TypeCorrect == Spec => []HandoffTypeOK
  <1>1. HandoffInv => HandoffTypeOK
    BY DEF HandoffInv
  <1> QED
    BY <1>1, AlwaysHandoffInv, PTL

\* GET /bridge/inbound/next hands a message to at most one executor, whatever is
\* repeated, lost or restarted.
THEOREM EachReplyHandedOutOnce == Spec => []HandedOutOnce
  <1>1. HandoffInv => HandedOutOnce
    BY DEF HandoffInv, MessageInv, HandedIsClaimed, HandedOutOnce
  <1> QED
    BY <1>1, AlwaysHandoffInv, PTL

\* A reply from ChatGPT waits for the agent that sent the prompt it answers.
THEOREM RepliesToTheirAsker == Spec => []RepliesReachTheirAsker
  <1>1. HandoffInv => RepliesReachTheirAsker
    BY DEF HandoffInv, MessageInv
  <1> QED
    BY <1>1, AlwaysHandoffInv, PTL

\* The snapshot is behind memory in nothing but the failure of a prompt's
\* delivery: what a restart can undo is that, and no more.
THEOREM RestartLosesOnlyFailure == Spec => []OnlyFailureUnsaved
  <1>1. HandoffInv => OnlyFailureUnsaved
    BY DEF HandoffInv
  <1> QED
    BY <1>1, AlwaysHandoffInv, PTL

\* A pending prompt reaches its agent at most once, and only after an operator
\* confirmed it, also when a restart forgot the failure of a delivery.
THEOREM PromptsDeliveredOnce == Spec => []DeliveredOnceConfirmed
  <1>1. HandoffInv => DeliveredOnceConfirmed
    BY DEF HandoffInv, HandoffTypeOK, PromptAccounts, DeliveredOnceConfirmed
  <1> QED
    BY <1>1, AlwaysHandoffInv, PTL

\* A review's command is started at most once, and only for a confirmed review.
THEOREM ReviewsRunOnce == Spec => []ReviewRunsOnceConfirmed
  <1>1. HandoffInv => ReviewRunsOnceConfirmed
    BY DEF HandoffInv, ReviewInv, ReviewAccounts, ReviewRunsOnceConfirmed
  <1> QED
    BY <1>1, AlwaysHandoffInv, PTL

-----------------------------------------------------------------------------
(* What a returned review stands for.  A command belongs to the review that *)
(* was sent for it, and what the handler will believe of a command when it *)
(* goes on was so when the command exited, and stayed so since.            *)

\* The CLI has heard that its review returned.
CliHeardReturned == cli.pc = "succeeded" => reviews[cli.id].status = "returned"

\* A review that is not under way has no process left, nor a helper of one.
ProcessesOfSent ==
    \A i \in Ids :
        /\ started(processes[i]) => reviews[i].status = "sent"
        /\ ~started(processes[i]) => processes[i] = NoProcess

\* While its timer is armed and nothing is cut, exit 0 was in time.
InTimeIsTrusted == \A i \in Ids : commandOk(processes[i]) => i \in trusted

TrustInv == CliHeardReturned /\ ProcessesOfSent /\ InTimeIsTrusted /\ ReturnedIsTrusted

LEMMA TrustFrame ==
    ASSUME TrustInv, UNCHANGED <<reviews, processes, cli, trusted>>
    PROVE  TrustInv'
  BY DEF TrustInv, CliHeardReturned, ProcessesOfSent, InTimeIsTrusted, ReturnedIsTrusted

\* A review that is neither sent nor returned moves, and is not sent by that.
LEMMA TrustOfMoved ==
    ASSUME HandoffInv, TrustInv, UNCHANGED <<processes, trusted>>,
           NEW i \in Ids, NEW r \in Review, reviews' = [reviews EXCEPT ![i] = r],
           reviews[i].status \notin {"sent", "returned"}, r.status # "returned",
           cli' = cli \/ cli'.pc \in CliPcs \ {"succeeded"}
    PROVE  TrustInv'
  <1>1. \A j \in Ids : reviews'[j] = IF j = i THEN r ELSE reviews[j]
    BY DEF HandoffInv, HandoffTypeOK
  <1>2. ~started(processes[i])
    BY DEF TrustInv, ProcessesOfSent
  <1>3. ProcessesOfSent' /\ InTimeIsTrusted'
    BY <1>1, <1>2 DEF TrustInv, ProcessesOfSent, InTimeIsTrusted
  <1>4. CliHeardReturned'
    BY <1>1
    DEF TrustInv, CliHeardReturned, HandoffInv, ReviewInv, CliNamesReview
  <1>5. \A j \in Ids : reviews'[j].status = "returned" => j \in trusted'
    BY <1>1 DEF TrustInv, ReturnedIsTrusted
  <1>6. cli'.pc = "succeeded" => cli'.id \in trusted'
    BY DEF TrustInv, ReturnedIsTrusted
  <1> QED
    BY <1>3, <1>4, <1>5, <1>6 DEF TrustInv, ReturnedIsTrusted

LEMMA TrustOfDispatch ==
    ASSUME HandoffInv, TrustInv, NEW i \in Ids, DispatchReview(i), UNCHANGED trusted,
           cli' = cli \/ cli'.pc = "waiting"
    PROVE  TrustInv'
  <1>1. /\ \A j \in Ids : reviews'[j].status = IF j = i THEN "sent" ELSE reviews[j].status
        /\ reviews[i].status = "confirmed"
    BY DEF DispatchReview, canSendReview, sendReview, HandoffInv, HandoffTypeOK, Review
  <1>2. \A j \in Ids : processes'[j] = IF j = i THEN spawn ELSE processes[j]
    BY DEF DispatchReview, HandoffInv, HandoffTypeOK
  <1>3. spawn.child = "running" /\ spawn.helper = "none"
    BY DEF spawn, NoProcess
  <1>4. ProcessesOfSent' /\ InTimeIsTrusted'
    BY <1>1, <1>2, <1>3
    DEF TrustInv, ProcessesOfSent, InTimeIsTrusted, started, commandOk
  <1>5. CliHeardReturned' /\ ReturnedIsTrusted'
    BY <1>1
    DEF TrustInv, CliHeardReturned, ReturnedIsTrusted, HandoffInv, ReviewInv, CliNamesReview
  <1> QED
    BY <1>4, <1>5 DEF TrustInv

LEMMA TrustOfEnds ==
    ASSUME HandoffInv, TrustInv, NEW i \in Ids, ReviewEnds(i)
    PROVE  TrustInv'
  <1>1. /\ \A j \in Ids : processes'[j] = IF j = i THEN NoProcess ELSE processes[j]
        /\ UNCHANGED <<cli, trusted>>
        /\ reviews[i].status = "sent"
    BY DEF ReviewEnds, observed, HandoffInv, HandoffTypeOK, TrustInv, ProcessesOfSent
  <1>2. /\ \A j \in Ids : j # i => reviews'[j].status = reviews[j].status
        /\ reviews'[i].status = "returned" => commandOk(processes[i])
    BY <1>1
    DEF ReviewEnds, ReturnReview, returnResult, failReview, canFail, HandoffInv, HandoffTypeOK,
        Review
  <1>3. NoProcess.child = "none" /\ NoProcess.helper = "none"
    BY DEF NoProcess
  <1>4. ProcessesOfSent' /\ InTimeIsTrusted'
    BY <1>1, <1>2, <1>3
    DEF TrustInv, ProcessesOfSent, InTimeIsTrusted, started, commandOk
  <1>5. CliHeardReturned'
    BY <1>1, <1>2 DEF TrustInv, CliHeardReturned, HandoffInv, ReviewInv, CliNamesReview
  <1>6. ReturnedIsTrusted'
    BY <1>1, <1>2 DEF TrustInv, InTimeIsTrusted, ReturnedIsTrusted
  <1> QED
    BY <1>4, <1>5, <1>6 DEF TrustInv

\* The command exits, writes, forks, or meets its timers.
LEMMA CommandMoves ==
    ASSUME HandoffInv, TrustInv, NEW i \in Ids, CommandStep(i)
    PROVE  \E p \in Process :
             /\ ProcessStep(i, p)
             /\ started(processes[i]) /\ started(p)
             /\ trusted' \in {trusted, trusted \cup {i}, trusted \ {i}}
             /\ commandOk(p) => i \in trusted'
  <1> DEFINE q == processes[i]
  <1>1. /\ q \in Process
        /\ ~started(q) => q = NoProcess
        /\ commandOk(q) => i \in trusted
    BY DEF HandoffInv, HandoffTypeOK, TrustInv, ProcessesOfSent, InTimeIsTrusted
  <1> HIDE DEF q
  <1>2. ASSUME NEW p \in Process, ProcessStep(i, p), UNCHANGED trusted,
               started(q), started(p), commandOk(p) => commandOk(q)
        PROVE  /\ trusted' \in {trusted, trusted \cup {i}, trusted \ {i}}
               /\ commandOk(p) => i \in trusted'
    BY <1>1, <1>2
  <1>3. CASE Fork(i)
    <2>1. PICK helper \in Helper : ProcessStep(i, [q EXCEPT !.helper = helper])
      BY <1>3 DEF Fork, q
    <2> DEFINE p == [q EXCEPT !.helper = helper]
    <2>2. /\ p \in Process /\ started(q) /\ started(p)
          /\ commandOk(p) => commandOk(q)
      BY <1>1, <1>3 DEF Fork, canFork, started, commandOk, timedOut, Process, Helper, q
    <2>3. UNCHANGED trusted
      BY <1>3 DEF Fork
    <2> QED
      BY <1>2, <2>1, <2>2, <2>3 DEF q
  <1>4. CASE HelperExits(i)
    <2> DEFINE p == [q EXCEPT !.helper = "none"]
    <2>1. q.helper # "none" /\ ProcessStep(i, p) /\ UNCHANGED trusted
      BY <1>4 DEF HelperExits, q
    <2>2. /\ p \in Process /\ started(q) /\ started(p)
          /\ commandOk(p) => commandOk(q)
      BY <1>1, <2>1 DEF started, commandOk, timedOut, Process, Helper, NoProcess
    <2> QED
      BY <1>2, <2>1, <2>2 DEF q
  <1>5. CASE Timeout(i)
    <2>1. started(q) /\ ProcessStep(i, timeout(q)) /\ UNCHANGED trusted
      BY <1>5 DEF Timeout, q
    <2>2. /\ timeout(q) \in Process /\ started(timeout(q))
          /\ ~commandOk(timeout(q))
      BY <1>1, <2>1 DEF started, timeout, commandOk, timedOut, Process
    <2> QED
      BY <1>2, <2>1, <2>2 DEF q
  <1>6. CASE Escalate(i)
    <2>1. q.timer = "termed" /\ ProcessStep(i, escalation(q)) /\ UNCHANGED trusted
      BY <1>6 DEF Escalate, q
    <2>2. escalation(q) \in Process
      BY <1>1, ProcessFacts
    <2>3. started(q) /\ ~commandOk(escalation(q))
      BY <1>1, <2>1 DEF escalation, commandOk, timedOut, Process, NoProcess
    <2>4. started(escalation(q))
      BY <1>1, <2>3 DEF started, escalation, Process
    <2> QED
      BY <1>2, <2>1, <2>2, <2>3, <2>4 DEF q
  <1>7. CASE Overflow(i)
    <2>1. canWrite(q) /\ ProcessStep(i, overflow(q)) /\ trusted' = trusted \ {i}
      BY <1>7 DEF Overflow, q
    <2>2. started(q)
      BY <1>1, <2>1 DEF canWrite, started, NoProcess
    <2>3. /\ overflow(q) \in Process
          /\ overflow(q).child = q.child
          /\ overflow(q).truncated
      BY <1>1 DEF overflow, Process
    <2>4. started(overflow(q)) /\ ~commandOk(overflow(q))
      BY <2>2, <2>3 DEF started, commandOk
    <2> QED
      BY <2>1, <2>2, <2>3, <2>4 DEF q
  <1>8. CASE ChildExits(i)
    <2>1. PICK code \in {"exit0", "exited"} :
            /\ ProcessStep(i, [q EXCEPT !.child = code])
            /\ trusted' = IF code = "exit0" /\ q.timer = "armed" /\ ~q.truncated
                            THEN trusted \cup {i} ELSE trusted
      BY <1>8 DEF ChildExits, q
    <2> DEFINE p == [q EXCEPT !.child = code]
    <2>2. /\ p \in Process /\ started(q) /\ started(p)
          /\ commandOk(p) => i \in trusted'
      BY <1>1, <1>8, <2>1 DEF ChildExits, started, commandOk, timedOut, Process, q
    <2> QED
      BY <2>1, <2>2 DEF q
  <1> QED
    BY <1>3, <1>4, <1>5, <1>6, <1>7, <1>8 DEF CommandStep

LEMMA TrustOfCommand ==
    ASSUME HandoffInv, TrustInv, NEW i \in Ids, CommandStep(i)
    PROVE  TrustInv'
  <1>1. PICK p \in Process :
          /\ ProcessStep(i, p)
          /\ started(processes[i]) /\ started(p)
          /\ trusted' \in {trusted, trusted \cup {i}, trusted \ {i}}
          /\ commandOk(p) => i \in trusted'
    BY CommandMoves
  <1>2. /\ UNCHANGED <<reviews, cli>>
        /\ \A j \in Ids : processes'[j] = IF j = i THEN p ELSE processes[j]
    BY <1>1 DEF ProcessStep, HandoffInv, HandoffTypeOK
  <1>3. reviews[i].status = "sent"
    BY <1>1 DEF TrustInv, ProcessesOfSent
  <1>4. ProcessesOfSent' /\ InTimeIsTrusted'
    BY <1>1, <1>2, <1>3 DEF TrustInv, ProcessesOfSent, InTimeIsTrusted
  <1>5. CliHeardReturned' /\ ReturnedIsTrusted'
    BY <1>1, <1>2, <1>3
    DEF TrustInv, CliHeardReturned, ReturnedIsTrusted, HandoffInv, ReviewInv, CliNamesReview
  <1> QED
    BY <1>4, <1>5 DEF TrustInv

LEMMA TrustOfReview ==
    ASSUME HandoffInv, TrustInv,
           \/ ReviewCreate
           \/ \E i \in Ids : ReviewConfirm(i) \/ ReviewCancel(i) \/ ReviewDispatch(i)
           \/ CliCreate \/ CliConfirm \/ CliDispatch
    PROVE  TrustInv'
  <1> USE DEF HandoffInv
  <1>1. CASE ReviewCreate \/ CliCreate
    <2>1. CanCreate /\ reviews' = [reviews EXCEPT ![NextId] = createReview]
      BY <1>1 DEF ReviewCreate, CliCreate, AddReview
    <2>2. reviews[NextId].status = "absent" /\ NextId \in Ids
      BY <2>1, NextIdFacts
    <2>3. UNCHANGED <<processes, trusted>> /\ (cli' = cli \/ cli'.pc = "confirm")
      BY <1>1 DEF ReviewCreate, CliCreate, CliTo, observed
    <2> QED
      BY <2>1, <2>2, <2>3, ReviewFacts, TrustOfMoved DEF CliPcs
  <1>2. ASSUME NEW i \in Ids, ConfirmReview(i), UNCHANGED <<processes, trusted>>,
               cli' = cli \/ cli'.pc = "dispatch"
        PROVE  TrustInv'
    <2>1. /\ confirmReview(reviews[i]) \in Review
          /\ confirmReview(reviews[i]).status = "confirmed"
          /\ reviews[i].status = "previewed"
          /\ reviews' = [reviews EXCEPT ![i] = confirmReview(reviews[i])]
      BY <1>2
      DEF ConfirmReview, canConfirmReview, confirmReview, HandoffTypeOK, Review, ReviewStatus
    <2> QED
      BY <1>2, <2>1, TrustOfMoved DEF CliPcs
  <1>3. ASSUME NEW i \in Ids, ReviewCancel(i)
        PROVE  TrustInv'
    <2>1. /\ cancelReview(reviews[i]) \in Review
          /\ cancelReview(reviews[i]).status = "cancelled"
          /\ reviews[i].status \in {"previewed", "confirmed"}
          /\ reviews' = [reviews EXCEPT ![i] = cancelReview(reviews[i])]
          /\ UNCHANGED <<processes, trusted, cli>>
      BY <1>3
      DEF ReviewCancel, canCancelReview, cancelReview, HandoffTypeOK, Review, ReviewStatus,
          observed
    <2> QED
      BY <2>1, TrustOfMoved
  <1>4. ASSUME NEW i \in Ids, ReviewConfirm(i) \/ ReviewDispatch(i)
        PROVE  TrustInv'
    BY <1>2, <1>4, TrustOfDispatch DEF ReviewConfirm, ReviewDispatch
  <1>5. CASE CliConfirm \/ CliDispatch
    <2>1. cli.id \in Ids
      BY <1>5 DEF CliConfirm, CliDispatch, ReviewInv, CliNamesReview
    <2> QED
      BY <1>2, <1>5, <2>1, TrustOfDispatch DEF CliConfirm, CliDispatch, CliTo, cliObserved
  <1> QED
    BY <1>1, <1>3, <1>4, <1>5

LEMMA TrustKept ==
    ASSUME HandoffInv, TrustInv, [Next]_vars
    PROVE  TrustInv'
  <1>1. CASE ReplyStep \/ PromptCreate \/ OtherPersists \/ UNCHANGED vars
    BY <1>1, TrustFrame
    DEF ReplyStep, Deliver, ExtractReturnRouted, ExtractReturnFallback, InboundCreate,
        AddMessage, AddPrompt, PromptCreate, OtherPersists, observed, vars
  <1>2. ASSUME NEW e \in InboundAgents, ExecutorStep(e)
        PROVE  TrustInv'
    BY <1>2, TrustFrame DEF ExecutorStep, InboundNext, InboundAck, InboundCancel, observed
  <1>3. ASSUME NEW i \in Ids, PromptStep(i)
        PROVE  TrustInv'
    BY <1>3, TrustFrame DEF PromptStep, PromptConfirm, PromptSend, PromptCancel, observed
  <1>4. ASSUME NEW i \in Ids, ReviewStep(i)
        PROVE  TrustInv'
    BY <1>4, TrustOfReview, TrustOfEnds DEF ReviewStep
  <1>5. ASSUME NEW i \in Ids, CommandStep(i)
        PROVE  TrustInv'
    BY <1>5, TrustOfCommand
  <1>6. CASE CliAnswered \/ CliGivesUp
    <2>1. /\ UNCHANGED <<reviews, processes, trusted>>
          /\ \/ cli'.pc = "idle"
             \/ /\ cli' = [pc |-> "succeeded", id |-> cli.id]
                /\ cli.id \in Ids
                /\ reviews[cli.id].status = "returned"
      BY <1>6
      DEF CliAnswered, CliGivesUp, CliTo, storeVars, observed, HandoffInv, ReviewInv,
          CliNamesReview
    <2> QED
      BY <2>1
      DEF TrustInv, CliHeardReturned, ProcessesOfSent, InTimeIsTrusted, ReturnedIsTrusted
  <1>7. CASE CliStep
    BY <1>6, <1>7, TrustOfReview DEF CliStep
  <1>8. CASE Restart
    <2>1. /\ \A i \in Ids : /\ processes'[i] = NoProcess
                             /\ processes'[i].child = "none"
                             /\ reviews'[i].status = "absent"
          /\ cli'.pc = "idle"
      BY <1>8 DEF Restart, CliTo, NoProcess, AbsentReview
    <2> QED
      BY <2>1
      DEF TrustInv, CliHeardReturned, ProcessesOfSent, InTimeIsTrusted, ReturnedIsTrusted,
          started, commandOk
  <1> QED
    BY <1>1, <1>2, <1>3, <1>4, <1>5, <1>7, <1>8, TrustOfReview DEF Next

\* A review returned, and a CLI that reports success, stand for a command that
\* exited with 0 before its timeout fired and whose output was never cut,
\* whatever it, its helpers and its timers did until the handler went on.
THEOREM ReturnedReviewsTrusted == Spec => []ReturnedIsTrusted
  <1>1. Init => TrustInv
    BY DEF Init, AbsentReview, NoProcess, started, commandOk, TrustInv, CliHeardReturned,
           ProcessesOfSent, InTimeIsTrusted, ReturnedIsTrusted
  <1>2. TrustInv => ReturnedIsTrusted
    BY DEF TrustInv
  <1> QED
    BY <1>1, <1>2, TrustKept, AlwaysHandoffInv, PTL DEF Spec

-----------------------------------------------------------------------------
(* Prompts and reviews implement the operator's gate.                      *)

\* An id belongs to one store only, and one that was confirmed is past its
\* draft: a restart brings no draft back.
GateInv ==
    \A i \in Ids :
        /\ prompts[i].status # "absent" =>
             messages[i].status = "absent" /\ reviews[i].status = "absent" /\ runs[i] = 0
        /\ messages[i].status # "absent" => reviews[i].status = "absent" /\ runs[i] = 0
        /\ i \in confirmed => prompts[i].status # "draft" /\ reviews[i].status # "previewed"

\* What a step does to one record.  Nothing the gate sees:
Quiet(i) ==
    /\ i \in confirmed' <=> i \in confirmed
    /\ delivered'[i] = delivered[i] /\ runs'[i] = runs[i]

SameMessage(i) == messages'[i].status = "absent" <=> messages[i].status = "absent"

SamePrompt(i) == prompts'[i].status = prompts[i].status

SameReview(i) == reviews'[i].status = reviews[i].status

SameAge(i) == i <= created' <=> i <= created

Unmoved(i) == SameAge(i) /\ SameMessage(i) /\ SamePrompt(i) /\ SameReview(i) /\ Quiet(i)

\* It is made, as one of three.
Made(i) ==
    /\ i > created /\ i <= created' /\ Quiet(i)
    /\ \/ messages'[i].status # "absent" /\ SamePrompt(i) /\ SameReview(i)
       \/ prompts'[i].status = "draft" /\ SameMessage(i) /\ SameReview(i)
       \/ reviews'[i].status = "previewed" /\ SameMessage(i) /\ SamePrompt(i)

\* It is a prompt that is confirmed, sent, not sent, or cancelled.
PromptMoves(i) ==
    /\ SameAge(i) /\ SameMessage(i) /\ SameReview(i) /\ runs'[i] = runs[i]
    /\ \/ /\ prompts[i].status \in {"draft", "confirmed", "failed"}
          /\ prompts'[i].status = "confirmed"
          /\ i \in confirmed' /\ delivered'[i] = delivered[i]
       \/ /\ prompts[i].status = "confirmed" /\ prompts'[i].status = "sent"
          /\ (i \in confirmed' <=> i \in confirmed) /\ delivered'[i] = delivered[i] + 1
       \/ prompts[i].status = "confirmed" /\ prompts'[i].status = "failed" /\ Quiet(i)
       \/ prompts[i].status # "absent" /\ prompts'[i].status = "cancelled" /\ Quiet(i)

\* It is a review that is confirmed, run, or over.
ReviewMoves(i) ==
    /\ SameAge(i) /\ SameMessage(i) /\ SamePrompt(i) /\ delivered'[i] = delivered[i]
    /\ \/ /\ reviews[i].status = "previewed" /\ reviews'[i].status = "confirmed"
          /\ i \in confirmed' /\ runs'[i] = runs[i]
       \/ /\ reviews[i].status = "confirmed" /\ reviews'[i].status = "sent"
          /\ (i \in confirmed' <=> i \in confirmed) /\ runs'[i] = runs[i] + 1
       \/ /\ reviews[i].status # "absent"
          /\ reviews'[i].status \in {"returned", "failed", "cancelled"} /\ Quiet(i)

\* A restart brings it back: a review not at all.
ComesBack(i) ==
    /\ SameAge(i) /\ SameMessage(i) /\ Quiet(i)
    /\ reviews'[i].status = "absent"
    /\ \/ SamePrompt(i)
       \/ prompts[i].status = "failed" /\ prompts'[i].status = "confirmed"

RecordMoves(i) ==
    Unmoved(i) \/ Made(i) \/ PromptMoves(i) \/ ReviewMoves(i) \/ ComesBack(i)

\* Every handler makes each record do one of these.  First the two that make a
\* prompt or a review:
LEMMA MadePrompt ==
    ASSUME HandoffInv, NEW i \in Ids, NEW t \in {"managed-pty", "clipboard"}, AddPrompt(t),
           UNCHANGED <<messages, reviews, confirmed, delivered, runs>>
    PROVE  RecordMoves(i)
  <1>1. CanCreate
    BY DEF AddPrompt
  <1>2. /\ prompts \in [Ids -> PendingPrompt] /\ created \in 0..MaxRecords
        /\ created' = NextId
        /\ prompts' = [prompts EXCEPT ![NextId] = createPendingPrompt(t)]
        /\ createPendingPrompt(t).status = "draft"
    BY PendingFacts DEF AddPrompt, HandoffInv, HandoffTypeOK
  <1>3. CASE i = NextId
    BY <1>1, <1>2, <1>3, NextIdFacts
    DEF RecordMoves, Made, SameMessage, SameReview, Quiet
  <1>4. CASE i # NextId
    <2>1. prompts'[i] = prompts[i] /\ (i <= created' <=> i <= created)
      BY <1>2, <1>4 DEF Ids, NextId
    <2> QED
      BY <2>1 DEF RecordMoves, Unmoved, SameAge, SameMessage, SamePrompt, SameReview, Quiet
  <1> QED
    BY <1>3, <1>4

LEMMA MadeReview ==
    ASSUME HandoffInv, NEW i \in Ids, AddReview,
           UNCHANGED <<messages, prompts, confirmed, delivered, runs>>
    PROVE  RecordMoves(i)
  <1>1. CanCreate
    BY DEF AddReview
  <1>2. /\ reviews \in [Ids -> Review] /\ created \in 0..MaxRecords
        /\ created' = NextId
        /\ reviews' = [reviews EXCEPT ![NextId] = createReview]
        /\ createReview.status = "previewed"
    BY ReviewFacts DEF AddReview, HandoffInv, HandoffTypeOK
  <1>3. CASE i = NextId
    BY <1>1, <1>2, <1>3, NextIdFacts
    DEF RecordMoves, Made, SameMessage, SamePrompt, Quiet
  <1>4. CASE i # NextId
    <2>1. reviews'[i] = reviews[i] /\ (i <= created' <=> i <= created)
      BY <1>2, <1>4 DEF Ids, NextId
    <2> QED
      BY <2>1 DEF RecordMoves, Unmoved, SameAge, SameMessage, SamePrompt, SameReview, Quiet
  <1> QED
    BY <1>3, <1>4

\* The replies and their executors:
LEMMA MessageStays ==
    ASSUME HandoffTypeOK, NEW m \in Ids, NEW i \in Ids, messages[m].status # "absent",
           NEW s \in InboundStatus \ {"absent"},
           messages' = [messages EXCEPT ![m].status = s]
    PROVE  SameMessage(i)
  <1>1. messages'[i].status = IF i = m THEN s ELSE messages[i].status
    BY MessageSet
  <1> QED
    BY <1>1 DEF SameMessage

LEMMA MessagesMove ==
    ASSUME HandoffInv, NEW i \in Ids,
           \/ ReplyStep
           \/ \E e \in InboundAgents : ExecutorStep(e)
    PROVE  RecordMoves(i)
  <1>1. CASE \E o \in Operations : Deliver(o)
    BY <1>1 DEF Deliver, RecordMoves, Unmoved, SameAge, SameMessage, SamePrompt, SameReview, Quiet
  <1>2. ASSUME NEW e \in InboundAgents, NEW source \in Operations \cup {NoOperation},
               AddMessage(e, source), UNCHANGED <<prompts, reviews, confirmed, delivered, runs>>
        PROVE  RecordMoves(i)
    <2>1. CanCreate
      BY <1>2 DEF AddMessage
    <2>2. /\ messages \in [Ids -> InboundMessage] /\ created \in 0..MaxRecords
          /\ created' = NextId
          /\ messages' = [messages EXCEPT ![NextId] = createMessage(e, source)]
          /\ createMessage(e, source).status = "queued"
      BY <1>2, MessageFacts DEF AddMessage, HandoffInv, HandoffTypeOK
    <2>3. CASE i = NextId
      BY <1>2, <2>1, <2>2, <2>3, NextIdFacts
      DEF RecordMoves, Made, SamePrompt, SameReview, Quiet
    <2>4. CASE i # NextId
      <3>1. messages'[i] = messages[i] /\ (i <= created' <=> i <= created)
        BY <2>2, <2>4 DEF Ids, NextId
      <3> QED
        BY <1>2, <3>1 DEF RecordMoves, Unmoved, SameAge, SameMessage, SamePrompt, SameReview, Quiet
    <2> QED
      BY <2>3, <2>4
  <1>3. CASE \E o \in Operations : ExtractReturnRouted(o)
    <2>1. PICK o \in Operations : ExtractReturnRouted(o)
      BY <1>3
    <2>2. endpointOf(context) \in InboundAgents
      BY <2>1, HandoffAssumption DEF ExtractReturnRouted, endpointOf
    <2> QED
      BY <1>2, <2>1, <2>2 DEF ExtractReturnRouted
  <1>4. CASE \E source \in Operations \cup {NoOperation} : InboundCreate(source)
    <2>1. PICK source \in Operations \cup {NoOperation} : InboundCreate(source)
      BY <1>4
    <2>2. endpointOf(context) \in InboundAgents
      BY <2>1, HandoffAssumption
      DEF InboundCreate, endpointOf, HandoffInv, HandoffTypeOK, Context
    <2> QED
      BY <1>2, <2>1, <2>2 DEF InboundCreate, observed
  <1>5. CASE ExtractReturnFallback
    BY <1>5, MadePrompt DEF ExtractReturnFallback, observed
  <1>6. ASSUME NEW e \in InboundAgents, ExecutorStep(e)
        PROVE  RecordMoves(i)
    <2>1. \E m \in Ids, status \in InboundStatus \ {"absent"} :
            /\ messages[m].status # "absent"
            /\ messages' = [messages EXCEPT ![m].status = status]
      <3>1. CASE InboundNext(e)
        BY <3>1, OldestIsQueued DEF InboundNext, claimNextMessage, InboundStatus
      <3>2. ASSUME NEW m \in Ids, InboundAck(e, m) \/ InboundCancel(e, m)
            PROVE  /\ messages[m].status # "absent"
                   /\ \E status \in InboundStatus \ {"absent"} :
                        messages' = [messages EXCEPT ![m].status = status]
        BY <3>2
        DEF InboundAck, InboundCancel, ackMessage, cancelMessage, resolves, TerminalInbound,
            InboundStatus
      <3> QED
        BY <1>6, <3>1, <3>2 DEF ExecutorStep
    <2>2. UNCHANGED <<created, prompts, reviews, confirmed, delivered, runs>>
      BY <1>6 DEF ExecutorStep, InboundNext, InboundAck, InboundCancel, observed
    <2>3. SameMessage(i)
      BY <2>1, MessageStays DEF HandoffInv
    <2> QED
      BY <2>2, <2>3 DEF RecordMoves, Unmoved, SameAge, SamePrompt, SameReview, Quiet
  <1> QED
    BY <1>1, <1>3, <1>4, <1>5, <1>6 DEF ReplyStep

LEMMA PromptsMove ==
    ASSUME HandoffInv, NEW i \in Ids, NEW j \in Ids, PromptStep(j)
    PROVE  RecordMoves(i)
  <1>1. /\ UNCHANGED <<created, messages, reviews, runs>>
        /\ \E s \in PendingPromptStatus : prompts' = [prompts EXCEPT ![j].status = s]
    BY DEF PromptStep, PromptConfirm, PromptSend, PromptCancel, confirmPrompt, sentPrompt,
           cancelPrompt, observed, PendingPromptStatus
  <1>2. /\ i # j => prompts'[i] = prompts[i] /\ Quiet(i)
        /\ SameAge(i) /\ SameMessage(i) /\ SameReview(i) /\ runs'[i] = runs[i]
    <2>1. i # j => prompts'[i] = prompts[i]
      BY <1>1 DEF HandoffInv, HandoffTypeOK
    <2>2. i # j => Quiet(i)
      <3>1. /\ confirmed' = confirmed \/ confirmed' = confirmed \cup {j}
            /\ delivered' = delivered \/ delivered' = [delivered EXCEPT ![j] = @ + 1]
        BY DEF PromptStep, PromptConfirm, PromptSend, PromptCancel, observed
      <3> QED
        BY <1>1, <3>1 DEF Quiet, HandoffInv, HandoffTypeOK
    <2> QED
      BY <1>1, <2>1, <2>2 DEF SameAge, SameMessage, SameReview
  <1>3. CASE i # j
    BY <1>2, <1>3 DEF RecordMoves, Unmoved, SamePrompt
  <1>4. ASSUME NEW s \in PendingPromptStatus, prompts' = [prompts EXCEPT ![j].status = s]
        PROVE  prompts'[j].status = s
    <2>1. HandoffTypeOK
      BY DEF HandoffInv
    <2>2. \A k \in Ids : prompts'[k].status = IF k = j THEN s ELSE prompts[k].status
      BY <1>4, <2>1, PromptSet
    <2> QED
      BY <2>2
  <1>5. CASE i = j /\ PromptConfirm(j)
    <2>1. /\ prompts[j].status \in {"draft", "confirmed", "failed"}
          /\ prompts' = [prompts EXCEPT ![j].status = "confirmed"]
          /\ j \in confirmed' /\ delivered' = delivered
      BY <1>5 DEF PromptConfirm, canConfirmPrompt, confirmPrompt, HandoffInv, HandoffTypeOK,
         PendingPrompt, PendingPromptStatus
    <2>2. prompts'[j].status = "confirmed"
      BY <2>1, <1>4 DEF PendingPromptStatus
    <2> QED
      BY <1>2, <1>5, <2>1, <2>2 DEF RecordMoves, PromptMoves
  <1>6. CASE i = j /\ PromptSend(j)
    <2>1. prompts[j].status = "confirmed" /\ confirmed' = confirmed /\ runs' = runs
      BY <1>6 DEF PromptSend, canSendPrompt
    <2>2. CASE /\ prompts' = [prompts EXCEPT ![j].status = "sent"]
               /\ delivered' = [delivered EXCEPT ![j] = @ + 1]
      <3>1. prompts'[j].status = "sent" /\ delivered'[j] = delivered[j] + 1
        BY <1>4, <2>2 DEF PendingPromptStatus, HandoffInv, HandoffTypeOK
      <3> QED
        BY <1>2, <1>6, <2>1, <3>1 DEF RecordMoves, PromptMoves
    <2>3. CASE /\ prompts' = [prompts EXCEPT ![j].status = "failed"]
               /\ delivered' = delivered
      <3>1. prompts'[j].status = "failed"
        BY <1>4, <2>3 DEF PendingPromptStatus
      <3> QED
        BY <1>2, <1>6, <2>1, <2>3, <3>1 DEF RecordMoves, PromptMoves, Quiet
    <2> QED
      BY <1>6, <2>2, <2>3 DEF PromptSend, sentPrompt
  <1>7. CASE i = j /\ PromptCancel(j)
    <2>1. /\ prompts[j].status # "absent"
          /\ prompts' = [prompts EXCEPT ![j].status = "cancelled"]
          /\ UNCHANGED <<confirmed, delivered, runs>>
      BY <1>7 DEF PromptCancel, canCancelPrompt, cancelPrompt, observed
    <2>2. prompts'[j].status = "cancelled"
      BY <1>4, <2>1 DEF PendingPromptStatus
    <2> QED
      BY <1>2, <1>7, <2>1, <2>2 DEF RecordMoves, PromptMoves, Quiet
  <1> QED
    BY <1>3, <1>5, <1>6, <1>7 DEF PromptStep

\* The reviews, whoever calls.
LEMMA ReviewSetMoves ==
    ASSUME HandoffInv, NEW i \in Ids, NEW j \in Ids,
           UNCHANGED <<created, messages, prompts, delivered>>,
           \/ /\ ConfirmReview(j) /\ runs' = runs
           \/ /\ DispatchReview(j) /\ confirmed' = confirmed
           \/ /\ reviews[j].status # "absent"
              /\ \E s \in {"returned", "failed", "cancelled"} :
                     reviews' = [reviews EXCEPT ![j].status = s]
              /\ UNCHANGED <<confirmed, runs>>
    PROVE  RecordMoves(i)
  <1>1. SameAge(i) /\ SameMessage(i) /\ SamePrompt(i) /\ delivered'[i] = delivered[i]
    BY DEF SameAge, SameMessage, SamePrompt
  <1>2. CASE ConfirmReview(j) /\ runs' = runs
    <2>1. /\ reviews[j].status = "previewed"
          /\ reviews' = [reviews EXCEPT ![j].status = "confirmed"]
          /\ confirmed' = confirmed \cup {j}
      BY <1>2 DEF ConfirmReview, canConfirmReview, confirmReview
    <2>2. reviews'[i].status = IF i = j THEN "confirmed" ELSE reviews[i].status
      BY <2>1, ReviewSet DEF HandoffInv, ReviewStatus
    <2> QED
      BY <1>1, <1>2, <2>1, <2>2 DEF RecordMoves, ReviewMoves, Unmoved, SameReview, Quiet
  <1>3. CASE DispatchReview(j) /\ confirmed' = confirmed
    <2>1. /\ reviews[j].status = "confirmed"
          /\ reviews' = [reviews EXCEPT ![j].status = "sent"]
          /\ runs' = [runs EXCEPT ![j] = @ + 1]
      BY <1>3 DEF DispatchReview, canSendReview, sendReview
    <2>2. reviews'[i].status = IF i = j THEN "sent" ELSE reviews[i].status
      BY <2>1, ReviewSet DEF HandoffInv, ReviewStatus
    <2>3. runs'[i] = IF i = j THEN runs[i] + 1 ELSE runs[i]
      BY <2>1 DEF HandoffInv, HandoffTypeOK
    <2> QED
      BY <1>1, <1>3, <2>1, <2>2, <2>3 DEF RecordMoves, ReviewMoves, Unmoved, SameReview, Quiet
  <1>4. CASE /\ reviews[j].status # "absent"
             /\ \E s \in {"returned", "failed", "cancelled"} :
                    reviews' = [reviews EXCEPT ![j].status = s]
             /\ UNCHANGED <<confirmed, runs>>
    <2>1. PICK s \in {"returned", "failed", "cancelled"} :
                    reviews' = [reviews EXCEPT ![j].status = s]
      BY <1>4
    <2>2. reviews'[i].status = IF i = j THEN s ELSE reviews[i].status
      BY <2>1, ReviewSet DEF HandoffInv, ReviewStatus
    <2> QED
      BY <1>1, <1>4, <2>2 DEF RecordMoves, ReviewMoves, Unmoved, SameReview, Quiet
  <1> QED
    BY <1>2, <1>3, <1>4

LEMMA ReviewsMove ==
    ASSUME HandoffInv, NEW i \in Ids,
           \/ \E j \in Ids : ReviewStep(j) \/ CommandStep(j)
           \/ CliStep
    PROVE  RecordMoves(i)
  <1>1. ASSUME NEW j \in Ids, ReviewConfirm(j) \/ ReviewCancel(j) \/ ReviewDispatch(j)
        PROVE  RecordMoves(i)
    BY <1>1, ReviewSetMoves
    DEF ReviewConfirm, ReviewCancel, ReviewDispatch, canCancelReview, cancelReview, reviewsSaved,
        observed
  <1>2. ASSUME NEW j \in Ids, ReviewEnds(j)
        PROVE  RecordMoves(i)
    <2>1. UNCHANGED <<messages, confirmed, delivered, runs>>
      BY <1>2 DEF ReviewEnds, observed
    <2>2. \/ UNCHANGED <<created, prompts, reviews>>
          \/ /\ reviews[j].status # "absent"
             /\ \E s \in {"returned", "failed"} : reviews' = [reviews EXCEPT ![j].status = s]
             /\ UNCHANGED <<prompts, created>> \/ AddPrompt("managed-pty")
      BY <1>2
      DEF ReviewEnds, ReturnReview, canReturnResult, returnResult, failReview, canFail,
          HandoffInv, HandoffTypeOK, Review
    <2>3. CASE UNCHANGED <<created, prompts, reviews>>
      BY <2>1, <2>3
      DEF RecordMoves, Unmoved, SameAge, SameMessage, SamePrompt, SameReview, Quiet
    <2>4. CASE /\ reviews[j].status # "absent"
               /\ \E s \in {"returned", "failed"} : reviews' = [reviews EXCEPT ![j].status = s]
               /\ UNCHANGED <<prompts, created>>
      BY <2>1, <2>4, ReviewSetMoves
    <2>5. CASE /\ reviews[j].status # "absent"
               /\ \E s \in {"returned", "failed"} : reviews' = [reviews EXCEPT ![j].status = s]
               /\ AddPrompt("managed-pty")
      <3>1. PICK s \in {"returned", "failed"} : reviews' = [reviews EXCEPT ![j].status = s]
        BY <2>5
      <3>2. reviews'[i].status = IF i = j THEN s ELSE reviews[i].status
        BY <3>1, ReviewSet DEF HandoffInv, ReviewStatus
      <3>3. /\ CanCreate /\ created' = NextId /\ prompts \in [Ids -> PendingPrompt]
            /\ created \in 0..MaxRecords
            /\ prompts' = [prompts EXCEPT ![NextId] = createPendingPrompt("managed-pty")]
            /\ createPendingPrompt("managed-pty").status = "draft"
        BY <2>5, PendingFacts DEF AddPrompt, HandoffInv, HandoffTypeOK
      <3>4. i # NextId => prompts'[i] = prompts[i] /\ (i <= created' <=> i <= created)
        BY <3>3 DEF NextId, Ids
      <3>5. CASE i = NextId
        <4>1. i # j
          BY <2>5, <3>3, <3>5, NextIdFacts
        <4> QED
          BY <2>1, <3>2, <3>3, <3>5, <4>1, NextIdFacts
          DEF RecordMoves, Made, SameMessage, SameReview, Quiet
      <3>6. CASE i # NextId /\ i # j
        BY <2>1, <3>2, <3>4, <3>6
        DEF RecordMoves, Unmoved, SameAge, SameMessage, SamePrompt, SameReview, Quiet
      <3>7. CASE i # NextId /\ i = j
        BY <2>1, <2>5, <3>2, <3>4, <3>7
        DEF RecordMoves, ReviewMoves, SameAge, SameMessage, SamePrompt, Quiet
      <3> QED
        BY <3>5, <3>6, <3>7
    <2> QED
      BY <2>2, <2>3, <2>4, <2>5
  <1>3. ASSUME NEW j \in Ids, CommandStep(j)
        PROVE  RecordMoves(i)
    <2>1. UNCHANGED <<created, messages, prompts, reviews, confirmed, delivered, runs>>
      BY <1>3
      DEF CommandStep, Fork, Overflow, ChildExits, HelperExits, Timeout, Escalate, ProcessStep,
          observed
    <2> QED
      BY <2>1 DEF RecordMoves, Unmoved, SameAge, SameMessage, SamePrompt, SameReview, Quiet
  <1>4. CASE CliCreate
    BY <1>4, MadeReview DEF CliCreate, reviewsSaved, observed
  <1>5. CASE CliConfirm \/ CliDispatch
    <2>1. cli.id \in Ids
      BY <1>5 DEF CliConfirm, CliDispatch, HandoffInv, ReviewInv, CliNamesReview
    <2> QED
      BY <1>5, <2>1, ReviewSetMoves DEF CliConfirm, CliDispatch, reviewsSaved, cliObserved
  <1>6. CASE CliAnswered \/ CliGivesUp
    BY <1>6
    DEF CliAnswered, CliGivesUp, storeVars, observed, RecordMoves, Unmoved, SameAge, SameMessage,
        SamePrompt, SameReview, Quiet
  <1> QED
    BY <1>1, <1>2, <1>3, <1>4, <1>5, <1>6 DEF ReviewStep, CliStep

LEMMA RestartMoves ==
    ASSUME HandoffInv, NEW i \in Ids, Restart
    PROVE  RecordMoves(i)
  <1>1. /\ messages' = messages
        /\ \/ prompts'[i] = prompts[i]
           \/ prompts[i].status = "failed" /\ prompts'[i].status = "confirmed"
    BY DEF Restart, HandoffInv, OnlyFailureUnsaved, HandoffTypeOK, Snapshot, PendingPrompt
  <1>2. reviews'[i].status = "absent" /\ SameAge(i) /\ Quiet(i)
    BY DEF Restart, AbsentReview, SameAge, Quiet, observed
  <1> QED
    BY <1>1, <1>2 DEF RecordMoves, ComesBack, SameMessage, SamePrompt

LEMMA EachRecordMoves ==
    ASSUME HandoffInv, [Next]_vars, NEW i \in Ids
    PROVE  RecordMoves(i)
  <1>1. CASE ReplyStep \/ \E e \in InboundAgents : ExecutorStep(e)
    BY <1>1, MessagesMove
  <1>2. CASE PromptCreate
    BY <1>2, MadePrompt DEF PromptCreate, observed
  <1>3. CASE ReviewCreate
    BY <1>3, MadeReview DEF ReviewCreate, reviewsSaved, observed
  <1>4. CASE \E j \in Ids : PromptStep(j)
    BY <1>4, PromptsMove
  <1>5. CASE (\E j \in Ids : ReviewStep(j) \/ CommandStep(j)) \/ CliStep
    BY <1>5, ReviewsMove
  <1>6. CASE Restart
    BY <1>6, RestartMoves
  <1>7. CASE OtherPersists \/ UNCHANGED vars
    BY <1>7
    DEF OtherPersists, observed, vars, RecordMoves, Unmoved, SameAge, SameMessage, SamePrompt, SameReview, Quiet
  <1> QED
    BY <1>1, <1>2, <1>3, <1>4, <1>5, <1>6, <1>7 DEF Next

LEMMA GateInvKept ==
    ASSUME HandoffInv, GateInv, [Next]_vars
    PROVE  GateInv'
  <1> SUFFICES ASSUME NEW i \in Ids
               PROVE  /\ prompts'[i].status # "absent" =>
                            /\ messages'[i].status = "absent"
                            /\ reviews'[i].status = "absent" /\ runs'[i] = 0
                      /\ messages'[i].status # "absent" =>
                            reviews'[i].status = "absent" /\ runs'[i] = 0
                      /\ i \in confirmed' =>
                            prompts'[i].status # "draft" /\ reviews'[i].status # "previewed"
    BY DEF GateInv
  <1>1. /\ prompts[i].status # "absent" =>
             messages[i].status = "absent" /\ reviews[i].status = "absent" /\ runs[i] = 0
        /\ messages[i].status # "absent" => reviews[i].status = "absent" /\ runs[i] = 0
        /\ i \in confirmed => prompts[i].status # "draft" /\ reviews[i].status # "previewed"
    BY DEF GateInv
  <1>2. i > created =>
           /\ messages[i].status = "absent" /\ prompts[i].status = "absent"
           /\ reviews[i].status = "absent"
           /\ i \notin confirmed /\ delivered[i] = 0 /\ runs[i] = 0
    BY DEF HandoffInv, FutureAbsent
  <1>3. RecordMoves(i)
    BY EachRecordMoves
  <1>4. CASE Unmoved(i)
    BY <1>1, <1>4 DEF Unmoved, SameMessage, SamePrompt, SameReview, Quiet
  <1>5. CASE Made(i)
    BY <1>2, <1>5 DEF Made, SameMessage, SamePrompt, SameReview, Quiet
  <1>6. CASE PromptMoves(i)
    BY <1>1, <1>6 DEF PromptMoves, SameMessage, SameReview, Quiet
  <1>7. CASE ReviewMoves(i)
    BY <1>1, <1>7 DEF ReviewMoves, SameMessage, SamePrompt, Quiet
  <1>8. CASE ComesBack(i)
    BY <1>1, <1>8 DEF ComesBack, SameMessage, SamePrompt, Quiet
  <1> QED
    BY <1>3, <1>4, <1>5, <1>6, <1>7, <1>8 DEF RecordMoves

LEMMA AlwaysGateInv == Spec => []GateInv
  <1>1. Init => GateInv
    BY DEF Init, GateInv, EmptySnapshot, AbsentPending, AbsentReview, AbsentMessage
  <1> QED
    BY <1>1, GateInvKept, AlwaysHandoffInv, PTL DEF Spec

LEMMA GateMoves ==
    ASSUME HandoffInv, GateInv, [Next]_vars, NEW i \in Ids
    PROVE  \/ Operator!Stays(i) \/ Operator!IsProposed(i) \/ Operator!IsConfirmed(i)
           \/ Operator!Happens(i) \/ Operator!Closes(i)
  <1> USE DEF GateOf, Forgotten
  <1>1. /\ prompts[i].status # "absent" =>
             messages[i].status = "absent" /\ reviews[i].status = "absent" /\ runs[i] = 0
        /\ messages[i].status # "absent" => reviews[i].status = "absent" /\ runs[i] = 0
        /\ i \in confirmed => prompts[i].status # "draft" /\ reviews[i].status # "previewed"
    BY DEF GateInv
  <1>2. /\ i > created =>
             /\ messages[i].status = "absent" /\ prompts[i].status = "absent"
             /\ reviews[i].status = "absent"
             /\ i \notin confirmed /\ delivered[i] = 0 /\ runs[i] = 0
        /\ i \in Nat /\ created \in Nat /\ created' \in Nat
        /\ delivered[i] \in Nat /\ runs[i] \in Nat
        /\ prompts[i].status \in PendingPromptStatus
        /\ reviews[i].status \in ReviewStatus
        /\ prompts[i].status \in {"confirmed", "sent", "failed"} => i \in confirmed
        /\ reviews[i].status = "confirmed" => i \in confirmed
    <2>1. created' \in Nat
      BY NextInv DEF HandoffInv, HandoffTypeOK
    <2> QED
      BY <2>1
      DEF HandoffInv, HandoffTypeOK, FutureAbsent, PromptAccounts, ReviewInv, ReviewAccounts,
          PendingPrompt, Review, Ids
  <1>3. RecordMoves(i)
    BY EachRecordMoves
  <1>4. CASE Unmoved(i)
    <2>1. GateOf(i)' = GateOf(i)
      BY <1>1, <1>2, <1>4 DEF Unmoved, SameAge, SameMessage, SamePrompt, SameReview
    <2> QED
      BY <1>4, <2>1 DEF Unmoved, Quiet, Operator!Stays, Operator!Quiet
  <1>5. CASE Made(i)
    <2>1. GateOf(i) = "none"
      BY <1>2, <1>5 DEF Made
    <2>2. GateOf(i)' \in {"none", "proposed"}
      BY <1>2, <1>5 DEF Made, SameMessage, SamePrompt, SameReview
    <2> QED
      BY <1>5, <2>1, <2>2
      DEF Made, Quiet, Operator!Stays, Operator!IsProposed, Operator!Quiet
  <1>6. CASE PromptMoves(i)
    <2>1. CASE prompts[i].status = "draft" /\ prompts'[i].status = "confirmed"
      BY <1>1, <1>2, <1>6, <2>1
      DEF PromptMoves, SameReview, Operator!IsConfirmed
    <2>2. CASE /\ prompts[i].status \in {"confirmed", "failed"}
               /\ prompts'[i].status \in {"confirmed", "failed"}
      BY <1>1, <1>2, <1>6, <2>2
      DEF PromptMoves, SameReview, Quiet, Operator!Stays, Operator!Quiet
    <2>3. CASE prompts[i].status = "confirmed" /\ prompts'[i].status = "sent"
      BY <1>1, <1>2, <1>6, <2>3 DEF PromptMoves, SameReview, Operator!Happens
    <2>4. CASE prompts[i].status # "absent" /\ prompts'[i].status = "cancelled"
      <3>1. GateOf(i) \in {"proposed", "confirmed", "closed"}
        BY <1>1, <1>2, <2>4 DEF PendingPromptStatus
      <3>2. GateOf(i)' = "closed" /\ Quiet(i)
        BY <1>1, <1>6, <2>4 DEF PromptMoves, SameReview
      <3> QED
        BY <3>1, <3>2 DEF Quiet, Operator!Stays, Operator!Closes, Operator!Quiet
    <2> QED
      BY <1>6, <2>1, <2>2, <2>3, <2>4 DEF PromptMoves
  <1>7. CASE ReviewMoves(i)
    <2>a. prompts[i].status = "absent" /\ prompts'[i].status = "absent"
      BY <1>1, <1>7 DEF ReviewMoves, SamePrompt
    <2>1. CASE reviews[i].status = "previewed" /\ reviews'[i].status = "confirmed"
      BY <1>1, <1>7, <2>1, <2>a DEF ReviewMoves, Operator!IsConfirmed
    <2>2. CASE reviews[i].status = "confirmed" /\ reviews'[i].status = "sent"
      BY <1>1, <1>2, <1>7, <2>2, <2>a DEF ReviewMoves, Operator!Happens
    <2>3. CASE /\ reviews[i].status # "absent"
               /\ reviews'[i].status \in {"returned", "failed", "cancelled"}
      <3>1. GateOf(i) \in {"proposed", "confirmed", "closed"}
        BY <1>2, <2>3, <2>a DEF ReviewStatus
      <3>2. GateOf(i)' = "closed" /\ Quiet(i)
        BY <1>7, <2>3, <2>a DEF ReviewMoves
      <3> QED
        BY <3>1, <3>2 DEF Quiet, Operator!Stays, Operator!Closes, Operator!Quiet
    <2> QED
      BY <1>7, <2>1, <2>2, <2>3 DEF ReviewMoves
  <1>8. CASE ComesBack(i)
    <2>1. CASE prompts[i].status # "absent"
      <3>1. GateOf(i)' = GateOf(i)
        BY <1>1, <1>8, <2>1 DEF ComesBack, SamePrompt
      <3> QED
        BY <1>8, <3>1 DEF ComesBack, Quiet, Operator!Stays, Operator!Quiet
    <2>2. CASE prompts[i].status = "absent" /\ reviews[i].status # "absent"
      <3>1. /\ i <= created' /\ messages'[i].status = "absent"
            /\ prompts'[i].status = "absent"
        BY <1>1, <1>2, <1>8, <2>2 DEF ComesBack, SameAge, SameMessage, SamePrompt
      <3>2. GateOf(i)' = "closed"
        BY <1>8, <3>1 DEF ComesBack
      <3>3. GateOf(i) \in {"proposed", "confirmed", "closed"}
        BY <1>2, <2>2 DEF ReviewStatus
      <3> QED
        BY <1>8, <3>2, <3>3
        DEF ComesBack, Quiet, Operator!Stays, Operator!Closes, Operator!Quiet
    <2>3. CASE prompts[i].status = "absent" /\ reviews[i].status = "absent"
      <3>1. GateOf(i)' = GateOf(i)
        BY <1>8, <2>3 DEF ComesBack, SameAge, SameMessage, SamePrompt
      <3> QED
        BY <1>8, <3>1 DEF ComesBack, Quiet, Operator!Stays, Operator!Quiet
    <2> QED
      BY <2>1, <2>2, <2>3
  <1> QED
    BY <1>3, <1>4, <1>5, <1>6, <1>7, <1>8 DEF RecordMoves

\* What happened is closed: a prompt that was delivered is sent, and a review
\* that was run is sent, settled or forgotten.
LEMMA HappenedIsClosed ==
    ASSUME HandoffInv, GateInv
    PROVE  Operator!UsedUp
  <1> SUFFICES ASSUME NEW i \in Ids, delivered[i] + runs[i] > 0
               PROVE  GateOf(i) = "closed"
    BY DEF Operator!UsedUp
  <1>1. delivered[i] \in Nat /\ runs[i] \in Nat /\ delivered[i] <= 1 /\ runs[i] <= 1
    BY DEF HandoffInv, HandoffTypeOK, PromptAccounts, ReviewInv, ReviewAccounts
  <1>2. CASE delivered[i] = 1
    <2>1. prompts[i].status = "sent" /\ reviews[i].status = "absent"
      BY <1>2 DEF HandoffInv, PromptAccounts, GateInv
    <2> QED
      BY <2>1 DEF GateOf
  <1>3. CASE runs[i] = 1
    <2>1. /\ prompts[i].status = "absent" /\ messages[i].status = "absent"
          /\ reviews[i].status \in ReviewStatus \ {"previewed", "confirmed"}
          /\ i <= created
      BY <1>3
      DEF HandoffInv, HandoffTypeOK, ReviewInv, ReviewAccounts, FutureAbsent, GateInv, Review, Ids
    <2> QED
      BY <2>1 DEF GateOf, Forgotten, ReviewStatus
  <1> QED
    BY <1>1, <1>2, <1>3

LEMMA StepsRefine ==
    HandoffInv /\ GateInv /\ [Next]_vars => [Operator!Next]_(Operator!vars)
  BY GateMoves DEF Operator!Next

\* No prompt and no review passes its operator, and none passes twice
\* (pending-prompt-store.ts, pending-review-store.ts and their routes).
THEOREM PromptsAndReviewsGated == Spec => ImplementsSingleUseGate
  <1>1. Init => Operator!Init
    <2> SUFFICES ASSUME Init PROVE Operator!Init
      OBVIOUS
    <2>1. \A i \in Ids : GateOf(i) = "none" /\ delivered[i] + runs[i] = 0
      BY DEF Init, EmptySnapshot, AbsentPending, AbsentReview, AbsentMessage, GateOf, Forgotten,
         Ids
    <2> QED
      BY <2>1 DEF Operator!Init, Init
  <1> QED
    BY <1>1, StepsRefine, HappenedIsClosed, AlwaysHandoffInv, AlwaysGateInv, PTL
    DEF Spec, ImplementsSingleUseGate, Operator!SingleUseSpec, Operator!Spec
=============================================================================
