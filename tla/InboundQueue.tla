---------------------------- MODULE InboundQueue ----------------------------
(***************************************************************************)
(* The return queue (storage/inbound-message-store.ts): replies routed to  *)
(* an executor endpoint, which pulls, and then acknowledges, each of them. *)
(* Operators on the store, a function from ids to messages; ids follow the *)
(* order of creation.  Contents are left out: they only decide whether a    *)
(* repeated createIdempotent is a replay or a conflict, no change either.  *)
(***************************************************************************)
EXTENDS Integers

CONSTANTS
    InboundIds,     \* ids of messages, in creation order
    Executors,      \* endpoints messages are addressed to
    Operations      \* outbound prompts a message can answer

NoOperation == "none"
NoExecutor == "nobody"

InboundStatus == {"absent", "queued", "claimed", "consumed", "failed", "cancelled"}

TerminalInbound == {"consumed", "failed", "cancelled"}

InboundMessage == [status : InboundStatus, endpoint : Executors \cup {NoExecutor},
                   source : Operations \cup {NoOperation}]

AbsentMessage == [status |-> "absent", endpoint |-> NoExecutor, source |-> NoOperation]

createMessage(e, source) == [status |-> "queued", endpoint |-> e, source |-> source]

\* Messages that answer the same operation: createIdempotent finds the first.
Answering(store, source) ==
    {m \in InboundIds : store[m].status # "absent" /\ store[m].source = source}

QueuedFor(store, e) ==
    {m \in InboundIds : store[m].status = "queued" /\ store[m].endpoint = e}

OldestFor(store, e) ==
    CHOOSE m \in QueuedFor(store, e) : \A n \in QueuedFor(store, e) : m <= n

\* Faulty variant: the message handed out stays queued.
claimNextMessage_peek(store, e) == store

claimNextMessage(store, e) ==
    IF QueuedFor(store, e) = {} THEN store
    ELSE [store EXCEPT ![OldestFor(store, e)].status = "claimed"]

\* resolveForEndpoint: ack and cancel need the owner and no end status; the
\* message need not have been claimed.
resolves(store, m, e) ==
    /\ store[m].endpoint = e
    /\ store[m].status \notin TerminalInbound \cup {"absent"}

\* Faulty variant: a refused message gets a status the store does not know.
ackMessage_returned(store, m, ok) ==
    [store EXCEPT ![m].status = IF ok THEN "consumed" ELSE "returned"]

ackMessage(store, m, ok) ==
    [store EXCEPT ![m].status = IF ok THEN "consumed" ELSE "failed"]

cancelMessage(store, m) == [store EXCEPT ![m].status = "cancelled"]
=============================================================================
