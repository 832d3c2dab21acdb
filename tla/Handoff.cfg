SPECIFICATION Spec
CONSTANTS
    MaxRecords = 2
    InboundAgents = {"agent1", "agent2"}
    Operations = {"op1", "op2"}
    AskedBy <- askedByTwo
INVARIANTS
    HandoffTypeOK
    HandedOutOnce
    RepliesReachTheirAsker
    OnlyFailureUnsaved
    ReturnedIsTrusted
PROPERTIES
    SentReviewSettles
    ImplementsSingleUseGate
CHECK_DEADLOCK FALSE
