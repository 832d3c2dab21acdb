SPECIFICATION MCSpec
CONSTANTS
    MaxPlans = 2
    Bindings = {"binding", "other"}
    NumSteps = 2
    MaxBirths = 3
    MaxGenerations = 2
    NumSlots = 2
    NumFiles = 2
    Contains <- twoFilesContains
    BesideOf <- twoFilesBeside
    ServerEndpoints = {"workbuddy"}
    ClientEndpoints = {"client"}
    ClientReviewers = {"client"}
    MaxArtifacts = 2
    MaxApplies = 2
    MaxSnapshots = 2
    MaxAttempts = 2
    MaxCalls = 2
    RecordCap = 2
INVARIANTS
    TypeOK
    RunsOnlyApproved
    SlotChain
    DirectoriesDisjoint
    DirectoriesAccounted
    RunsUnderApprovedBinding
    EvidenceMatchesBinding
    OneCheckAtATime
PROPERTIES
    LateAnswerPlansNothing
    ImplementsGoalContract
    BindingHistoryKept
CHECK_DEADLOCK FALSE
