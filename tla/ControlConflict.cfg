SPECIFICATION MCSpec
CONSTANTS
    MaxPlans = 2
    Bindings = {"binding", "other"}
    NumSteps = 2
    MaxBirths = 3
    MaxGenerations = 2
    NumSlots = 2
    NumFiles = 3
    Contains <- threeFilesContains
    BesideOf <- threeFilesBeside
    ServerEndpoints = {"workbuddy"}
    ClientEndpoints = {"client"}
    ClientReviewers = {"client"}
    MaxArtifacts = 2
    MaxApplies = 2
    MaxSnapshots = 2
    MaxAttempts = 2
    MaxCalls = 2
    RecordCap = 2
PROPERTY
    ConflictsBlockApply
CHECK_DEADLOCK FALSE
