SPECIFICATION Spec
CONSTANTS
    MaxWrites = 4
    MaxDamages = 2
INVARIANTS
    TypeOK
    AckedSurvives
    BackupHoldsPrevious
PROPERTY ImplementsDurableState
