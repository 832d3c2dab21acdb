SPECIFICATION Spec
CONSTANTS
    MaxPlans = 1
    b1 = b1
    b2 = b2
    Bindings = {b1, b2}
    MaxProposals = 2
    MaxExecutions = 2
    ConfirmTTL = 0
SYMMETRY BindingSymmetry
INVARIANT TypeOK
PROPERTIES
    ExecutesWhatWasConfirmed
    LockedBindingImmutable
    ImplementsOperatorGate
