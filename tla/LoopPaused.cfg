SPECIFICATION Spec
CONSTANTS
    ClaimTTL = 0
    AuthTTL = 0
    RoundTTL = 0
    DeadlineTTL = 2
    MaxPrompts = 3
    MaxRounds = 2
    NoProgressLimit = 1
    l1 = l1
    l2 = l2
    r1 = r1
    r2 = r2
    Loops = {l1, l2}
    Replies = {r1, r2}
PROPERTY PauseWinsBeforeClaim
