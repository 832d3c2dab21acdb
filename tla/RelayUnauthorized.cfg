SPECIFICATION Spec
CONSTANTS
    ClaimTTL = 0
    AuthTTL = 1
    RoundTTL = 0
    ActiveTTL = 0
    MaxPrompts = 2
    MaxLate = 0
    HasEndpoint = {1, 2}
    s1 = s1
    t1 = t1
    t2 = t2
    Sessions = {s1}
    Tabs = {t1}
    ChatTabs = {t1}
    SessionOf <- MCSessionOf
PROPERTY SubmitOnlyWhileAuthorized
