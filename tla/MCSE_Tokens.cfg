SPECIFICATION FairSpec
CONSTANTS
    Users = {u1}
    Clients = {c1, c2}
    Tabs = {t1, t2}
    None = None
    AccessLife = 1
    RefreshLife = 1
    MaxTime = 2
    MaxCalls = 2
    MaxFaults = 1
INVARIANTS
    TokensConserved
    HeldTokenIsValid
    RefreshWasEntitled
PROPERTIES
    SignedOutTabLeaves
CHECK_DEADLOCK FALSE
