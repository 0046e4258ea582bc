SPECIFICATION Spec
CONSTANTS
    Phrases = {p, q, r}
    Passes = {k, w}
    KeyPass = k
    DevPhrase = dev
CONSTRAINT
    NotOverlapped
INVARIANTS
    SeedNeverLost
    RestartsAsItself
    IdentityReturns
