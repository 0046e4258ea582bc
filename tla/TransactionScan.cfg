SPECIFICATION FairSpec
CONSTANTS
    EventTriggerLimit = 2
    Generations = 2
    Chains = {c1, c2}
    Cursors = {k1, k2}
    MaxEmptyPages = 2
    MaxFailures = 2
INVARIANTS
    TypeOK
    OwedRetryNeverParked
    IdleChainsUnseen
    NoRequestStorm
PROPERTIES
    EscalationIsSticky
    FollowsTriggerProtocol
    LeftWorkIsLookedUp
