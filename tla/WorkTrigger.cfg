SPECIFICATION TriggerSpec
CONSTANTS
    EventTriggerLimit = 2
    Generations = 3
INVARIANTS
    TriggerTypeOK
    NoLostWakeup
    NoLostNews
    DeferredIsExact
PROPERTIES
    KnownWorkNeverInterrupts
    EveryEventIsLookedUp
