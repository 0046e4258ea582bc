SPECIFICATION Spec
CONSTANTS
    EventTriggerLimit = 2
    Generations = 2
    Cursors = {k1, k2}
    MaxEmptyPages = 2
    MaxFailures = 2
PROPERTY FailureCountHeldByBadRow
