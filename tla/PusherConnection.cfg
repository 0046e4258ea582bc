SPECIFICATION Spec
CONSTANTS
    Kinds = {tx, wallet}
    MaxInbox = 2
    MaxFailures = 2
INVARIANTS
    NothingMissedWhileListening
    IntervalMatchesState
    BackoffCountsTries
PROPERTIES
    SilentPeerOnly
    DeadLinkNoticed
    WorkIsNoticed
