SPECIFICATION FairSpec
CONSTANTS
    Requests <- MCRequests
    Capacity = 2
    MaxNow = 1
INVARIANTS
    TypeOK
    EveryCommandAccounted
    OneItemPerCommand
    Bounded
    SentAtMostOnce
    NotStartedIsTrue
PROPERTIES
    EmergencyServed
