SPECIFICATION Spec
CONSTANTS
    Leader1 = Leader1
    Leader2 = Leader2
    Follower1 = Follower1
    Successor = Successor
    Workers <- MCWorkers
    Account <- MCAccount
    Approved <- MCApproved
    Leaders <- MCLeaders
    Commands = {"enter", "cancel"}
    FaultKinds = {"drop", "restart", "revoke", "delete"}
    MaxProposals = 2
    MaxRoutes = 1
    MaxVersion = 2
    MaxEvents = 2
    MaxPending = 1
INVARIANTS
    TypeOK
    WorkerOnOneRoute
    ClaimsBacked
    AssertionsBound
    OneActivePerAccount
    UnpairedIsIdle
    FailsClosedOnlyAfterFault
CONSTRAINT Scope
CHECK_DEADLOCK FALSE
