SPECIFICATION FairSpec
CONSTANTS
    c1 = c1
    c2 = c2
    Clients <- MCClients
    NoClient = NoClient
    Commands = {"get", "stat"}
    MaxSent <- MCMaxSent
    Slow <- MCSlow
    ScheduleFails = TRUE
INVARIANTS
    TypeOK
    EventInv
    ConnectGate
PROPERTY
    Answered
CHECK_DEADLOCK FALSE
