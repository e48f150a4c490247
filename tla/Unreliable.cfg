SPECIFICATION Spec
CONSTANTS
    Stack <- TwoStacks
    Route <- TwoRoute
    Thread <- App
    Home <- AppHome
    Obj <- AppObj
    Scenarios <- Troubled
    ISN <- WrapISN
    SeqMod = 8
    MSS = 2
    BufSize = 3
    BasePort = 1000
    MaxRetransmits = 1
    MaxLoss = 1
    MaxDup = 1
    Reorder = TRUE
INVARIANTS AcceptedOnce RoutesExact NoHalfOpen  
