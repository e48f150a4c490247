SPECIFICATION Spec
CONSTANTS
    Stack <- TwoStacks
    Route <- TwoRoute
    Thread <- App
    Home <- AppHome
    Obj <- AppObj
    Scenarios <- RemoteExchange
    ISN <- WrapISN
    SeqMod = 8
    MSS = 2
    BufSize = 3
    BasePort = 1000
    MaxRetransmits = 1
    MaxLoss = 1
    MaxDup = 0
    Reorder = FALSE
INVARIANTS StreamIntegrity
