SPECIFICATION FairSpec
CONSTANTS
    Stack <- TwoStacks
    Route <- TwoRoute
    Thread <- App
    Home <- AppHome
    Obj <- AppObj
    Scenarios <- Orderly
    ISN <- WrapISN
    SeqMod = 8
    MSS = 2
    BufSize = 3
    BasePort = 1000
    MaxRetransmits = 0
    MaxLoss = 0
    MaxDup = 0
    Reorder = FALSE
INVARIANTS TypeOK AcceptedOnce RoutesExact NoHalfOpen  SequenceAgreement
 
