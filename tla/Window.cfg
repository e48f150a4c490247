SPECIFICATION FairSpec
CONSTANTS
    SeqMod = 8
    MSS = 2
    BufSize = 3
    First = 6
    MaxWrite = 4
INVARIANTS TypeOK WindowHonoured InFlightIsBuffered
PROPERTIES ImplementsStream EverythingArrives
CHECK_DEADLOCK FALSE
