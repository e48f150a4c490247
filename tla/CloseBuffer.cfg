SPECIFICATION FairSpec
CONSTANTS
    reader = reader
    writer = writer
    closer = closer
    NoThread = NoThread
    Thread = {reader, closer}
    Data = {0}
    Size = 1
    MinArg = 0
    MaxArg = 1
    Ops <- CloseOps
PROPERTY ForceWakeUpWakes
CHECK_DEADLOCK FALSE
