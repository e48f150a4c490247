SPECIFICATION Spec
CONSTANTS
    reader = reader
    writer = writer
    closer = closer
    NoThread = NoThread
    Thread = {reader, writer}
    Data = {0, 1}
    Size = 2
    MinArg = 0
    MaxArg = 2
    Ops <- BothOps
INVARIANTS TypeOK RingConsistent LockDiscipline NobodyOversleeps
PROPERTY ImplementsQueue
