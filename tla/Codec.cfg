SPECIFICATION Spec
CONSTANTS
    Value16 <- Words
    Value32 <- Longs
    Bits <- Patterns
    DataOffsets = {0, 5}
    IHLs = {5}
    Payloads <- Contents
    Room = 44
    MaxSets = 2
    Copies = 2
    Cuts = {0, 19, 40}
INVARIANTS FieldsAsSet RoundTrip ChecksumsVerify 
CHECK_DEADLOCK FALSE
