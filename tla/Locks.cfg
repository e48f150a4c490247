SPECIFICATION FairSpec
CONSTANTS
    App <- TwoApps
    Daemon = "daemon"
    Block <- OneBlock
    Listener = "listener"
    level_ = 1
    MaxCalls = 2
INVARIANTS NoDeadlock SleepersHoldNothing
PROPERTIES LocksComeFree
CHECK_DEADLOCK FALSE
