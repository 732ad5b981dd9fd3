\* Four commands: one shown, one lost and two on the way, with a failure
\* in the daemon, on the connection or at the broker between any two of them.
CONSTANTS
    Debug = TRUE
    MaxCommands = 4
    MaxFailures = 3
SPECIFICATION FairSpec
INVARIANTS
    TypeOK
    Accounted
    LastWordCounts
PROPERTIES
    KeepsTheOrder
    CommandsEnd
\* When the commands and the failures of the bounds are used up, all is still.
CHECK_DEADLOCK FALSE
