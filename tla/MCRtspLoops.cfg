\* Main may return before every loop is entered: a quit is lost then, and it
\* waits in stop() for ever. Otherwise the process ends with the last stream.
CONSTANTS
    N = 3
    port1 = port1
    port2 = port2
    PortOf <- SharedPort
    Nobody = Nobody
SPECIFICATION FairSpec
CHECK_DEADLOCK FALSE
INVARIANTS
    TypeOK
    LoopsRun
    OwnersCounted
PROPERTIES
    GetsServed
    QuitIsHeard
    SharesContext
