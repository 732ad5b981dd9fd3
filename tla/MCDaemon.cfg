\* No symmetry: liveness. Contexts are valid: a daemon without a profile
\* starts for nothing, and rightly never accepts.
CONSTANTS
    Clients = {c1}
    NoConn = NoConn
    Backlog = 1
    Contexts = {TRUE}
    MaxKills = 1
    N = 2
    PortOf <- OwnPorts
    Nobody = Nobody
SPECIFICATION FairProcess
INVARIANTS
    OpenPortHasStreams
    QuietWhileStreamsChange
PROPERTIES
    AcceptsOrHangs
\* The process may hang over a stream, see AcceptsOrHangs.
CHECK_DEADLOCK FALSE
