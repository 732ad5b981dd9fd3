\* Two clients in the queue, or one of them under service while the other
\* waits; no symmetry, for liveness.
CONSTANTS
    Clients = {c1, c2}
    NoConn = NoConn
    Backlog = 2
    Contexts = {TRUE, FALSE}
    MaxKills = 1
SPECIFICATION FairSpec
INVARIANTS
    TypeOK
    OneReply
    OpenIsServed
    QueueExact
    IdleIsClean
    EndsForAReason
    EmptyContextServesNobody
PROPERTIES
    NoSilentClose
    KeepsPromise
    ConnectionsEnd
    StopEnds
