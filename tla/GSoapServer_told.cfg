CONSTANTS
    Clients = {c1, c2}
    NoConn = NoConn
    Backlog = 2
    Contexts = {TRUE}
    MaxKills = 0
SPECIFICATION Spec
INVARIANTS
    RunsUntilTold
