CONSTANTS
    N = 2
    port1 = port1
    port2 = port2
    PortOf <- SharedPort
    Nobody = Nobody
SPECIFICATION Spec
CHECK_DEADLOCK FALSE
INVARIANTS
    MountsMapToFactories
