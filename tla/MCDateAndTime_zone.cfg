CONSTANTS
    Zones <- MCZones
    MaxClock = 4
    MaxSets = 0
    Env = Env
SPECIFICATION Spec
INVARIANTS
    ZoneIsTheSystems
