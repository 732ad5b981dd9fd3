CONSTANTS
    Zones <- MCZones
    MaxClock = 4
    MaxSets = 1
    Env = Env
SPECIFICATION Spec
INVARIANTS
    LocalFitsZone
    FlagFitsUtc
