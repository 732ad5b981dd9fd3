CONSTANTS
    Tokens = {t1, t2}
    a1 = a1
    a2 = a2
    Addresses = {a1, a2}
    HwAddress = HwAddress
    Junk = {junk}
    Prefixes = {24, 16}
    Configs <- MCConfigs
    Categories <- MCCategories
    JunkMasks = {0, 32}
    Nothing = Nothing
    NoAddress = NoAddress
    Gone = Gone
    MaxChanges = 1
SPECIFICATION Spec
SYMMETRY Symmetry
INVARIANTS
    TypeOK
    ReadInOrder
    LeftByFailure
    AddressIsCurrent
    TokensUsable
    ReferencesResolve
    SnapshotHonest
