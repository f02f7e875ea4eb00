SPECIFICATION SceneSpec
CONSTANTS
    Releases = {1, 2}
    UiMaxFaults = 1
    NoStore = NoStore
    Blank = Blank
    UserTab = UserTab
    NoneYet = NoneYet
    People = {p1, p2}
    Agents = {g}
    Nodes = {y1, y2}
    Workers = {x1, x2}
    Codes = {c1, c2}
    Tokens = {z1, z2}
    RegTokens = {r1}
    Hubs = {y1, y2}
    Urls = {u1, u2}
    Keys = {x1, x2}
    PairCodes = {z1, z2}
    MaxSlot = 2
    MaxHubs = 2
    MaxFaults = 1
    MaxVersion = 2
    MaxIds = 2
    SetupMaxFaults = 1
    Accesses <- AccessesDef
    AccessMixes <- AccessMixesDef
    p1 = p1
    p2 = p2
    g = g
    c1 = c1
    c2 = c2
    r1 = r1
    u1 = u1
    u2 = u2
    x1 = x1
    x2 = x2
    y1 = y1
    y2 = y2
    z1 = z1
    z2 = z2
    Nil = Nil
    i1 = i1
    i2 = i2
    g1 = g1
    g2 = g2
    hk = hk
    kr = kr
    Absent = Absent
    dir = dir
SYMMETRY SceneSymmetry
INVARIANTS
    AccessIsSafe
    SavedHubsAreSound
    UiIsSound
    UpgradeEnds
PROPERTIES
    CloudIsSound
    
CHECK_DEADLOCK FALSE
