SPECIFICATION SceneSpec
CONSTANTS
    Device = {d1, d2}
    Machine = {m1, m2}
    None = None
    MaxSockets = 2
    r1 = r1
    r2 = r2
    s1 = s1
    Requests = {r1, r2}
    Socks = {s1}
    MaxText = 2
    MaxStreak = 1
    MaxAssemblies = 1
    HttpSlots = 1
    Room = 1
    SecureMixes <- SecureMixesDef
    Nobody = Nobody
    t1 = t1
    t2 = t2
    a1 = a1
    NoAgent = NoAgent
INVARIANTS
    LeasesAreSound
    ChannelIsSound
PROPERTIES
    NoStealWithoutClaim
    GraceReleases
    RevokedIsCutOff
    AgentIsReported
CHECK_DEADLOCK FALSE
