SPECIFICATION SceneSpec
CONSTANTS
    Change = {k1, k2, f1}
    Foreign = {f1}
    EVENT_HISTORY_LIMIT = 2
    BroadcastCapacity = 1
    SEQ_RECOVERY_OFFSET = 2
    Workers = 2
    InitialSeq = 1
    MaxCrashes = 1
    c1 = c1
    c2 = c2
    NoConn = NoConn
    Conn = {c1, c2}
    Picked <- PickedDef
    MaxRunChanges = 2
    MaxFaults = 1
    a1 = a1
    NoAgent = NoAgent
    Terminals = {c1, c2}
    Agents = {a1}
    RestoreOnReboot = TRUE
    ResumeAgents = TRUE
    MaxBoots = 2
    MaxStarts = 3
    MaxChanges = 2
    Attach = {c1, c2}
    Size = 2
    Mixes <- MixesDef
    d1 = d1
    d2 = d2
    w1 = w1
    w2 = w2
    w3 = w3
    p1 = p1
    b1 = b1
    NoTab = NoTab
    GonePane = GonePane
SYMMETRY SceneSymmetry
INVARIANTS
    BusIsSound
    NoSilentMiss
    IntegrationsAreSound
    NodeIsSound
    ReceiptsAreHonest
    RequestsSettle
    ForegroundIsKnown
PROPERTIES
    ReplicaMovesForward
    WorkspaceIsSound
CHECK_DEADLOCK FALSE
