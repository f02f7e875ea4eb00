SPECIFICATION SceneSpec
CONSTANTS
    Device = {d1, d2}
    Agent = Agent
    NoDevice = NoDevice
    Task = {t1}
    NoTask = NoTask
    Reconciler = {r1, r2}
    MaxViewers = 1
    LeaseIds = {l1}
    Streams = {s1, s2}
    MaxPerMachine = 1
    MaxNodeTasks = 1
    MaxConns = 2
    BodyLength = 2
    Framings = {"length", "close"}
    NoStream = NoStream
INVARIANTS
    PreviewIsSound
PROPERTIES
    ActivePersonKeepsControl
    
    RevokedStreamsEnd
CHECK_DEADLOCK FALSE
