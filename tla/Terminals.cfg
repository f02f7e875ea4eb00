SPECIFICATION SceneSpec
CONSTANTS
    Conn = {c0}
    Terminal = {x1, x2}
    Tab = {g1}
    NoConn = NoConn
    NoTab = NoTab
    Absent = Absent
    MAX_PANES_PER_TAB = 2
    Lag = "none"
    MaxHubRestarts = 0
    c1 = c1
    c2 = c2
    c3 = c3
    t3 = t3
    x1 = x1
    x2 = x2
SYMMETRY SceneSymmetry
INVARIANTS
    TerminalsAreSound
PROPERTIES
    
    RunningIsKept
CHECK_DEADLOCK FALSE
