SPECIFICATION Spec
CONSTANTS
    Conn = {c1, c2, c3}
    Terminal = {t1}
    Tab = {}
    NoConn = NoConn
    NoTab = NoTab
    Absent = Absent
    MAX_PANES_PER_TAB = 2
    Lag = "none"
    MaxHubRestarts = 0
SYMMETRY Symmetry
CHECK_DEADLOCK FALSE
PROPERTIES
    DeadIsDestroyed
