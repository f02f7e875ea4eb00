SPECIFICATION Spec
CONSTANTS
    Conn = {c1, c2}
    Sock = {s1}
    NoConn = NoConn
CHECK_DEADLOCK FALSE
INVARIANTS
    StatusFollowsCurrent
