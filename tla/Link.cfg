SPECIFICATION SceneSpec
CONSTANTS
    Conn = {c1, c2}
    Sock = {s1}
    NoConn = NoConn
    k1 = k1
    k2 = k2
    k3 = k3
INVARIANTS
    LinkIsSound
PROPERTIES
    OnlyNewerDisplaces
    LinkRecovers
    ClientCatchesUp
CHECK_DEADLOCK FALSE
