SPECIFICATION SceneSpec
CONSTANTS
    Viewer = {v1}
    MaxSize = 2
    MaxPaint = 2
    MaxEpoch = 2
    MaxClock = 1
    MaxConn = 2
    MaxList = 1
    Chromium = "orderly"
    v1 = v1
    v2 = v2
INVARIANTS
    CastIsSound
    ViewersAgree
PROPERTIES
    PictureArrives
CHECK_DEADLOCK FALSE
