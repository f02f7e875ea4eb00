SPECIFICATION SceneSpec
CONSTANTS
    Agents = {claude}
    NoAgent = NoAgent
    Caller = {p1, p2}
    Approver = {p1}
    MaxRows = 3
    u1 = u1
    u2 = u2
    b1 = b1
    b2 = b2
    NoOne = NoOne
    NoFrame = NoFrame

    
    
    
    
PROPERTIES
    AnswersOnce
CHECK_DEADLOCK FALSE
