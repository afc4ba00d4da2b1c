SPECIFICATION FairSpec
CONSTANTS
    Ctx = {x1}
    Sock = {s1, s2}
    Task = {k1}
    NoCtx = NoCtx
    NoSock = NoSock
    Ladder = 1
    Calls = {"online"}
    Failures = {}
PROPERTY NobodyIsStranded
CHECK_DEADLOCK FALSE
