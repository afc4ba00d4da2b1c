SPECIFICATION Spec
SYMMETRY Objects
CONSTANTS
    Ctx = {x1, x2}
    Sock = {s1, s2}
    Task = {k1, k2}
    NoCtx = NoCtx
    NoSock = NoSock
    Ladder = 1
    Calls = {"online", "offline", "logout", "reconnect", "rebind"}
    Failures = {"refuse", "throw"}
INVARIANTS TypeOK DroppedSocketsAreSilent BusyMeansRetrying
CHECK_DEADLOCK FALSE
