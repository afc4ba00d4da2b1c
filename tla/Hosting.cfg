SPECIFICATION Spec
SYMMETRY Workers
CONSTRAINT NotSpoilt
CONSTANTS
    Worker = {w1, w2}
    NoWorker = NoWorker
    Job = {j1}
    Calls = {"import", "reconnect", "logout", "close"}
    MaxVersion = 2
    Durable = FALSE
    MaxFailures = 1
    Moves = {"mistaken", "admin"}
INVARIANTS TypeOK OneHost  
