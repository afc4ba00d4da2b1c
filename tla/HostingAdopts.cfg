SPECIFICATION FairSpec
CONSTANTS
    Worker = {w1, w2}
    NoWorker = NoWorker
    Job = {j1}
    Calls = {"online", "import", "reconnect", "offline", "close"}
    MaxVersion = 2
    Durable = TRUE
    MaxFailures = 1
    Moves = {}
 
PROPERTY AssignedIsTakenUp
