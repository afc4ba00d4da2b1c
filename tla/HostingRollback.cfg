SPECIFICATION Spec
CONSTANTS
    Worker = {w1, w2}
    NoWorker = NoWorker
    Job = {j1}
    Calls = {"online", "import"}
    MaxVersion = 2
    Durable = FALSE
    MaxFailures = 0
    Moves = {}
INVARIANT CredsNeverLost
