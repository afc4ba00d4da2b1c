SPECIFICATION PubSpec
CONSTANTS
    Pub = {e1, e2, e3}
    Attempts = 2
    MaxInflight = 2
    MaxFaults = 3
INVARIANTS PubTypeOK NothingVanishes InflightCounted 
PROPERTY EveryPublishReturns
CHECK_DEADLOCK FALSE
