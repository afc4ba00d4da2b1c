SPECIFICATION GentleFairSpec
CONSTANTS
    a1 = a1  a2 = a2  w1 = w1  w2 = w2  c1 = c1  c2 = c2  east = east  west = west  elsewhere = elsewhere
    Account = {a1, a2}
    Worker = {w1}
    Caller = {c1, c2}
    Preferred = {east}
    NoWorker = NoWorker  Unlocked = Unlocked  Orphan = Orphan
    RetryMax = 2
    Reports = {0, 2}
    Capacity <- MCCapacity
    RegionOf <- MCRegionOf
    Legacy <- MCNoLegacy
INVARIANTS LoadCoversOwned CapacityRespected
PROPERTIES CallsReturn
