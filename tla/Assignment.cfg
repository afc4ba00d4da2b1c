SPECIFICATION Spec
SYMMETRY Callers
CONSTANTS
    a1 = a1  a2 = a2  w1 = w1  w2 = w2  c1 = c1  c2 = c2  east = east  west = west  elsewhere = elsewhere
    Account = {a1, a2}
    Worker = {w1, w2}
    Caller = {c1, c2}
    Preferred = {elsewhere}
    NoWorker = NoWorker  Unlocked = Unlocked  Orphan = Orphan
    RetryMax = 2
    Reports = {0}
    Capacity <- MCCapacity
    RegionOf <- MCRegionOf
    Legacy <- MCLegacy
INVARIANTS TypeOK IndexComplete
PROPERTIES AnsweredCallsLeaveNoGhost  OverbindsOnlyUncounted
    HolderReleases ImplementsService
