SPECIFICATION FairSpec
CONSTANTS
    m1 = m1  m2 = m2  t1 = t1  t2 = t2
    Account = {a1}
    Worker = {w1, w2}
    Master = {m1, m2}
    Tick = {t1, t2}
    MasterOf <- MCMasterOf
    NoWorker = NoWorker  NoAccount = NoAccount  NoMaster = NoMaster
    Overlap = FALSE
    ReloadEvery = 2
    Reports = {0}
    Unassignable = {a1}
    MaxFaults = 1
    Capacity <- MCCapacity
    Legacy <- MCNoLegacy
INVARIANTS TypeOK 
PROPERTIES UnbindsOnlyFromDead 
