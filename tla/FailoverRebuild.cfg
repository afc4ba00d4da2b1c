SPECIFICATION FairSpec
CONSTANTS
    m1 = m1  m2 = m2  t1 = t1  t2 = t2
    Account = {a1}
    Worker = {w1}
    Master = {m1}
    Tick = {t1}
    MasterOf <- MCOneMaster
    NoWorker = NoWorker  NoAccount = NoAccount  NoMaster = NoMaster
    Overlap = FALSE
    ReloadEvery = 2
    Reports = {0}
    Unassignable = {}
    MaxFaults = 2
    Capacity <- MCCapacity
    Legacy <- MCNoLegacy

PROPERTY DeadWorkerDrainsUnindexed
