SPECIFICATION Spec
ACTION_CONSTRAINT Steady
SYMMETRY Symmetric
CONSTANTS
    m1 = m1  m2 = m2  t1 = t1  t2 = t2
    Account = {a1, a2, a3}
    Worker = {w1, w2, w3}
    Master = {m1}
    Tick = {t1}
    MasterOf <- MCOneMaster
    NoWorker = NoWorker  NoAccount = NoAccount  NoMaster = NoMaster
    Overlap = FALSE
    ReloadEvery = 2
    Reports = {0}
    Unassignable = {}
    MaxFaults = 0
    Capacity <- MCRoomy
    Legacy <- MCNoLegacy
INVARIANT NoGhosts
  
