\* A vault password deleted between a run's claim and its job.
SPECIFICATION MCSpec
CONSTANTS
    r1 = r1  r2 = r2  w1 = w1  w2 = w2  i1 = i1
    Disturbances = {"any"}
    NoRun = NoRun  NoToken = NoToken
    Runs = {r1}
    Inventories = {i1}
    Workers = {w1}
    Tokens = {t1, t2, t3, t4}
    InventoryOf <- Single
    CanRun <- AllCapable
    CertRuns = {}
    CertWorkers = {}
    NeedsStore = {}
    RefreshFirst = {}
    StoreWait = TRUE
    Deletable = {"vault"}
    OverlappingCalls = FALSE
    MaxInstalls = 0
    MaxOutages = 0
    MaxLate = 0
SYMMETRY Symmetry
PROPERTIES JobAsTriggered
