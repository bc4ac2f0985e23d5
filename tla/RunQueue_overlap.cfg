\* A job call retried while the API still handles the first.
SPECIFICATION MCSpec
CONSTANTS
    r1 = r1  r2 = r2  w1 = w1  w2 = w2  i1 = i1
    Disturbances = {"any"}
    NoRun = NoRun  NoToken = NoToken
    Runs = {r1}
    Inventories = {i1}
    Workers = {w1}
    Tokens = {t1, t2, t3, t4}
    InventoryOf <- Single
    CanRun <- AllCapable
    CertRuns = {}
    CertWorkers = {}
    NeedsStore = {r1}
    RefreshFirst = {}
    StoreWait = TRUE
    Deletable = {}
    OverlappingCalls = TRUE
    MaxInstalls = 0
    MaxOutages = 1
    MaxLate = 0
SYMMETRY Symmetry
INVARIANTS JobHandedOutOnce
