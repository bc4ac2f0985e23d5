\* Two runs on one inventory, the first reading the secret store and the second waiting
\* for a refresh, under the fairness of the slots, the reaper and the probe: with an
\* outage of the store, a galaxy install, or a playbook deleted under them.
SPECIFICATION MCFairSpec
CONSTANTS
    r1 = r1  r2 = r2  w1 = w1  w2 = w2  i1 = i1
    NoRun = NoRun  NoToken = NoToken
    Disturbances = {"outage", "install", "deletion"}
    Runs = {r1, r2}
    Inventories = {i1}
    Workers = {w1}
    Tokens = {t1, t2}
    InventoryOf <- PairOnOne
    CanRun <- AllCapable
    CertRuns = {}
    CertWorkers = {}
    NeedsStore = {r1}
    RefreshFirst = {r2}
    StoreWait = TRUE
    Deletable = {"playbook"}
    OverlappingCalls = FALSE
    MaxInstalls = 1
    MaxOutages = 1
    MaxLate = 0
INVARIANTS InstallExcludesRuns
PROPERTIES QueueMoves
