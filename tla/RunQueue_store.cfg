\* Two slots race for the two runs of one inventory, one of which reads the secret
\* store and goes back to the queue in an outage; lost answers, abandoned and late
\* requests, cancels; or the inventory is deleted under its runs.
SPECIFICATION MCSpec
CONSTANTS
    r1 = r1  r2 = r2  w1 = w1  w2 = w2  i1 = i1
    NoRun = NoRun  NoToken = NoToken
    Disturbances = {"outage", "deletion"}
    Runs = {r1, r2}
    Inventories = {i1}
    Workers = {w1, w2}
    Tokens = {t1, t2, t3}
    InventoryOf <- PairOnOne
    CanRun <- SecondForFirst
    CertRuns = {r1}
    CertWorkers = {w1, w2}
    NeedsStore = {r1}
    RefreshFirst = {}
    StoreWait = TRUE
    Deletable = {"inventory"}
    OverlappingCalls = FALSE
    MaxInstalls = 0
    MaxOutages = 1
    MaxLate = 1
SYMMETRY Symmetry
INVARIANTS TypeOK OneRunningPerInventory InQueueOrder QueuedAfresh OneOwner JobHandedOutOnce WaitIsExplained
PROPERTIES ImplementsLifecycle
