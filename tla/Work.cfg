\* Two slots and two jobs; a pipe of two messages; two addresses of the API; three
\* installs beside two jobs; two persons' checks; two deliveries
\* on a channel; two threads over three tokens; two waiters, writers and changes.
SPECIFICATION WorkSpec
CONSTANTS
    Slots = {s1, s2}  NoSlot = NoSlot  SlotJobs = {k1, k2}  NoJob = NoJob
    Restricted = {k1}  Combining = {k2}
    MaxPipe = 2
    ApiAddresses = {ip1, ip2}  Production = FALSE
    Installs = {1, 2, 3}  Jobs = {j1, j2}  Admins = {a1, a2}
    RenewalsFail = FALSE  MaxCrashes = 2
    Persons = {ann, bob}  MaxRunning = 1  MaxChecks = 3
    Channels = {g}  ProjectChannels = {}  MaxAttempts = 2  MaxDeliveries = 2
    Threads = {t1, t2}  ProjectPolicy = TRUE  MaxTokens = 3
    Waiters = {v1, v2}  Writers = {w1, w2}  MaxCommits = 2
INVARIANTS WorkTypes  OutcomeIsTrue FilterSound NoticesReach DenialsAreReal
PROPERTIES InstallsAlone ChecksSound 
CHECK_DEADLOCK FALSE
