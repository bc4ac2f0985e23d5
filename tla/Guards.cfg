\* Two browsers and a passkey; two users, one an administrator from the start, and two
\* keys; a host with two keys; two secrets, paths and moves; certificates of 1 to 4
\* units of time; a lease of 8 ticks; a slot's user with two processes; two host names
\* and addresses 1..3; a tar of three chunks;
\* two accounts, an identity at each provider, two browsers and two attempts.
SPECIFICATION GuardSpec
CONSTANTS
    Browsers = {b1, b2}  Passkeys = {pk1}  Required = FALSE  MaxFailures = 1  LastStep = 1
    MaxSecrets = 1  MaxBatches = 2  MaxChallenges = 1  MaxVersion = 2
    Users = {ua, ub}  First = {ua}  Limits = {l1}  FirstLimits = {"none"}  MaxCreated = 1  MaxKeys = 2
    Presets = {"trigger"}  MemberRoles = {"admin", "none"}
    key1 = key1  Hosts = {h}  Keys = {key1, key2}  KeyRuns = {x}  MaxRows = 2
    Secrets = {x1, x2}  Paths = {p1, p2}  Requests = {m1, m2}  MaxKvVersion = 1
    MaxRotations = 1
    Seconds = {1, 2, 3, 4}  MinSeconds = 2  MaxRoleChanges = 2
    H = 1  T = 2  F = 3  L = 8  G = 2  D = 1
    Procs = {q1, q2}  KillRounds = 2  SweepAttempts = 2
    Names = {n1, n2}  JumpName = jump  LastAddress = 3  LastPort = 2  MaxEntries = 3
    Chunks = 3  MaxLatePosts = 2  MaxApiDeaths = 1
    Accounts = {a1, a2}  Emails = {e1, e2}  SsoBrowsers = {sb1, sb2}
    OidcPeople = {o1}  GithubPeople = {g1}  AllowAdmin = FALSE  NoLink = NoLink
    MaxLogins = 2  MaxChanges = 1
INVARIANTS GuardTypes  KeysStayLimited TrustIsVouched LastsOrSaysSo FenceHolds SweptIsClean AllowlistExact OfferedIsTheTar
PROPERTIES MovesSafe
CHECK_DEADLOCK FALSE
