\* A refresh of two sources, one of them edited and one removed meanwhile, with a run
\* that waits; three commits, one of them refused, on two servers and a pinned run.
SPECIFICATION ContentSpec
CONSTANTS
    Sources = {src1, src2}  Constructed = FALSE  Runs = {x}  Legacy = FALSE
    Editable = {src1}  Removable = {src2}  MaxEdits = 1  MaxRefreshes = 2
    c1 = c1  host1 = host1  pb1 = pb1  pb2 = pb2
    Commits = {c1, c2, c3}  Refused = {c3}  Servers = {host1, host2}  Subdirs = {d1}
    Paths = {pb1, pb2}  Holds <- Playbooks  PinnedRuns = {r}
    AutoSync = FALSE  PruneSplit = FALSE  NoCommit = NoCommit  MaxDeaths = 1
INVARIANTS ContentTypes  
PROPERTIES  ContentArrives
CHECK_DEADLOCK FALSE
