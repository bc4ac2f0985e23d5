------------------------------ MODULE GitSync ------------------------------
(***************************************************************************)
(* One git source: syncs that fetch the branch, check the tree and turn    *)
(* the commit into a snapshot (a row and a tar) with its playbooks, the    *)
(* trust in its server's host key, the runs pinned to a snapshot, and the  *)
(* pruning of superseded snapshots; while the settings are edited, the     *)
(* branch is moved (back too), requests arrive and the API dies.           *)
(*                                                                         *)
(* The content of a commit below a subdirectory is the pair of the two.    *)
(***************************************************************************)
EXTENDS Integers, FiniteSets

CONSTANTS
    Commits,        \* what the branch may point at
    Refused,        \* commits whose tree inspect_tree refuses
    Servers,        \* the ssh servers the URL may name
    Subdirs,        \* the subdirectories the source may be set to
    Paths,          \* playbook paths
    Holds,          \* of a commit and a subdirectory: the playbooks found there
    PinnedRuns,     \* runs of the source's playbooks
    AutoSync,       \* auto_sync_seconds > 0
    PruneSplit,     \* another transaction may come between prune's SELECT and DELETE
    MaxDeaths,      \* of the API
    NoCommit        \* a model value

ASSUME GitAssumption ==
    /\ Refused \subseteq Commits /\ NoCommit \notin Commits /\ "none" \notin Servers \union Subdirs
    /\ {AutoSync, PruneSplit} \subseteq BOOLEAN /\ MaxDeaths \in Nat
    /\ Holds \in [Commits \X Subdirs -> SUBSET Paths]

VARIABLES
    git,        \* the git_sources row
    head,       \* the remote's branch
    rows,       \* git_snapshots of the source: when superseded, by commit
    tars,       \* of a commit: the subdirectory its tar was made of, or "none"
    shown,      \* playbooks of the source that are not missing
    sync,       \* the sync under way: its step and what it read
    scan,       \* the server a trust request scans, or "none"
    pins,       \* of each run: the commit it is pinned to, or NoCommit
    stale,      \* what prune selected and has not deleted yet
    asked,      \* a sync was asked for and no sync looked at the remote since
    confirmed,  \* servers whose host key an admin confirmed
    deaths      \* of the API so far

gitVars == <<git, head, rows, tars, shown, sync, scan, pins, stale, asked, confirmed, deaths>>

Ages == {"none", "kept", "superseded", "old"}   \* old: for PRUNE_AFTER_SECONDS
NoSync == [at |-> "idle", server |-> "none", known |-> "none", subdir |-> "none",
           commit |-> NoCommit, had |-> FALSE]
Some == {c \in Commits : rows[c] # "none"}

\* The source's row, the snapshots and their tars, the sync, the pins.
GitTypes ==
    /\ git.server \in Servers /\ git.known \in Servers \union {"none"}
    /\ git.subdir \in Subdirs /\ git.current \in Commits \union {NoCommit}
    /\ git.requested \in BOOLEAN /\ git.enabled \in BOOLEAN
    /\ git.status \in {"none", "running", "ok", "failed"}
    /\ rows \in [Commits -> Ages] /\ tars \in [Commits -> Subdirs \union {"none"}]
    /\ shown \subseteq Paths /\ pins \in [PinnedRuns -> Commits \union {NoCommit}]
    /\ sync.at \in {"idle", "started", "fetched", "built"}
    /\ git.current # NoCommit => rows[git.current] \in {"none", "kept"}

GitInit ==
    /\ \E d \in Subdirs, h \in Servers : git =
         [server |-> h, known |-> "none", subdir |-> d, current |-> NoCommit,
          requested |-> FALSE, enabled |-> TRUE, status |-> "none"]
    /\ head \in Commits
    /\ rows = [c \in Commits |-> "none"] /\ tars = [c \in Commits |-> "none"]
    /\ shown = {} /\ sync = NoSync /\ scan = "none" /\ stale = {}
    /\ pins = [r \in PinnedRuns |-> NoCommit]
    /\ asked = FALSE /\ confirmed = {} /\ deaths = 0

-----------------------------------------------------------------------------
(* The routes.                                                              *)

\* _apply_settings: trust belongs to a host.
ApplySettings(h, d) ==
    git' = [git EXCEPT !.server = h, !.subdir = d,
                       !.known = IF h = git.server THEN @ ELSE "none"]

EditGitSource(h, d) ==
    /\ <<h, d>> # <<git.server, git.subdir>>
    /\ ApplySettings(h, d)
    /\ UNCHANGED <<head, rows, tars, shown, sync, scan, pins, stale, asked, confirmed, deaths>>

TurnGitSource ==
    /\ git' = [git EXCEPT !.enabled = ~@]
    /\ UNCHANGED <<head, rows, tars, shown, sync, scan, pins, stale, asked, confirmed, deaths>>

RequestSync ==
    /\ git.enabled /\ ~ git.requested
    /\ git' = [git EXCEPT !.requested = TRUE] /\ asked' = TRUE
    /\ UNCHANGED <<head, rows, tars, shown, sync, scan, pins, stale, confirmed, deaths>>

\* trust_host_key reads the URL, then scans the server with no transaction open.
ScanServer ==
    /\ scan = "none"
    /\ scan' = git.server
    /\ UNCHANGED <<git, head, rows, tars, shown, sync, pins, stale, asked, confirmed, deaths>>

\* Mutant: the lines are made for the server the row names by now.
TrustReloaded == git' = [git EXCEPT !.known = git.server, !.requested = TRUE]

\* The known_hosts lines carry the scanned server's name.
TrustLines == git' = [git EXCEPT !.known = scan, !.requested = TRUE]

TrustHostKey ==
    /\ scan # "none"
    /\ TrustLines
    /\ confirmed' = confirmed \union {scan} /\ scan' = "none" /\ asked' = TRUE
    /\ UNCHANGED <<head, rows, tars, shown, sync, pins, stale, deaths>>

\* The admin does not recognise the key, or the server shows another one.
RefuseHostKey ==
    /\ scan # "none" /\ scan' = "none"
    /\ UNCHANGED <<git, head, rows, tars, shown, sync, pins, stale, asked, confirmed, deaths>>

\* pin_snapshot: the source's current snapshot, share-locked until the run commits.
PinRun(r) ==
    /\ pins[r] = NoCommit /\ shown # {}
    /\ git.current \in Some
    /\ pins' = [pins EXCEPT ![r] = git.current]
    /\ UNCHANGED <<git, head, rows, tars, shown, sync, scan, stale, asked, confirmed, deaths>>

RunOver(r) ==
    /\ pins[r] # NoCommit /\ pins' = [pins EXCEPT ![r] = NoCommit]
    /\ UNCHANGED <<git, head, rows, tars, shown, sync, scan, stale, asked, confirmed, deaths>>

\* The branch moves, back too.
Push(c) ==
    /\ c # head /\ head' = c
    /\ UNCHANGED <<git, rows, tars, shown, sync, scan, pins, stale, asked, confirmed, deaths>>

-----------------------------------------------------------------------------
(* The sync loop and one sync.                                              *)

\* due_sources: "SSH sources without a trusted host key only when someone asks".
Due == git.enabled /\ (git.requested \/ (AutoSync /\ git.known # "none"))

\* What the first commit of a sync writes.
MarkStarted == git' = [git EXCEPT !.status = "running", !.requested = FALSE]

\* The settings are read once, after that commit.
SyncStarts ==
    /\ sync.at = "idle" /\ Due
    /\ MarkStarted
    /\ sync' = [NoSync EXCEPT !.at = "started", !.server = git.server, !.known = git.known,
                              !.subdir = git.subdir]
    /\ UNCHANGED <<head, rows, tars, shown, scan, pins, stale, asked, confirmed, deaths>>

\* _failed: the session is rolled back; what was current stays so.
Failed == git' = [git EXCEPT !.status = "failed"] /\ sync' = NoSync

\* ssh with StrictHostKeyChecking and the URL's host as the key's name.
Accepts(server, known) == known = server

\* No key is trusted yet, the server's is another, or the command fails or is killed.
FetchFails ==
    /\ sync.at = "started" /\ Failed /\ asked' = FALSE
    /\ UNCHANGED <<head, rows, tars, shown, scan, pins, stale, confirmed, deaths>>

Fetch ==
    /\ sync.at = "started" /\ sync.known # "none" /\ Accepts(sync.server, sync.known)
    /\ sync' = [sync EXCEPT !.at = "fetched", !.commit = head] /\ asked' = FALSE
    /\ UNCHANGED <<git, head, rows, tars, shown, scan, pins, stale, confirmed, deaths>>

\* inspect_tree: no symlink out of the tree, within the limits.
InspectTree(c) == c \notin Refused

InspectFails ==
    /\ sync.at = "fetched" /\ Failed
    /\ UNCHANGED <<head, rows, tars, shown, scan, pins, stale, asked, confirmed, deaths>>

\* A tar is made when the commit has no snapshot or its tar is gone.
TarOf == IF rows[sync.commit] = "none" \/ tars[sync.commit] = "none"
         THEN [tars EXCEPT ![sync.commit] = sync.subdir] ELSE tars

BuildSnapshot ==
    /\ sync.at = "fetched" /\ InspectTree(sync.commit)
    /\ tars' = TarOf
    /\ sync' = [sync EXCEPT !.at = "built", !.had = rows[sync.commit] # "none"]
    /\ UNCHANGED <<git, head, rows, shown, scan, pins, stale, asked, confirmed, deaths>>

\* Mutant: playbooks that left the repository stay.
KeepMissing(found) == shown' = shown \union found

\* _apply on the playbooks: those that went are missing, those that came back revived.
ShowPlaybooks(found) == shown' = found

\* Mutant: the sync clears the request when it ends.
ForgetRequest == git' = [git EXCEPT !.current = sync.commit, !.status = "ok",
                                    !.requested = FALSE]

MarkApplied == git' = [git EXCEPT !.current = sync.commit, !.status = "ok"]

\* _apply and the row's end, in one transaction under the row's lock.
SyncApplies ==
    /\ sync.at = "built" /\ (sync.had => rows[sync.commit] # "none")
    /\ rows' = [c \in Commits |-> IF c = sync.commit THEN "kept"
                                  ELSE IF c = git.current /\ rows[c] # "none" THEN "superseded"
                                  ELSE rows[c]]
    /\ MarkApplied
    /\ ShowPlaybooks(Holds[<<sync.commit, sync.subdir>>])
    /\ sync' = NoSync
    /\ UNCHANGED <<head, tars, scan, pins, stale, asked, confirmed, deaths>>

\* The snapshot found before was pruned since: the flush raises outside the
\* try, and the row goes on saying running.
ApplyLosesRow ==
    /\ sync.at = "built" /\ sync.had /\ rows[sync.commit] = "none"
    /\ sync' = NoSync
    /\ UNCHANGED <<git, head, rows, tars, shown, scan, pins, stale, asked, confirmed, deaths>>

\* The API dies: the advisory lock goes with its connection.  A request the
\* sync had taken is gone; an on-demand source waits for the next one.
ApiDiesSyncing ==
    /\ sync.at # "idle" \/ scan # "none" \/ stale # {}
    /\ deaths < MaxDeaths /\ deaths' = deaths + 1
    /\ sync' = NoSync /\ scan' = "none" /\ stale' = {}
    /\ asked' = (asked /\ (git.requested \/ AutoSync))
    /\ UNCHANGED <<git, head, rows, tars, shown, pins, confirmed>>

-----------------------------------------------------------------------------
(* Pruning, by the reaper.                                                  *)

TimePasses(c) ==
    /\ rows[c] = "superseded" /\ rows' = [rows EXCEPT ![c] = "old"]
    /\ UNCHANGED <<git, head, tars, shown, sync, scan, pins, stale, asked, confirmed, deaths>>

\* Mutant: runs do not count.
PrunableUnpinned == {c \in Commits : rows[c] = "old" /\ c # git.current}

\* Superseded a while ago, not current, no queued or running run pinned to it.
Prunable == {c \in Commits : rows[c] = "old" /\ c # git.current
                             /\ \A r \in PinnedRuns : pins[r] # c}

\* A deleted snapshot leaves the rows that name it with NULL.
Delete(gone) ==
    /\ rows' = [c \in Commits |-> IF c \in gone THEN "none" ELSE rows[c]]
    /\ tars' = [c \in Commits |-> IF c \in gone THEN "none" ELSE tars[c]]
    /\ git' = [git EXCEPT !.current = IF @ \in gone THEN NoCommit ELSE @]
    /\ UNCHANGED <<head, shown, sync, scan, pins, asked, confirmed, deaths>>

\* One SELECT, then a DELETE by id.
PruneSnapshots ==
    IF PruneSplit /\ stale = {}
    THEN /\ Prunable # {} /\ stale' = Prunable
         /\ UNCHANGED <<git, head, rows, tars, shown, sync, scan, pins, asked, confirmed, deaths>>
    ELSE LET gone == IF PruneSplit THEN stale ELSE Prunable
         IN  gone # {} /\ Delete(gone) /\ stale' = {}

-----------------------------------------------------------------------------
SyncSteps == FetchFails \/ Fetch \/ InspectFails \/ BuildSnapshot \/ SyncApplies
             \/ ApplyLosesRow

GitNext ==
    \/ \E h \in Servers, d \in Subdirs : EditGitSource(h, d)
    \/ TurnGitSource \/ RequestSync \/ ScanServer \/ TrustHostKey \/ RefuseHostKey
    \/ \E r \in PinnedRuns : PinRun(r) \/ RunOver(r)
    \/ \E c \in Commits : Push(c) \/ TimePasses(c)
    \/ SyncStarts \/ SyncSteps \/ ApiDiesSyncing
    \/ PruneSnapshots

GitSpec == GitInit /\ [][GitNext]_gitVars

\* The sync loop looks again every LOOP_SECONDS; a sync's commands have a timeout.
GitFairness ==
    /\ SF_gitVars(SyncStarts)
    /\ WF_gitVars(SyncSteps)

-----------------------------------------------------------------------------
\* What a run is pinned to is there for it, row and tar, until the run is
\* over, and so is what the source calls current: through supersession,
\* pruning, a branch that moves back, and a death between tar and row.
PinnedSnapshotsStay ==
    \A c \in {git.current} \union {pins[r] : r \in PinnedRuns} :
        c # NoCommit => rows[c] # "none" /\ tars[c] # "none"

\* The playbooks the source offers are in the tar its runs execute in.
OfferedIsRunnable ==
    git.current # NoCommit =>
        shown \subseteq Holds[<<git.current, tars[git.current]>>]

\* A sync talks only to a server whose host key an admin confirmed for that
\* server, though the URL may change while the key is scanned.
FetchesAreTrusted ==
    sync.at \in {"fetched", "built"} => sync.server \in confirmed

\* Snapshots come from a trusted server, are there while needed, and hold what is offered.
SnapshotsSound == PinnedSnapshotsStay /\ OfferedIsRunnable /\ FetchesAreTrusted

\* A request is served by a sync that looks at the remote after it, or the
\* source is turned off.
RequestsAreServed == GitFairness => (asked ~> (~ asked \/ ~ git.enabled))
=============================================================================
