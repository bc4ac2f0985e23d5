----------------------------- MODULE Refreshes -----------------------------
(***************************************************************************)
(* One inventory's sources and their refreshes: requests that merge into   *)
(* the queued refresh, the job with what each source is to do, outputs     *)
(* kept per source, the combination into a snapshot (here, or by a worker  *)
(* for constructed sources), and the runs that wait for it; while sources  *)
(* are edited, turned off and deleted, the secret store is away, workers   *)
(* vanish, and the API dies between the two transactions of an edit.       *)
(*                                                                         *)
(* A source's config is a version number; what it finds is the version it  *)
(* ran with.  Constructed sources never run on their own: a refresh has a  *)
(* combine stage when there is one.                                        *)
(***************************************************************************)
EXTENDS Integers, FiniteSets

CONSTANTS
    Sources,        \* the inventory's sources but the constructed ones
    Constructed,    \* whether there is an enabled constructed source
    Runs,           \* runs triggered with refresh_first
    Legacy,         \* whether the snapshot dates from before per-source outputs
    Editable,       \* sources that are edited
    Removable,      \* sources that are turned off and on, and deleted
    MaxEdits,       \* of one source
    MaxRefreshes

ASSUME RefreshAssumption ==
    /\ IsFiniteSet(Sources) /\ {Constructed, Legacy} \subseteq BOOLEAN
    /\ Editable \union Removable \subseteq Sources
    /\ MaxEdits \in Nat /\ MaxRefreshes \in Nat

VARIABLES
    source,     \* of each: on, off or gone; config version; last_queued_at set
    output,     \* the version each source's last good output was made with, or None
    refresh,    \* rows of inventory_refreshes, by id
    snapshot,   \* the current one: the refresh that made it, what it holds of each source
    waiting,    \* of each run: its refresh, the refreshes that had begun when it
                \* was triggered, and what became of it
    unsaid,     \* edits committed whose refresh is not queued yet
    told        \* sources whose latest refresh ended in a failure, which was shown

refreshVars == <<source, output, refresh, snapshot, waiting, unsaid, told>>

None == -1
Ids == 1..MaxRefreshes
Active == {"queued", "running"}
NoRow == [ran |-> FALSE, version |-> None, status |-> "none"]
NoRefresh == [status |-> "none", scope |-> {}, stage |-> "none",
              rows |-> [s \in Sources |-> NoRow]]

Enabled(src) == {s \in Sources : src[s].state = "on"}
IdsOf(status) == {r \in Ids : refresh[r].status = status}

\* Sources, outputs, refreshes with their rows, runs.
RefreshTypes ==
    /\ source \in [Sources -> [state : {"on", "off", "gone"}, version : 0..MaxEdits,
                               queued : BOOLEAN]]
    /\ output \in [Sources -> None..MaxEdits]
    /\ \A r \in Ids :
         /\ refresh[r].status \in {"none", "queued", "running", "success", "failed", "cancelled"}
         /\ refresh[r].scope \subseteq Sources
         /\ refresh[r].stage \in {"none", "sources", "combine"}
    /\ Cardinality(IdsOf("queued")) <= 1 /\ Cardinality(IdsOf("running")) <= 1
    /\ snapshot \in [by : 0..MaxRefreshes, holds : [Sources -> None..MaxEdits]]
    /\ \A x \in Runs : waiting[x].at \in {"new", "waiting", "ready", "failed"}
    /\ unsaid \in SUBSET (Sources \X BOOLEAN) /\ told \subseteq Sources

RefreshInit ==
    /\ source = [s \in Sources |-> [state |-> "on", version |-> 0, queued |-> FALSE]]
    /\ output = [s \in Sources |-> None]
    /\ refresh = [r \in Ids |-> NoRefresh]
    /\ snapshot = [by |-> 0, holds |-> [s \in Sources |-> IF Legacy THEN 0 ELSE None]]
    /\ waiting = [x \in Runs |-> [at |-> "new", on |-> 0, begun |-> {}]]
    /\ unsaid = {} /\ told = {}

-----------------------------------------------------------------------------
(* Queueing.                                                                 *)

Begun == {r \in Ids : refresh[r].status \in {"success", "failed"} \/ refresh[r].stage # "none"}
Room == IdsOf("queued") # {} \/ IdsOf("none") # {}
NewId == CHOOSE r \in IdsOf("none") : \A q \in IdsOf("none") : r <= q

\* Mutant: every request gets a refresh of its own.
PlaceNew == NewId

\* Where a request goes: the queued refresh, or a new one.
Place == IF IdsOf("queued") # {} THEN CHOOSE r \in IdsOf("queued") : TRUE ELSE NewId

\* Mutant: a request while one is queued leaves that one as it is.
KeepScope(r, scope) ==
    refresh' = IF refresh[r].status = "queued" THEN refresh
               ELSE [refresh EXCEPT ![r] = [NoRefresh EXCEPT !.status = "queued", !.scope = scope]]

\* enqueue_refresh: merges into the queued one, widening what it runs.
Enqueue(r, scope) ==
    refresh' = [refresh EXCEPT ![r] =
                  IF @.status = "queued" THEN [@ EXCEPT !.scope = refresh[r].scope \union scope]
                  ELSE [NoRefresh EXCEPT !.status = "queued", !.scope = scope]]

Queued(src, scope) ==
    [s \in Sources |-> IF s \in scope /\ src[s].state # "gone"
                       THEN [src[s] EXCEPT !.queued = TRUE] ELSE src[s]]

\* By hand, for all or one source; by schedule; static hosts changed ({}); a
\* repository moved.
RequestRefresh(scope) ==
    /\ Enabled(source) # {} /\ Room
    /\ scope \subseteq Enabled(source)
    /\ Enqueue(Place, scope)
    /\ source' = Queued(source, scope)
    /\ UNCHANGED <<output, snapshot, waiting, unsaid, told>>

\* Mutant: a run joins a refresh that has begun.
JoinAny == IF IdsOf("running") # {} THEN CHOOSE r \in IdsOf("running") : TRUE ELSE Place

\* _refresh_for_run: "a new one, or the one already waiting in the queue".
RefreshForRun == Place

TriggerRun(x) ==
    /\ waiting[x].at = "new" /\ Enabled(source) # {} /\ Room
    /\ Enqueue(Place, Sources)
    /\ source' = Queued(source, Enabled(source))
    /\ waiting' = [waiting EXCEPT ![x] = [at |-> "waiting", on |-> RefreshForRun, begun |-> Begun]]
    /\ UNCHANGED <<output, snapshot, unsaid, told>>

-----------------------------------------------------------------------------
(* Editing the sources: the change is committed, then its refresh is queued. *)

EditSource(s) ==
    /\ s \in Editable /\ source[s].state # "gone" /\ source[s].version < MaxEdits
    /\ source' = [source EXCEPT ![s].version = @ + 1, ![s].queued = FALSE]
    /\ unsaid' = unsaid \union {<<s, TRUE>>} /\ told' = told \ {s}
    /\ UNCHANGED <<output, refresh, snapshot, waiting>>

TurnSource(s) ==
    /\ s \in Removable /\ source[s].state # "gone"
    /\ source' = [source EXCEPT ![s].state = IF @ = "on" THEN "off" ELSE "on",
                                ![s].queued = @ /\ source[s].state = "on"]
    /\ unsaid' = unsaid \union {<<s, source[s].state = "off">>}
    /\ UNCHANGED <<output, refresh, snapshot, waiting, told>>

\* Its output goes with it.
DeleteSource(s) ==
    /\ s \in Removable /\ source[s].state # "gone"
    /\ source' = [source EXCEPT ![s].state = "gone"]
    /\ output' = [output EXCEPT ![s] = None]
    /\ unsaid' = unsaid \union {<<s, FALSE>>}
    /\ UNCHANGED <<refresh, snapshot, waiting, told>>

\* _sources_changed: runs a new or changed source; without any there is no snapshot.
SourcesChanged(s, rerun) ==
    LET scope == IF rerun /\ source[s].state # "gone" THEN {s} ELSE {} IN
    /\ <<s, rerun>> \in unsaid /\ unsaid' = unsaid \ {<<s, rerun>>}
    /\ IF Enabled(source) = {}
       THEN snapshot' = [by |-> 0, holds |-> [t \in Sources |-> None]] /\ UNCHANGED <<source, refresh>>
       ELSE Room /\ Enqueue(Place, scope) /\ source' = Queued(source, scope) /\ UNCHANGED snapshot
    /\ UNCHANGED <<output, waiting, told>>

\* The API process dies between the two commits.
ApiDies ==
    /\ unsaid # {} /\ unsaid' = {}
    /\ UNCHANGED <<source, output, refresh, snapshot, waiting, told>>

-----------------------------------------------------------------------------
(* Ending a refresh.                                                         *)

\* end_refresh and _release_waiting_runs: the runs get the snapshot it made, or fail.
Ends(r, status, rows, made) ==
    /\ refresh' = [refresh EXCEPT ![r] = [NoRefresh EXCEPT !.status = status]]
    /\ told' = IF status = "success" THEN told \ {s \in Sources : rows[s].ran}
               ELSE told \union {s \in Sources : rows[s].ran /\ rows[s].version = source[s].version}
                         \union (IF refresh[r].stage = "none" THEN refresh[r].scope ELSE {})
    /\ waiting' = [x \in Runs |->
         IF waiting[x].at = "waiting" /\ waiting[x].on = r
         THEN [waiting[x] EXCEPT !.at = IF status = "success" /\ made THEN "ready" ELSE "failed"]
         ELSE waiting[x]]

\* keep_current_snapshot: no source worked, or a failed one has no output yet and
\* is in the current snapshot.
KeepCurrent(rows, out) ==
    LET ran == {s \in Sources : rows[s].ran} IN
    \/ ran # {} /\ \A s \in ran : rows[s].status = "failed"
    \/ /\ snapshot.by # 0 \/ Legacy
       /\ \E s \in Sources : rows[s].status = "failed" /\ snapshot.holds[s] # None /\ out[s] = None

\* Mutant: combines what ran this time.
CombineRan(out, rows) ==
    [s \in Sources |-> IF source[s].state = "on" /\ rows[s].status = "success" THEN out[s] ELSE None]

\* combine_here, build_combine_job: the enabled sources' last good outputs.
Combine(out, rows) ==
    [s \in Sources |-> IF source[s].state = "on" THEN out[s] ELSE None]

\* _finish_refresh
Finish(r, rows, out) ==
    LET keep == KeepCurrent(rows, out)
        failed == \E s \in Sources : rows[s].status = "failed" IN
    /\ snapshot' = IF keep THEN snapshot ELSE [by |-> r, holds |-> Combine(out, rows)]
    /\ Ends(r, IF failed THEN "failed" ELSE "success", rows, ~keep)

Fails(r) ==
    /\ Ends(r, "failed", refresh[r].rows, FALSE)
    /\ UNCHANGED <<source, output, snapshot, unsaid>>

-----------------------------------------------------------------------------
(* A worker's refresh.                                                       *)

ClaimRefresh(r) ==
    /\ refresh[r].status = "queued" /\ IdsOf("running") = {}
    /\ refresh' = [refresh EXCEPT ![r].status = "running"]
    /\ UNCHANGED <<source, output, snapshot, waiting, unsaid, told>>

\* Its scope, and what nothing ran since it was added or changed.
RunsNow(r) == {s \in Enabled(source) : s \in refresh[r].scope \/ ~source[s].queued}

\* build_refresh_job; a git file that can't be read fails only its own source.
BuildJob(r) ==
    /\ refresh[r].status = "running" /\ refresh[r].stage = "none" /\ Enabled(source) # {}
    /\ \E broken \in SUBSET RunsNow(r) :
         refresh' = [refresh EXCEPT
           ![r].stage = "sources",
           ![r].rows = [s \in Sources |->
              IF s \notin Enabled(source) THEN NoRow
              ELSE [ran |-> s \in RunsNow(r), version |-> source[s].version,
                    status |-> IF s \in broken THEN "failed" ELSE "none"]]]
    /\ source' = Queued(source, RunsNow(r))
    /\ UNCHANGED <<output, snapshot, waiting, unsaid, told>>

\* No enabled source, or a credential that can't be used: what the sources were
\* marked with before is committed with the failure.
BuildFails(r) ==
    /\ refresh[r].status = "running" /\ refresh[r].stage = "none"
    /\ \E marked \in SUBSET RunsNow(r) : source' = Queued(source, marked)
    /\ Ends(r, "failed", [s \in Sources |-> [NoRow EXCEPT !.ran = s \in RunsNow(r),
                                                          !.version = source[s].version]], FALSE)
    /\ UNCHANGED <<output, snapshot, unsaid>>

MoveRuns(r, other) ==
    [x \in Runs |-> IF waiting[x].at = "waiting" /\ waiting[x].on = r
                    THEN [waiting[x] EXCEPT !.on = other] ELSE waiting[x]]

\* requeue_refresh, during an outage: back into the queue, or into the one queued meanwhile.
RequeueRefresh(r) ==
    /\ refresh[r].status = "running" /\ refresh[r].stage = "none"
    /\ IF IdsOf("queued") = {}
       THEN refresh' = [refresh EXCEPT ![r].status = "queued"] /\ UNCHANGED waiting
       ELSE /\ refresh' = [refresh EXCEPT ![Place].scope = @ \union refresh[r].scope,
                                          ![r] = [NoRefresh EXCEPT !.status = "cancelled"]]
            /\ waiting' = MoveRuns(r, Place)
    /\ UNCHANGED <<source, output, snapshot, unsaid, told>>

\* Mutant: a refresh whose job was handed out is left to its worker.
LostUnbuilt(r) == refresh[r].status = "running" /\ refresh[r].stage = "none" /\ Fails(r)

\* The worker's process died or was cut off, its answer never came, or it reports
\* that it was stopped: the reaper or refresh_complete ends it.
RefreshLost(r) == refresh[r].status = "running" /\ Fails(r)

\* Mutant: an output is stored for a source that was edited meanwhile.
StaleNever(s, row) == FALSE

Stale(s, row) == source[s].state = "gone" \/ source[s].version # row.version

\* _store_results: store_source_output and record_source_failure.
Settled(s, row, works) ==
    IF ~row.ran \/ row.status # "none" THEN row
    ELSE [row EXCEPT !.status = IF s \notin works THEN "failed"
                                ELSE IF Stale(s, row) THEN "stale" ELSE "success"]

\* refresh_sources, asked for the first time: asked again it gives the same combine job.
ReportSources(r, works) ==
    LET rows == [s \in Sources |-> Settled(s, refresh[r].rows[s], works)]
        new(s) == rows[s].status = "success" /\ refresh[r].rows[s].status = "none"
        out == [s \in Sources |-> IF new(s) THEN rows[s].version ELSE output[s]] IN
    /\ refresh[r].status = "running" /\ refresh[r].stage = "sources"
    /\ output' = out
    /\ IF Constructed /\ Enabled(source) # {}
       THEN /\ refresh' = [refresh EXCEPT ![r].stage = "combine", ![r].rows = rows]
            /\ UNCHANGED <<snapshot, waiting, told>>
       ELSE Finish(r, rows, out)
    /\ UNCHANGED <<source, unsaid>>

\* refresh_complete with the combine's output.
ReportCombined(r) ==
    /\ refresh[r].status = "running" /\ refresh[r].stage = "combine"
    /\ Finish(r, refresh[r].rows, output)
    /\ UNCHANGED <<source, output, unsaid>>

RefreshNext ==
    \/ \E scope \in SUBSET Sources : RequestRefresh(scope)
    \/ \E x \in Runs : TriggerRun(x)
    \/ \E s \in Sources : EditSource(s) \/ TurnSource(s) \/ DeleteSource(s)
    \/ \E s \in Sources, rerun \in BOOLEAN : SourcesChanged(s, rerun)
    \/ ApiDies
    \/ \E r \in Ids : ClaimRefresh(r) \/ BuildJob(r) \/ BuildFails(r) \/ RequeueRefresh(r)
                      \/ RefreshLost(r) \/ ReportCombined(r)
    \/ \E r \in Ids, works \in SUBSET Sources : ReportSources(r, works)

RefreshSpec == RefreshInit /\ [][RefreshNext]_refreshVars

-----------------------------------------------------------------------------
\* An output that is stored was made by the config the source has then, though the job
\* took it with the config of its start and edits came meanwhile.
OutputsFollowConfig ==
    [][\A s \in Sources :
         output'[s] # output[s] /\ source'[s].state # "gone" => output'[s] = source[s].version]_refreshVars

\* "the sources that didn't run or failed keep contributing their last good
\* output": no refresh takes a source out of the snapshot that is still there and on.
SourcesKeepContributing ==
    [][\A s \in Sources :
         /\ snapshot'.by # 0 /\ snapshot'.by # snapshot.by
         /\ snapshot.holds[s] # None /\ source[s].state = "on"
         => snapshot'.holds[s] # None]_refreshVars

\* A source's part of the inventory is its own, of its config, and stays.
SourcesContribute == OutputsFollowConfig /\ SourcesKeepContributing

\* A run that asked for a refresh gets one "that starts after now", also when its
\* refresh was merged into another while the secret store was away; and never waits
\* for one that is over.
RunsGetALaterRefresh ==
    \A x \in Runs :
      /\ waiting[x].at = "ready" => refresh[waiting[x].on].status = "success"
                                    /\ waiting[x].on \notin waiting[x].begun
      /\ waiting[x].at = "waiting" => refresh[waiting[x].on].status \in Active

RanAsIs(r, s) == refresh[r].rows[s].ran /\ refresh[r].rows[s].version = source[s].version

\* A source whose config changed is not forgotten: it is in an edit on its way, in a
\* refresh that is queued or running, will run in the next one whatever that is
\* for, or ran and its output, its error or its refresh's failure shows.
EditsAreNotForgotten ==
    \A s \in Sources : source[s].state = "on" =>
      \/ ~source[s].queued
      \/ \E r \in Ids : refresh[r].status \in Active
                        /\ (s \in refresh[r].scope \/ RanAsIs(r, s))
      \/ output[s] = source[s].version
      \/ s \in told

\* A refresh that was asked for happens, for runs and for edits.
RefreshesServe == RunsGetALaterRefresh /\ EditsAreNotForgotten

-----------------------------------------------------------------------------
\* Workers claim, an outage of the secret store passes, and the reaper ends what the
\* workers don't.
RefreshFairness ==
    \A r \in Ids :
      /\ WF_refreshVars(ClaimRefresh(r)) /\ SF_refreshVars(BuildJob(r))
      /\ WF_refreshVars(RefreshLost(r))

\* A run that waits for a refresh does not wait for ever.
WaitingEnds ==
    RefreshFairness =>
        \A x \in Runs : waiting[x].at = "waiting" ~> waiting[x].at # "waiting"
=============================================================================
