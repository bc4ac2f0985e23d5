------------------------------ MODULE RunQueue ------------------------------
(***************************************************************************)
(* The run queue of AnsiDeck: the `runs` table in Postgres, the claim      *)
(* query, the internal API's handlers (claim, job, heartbeat, complete),   *)
(* the reaper, cancels and deletes, the galaxy-install gate and the        *)
(* secret-store outage row.                                                *)
(*                                                                         *)
(* An action is one committed database transaction.  Three handlers are    *)
(* several transactions or hold locks that others meet, and are split      *)
(* exactly there: triggering (queued_at is the transaction's start, the    *)
(* row is seen only after its commit), claiming (the row lock and the      *)
(* shared gate are held from the SELECT to the commit), and a job whose    *)
(* secrets can't be read (rollback, then a second transaction).            *)
(*                                                                         *)
(* Time is abstract: a lease, a hold or a wait may run out at any moment.  *)
(***************************************************************************)
EXTENDS Integers, FiniteSets

CONSTANTS
    Runs, Inventories,
    Workers,            \* worker slots: each executes one run at a time
    Tokens,             \* claim tokens; a fresh one is one nobody holds
    NoRun, NoToken,
    InventoryOf,        \* the inventory each run targets
    CanRun,             \* per slot, the runs whose inventory's host-key and egress rules it meets
    CertRuns,           \* runs with an SSH certificate credential
    CertWorkers,        \* slots that load SSH certificates
    NeedsStore,         \* runs whose job reads the secret store
    RefreshFirst,       \* runs that wait for a refresh of their inventory
    StoreWait,          \* SECRETS_STORE_WAIT_MINUTES > 0
    Deletable,          \* what users delete under active runs
    OverlappingCalls,   \* a retried job call may reach the API while the first is still handled
    MaxInstalls,        \* bound: galaxy installs queued
    MaxOutages,         \* bound: times the secret store goes down
    MaxLate             \* bound: abandoned requests still on their way

ASSUME QueueAssumption ==
    /\ InventoryOf \in [Runs -> Inventories]
    /\ CanRun \in [Workers -> SUBSET Runs]
    /\ CertRuns \subseteq NeedsStore /\ CertWorkers \subseteq Workers
    /\ NeedsStore \subseteq Runs /\ RefreshFirst \subseteq Runs
    /\ Deletable \subseteq {"inventory", "credential", "vault", "playbook"}
    /\ StoreWait \in BOOLEAN /\ OverlappingCalls \in BOOLEAN
    /\ MaxInstalls \in Nat /\ MaxOutages \in Nat /\ MaxLate \in Nat
    /\ NoRun \notin Runs /\ NoToken \notin Tokens

VARIABLES
    row,        \* the runs table
    clock,      \* orders transaction starts and commits
    claiming,   \* the row each slot's claim transaction has locked
    held,       \* what each slot believes it is executing
    late,       \* requests their worker gave up on that may still arrive
    limbo,      \* job handlers between their two transactions (store down)
    goneInv,    \* deleted inventories
    install,    \* the galaxy install: none, queued or running
    installs,   \* installs queued so far
    storeUp,    \* whether the secret store answers
    outages,    \* times it went down
    outage,     \* the secret_store_outage row: none, held, lapsed
    waitedOut   \* runs whose wait for this outage is over

dbVars    == <<row, clock, goneInv>>
gateVars  == <<install, installs>>
storeVars == <<storeUp, outages, outage, waitedOut>>
vars == <<dbVars, claiming, held, late, limbo, gateVars, storeVars>>

Finished == {"success", "failed", "cancelled", "timed_out"}
Active   == {"queued", "running"}
Status   == {"absent", "inserting"} \union Active \union Finished

Row == [status: Status, queuedAt: Nat, arrival: Nat,
        token: Tokens \union {NoToken}, jobToken: BOOLEAN,
        lease: {"none", "live", "expired"}, cancel: BOOLEAN,
        missing: {"nothing", "credential", "vault", "playbook"},
        refresh: {"none", "pending"}, handed: 0..2]

Task == [run: Runs, token: Tokens, phase: {"fetching", "executing"}]
Idle == [run |-> NoRun, token |-> NoToken, phase |-> "idle"]

\* A request a worker gave up on.
Request == [kind: {"job", "complete"}, run: Runs, token: Tokens]

TypeOK ==
    /\ row \in [Runs -> Row]
    /\ clock \in Nat
    /\ claiming \in [Workers -> Runs \union {NoRun}]
    /\ held \in [Workers -> Task \union {Idle}]
    /\ late \subseteq Request
    /\ limbo \subseteq Runs \X Tokens
    /\ goneInv \subseteq Inventories
    /\ install \in {"none"} \union Active
    /\ installs \in 0..MaxInstalls
    /\ storeUp \in BOOLEAN
    /\ outages \in 0..MaxOutages
    /\ outage \in {"none", "held", "lapsed"}
    /\ waitedOut \subseteq NeedsStore

AbsentRow == [status |-> "absent", queuedAt |-> 0, arrival |-> 0,
              token |-> NoToken, jobToken |-> FALSE, lease |-> "none",
              cancel |-> FALSE, missing |-> "nothing", refresh |-> "none",
              handed |-> 0]

Init ==
    /\ row = [r \in Runs |-> AbsentRow]
    /\ clock = 0
    /\ claiming = [w \in Workers |-> NoRun]
    /\ held = [w \in Workers |-> Idle]
    /\ late = {} /\ limbo = {} /\ goneInv = {}
    /\ install = "none" /\ installs = 0
    /\ storeUp = TRUE /\ outages = 0 /\ outage = "none" /\ waitedOut = {}

-----------------------------------------------------------------------------
(* State of the table, as the queries ask for it. *)

Is(r, s)    == row[r].status = s
InvGone(r)  == InventoryOf[r] \in goneInv
Locked(r)   == \E w \in Workers : claiming[w] = r

\* Another run on the same (still existing) inventory.
SameInventory(r, q) == q # r /\ InventoryOf[q] = InventoryOf[r] /\ ~InvGone(r)

\* unrunnable_reason: something the run needs was deleted.
Unrunnable(r) == InvGone(r) \/ row[r].missing # "nothing"

\* The claim token is the run's current one: _locked_run finds the row.
Owns(r, t) == Is(r, "running") /\ row[r].token = t

InUse == {row[r].token : r \in Runs} \union {held[w].token : w \in Workers}
            \union {q.token : q \in late} \union {p[2] : p \in limbo}
\* Mutant: a slot's token may be given to another claim.
FreshInTable(t) == t \in Tokens /\ \A r \in Runs : row[r].token # t
Fresh(t) == t \in Tokens \ InUse

(* What handlers write to a row. *)

\* fail_run: ends a run for AnsiDeck's own reasons.
FailRun(x, s) == [x EXCEPT !.status = s, !.token = NoToken,
                           !.jobToken = FALSE, !.lease = "none"]

\* requeue_run: back in the queue in its old place.
RequeueRun(x) == [x EXCEPT !.status = "queued", !.token = NoToken,
                           !.jobToken = FALSE, !.lease = "none"]

\* The claim's UPDATE.
ClaimRow(x, t) == [x EXCEPT !.status = "running", !.token = t,
                            !.jobToken = TRUE, !.lease = "live"]

\* Mutant: the job token stays valid.
HandOutAgain(x) == [x EXCEPT !.handed = IF x.handed < 2 THEN x.handed + 1 ELSE x.handed]
\* The job token is used up.
HandOut(x) == [x EXCEPT !.jobToken = FALSE,
                        !.handed = IF x.handed < 2 THEN x.handed + 1 ELSE x.handed]

\* complete: the run ends as its worker reported.
EndRun(x, s) == [x EXCEPT !.status = s, !.token = NoToken, !.lease = "none"]

SetRow(r, x) == row' = [row EXCEPT ![r] = x]

-----------------------------------------------------------------------------
(* Triggering: the transaction starts (queued_at = now()), pins what the    *)
(* run executes, and commits the row.                                      *)

QueueRunBegin(r) ==
    /\ Is(r, "absent") /\ ~InvGone(r)
    /\ SetRow(r, [row[r] EXCEPT !.status = "inserting", !.queuedAt = clock])
    /\ clock' = clock + 1
    /\ UNCHANGED <<claiming, held, late, limbo, goneInv, gateVars, storeVars>>

\* The foreign keys refuse the insert when the inventory went away meanwhile.
QueueRunCommit(r) ==
    /\ Is(r, "inserting") /\ ~InvGone(r)
    /\ SetRow(r, [row[r] EXCEPT !.status = "queued", !.arrival = clock,
                                !.refresh = IF r \in RefreshFirst THEN "pending" ELSE "none"])
    /\ clock' = clock + 1
    /\ UNCHANGED <<claiming, held, late, limbo, goneInv, gateVars, storeVars>>

\* The refresh a run waits for ended: the run gets its snapshot, or fails
\* with it (or because its target group is not in it).
ReleaseWaitingRun(r) ==
    /\ row[r].refresh = "pending"
    /\ ~Locked(r)
    /\ \/ SetRow(r, [row[r] EXCEPT !.refresh = "none"])
       \/ /\ Is(r, "queued")
          /\ SetRow(r, [FailRun(row[r], "failed") EXCEPT !.refresh = "none"])
    /\ UNCHANGED <<clock, claiming, held, late, limbo, goneInv, gateVars, storeVars>>

-----------------------------------------------------------------------------
(* Claiming. *)

\* Mutant: no end to the wait.
StoreHoldsForever(r) == /\ StoreWait /\ outage = "held"
                        /\ r \in NeedsStore /\ row[r].missing # "credential"

\* While the outage is held, a run that reads the store waits, unless its
\* wait is over.
StoreHolds(r) == /\ StoreWait /\ outage = "held" /\ r \notin waitedOut
                 /\ r \in NeedsStore /\ row[r].missing # "credential"

\* Mutant: a free inventory is enough, whoever was queued first.
CandidateAnyOrder(w, r) ==
    /\ Is(r, "queued")
    /\ ~\E q \in Runs : SameInventory(r, q) /\ Is(q, "running")
    /\ row[r].refresh = "none"
    /\ r \in CanRun[w] \/ InvGone(r)
    /\ w \in CertWorkers \/ r \notin CertRuns \/ row[r].missing = "credential"
    /\ ~StoreHolds(r)

\* The WHERE clause of _CLAIM for one run and the slot's capabilities.
Candidate(w, r) ==
    /\ Is(r, "queued")
    /\ ~\E q \in Runs : SameInventory(r, q) /\ Is(q, "running")
    /\ row[r].refresh = "none"
    /\ r \in CanRun[w] \/ InvGone(r)
    /\ w \in CertWorkers \/ r \notin CertRuns \/ row[r].missing = "credential"
    /\ ~StoreHolds(r)
    /\ ~\E q \in Runs : /\ SameInventory(r, q) /\ Is(q, "queued")
                        /\ row[q].queuedAt < row[r].queuedAt

\* ORDER BY queued_at LIMIT 1 FOR UPDATE SKIP LOCKED.
Selected(w, r) ==
    /\ Candidate(w, r) /\ ~Locked(r)
    /\ \A q \in Runs : Candidate(w, q) /\ ~Locked(q) => row[r].queuedAt <= row[q].queuedAt

\* Mutant: earlier runs that only wait are overlooked.
WaitReasonRunningOnly(r) ==
    IF install # "none" THEN "install"
    ELSE IF row[r].refresh = "pending" THEN "refresh"
    ELSE IF \E q \in Runs : SameInventory(r, q) /\ Is(q, "running") THEN "another run"
    ELSE IF StoreHolds(r) THEN "store"
    ELSE "worker"

\* wait_reason: what users are told about a queued run, in the claim rules' order.
\* Every slot is online here; the capabilities are asked about one after another.
WaitReason(r) ==
    IF install # "none" THEN "install"
    ELSE IF row[r].refresh = "pending" THEN "refresh"
    ELSE IF \E q \in Runs : /\ SameInventory(r, q)
                            /\ \/ Is(q, "running")
                               \/ Is(q, "queued") /\ row[q].queuedAt < row[r].queuedAt
         THEN "another run"
    ELSE IF StoreHolds(r) THEN "store"
    ELSE IF ~InvGone(r) /\ \A w \in Workers : r \notin CanRun[w] THEN "capabilities"
    ELSE IF r \in CertRuns /\ row[r].missing # "credential" /\ CertWorkers = {} THEN "certificates"
    ELSE "worker"

\* The transaction takes the gate shared, sees no pending install and locks
\* its candidate.
ClaimSelect(w) ==
    /\ held[w] = Idle /\ claiming[w] = NoRun
    /\ install = "none"
    /\ \E r \in Runs : /\ Selected(w, r)
                       /\ claiming' = [claiming EXCEPT ![w] = r]
    /\ UNCHANGED <<dbVars, held, late, limbo, gateVars, storeVars>>

\* Mutant: no index, the claim query alone.
NoUniqueIndex(r) == FALSE

\* The partial unique index refuses a second running run of an inventory.
UniqueViolation(r) == \E q \in Runs : SameInventory(r, q) /\ Is(q, "running")

ClaimConflict(w) ==
    /\ claiming[w] # NoRun /\ UniqueViolation(claiming[w])
    /\ claiming' = [claiming EXCEPT ![w] = NoRun]
    /\ UNCHANGED <<dbVars, held, late, limbo, gateVars, storeVars>>

\* A claimed run that can no longer run as triggered fails in the same
\* transaction; the slot tries the next candidate.
ClaimUnrunnable(w) ==
    /\ claiming[w] # NoRun
    /\ ~UniqueViolation(claiming[w]) /\ Unrunnable(claiming[w])
    /\ SetRow(claiming[w], FailRun(row[claiming[w]], "failed"))
    /\ claiming' = [claiming EXCEPT ![w] = NoRun]
    /\ UNCHANGED <<clock, held, late, limbo, goneInv, gateVars, storeVars>>

\* The claim commits; its response reaches the slot, or is lost (then
\* nobody holds the token and only the lease ends the run).
ClaimGranted(w, t, delivered) ==
    /\ claiming[w] # NoRun /\ Fresh(t)
    /\ ~UniqueViolation(claiming[w]) /\ ~Unrunnable(claiming[w])
    /\ SetRow(claiming[w], ClaimRow(row[claiming[w]], t))
    /\ claiming' = [claiming EXCEPT ![w] = NoRun]
    /\ held' = IF delivered
               THEN [held EXCEPT ![w] = [run |-> claiming[w], token |-> t, phase |-> "fetching"]]
               ELSE held
    /\ UNCHANGED <<clock, late, limbo, goneInv, gateVars, storeVars>>

-----------------------------------------------------------------------------
(* The job handler: what each outcome does to the database. *)

\* Mutant: the claim token is enough to fetch the job.
JobTokenIgnored(r, t) == Owns(r, t)

JobTokenValid(r, t) == Owns(r, t) /\ row[r].jobToken

\* 410: not the owner, the job was handed out, or its token expired.
JobGone == UNCHANGED <<dbVars, limbo, gateVars, storeVars>>

JobCancelled(r, t) ==
    /\ JobTokenValid(r, t) /\ row[r].cancel
    /\ SetRow(r, FailRun(row[r], "cancelled"))
    /\ UNCHANGED <<clock, goneInv, limbo, gateVars, storeVars>>

\* build_job refuses: a deleted item, a store error that is no outage, or
\* any other failure.
JobFailed(r, t) ==
    /\ JobTokenValid(r, t) /\ ~row[r].cancel
    /\ SetRow(r, FailRun(row[r], "failed"))
    /\ UNCHANGED <<clock, goneInv, limbo, gateVars, storeVars>>

\* The job is handed out; a store read that worked ends the outage.  build_job
\* looks for the credential and the inventory again, but a playbook deleted
\* since the claim is pinned in the row, and a vault password deleted since
\* the claim is simply no longer there to read.
JobHandedOut(r, t) ==
    /\ JobTokenValid(r, t) /\ ~row[r].cancel
    /\ ~InvGone(r) /\ row[r].missing # "credential"
    /\ r \in NeedsStore => storeUp
    /\ SetRow(r, HandOut(row[r]))
    /\ IF r \in NeedsStore
       THEN outage' = "none" /\ waitedOut' = {}
       ELSE UNCHANGED <<outage, waitedOut>>
    /\ UNCHANGED <<clock, goneInv, limbo, gateVars, storeUp, outages>>

\* The store is down: the transaction is rolled back, the job token is back,
\* and the handler goes on to _store_down.
JobStoreError(r, t) ==
    /\ JobTokenValid(r, t) /\ ~row[r].cancel
    /\ r \in NeedsStore /\ ~storeUp
    /\ limbo' = limbo \union {<<r, t>>}
    /\ UNCHANGED <<dbVars, gateVars, storeVars>>

\* Mutant: _store_down without its check for a cancel.
StoreDownRowUncancelled(r) ==
    IF ~StoreWait \/ r \in waitedOut THEN FailRun(row[r], "failed") ELSE RequeueRun(row[r])

\* The row _store_down writes: the run is cancelled, fails once its wait is
\* over, or goes back to the queue.
StoreDownRow(r) ==
    IF row[r].cancel THEN FailRun(row[r], "cancelled")
    ELSE IF ~StoreWait \/ r \in waitedOut THEN FailRun(row[r], "failed")
    ELSE RequeueRun(row[r])

StoreDown(r, t) ==
    /\ <<r, t>> \in limbo
    /\ limbo' = limbo \ {<<r, t>>}
    /\ IF Owns(r, t)
       THEN SetRow(r, StoreDownRow(r)) /\ outage' = "held"
       ELSE UNCHANGED <<row, outage>>
    /\ UNCHANGED <<clock, claiming, held, late, goneInv, gateVars, storeUp, outages, waitedOut>>

\* The slot's job call.  Only a 200 starts the run and only a final 410 ends
\* the task; every other answer, or none, leads to another call.
FetchJob(w) ==
    LET r == held[w].run  t == held[w].token IN
    /\ held[w].phase = "fetching"
    /\ OverlappingCalls \/ <<r, t>> \notin limbo
    /\ \/ JobGone /\ held' = [held EXCEPT ![w] = Idle]
       \/ JobCancelled(r, t) /\ UNCHANGED held
       \/ JobFailed(r, t) /\ UNCHANGED held
       \/ JobStoreError(r, t) /\ UNCHANGED held
       \/ JobHandedOut(r, t) /\ UNCHANGED held    \* the answer was lost
       \/ JobHandedOut(r, t) /\ held' = [held EXCEPT ![w].phase = "executing"]
    /\ UNCHANGED <<claiming, late>>

-----------------------------------------------------------------------------
(* The other calls of a worker. *)

\* heartbeat: renews the lease of a run it still owns.
Heartbeat(w) ==
    LET r == held[w].run IN
    /\ held[w].phase # "idle" /\ Owns(r, held[w].token)
    /\ SetRow(r, [row[r] EXCEPT !.lease = "live"])
    /\ UNCHANGED <<clock, claiming, held, late, limbo, goneInv, gateVars, storeVars>>

\* heartbeat answers "gone": the worker stops without reporting.
HeartbeatGone(w) ==
    /\ held[w].phase # "idle" /\ ~Owns(held[w].run, held[w].token)
    /\ held' = [held EXCEPT ![w] = Idle]
    /\ UNCHANGED <<dbVars, claiming, late, limbo, gateVars, storeVars>>

\* What a worker may report: "cancelled" only after the API told it to stop.
Outcomes(r) == {"success", "failed", "timed_out"}
                 \union (IF row[r].cancel THEN {"cancelled"} ELSE {})

\* complete, when the claim still owns the run.
CompleteRun(r, t, s) ==
    /\ Owns(r, t)
    /\ SetRow(r, EndRun(row[r], s))
    /\ UNCHANGED <<clock, goneInv, limbo, gateVars, storeVars>>

Complete(w) ==
    /\ held[w].phase = "executing"
    /\ \E s \in Outcomes(held[w].run) : CompleteRun(held[w].run, held[w].token, s)
    /\ \/ held' = [held EXCEPT ![w] = Idle]
       \/ UNCHANGED held                          \* the answer was lost
    /\ UNCHANGED <<claiming, late>>

\* Mutant: a slot without a task also sends a last request.
AbandonIdle(w) ==
    /\ held' = [held EXCEPT ![w] = Idle]
    /\ Cardinality(late) < MaxLate
    /\ late' = late \union
         {[kind |-> IF held[w].phase = "fetching" THEN "job" ELSE "complete",
           run |-> held[w].run, token |-> held[w].token]}
    /\ UNCHANGED <<dbVars, claiming, limbo, gateVars, storeVars>>

\* The worker crashes, shuts down or gives up on its task; its last request
\* may still be on its way.
Abandon(w) ==
    /\ held[w].phase # "idle"
    /\ held' = [held EXCEPT ![w] = Idle]
    /\ \/ UNCHANGED late
       \/ /\ Cardinality(late) < MaxLate
          /\ late' = late \union
               {[kind |-> IF held[w].phase = "fetching" THEN "job" ELSE "complete",
                 run |-> held[w].run, token |-> held[w].token]}
    /\ UNCHANGED <<dbVars, claiming, limbo, gateVars, storeVars>>

\* An abandoned request reaches the API after all, or never does.
LateRequest(q) ==
    /\ late' = late \ {q}
    /\ \/ JobGone
       \/ /\ q.kind = "job"
          /\ OverlappingCalls \/ <<q.run, q.token>> \notin limbo
          /\ \/ JobCancelled(q.run, q.token) \/ JobFailed(q.run, q.token)
             \/ JobStoreError(q.run, q.token) \/ JobHandedOut(q.run, q.token)
       \/ /\ q.kind = "complete"
          /\ \E s \in Outcomes(q.run) : CompleteRun(q.run, q.token, s)
    /\ UNCHANGED <<claiming, held>>

-----------------------------------------------------------------------------
(* Users. *)

\* Mutant: the cancel reads the row without locking it.
CancelUnlocked(r) ==
    /\ row[r].status \in Active /\ ~row[r].cancel
    /\ LET x == [row[r] EXCEPT !.cancel = TRUE]
       IN SetRow(r, IF Is(r, "queued") THEN FailRun(x, "cancelled") ELSE x)
    /\ UNCHANGED <<clock, claiming, held, late, limbo, goneInv, gateVars, storeVars>>

\* cancel_run waits for the row lock; a queued run ends at once.
CancelRun(r) ==
    /\ row[r].status \in Active /\ ~row[r].cancel /\ ~Locked(r)
    /\ LET x == [row[r] EXCEPT !.cancel = TRUE]
       IN SetRow(r, IF Is(r, "queued") THEN FailRun(x, "cancelled") ELSE x)
    /\ UNCHANGED <<clock, claiming, held, late, limbo, goneInv, gateVars, storeVars>>

\* Deleting the playbook, credential or vault password a run names sets its
\* reference to NULL; so does deleting the inventory, for all its runs.
DeleteReference(r) ==
    /\ row[r].status \in Active /\ ~Locked(r) /\ row[r].missing = "nothing"
    /\ \E m \in Deletable \ {"inventory"} : SetRow(r, [row[r] EXCEPT !.missing = m])
    /\ UNCHANGED <<clock, claiming, held, late, limbo, goneInv, gateVars, storeVars>>

DeleteInventory(i) ==
    /\ "inventory" \in Deletable /\ i \notin goneInv
    /\ \A r \in Runs : InventoryOf[r] = i => ~Locked(r)
    /\ goneInv' = goneInv \union {i}
    /\ UNCHANGED <<row, clock, claiming, held, late, limbo, gateVars, storeVars>>

-----------------------------------------------------------------------------
(* The reaper. *)

LeaseExpires(r) ==
    /\ row[r].lease = "live"
    /\ SetRow(r, [row[r] EXCEPT !.lease = "expired"])
    /\ UNCHANGED <<clock, claiming, held, late, limbo, goneInv, gateVars, storeVars>>

\* Mutant: the reaper retries a run instead of ending it.
ReapByRequeue(r, s) ==
    /\ SetRow(r, RequeueRun(row[r]))
    /\ UNCHANGED <<clock, claiming, held, late, limbo, goneInv, gateVars, storeVars>>

Reap(r, s) ==
    /\ SetRow(r, FailRun(row[r], s))
    /\ UNCHANGED <<clock, claiming, held, late, limbo, goneInv, gateVars, storeVars>>

ReapLost(r)       == Is(r, "running") /\ row[r].lease = "expired" /\ Reap(r, "failed")
\* Mutant: started_at alone, so a claim whose job was never fetched has no limit.
ReapTimedOutStarted(r) == Is(r, "running") /\ row[r].handed > 0 /\ Reap(r, "timed_out")
\* Its timeout and the grace for its worker have passed.
ReapTimedOut(r)   == Is(r, "running") /\ Reap(r, "timed_out")
ReapCancelled(r)  == Is(r, "running") /\ row[r].cancel /\ Reap(r, "cancelled")
ReapUnrunnable(r) == Is(r, "queued") /\ Unrunnable(r) /\ ~Locked(r) /\ Reap(r, "failed")

-----------------------------------------------------------------------------
(* Galaxy installs. *)

CreateInstall ==
    /\ install = "none" /\ installs < MaxInstalls
    /\ install' = "queued" /\ installs' = installs + 1
    /\ UNCHANGED <<dbVars, claiming, held, late, limbo, storeVars>>

\* Mutant: the gate is not taken, only running runs are looked at.
TryStartInstallUngated ==
    /\ install = "queued"
    /\ \A r \in Runs : ~Is(r, "running")
    /\ install' = "running"
    /\ UNCHANGED <<dbVars, claiming, held, late, limbo, installs, storeVars>>

\* try_start_install takes the gate exclusively, so no claim is under way.
TryStartInstall ==
    /\ install = "queued"
    /\ \A w \in Workers : claiming[w] = NoRun
    /\ \A r \in Runs : ~Is(r, "running")
    /\ install' = "running"
    /\ UNCHANGED <<dbVars, claiming, held, late, limbo, installs, storeVars>>

RunInstallEnds ==
    /\ install = "running"
    /\ install' = "none"
    /\ UNCHANGED <<dbVars, claiming, held, late, limbo, installs, storeVars>>

-----------------------------------------------------------------------------
(* The secret store and its outage row. *)

StoreFails ==
    /\ storeUp /\ outages < MaxOutages
    /\ storeUp' = FALSE /\ outages' = outages + 1
    /\ UNCHANGED <<dbVars, claiming, held, late, limbo, gateVars, outage, waitedOut>>

StoreRecovers ==
    /\ ~storeUp /\ storeUp' = TRUE
    /\ UNCHANGED <<dbVars, claiming, held, late, limbo, gateVars, outages, outage, waitedOut>>

\* _probe_secret_store: holds the outage, or ends it.
ProbeSecretStore ==
    /\ IF storeUp THEN outage' = "none" /\ waitedOut' = {}
                  ELSE outage' = "held" /\ UNCHANGED waitedOut
    /\ UNCHANGED <<dbVars, claiming, held, late, limbo, gateVars, storeUp, outages>>

HoldLapses ==
    /\ outage = "held" /\ outage' = "lapsed"
    /\ UNCHANGED <<dbVars, claiming, held, late, limbo, gateVars, storeUp, outages, waitedOut>>

\* max(queued_at, since) + SECRETS_STORE_WAIT_MINUTES passes.
WaitRunsOut(r) ==
    /\ outage # "none" /\ r \in NeedsStore \ waitedOut /\ row[r].status \in Active
    /\ waitedOut' = waitedOut \union {r}
    /\ UNCHANGED <<dbVars, claiming, held, late, limbo, gateVars, storeUp, outages, outage>>

-----------------------------------------------------------------------------
Next ==
    \/ \E r \in Runs :
         \/ QueueRunBegin(r) \/ QueueRunCommit(r) \/ ReleaseWaitingRun(r)
         \/ CancelRun(r) \/ DeleteReference(r) \/ LeaseExpires(r)
         \/ ReapLost(r) \/ ReapTimedOut(r) \/ ReapCancelled(r) \/ ReapUnrunnable(r)
         \/ WaitRunsOut(r)
    \/ \E w \in Workers :
         \/ ClaimSelect(w) \/ ClaimConflict(w) \/ ClaimUnrunnable(w)
         \/ \E t \in Tokens, d \in BOOLEAN : ClaimGranted(w, t, d)
         \/ FetchJob(w) \/ Heartbeat(w) \/ HeartbeatGone(w) \/ Complete(w) \/ Abandon(w)
    \/ \E q \in late : LateRequest(q)
    \/ \E p \in limbo : StoreDown(p[1], p[2])
    \/ \E i \in Inventories : DeleteInventory(i)
    \/ CreateInstall \/ TryStartInstall \/ RunInstallEnds
    \/ StoreFails \/ StoreRecovers \/ ProbeSecretStore \/ HoldLapses

Spec == Init /\ [][Next]_vars

-----------------------------------------------------------------------------
(* Safety. *)

\* One running run per inventory (the claim query and, when two claims pass it
\* at once, the partial unique index): a second run never starts on hosts a
\* first one is still changing.
OneRunningPerInventory ==
    \A r, q \in Runs : SameInventory(r, q) => ~(Is(r, "running") /\ Is(q, "running"))

\* Per inventory, runs start in the order they were queued, also when a run
\* went back to the queue: no run is running while one that was queued and
\* committed before it still waits.
InQueueOrder ==
    \A r, q \in Runs :
        /\ SameInventory(r, q) /\ Is(r, "running") /\ Is(q, "queued")
        => ~(row[q].queuedAt < row[r].queuedAt /\ row[q].arrival < row[r].arrival)

\* The galaxy gate: nothing runs while an install changes the roles and
\* collections runs load, whatever claims were under way when it was queued.
InstallExcludesRuns ==
    install = "running" => \A r \in Runs : ~Is(r, "running")

\* A cancel is never lost: a run whose cancel was accepted is not waiting in
\* the queue again, not even when its job went back for the store.
CancelNotLost == \A r \in Runs : Is(r, "queued") => ~row[r].cancel

\* /job hands a run's job (with its secrets) out at most once, over all its
\* claims, retries and late requests.
JobHandedOutOnce == \A r \in Runs : row[r].handed < 2

\* A run only goes back to the queue before its job was handed out
\* (requeue_run), so nothing already executing is claimed a second time.
QueuedBeforeHandedOut == \A r \in Runs : Is(r, "queued") => row[r].handed = 0

\* A run that waits in the queue can be started afresh: neither an accepted cancel nor
\* a job that was handed out is behind it, though it may have been claimed and have
\* come back.
QueuedAfresh == CancelNotLost /\ QueuedBeforeHandedOut

\* At most one slot can still act for a run, and a slot executing a run it
\* owns is the one that got the job.
OneOwner ==
    \A w, v \in Workers :
        LET h == held[w]  k == held[v] IN
        /\ h.phase # "idle" /\ Owns(h.run, h.token)
        /\ k.phase # "idle" /\ Owns(k.run, k.token) /\ h.run = k.run
        => w = v

\* What users are told agrees with the claim query: a run that some slot could claim
\* is only said to wait for a worker, and one that no slot could claim is told what it
\* waits for (wait_reason is "in the claim rules' order", in Python; the rules are SQL).
WaitIsExplained ==
    \A r \in Runs : Is(r, "queued") =>
        (WaitReason(r) = "worker" <=> install = "none" /\ \E w \in Workers : Candidate(w, r))

\* An ended run stays exactly as it ended: no late result, heartbeat, reaper
\* pass or second job handler changes it.
EndedIsFinal ==
    [][\A r \in Runs : row[r].status \in Finished => row'[r].status = row[r].status]_vars

\* A job is only handed out for a run that can still run as it was triggered
\* (build_job raises when it can't be prepared as it was triggered).
JobAsTriggered ==
    [][\A r \in Runs : row'[r].handed > row[r].handed
            => row[r].missing \in {"nothing", "playbook"}]_vars

-----------------------------------------------------------------------------
(* The queue implements RunLifecycle. *)

PhaseOf(r) ==
    CASE row[r].status \in {"absent", "inserting"} -> "new"
      [] Is(r, "queued") -> "waiting"
      [] Is(r, "running") /\ row[r].handed = 0 -> "claimed"
      [] Is(r, "running") /\ row[r].handed # 0 -> "started"
      [] OTHER -> "ended"

HolderOf(i) ==
    IF i \notin goneInv /\ \E r \in Runs : InventoryOf[r] = i /\ Is(r, "running")
    THEN CHOOSE r \in Runs : InventoryOf[r] = i /\ Is(r, "running")
    ELSE NoRun

Lifecycle == INSTANCE RunLifecycle WITH
    phase  <- [r \in Runs |-> PhaseOf(r)],
    holder <- [i \in Inventories |-> HolderOf(i)],
    gone   <- goneInv

\* Every transaction is a step of the abstract life cycle or leaves it alone.
ImplementsLifecycle == Lifecycle!Spec

-----------------------------------------------------------------------------
(* Liveness. *)

\* What keeps happening: slots poll for work and retry their calls, the
\* reaper makes a pass every 5 s, refreshes and installs end (they have
\* timeouts and leases of their own), an outage's hold and waits run out, and
\* the store is probed.  Users, crashes and the network owe nothing.
Fairness ==
    /\ \A w \in Workers :
         /\ WF_vars(ClaimSelect(w))
         /\ WF_vars(ClaimConflict(w) \/ ClaimUnrunnable(w)
                      \/ \E t \in Tokens, d \in BOOLEAN : ClaimGranted(w, t, d))
         /\ WF_vars(FetchJob(w)) /\ WF_vars(HeartbeatGone(w))
    /\ \A r \in Runs :
         /\ WF_vars(ReapTimedOut(r)) /\ WF_vars(ReapCancelled(r))
         /\ WF_vars(ReapUnrunnable(r))
         /\ WF_vars(ReleaseWaitingRun(r)) /\ WF_vars(WaitRunsOut(r))
         /\ \A t \in Tokens : WF_vars(StoreDown(r, t))
    /\ WF_vars(TryStartInstall) /\ WF_vars(RunInstallEnds)
    /\ WF_vars(ProbeSecretStore)

FairSpec == Spec /\ Fairness

\* Every run that entered the queue ends, whatever is lost, deleted,
\* cancelled or down meanwhile.
EveryRunEnds == \A r \in Runs : Is(r, "queued") ~> row[r].status \in Finished

\* A waiting galaxy install gets its turn.
InstallGetsItsTurn == install = "queued" ~> install = "running"

\* Nothing waits for ever, runs and installs beside each other.
QueueMoves == EveryRunEnds /\ InstallGetsItsTurn
=============================================================================
