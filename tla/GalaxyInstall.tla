---------------------------- MODULE GalaxyInstall ----------------------------
(***************************************************************************)
(* Installs of roles and collections.  An install is a row and a thread of *)
(* the API process that runs ansible-galaxy; runs, inventory refreshes and *)
(* playbook checks load what it writes, so an advisory lock (the gate)     *)
(* keeps them apart: claims take it shared, starting an install takes it   *)
(* exclusively.  The row's lease is renewed beside the thread, so that the *)
(* reaper can end an install whose process died.                           *)
(***************************************************************************)
EXTENDS Integers, FiniteSets

CONSTANTS
    Installs,        \* ids, in the order they are given out
    Jobs,            \* work that loads collections: runs, refreshes, checks
    Admins,          \* requests to create an install
    RenewalsFail,    \* the renewals of a live install may fail until its lease is over
    MaxCrashes       \* bound: crashes of the API process

ASSUME InstallAssumption ==
    /\ Installs \subseteq Nat /\ RenewalsFail \in BOOLEAN /\ MaxCrashes \in Nat

VARIABLES
    status,      \* of each install
    lease,       \* of each install
    thread,      \* the installs a thread of the API process works on
    creating,    \* the requests that saw no active install and will insert one
    job,         \* idle, claiming (holds the gate shared) or running
    crashes

vars == <<status, lease, thread, creating, job, crashes>>

Active == {"queued", "running"}
Ended  == {"success", "failed"}

\* The row of an install, its thread, and the work beside it.
TypeOK ==
    /\ status \in [Installs -> {"absent"} \union Active \union Ended]
    /\ lease \in [Installs -> {"none", "live", "expired"}]
    /\ thread \subseteq Installs
    /\ creating \subseteq Admins
    /\ job \in [Jobs -> {"idle", "claiming", "running"}]
    /\ crashes \in 0..MaxCrashes

Init ==
    /\ status = [i \in Installs |-> "absent"]
    /\ lease = [i \in Installs |-> "none"]
    /\ thread = {} /\ creating = {}
    /\ job = [j \in Jobs |-> "idle"]
    /\ crashes = 0

-----------------------------------------------------------------------------
(* Creating: the check for an active install and the insert are not one     *)
(* step, so two requests may both pass the check.                           *)

\* install_pending, and create_install's check.
Pending == \E i \in Installs : status[i] \in Active

CheckActive(a) ==
    /\ a \notin creating /\ ~Pending
    /\ creating' = creating \union {a}
    /\ UNCHANGED <<status, lease, thread, job, crashes>>

First(i, s) == status[i] = s /\ \A k \in Installs : status[k] = s => i <= k

CreateInstall(a) ==
    /\ a \in creating /\ creating' = creating \ {a}
    /\ \E i \in Installs : /\ First(i, "absent")
                           /\ status' = [status EXCEPT ![i] = "queued"]
    /\ UNCHANGED <<lease, thread, job, crashes>>

-----------------------------------------------------------------------------
(* Claims of runs, refreshes and checks. *)

ClaimBegin(j) ==
    /\ job[j] = "idle" /\ ~Pending
    /\ job' = [job EXCEPT ![j] = "claiming"]
    /\ UNCHANGED <<status, lease, thread, creating, crashes>>

\* The claim commits, or finds nothing to claim.
ClaimEnds(j) ==
    /\ job[j] = "claiming"
    /\ \E s \in {"idle", "running"} : job' = [job EXCEPT ![j] = s]
    /\ UNCHANGED <<status, lease, thread, creating, crashes>>

JobEnds(j) ==
    /\ job[j] = "running"
    /\ job' = [job EXCEPT ![j] = "idle"]
    /\ UNCHANGED <<status, lease, thread, creating, crashes>>

-----------------------------------------------------------------------------
(* Installing. *)

NoneRunning == \A i \in Installs : status[i] # "running"

\* The row is marked running and the thread starts right after the commit.
Start(i) ==
    /\ status' = [status EXCEPT ![i] = "running"]
    /\ lease' = [lease EXCEPT ![i] = "live"]
    /\ thread' = thread \union {i}
    /\ UNCHANGED <<creating, job, crashes>>

\* Mutant: nobody asks whether another install is running.
TryStartSecond(i) ==
    /\ First(i, "queued") /\ \A j \in Jobs : job[j] = "idle"
    /\ Start(i)

\* Mutant: only running work counts, the gate is not taken.
TryStartUngated(i) ==
    /\ NoneRunning /\ First(i, "queued") /\ \A j \in Jobs : job[j] # "running"
    /\ Start(i)

\* Mutant: the row gets no lease until its first renewal.
TryStartUnleased(i) ==
    /\ NoneRunning /\ First(i, "queued") /\ \A j \in Jobs : job[j] = "idle"
    /\ status' = [status EXCEPT ![i] = "running"]
    /\ thread' = thread \union {i}
    /\ UNCHANGED <<lease, creating, job, crashes>>

\* try_start_install: alone at the gate (a claim holds it shared), no install
\* and nothing else running, the oldest queued one.  It is called when an
\* install is queued, after one ended, after every run, refresh and check, and
\* by the reaper: at any time.
TryStartInstall(i) ==
    /\ NoneRunning /\ First(i, "queued") /\ \A j \in Jobs : job[j] = "idle"
    /\ Start(i)

\* _renew_install_lease, every quarter of the lease.
RenewInstallLease(i) ==
    /\ i \in thread /\ status[i] = "running"
    /\ lease' = [lease EXCEPT ![i] = "live"]
    /\ UNCHANGED <<status, thread, creating, job, crashes>>

\* Mutant: the renewer only starts with the second command.
LeaseExpiresAnyway(i) ==
    /\ lease[i] = "live"
    /\ lease' = [lease EXCEPT ![i] = "expired"]
    /\ UNCHANGED <<status, thread, creating, job, crashes>>

\* The lease of an install whose thread renews it does not run out, unless
\* the renewals fail (they are not retried before the next quarter).
LeaseExpires(i) ==
    /\ lease[i] = "live" /\ (i \in thread => RenewalsFail)
    /\ lease' = [lease EXCEPT ![i] = "expired"]
    /\ UNCHANGED <<status, thread, creating, job, crashes>>

\* Mutant: a killed command has a status of its own, as it has for runs.
RunInstallTimesOut(i) ==
    /\ i \in thread /\ thread' = thread \ {i}
    /\ \E s \in Ended \union {"timed_out"} : status' = [status EXCEPT ![i] = s]
    /\ lease' = [lease EXCEPT ![i] = "none"]
    /\ UNCHANGED <<creating, job, crashes>>

\* run_install's last write; it does not look at the row again.
RunInstallEnds(i) ==
    /\ i \in thread /\ thread' = thread \ {i}
    /\ \E s \in Ended : status' = [status EXCEPT ![i] = s]
    /\ lease' = [lease EXCEPT ![i] = "none"]
    /\ UNCHANGED <<creating, job, crashes>>

\* Mutant: an install with an expired lease is only reaped if it is queued.
ReapQueuedInstall(i) ==
    /\ status[i] = "queued" /\ lease[i] = "expired"
    /\ status' = [status EXCEPT ![i] = "failed"]
    /\ lease' = [lease EXCEPT ![i] = "none"]
    /\ UNCHANGED <<thread, creating, job, crashes>>

\* reap_once.
ReapInstall(i) ==
    /\ status[i] = "running" /\ lease[i] = "expired"
    /\ status' = [status EXCEPT ![i] = "failed"]
    /\ lease' = [lease EXCEPT ![i] = "none"]
    /\ UNCHANGED <<thread, creating, job, crashes>>

\* The API process dies, and with it its threads, transactions and requests.
ApiCrash ==
    /\ crashes < MaxCrashes /\ crashes' = crashes + 1
    /\ thread' = {} /\ creating' = {}
    /\ job' = [j \in Jobs |-> IF job[j] = "claiming" THEN "idle" ELSE job[j]]
    /\ UNCHANGED <<status, lease>>

Next ==
    \/ \E a \in Admins : CheckActive(a) \/ CreateInstall(a)
    \/ \E j \in Jobs : ClaimBegin(j) \/ ClaimEnds(j) \/ JobEnds(j)
    \/ \E i \in Installs : \/ RenewInstallLease(i) \/ LeaseExpires(i)
                           \/ RunInstallEnds(i) \/ ReapInstall(i)
                           \/ TryStartInstall(i)
    \/ ApiCrash

Spec == Init /\ [][Next]_vars

-----------------------------------------------------------------------------
\* The gate: an install that is marked running excludes running work of every
\* kind, although claims and creates overlap in any way.
GateExclusive ==
    \A i \in Installs, j \in Jobs : ~(status[i] = "running" /\ job[j] = "running")

\* Two requests may both queue an install; they still run one after the other.
OneInstallRunning ==
    \A i, k \in Installs : status[i] = "running" /\ status[k] = "running" => i = k

\* A running install always has a lease: the reaper's comparison with now() is
\* never true of NULL, so a row without one would block runs for good.
RunningIsLeased == \A i \in Installs : status[i] = "running" <=> lease[i] # "none"

\* While ansible-galaxy really writes, nothing that loads roles and collections
\* runs and no second install writes ("While an install waits or runs, no new
\* run starts").
WritesAlone ==
    /\ \A i, k \in thread : i = k
    /\ thread # {} => \A j \in Jobs : job[j] # "running"

\* How an install ended is not rewritten later.
InstallEndedIsFinal ==
    [][\A i \in Installs : status[i] \in Ended => status'[i] = status[i]]_vars

\* An install has the directories to itself, by the rows and in fact, always under a
\* lease by which it can be found, and ends once.
InstallsAlone ==
    /\ [](GateExclusive /\ OneInstallRunning /\ RunningIsLeased /\ WritesAlone)
    /\ InstallEndedIsFinal

\* Work ends (its own timeouts), the reaper and try_start_install are called
\* every few seconds, ansible-galaxy has a timeout, and leases nobody renews
\* run out.  Requests and crashes owe nothing.
Fairness ==
    /\ \A j \in Jobs : WF_vars(ClaimEnds(j)) /\ WF_vars(JobEnds(j))
    /\ \A i \in Installs : /\ WF_vars(RunInstallEnds(i)) /\ WF_vars(ReapInstall(i))
                           /\ WF_vars(LeaseExpires(i) /\ i \notin thread)
    /\ \A i \in Installs : WF_vars(TryStartInstall(i))

\* A queued install ends, also when the API dies in the middle of it: it never
\* blocks runs for good.
EveryInstallEnds ==
    Fairness =>
        (\E i \in Installs : status[i] = "queued") ~> (\A i \in Installs : status[i] \notin Active)

=============================================================================
