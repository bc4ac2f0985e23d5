------------------------------ MODULE HostKeys ------------------------------
(***************************************************************************)
(* An inventory's trusted SSH host keys: what admins paste, confirm, trust *)
(* from a scan or remove, looking at a page that may be old; what runs are *)
(* given, whom they then talk to, and what they report as learned (a file  *)
(* the playbook can write); and the scans that workers make, lose or never *)
(* take.  One key type; hosts may present another key at any time.         *)
(***************************************************************************)
EXTENDS Integers, FiniteSets

CONSTANTS
    Hosts,          \* known_hosts names the inventory's hosts connect to
    Keys,
    KeyRuns,        \* runs on the inventory
    MaxRows         \* bound: rows inserted, ids are not used again

ASSUME HostKeyAssumption ==
    IsFiniteSet(Hosts) /\ MaxRows \in Nat

VARIABLES
    known,      \* inventory_host_keys by name
    ids,        \* rows inserted so far
    mode,       \* the inventory's host_key_checking
    presents,   \* the key each host presents now
    page,       \* the rows an admin looks at
    vouched,    \* names with keys an admin saw and trusted
    keyRun,     \* of each run: where it is, its mode, its known_hosts, whom it talked to
    hostScan    \* the inventory's latest scan

hostKeyVars == <<known, ids, mode, presents, page, vouched, keyRun, hostScan>>

Modes == {"off", "accept_new", "strict"}
NoKey == [id |-> 0, key |-> "none", confirmed |-> FALSE]
NoLines == [n \in Hosts |-> "none"]
NoScan == [status |-> "none", results |-> NoLines]
Rows == {n \in Hosts : known[n].id # 0}

\* Rows by name, the page, the runs and the scan.
HostKeyTypes ==
    /\ known \in [Hosts -> [id : 0..MaxRows, key : Keys \union {"none"}, confirmed : BOOLEAN]]
    /\ page \in [Hosts -> [id : 0..MaxRows, key : Keys \union {"none"}, confirmed : BOOLEAN]]
    /\ mode \in Modes /\ presents \in [Hosts -> Keys]
    /\ vouched \subseteq Hosts \X Keys
    /\ \A r \in KeyRuns : keyRun[r].at \in {"queued", "claimed", "working", "over"}
    /\ hostScan.status \in {"none", "queued", "running", "failed", "success"}

HostKeyInit ==
    /\ known = [n \in Hosts |-> NoKey] /\ page = known /\ ids = 0
    /\ mode = "accept_new"
    /\ \E k \in Keys : presents = [n \in Hosts |-> k]
    /\ vouched = {}
    /\ keyRun = [r \in KeyRuns |-> [at |-> "queued", mode |-> "off", known |-> NoLines,
                                    talked |-> NoLines]]
    /\ hostScan = NoScan

-----------------------------------------------------------------------------
(* Admins.                                                                  *)

\* Runs claimed from now on.
SetMode(m) ==
    /\ m # mode /\ mode' = m
    /\ UNCHANGED <<known, ids, presents, page, vouched, keyRun, hostScan>>

ListHostKeys ==
    /\ page # known /\ page' = known
    /\ UNCHANGED <<known, ids, mode, presents, vouched, keyRun, hostScan>>

\* trust: a key replaces the one of the same name, and is confirmed.
Trust(n, k) ==
    /\ known[n].id # 0 \/ ids < MaxRows
    /\ known' = [known EXCEPT ![n] = [id |-> IF @.id = 0 THEN ids + 1 ELSE @.id,
                                      key |-> k, confirmed |-> TRUE]]
    /\ ids' = IF known[n].id = 0 THEN ids + 1 ELSE ids
    /\ vouched' = vouched \union {<<n, k>>}
    /\ UNCHANGED <<mode, presents, page, keyRun>>

PasteKey(n, k) == Trust(n, k) /\ UNCHANGED hostScan

\* Learned keys, by the ids on the page.
ConfirmKey(n) ==
    /\ page[n].id # 0 /\ known[n].id = page[n].id /\ ~ known[n].confirmed
    /\ known' = [known EXCEPT ![n].confirmed = TRUE]
    /\ vouched' = vouched \union {<<n, page[n].key>>}
    /\ UNCHANGED <<ids, mode, presents, page, keyRun, hostScan>>

ForgetHostKey(n) ==
    /\ page[n].id # 0 /\ known[n].id = page[n].id
    /\ known' = [known EXCEPT ![n] = NoKey]
    /\ UNCHANGED <<ids, mode, presents, page, vouched, keyRun, hostScan>>

\* The keys come from the scan, never from the request.
TrustScannedKey(n) ==
    /\ hostScan.status = "success" /\ hostScan.results[n] # "none"
    /\ <<n, hostScan.results[n]>> \notin vouched \/ ~ known[n].confirmed
       \/ known[n].key # hostScan.results[n]
    /\ Trust(n, hostScan.results[n]) /\ UNCHANGED hostScan

-----------------------------------------------------------------------------
(* Scans.                                                                   *)

\* enqueue_scan: the one waiting or running, else a new one.
StartScan ==
    /\ hostScan.status \notin {"queued", "running"}
    /\ hostScan' = [NoScan EXCEPT !.status = "queued"]
    /\ UNCHANGED <<known, ids, mode, presents, page, vouched, keyRun>>

ClaimScan ==
    /\ hostScan.status = "queued" /\ hostScan' = [hostScan EXCEPT !.status = "running"]
    /\ UNCHANGED <<known, ids, mode, presents, page, vouched, keyRun>>

\* scanned_keys: what its own targets presented; some may be silent.
ScanComplete(answering) ==
    /\ hostScan.status = "running"
    /\ hostScan' = [status |-> "success",
                    results |-> [n \in Hosts |-> IF n \in answering THEN presents[n]
                                                     ELSE "none"]]
    /\ UNCHANGED <<known, ids, mode, presents, page, vouched, keyRun>>

\* The worker went away, overran or said it failed; nobody took it in time.
Reapable == hostScan.status \in {"queued", "running"}

ReapScan ==
    /\ Reapable /\ hostScan' = [hostScan EXCEPT !.status = "failed"]
    /\ UNCHANGED <<known, ids, mode, presents, page, vouched, keyRun>>

PruneScan ==
    /\ hostScan.status \in {"failed", "success"} /\ hostScan' = NoScan
    /\ UNCHANGED <<known, ids, mode, presents, page, vouched, keyRun>>

-----------------------------------------------------------------------------
(* Runs.                                                                    *)

\* A host is installed again, or something else answers at its address.
Presents(n, k) ==
    /\ k # presents[n] /\ presents' = [presents EXCEPT ![n] = k]
    /\ UNCHANGED <<known, ids, mode, page, vouched, keyRun, hostScan>>

\* The next run of the inventory.
NextKeyRun(r) ==
    /\ keyRun[r].at = "over"
    /\ keyRun' = [keyRun EXCEPT ![r] = [at |-> "queued", mode |-> "off", known |-> NoLines,
                                        talked |-> NoLines]]
    /\ UNCHANGED <<known, ids, mode, presents, page, vouched, hostScan>>

ClaimKeyRun(r) ==
    /\ keyRun[r].at = "queued"
    /\ keyRun' = [keyRun EXCEPT ![r].at = "claimed", ![r].mode = mode]
    /\ UNCHANGED <<known, ids, mode, presents, page, vouched, hostScan>>

\* Mutant: learned keys go to strict runs too.
AnyKeysText(m) == [n \in Hosts |-> known[n].key]

\* known_hosts_text: for strict runs the confirmed keys only.
KnownHostsText(m) ==
    [n \in Hosts |-> IF m = "off" \/ (m = "strict" /\ ~ known[n].confirmed)
                         THEN "none" ELSE known[n].key]

FetchKeyJob(r) ==
    /\ keyRun[r].at = "claimed"
    /\ keyRun' = [keyRun EXCEPT ![r].at = "working", ![r].known = KnownHostsText(keyRun[r].mode)]
    /\ UNCHANGED <<known, ids, mode, presents, page, vouched, hostScan>>

\* ssh with the run's known_hosts: a changed key is refused, an unknown one
\* accepted unless the mode is strict.
SshAccepts(m, line, k) ==
    CASE m = "off" -> TRUE
      [] m = "accept_new" -> line \in {"none", k}
      [] m = "strict" -> line = k

Connect(r, n) ==
    /\ keyRun[r].at = "working"
    /\ SshAccepts(keyRun[r].mode, keyRun[r].known[n], presents[n])
    /\ keyRun' = [keyRun EXCEPT ![r].talked[n] = presents[n]]
    /\ UNCHANGED <<known, ids, mode, presents, page, vouched, hostScan>>

\* Mutant: what a run reports replaces a key that was only learned.
LearnOver(n) == ~ known[n].confirmed

\* record_learned: an address of the inventory's hosts that had no key at all.
Learnable(n) == known[n].id = 0

\* A run ends and reports a line for one address (any: the playbook can write
\* the file), which is kept unconfirmed; or nothing that is kept.
CompleteKeyRun(r, n, k) ==
    /\ keyRun[r].at = "working" /\ keyRun' = [keyRun EXCEPT ![r].at = "over"]
    /\ IF keyRun[r].mode = "accept_new" /\ Learnable(n) /\ ids < MaxRows
       THEN /\ known' = [known EXCEPT ![n] = [id |-> IF @.id = 0 THEN ids + 1 ELSE @.id,
                                              key |-> k, confirmed |-> FALSE]]
            /\ ids' = IF known[n].id = 0 THEN ids + 1 ELSE ids
       ELSE UNCHANGED <<known, ids>>
    /\ UNCHANGED <<mode, presents, page, vouched, hostScan>>

-----------------------------------------------------------------------------
HostKeyNext ==
    \/ ListHostKeys \/ StartScan \/ ClaimScan \/ ReapScan \/ PruneScan
    \/ \E m \in Modes : SetMode(m)
    \/ \E n \in Hosts : ConfirmKey(n) \/ ForgetHostKey(n) \/ TrustScannedKey(n)
                            \/ \E k \in Keys : PasteKey(n, k)
    \/ \E answering \in SUBSET Hosts : ScanComplete(answering)
    \/ \E n \in Hosts, k \in Keys : Presents(n, k)
    \/ \E r \in KeyRuns :
         \/ NextKeyRun(r) \/ ClaimKeyRun(r) \/ FetchKeyJob(r)
         \/ \E n \in Hosts : Connect(r, n)
         \/ \E n \in Hosts, k \in Keys : CompleteKeyRun(r, n, k)

HostKeySpec == HostKeyInit /\ [][HostKeyNext]_hostKeyVars

-----------------------------------------------------------------------------
\* A confirmed key is one an admin saw with that name, though the page the
\* admin confirms from is old and runs report keys meanwhile.
ConfirmedWasSeen == \A n \in Rows : known[n].confirmed => <<n, known[n].key>> \in vouched

\* A strict run talks only to hosts whose key an admin vouched for.
StrictIsVouched ==
    \A r \in KeyRuns, n \in Hosts :
        keyRun[r].mode = "strict" /\ keyRun[r].talked[n] # "none"
            => <<n, keyRun[r].talked[n]>> \in vouched

\* Trust in a host key goes back to an admin who saw it, on the page and on the run.
TrustIsVouched == ConfirmedWasSeen /\ StrictIsVouched
=============================================================================
