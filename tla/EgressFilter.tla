---------------------------- MODULE EgressFilter ----------------------------
(***************************************************************************)
(* The worker's egress filter: jobs run as slot users, and an nft table    *)
(* rejects what they send to the API.  The API's address changes when its  *)
(* container is recreated, so the filter follows it (start, refresh, the   *)
(* watch thread) while look-ups fail and nft does; self_test has to prove  *)
(* it before the first job.  nft itself is external.                       *)
(***************************************************************************)
CONSTANTS
    ApiAddresses,       \* addresses the API's container may come back with
    Production          \* ENVIRONMENT=production: no filter, no worker

ASSUME ProductionAssumption == Production \in BOOLEAN

VARIABLES
    dns,        \* what a look-up of the API gives now; {} while it gives nothing
    filter,     \* stage, addresses (the field), healthy, allowlists_ready
    table       \* API addresses the kernel rejects for slot users

egressVars == <<dns, filter, table>>

EgressInit ==
    /\ dns = {} /\ table = {}
    /\ filter = [stage |-> "starting", addresses |-> {}, healthy |-> FALSE, ready |-> FALSE]

\* The API's container is recreated: no answer for a while, then another address.
ApiMoves ==
    /\ \E found \in {{}} \union {{a} : a \in ApiAddresses} : dns' = found
    /\ UNCHANGED <<filter, table>>

Without(f) == [f EXCEPT !.stage = IF Production THEN "refused" ELSE "without"]

\* Mutant: healthy is not taken back before nft is called.
InstallKeepsHealth(found, ok) ==
    /\ table' \in (IF ok THEN {found} ELSE {table, found})
    /\ filter' = [filter EXCEPT !.addresses = found, !.healthy = @ \/ ok]

\* _install: nft refuses, or is killed at its timeout before or after it took the table.
Install(found, ok) ==
    /\ table' \in (IF ok THEN {found} ELSE {table, found})
    /\ filter' = [filter EXCEPT !.addresses = found, !.healthy = ok]

\* check_egress: the table with what resolves yet; then the allowlists an earlier
\* worker left are deleted, which may fail too.
StartFilter ==
    /\ filter.stage = "starting"
    /\ \/ table' = dns /\ filter' = [filter EXCEPT !.stage = "waiting", !.addresses = dns,
                                                   !.healthy = TRUE]
       \/ table' \in {table, dns} /\ filter' = Without(filter)
    /\ UNCHANGED dns

\* Mutant: an address that has not changed is not installed again.
RefreshOnChange(ok) ==
    /\ filter.stage \in {"waiting", "on"} /\ dns # {}
    /\ dns # filter.addresses
    /\ Install(dns, ok)
    /\ UNCHANGED dns

\* refresh, from verify_egress and every few seconds from watch.
Refresh(ok) ==
    /\ filter.stage \in {"waiting", "on"} /\ dns # {}
    /\ dns # filter.addresses \/ ~filter.healthy
    /\ Install(dns, ok)
    /\ UNCHANGED dns

\* Mutant: the filter is believed without a connection that was refused.
BelieveFilter ==
    /\ filter.stage = "waiting"
    /\ filter' = [filter EXCEPT !.stage = "on", !.ready = TRUE]
    /\ UNCHANGED <<dns, table>>

\* verify_egress: self_test wants every address refused to the slot users, and one
\* that the worker itself reaches; test_allowlists may fail on its own.
SelfTest ==
    LET reached == filter.addresses \intersect dns
        proven == reached # {} /\ reached \subseteq table IN
    /\ filter.stage = "waiting"
    /\ \E ready \in BOOLEAN :
         filter' = IF proven THEN [filter EXCEPT !.stage = "on", !.ready = ready]
                             ELSE Without(filter)
    /\ UNCHANGED <<dns, table>>

EgressNext ==
    ApiMoves \/ StartFilter \/ SelfTest \/ (\E ok \in BOOLEAN : Refresh(ok))

EgressSpec == EgressInit /\ [][EgressNext]_egressVars

-----------------------------------------------------------------------------
\* Stages, the filter's fields and what is installed.
EgressTypes ==
    /\ dns \subseteq ApiAddresses /\ table \subseteq ApiAddresses
    /\ filter.stage \in {"starting", "waiting", "on", "without", "refused"}
    /\ filter.addresses \subseteq ApiAddresses
    /\ {filter.healthy, filter.ready} \subseteq BOOLEAN

\* A worker that calls itself filtered, which is what restricted runs are given
\* to, has the addresses it knows of in its table, whatever nft did before.
HealthyMeansInstalled == filter.healthy => table = filter.addresses

\* A worker that goes on with a filter has seen the API's address refused to slot
\* users: it is not on with an empty table.
FilterProven == filter.stage = "on" => filter.addresses # {} /\ table # {}

\* What the worker says of its filter is so in the kernel's table.
FilterSound == HealthyMeansInstalled /\ FilterProven

-----------------------------------------------------------------------------
\* A started worker proves its filter, watch goes round, and nft takes a table now and then.
EgressFairness ==
    WF_egressVars(SelfTest) /\ SF_egressVars(Refresh(TRUE))

\* Once the API stays where it is, the worker's table follows it there.
FilterFollowsApi ==
    EgressFairness =>
        \A a \in ApiAddresses : <>[](dns = {a}) => <>[](filter.stage = "on" => table = {a})
=============================================================================
