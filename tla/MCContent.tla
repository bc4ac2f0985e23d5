----------------------------- MODULE MCContent -----------------------------
(***************************************************************************)
(* Where runs get their content from, for TLC: the inventory refreshes and *)
(* the git syncs.  They share no variable; a behaviour is one of either,   *)
(* chosen in its initial state.                                            *)
(***************************************************************************)
EXTENDS Refreshes, GitSync

CONSTANTS c1, host1, pb1, pb2

VARIABLE component

\* The first commit has one of the playbooks, the later ones both.
Playbooks == [t \in Commits \X Subdirs |-> IF t[1] = c1 THEN {pb1} ELSE {pb1, pb2}]

MCInit ==
    /\ component \in {"refreshes", "git"}
    /\ RefreshInit /\ GitInit
    /\ component # "git" => head = c1 /\ git.server = host1

MCNext ==
    /\ UNCHANGED component
    /\ IF component = "refreshes" THEN RefreshNext ELSE UNCHANGED refreshVars
    /\ IF component = "git"       THEN GitNext     ELSE UNCHANGED gitVars

ContentSpec == MCInit /\ [][MCNext]_<<component, refreshVars, gitVars>>

\* The state of the component has the types its module gives it.
ContentTypes ==
    /\ component = "refreshes" => RefreshTypes
    /\ component = "git" => GitTypes

\* A run that waits for a refresh goes on, and a sync that was asked for happens, each
\* under its component's fairness.
ContentArrives == WaitingEnds /\ RequestsAreServed
=============================================================================
