----------------------------- MODULE MCRunQueue -----------------------------
(***************************************************************************)
(* Instances of RunQueue for TLC.  A behaviour has one kind of disturbance *)
(* beside the races of slots, users, reaper and network: an outage of the  *)
(* secret store, a galaxy install, or deletions ("any" has them all).      *)
(***************************************************************************)
EXTENDS RunQueue, TLC

CONSTANTS r1, r2, w1, w2, i1, Disturbances

ASSUME DisturbancesAssumption == Disturbances \subseteq {"outage", "install", "deletion", "any"}

VARIABLE disturbance

\* Two runs on one inventory, or one alone.
PairOnOne == (r1 :> i1) @@ (r2 :> i1)
Single == r1 :> i1

AllCapable == [w \in Workers |-> Runs]
\* A second slot that only r1 can go to (an older worker).
SecondForFirst == (w1 :> Runs) @@ (w2 :> {r1})

Symmetry == Permutations(Tokens)

Of(kind) == disturbance \in {kind, "any"}

MCInit == Init /\ disturbance \in Disturbances
MCNext ==
    /\ Next /\ UNCHANGED disturbance
    /\ Of("outage") \/ outages' = 0
    /\ Of("install") \/ installs' = 0
    /\ Of("deletion") \/ (goneInv' = {} /\ \A r \in Runs : row'[r].missing = "nothing")

MCSpec == MCInit /\ [][MCNext]_<<vars, disturbance>>
MCFairSpec == MCSpec /\ Fairness
=============================================================================
