----------------------------- MODULE LeaseFence -----------------------------
(***************************************************************************)
(* The clocks behind a claim: the lease the API keeps, the worker's own    *)
(* idea of when it was last renewed, and the fence with which the worker   *)
(* stops a job before the API may hand its inventory to another.  One tick *)
(* is heartbeat_seconds / H; heartbeats may be lost on either way, and a   *)
(* call that timed out may still be handled afterwards.                    *)
(***************************************************************************)
EXTENDS Integers

CONSTANTS
    H,      \* heartbeat_seconds: between the end of a beat and the next
    T,      \* how long a heartbeat call waits for its answer
    F,      \* fence_seconds
    L,      \* run_lease_seconds
    G,      \* from SIGTERM to SIGKILL
    D       \* how late a claim's answer may reach the worker

ASSUME FenceAssumption ==
    /\ {H, T, F, L, G, D} \subseteq Nat /\ H > 0 /\ T > 0
    /\ D + F + H + T < L      \* the defaults: 0 + 45 + 5 + 5 < 60 seconds

VARIABLES
    leaseAge,   \* ticks since the API last set lease_expires_at
    renewed,    \* ticks since task.renewed
    beatAt,     \* resting for n ticks, or waiting n ticks for an answer; and
                \* whether the API has handled the call
    late,       \* a call given up that the API may still handle
    process     \* of the job: running, or stopped n ticks ago; gone is -1

fenceVars == <<leaseAge, renewed, beatAt, late, process>>

Resting(n) == [sent |-> FALSE, for |-> n, handled |-> FALSE]
Running == -2
Gone == -1

\* Clocks, the heartbeat and the job's process.
FenceTypes ==
    /\ leaseAge \in 0..L + 1 /\ renewed \in 0..L + 1
    /\ beatAt \in [sent : BOOLEAN, for : 0..H + T, handled : BOOLEAN]
    /\ late \in BOOLEAN
    /\ process \in Running..G

\* RunTask: renewed is the time the claim's answer arrived.
FenceInit ==
    /\ leaseAge \in 0..D /\ renewed = 0
    /\ beatAt \in {Resting(n) : n \in 0..H} /\ late = FALSE
    /\ process = Running

\* Mutant: takes the time of the answer for the time of the call.
AnsweredNow(sent) == 0

\* task.renewed = now, which beat read before it called.
AnsweredAt(sent) == sent

Stops == IF process = Running THEN 0 ELSE process

\* Mutant: compares with the lease.
FencedAtLease(age) == age > L

\* The end of beat.
Fenced(age) == age > F

EndOfBeat(age) ==
    /\ renewed' = age
    /\ process' = IF Fenced(age) THEN Stops ELSE process
    /\ beatAt' = Resting(0)

BeatCalls ==
    /\ process # Gone /\ ~beatAt.sent /\ beatAt.for = H
    /\ beatAt' = [sent |-> TRUE, for |-> 0, handled |-> FALSE]
    /\ UNCHANGED <<leaseAge, renewed, late, process>>

\* internal_api.heartbeat renews a claim that is still the caller's, also one the
\* reaper could have ended already.
ApiRenews ==
    /\ beatAt.sent /\ ~beatAt.handled
    /\ leaseAge' = 0 /\ beatAt' = [beatAt EXCEPT !.handled = TRUE]
    /\ UNCHANGED <<renewed, late, process>>

BeatReturns ==
    /\ beatAt.sent /\ beatAt.handled
    /\ EndOfBeat(AnsweredAt(beatAt.for))
    /\ UNCHANGED <<leaseAge, late>>

\* "gone": the reaper ended the claim.
BeatRefused ==
    /\ beatAt.sent /\ ~beatAt.handled /\ leaseAge > L
    /\ process' = Stops /\ beatAt' = Resting(0)
    /\ UNCHANGED <<leaseAge, renewed, late>>

\* The call fails at once or runs into its timeout.
BeatFails ==
    /\ beatAt.sent
    /\ EndOfBeat(renewed)
    /\ late' = (late \/ ~beatAt.handled)
    /\ UNCHANGED leaseAge

ApiRenewsLate ==
    /\ late /\ late' = FALSE
    /\ leaseAge' = 0
    /\ UNCHANGED <<renewed, beatAt, process>>

ProcessEnds ==
    /\ process # Gone /\ process' = Gone
    /\ UNCHANGED <<leaseAge, renewed, beatAt, late>>

\* Time passes, but not over a beat that is due, an answer that is overdue or a
\* process to be killed.
Tick ==
    /\ process # Gone
    /\ beatAt.for < (IF beatAt.sent THEN T ELSE H)
    /\ process # G
    /\ leaseAge' = IF leaseAge > L THEN leaseAge ELSE leaseAge + 1
    /\ renewed' = IF renewed > L THEN renewed ELSE renewed + 1
    /\ beatAt' = [beatAt EXCEPT !.for = @ + 1]
    /\ process' = IF process >= 0 THEN process + 1 ELSE process
    /\ UNCHANGED late

FenceNext ==
    BeatCalls \/ ApiRenews \/ BeatReturns \/ BeatRefused \/ BeatFails
    \/ ApiRenewsLate \/ ProcessEnds \/ Tick

FenceSpec == FenceInit /\ [][FenceNext]_fenceVars

-----------------------------------------------------------------------------
\* "a run whose lease we couldn't renew may already be failed and its inventory
\* handed to another worker, so it must not keep changing hosts": by the time the
\* API may end the claim, the worker has told the job's process to stop.
StoppedBeforeLeaseEnds == leaseAge > L => process # Running

\* What the worker believes is never younger than the API's lease allows: it may
\* take the lease for D ticks younger than it is, for no more.
RenewedIsNotOptimistic == leaseAge <= renewed + D

\* The fence holds: by what the worker knows and by what the API has.
FenceHolds == StoppedBeforeLeaseEnds /\ RenewedIsNotOptimistic
=============================================================================
