------------------------------- MODULE Checks -------------------------------
(***************************************************************************)
(* Playbook checks: each person's newest text waits, one of theirs runs, a *)
(* few run in all; a worker that claimed one fetches it once, and answers, *)
(* vanishes, or answers after the reaper gave up on it.                    *)
(***************************************************************************)
EXTENDS Integers, FiniteSets

CONSTANTS
    Persons,
    MaxRunning,     \* lint_max_running
    MaxChecks       \* bound: checks asked for

ASSUME CheckAssumption ==
    IsFiniteSet(Persons) /\ "none" \notin Persons /\ {MaxRunning, MaxChecks} \subseteq Nat

VARIABLES
    check,      \* lint_jobs by id
    answers,    \* checks a worker took and has not answered
    installing  \* a galaxy install waits or runs

checkVars == <<check, answers, installing>>

CheckIds == 1..MaxChecks
Over == {"success", "failed", "timed_out", "cancelled"}
NoCheck == [owner |-> "none", status |-> "none", text |-> FALSE, taken |-> FALSE]
ChecksIn(status) == {c \in CheckIds : check[c].status = status}
Of(p) == {c \in CheckIds : check[c].owner = p}

\* Rows, and the workers' side.
CheckTypes ==
    /\ check \in [CheckIds -> [owner : Persons \union {"none"}, text : BOOLEAN, taken : BOOLEAN,
                               status : Over \union {"none", "queued", "running", "pruned"}]]
    /\ answers \subseteq CheckIds /\ installing \in BOOLEAN

CheckInit ==
    /\ check = [c \in CheckIds |-> NoCheck] /\ answers = {} /\ installing = FALSE

\* Mutant: the older text keeps its place.
KeepOlder(p) == {}

\* The person's queued check, replaced by the newer one.
Replaced(p) == Of(p) \intersect ChecksIn("queued")

EnqueueLint(p) ==
    LET new == CHOOSE c \in ChecksIn("none") : \A d \in ChecksIn("none") : c <= d
    IN  /\ ChecksIn("none") # {}
        /\ check' = [c \in CheckIds |->
             CASE c = new -> [owner |-> p, status |-> "queued", text |-> TRUE, taken |-> FALSE]
               [] c \in Replaced(p) -> [check[c] EXCEPT !.status = "cancelled", !.text = FALSE]
               [] OTHER -> check[c]]
        /\ UNCHANGED <<answers, installing>>

\* Queued checks whose requester has none running, while fewer than the limit run.
Candidates ==
    {c \in ChecksIn("queued") : /\ Of(check[c].owner) \intersect ChecksIn("running") = {}
                                /\ Cardinality(ChecksIn("running")) < MaxRunning}

\* Under the claim lock, not while an install is pending; the oldest first.
ClaimLint ==
    /\ ~ installing
    /\ \E c \in Candidates :
         /\ \A d \in Candidates : c <= d
         /\ check' = [check EXCEPT ![c].status = "running"]
         /\ answers' = answers \union {c}
    /\ UNCHANGED installing

InstallWaits ==
    /\ installing' = ~ installing /\ UNCHANGED <<check, answers>>

\* end_lint: the outcome is recorded; the text goes.
EndLint(c, status) ==
    check' = [check EXCEPT ![c].status = status, ![c].text = FALSE]

\* Handed out once, to the claim that owns it; the snapshot may be gone.
LintJob(c) ==
    /\ c \in answers /\ check[c].status = "running" /\ ~ check[c].taken
    /\ \/ check' = [check EXCEPT ![c].taken = TRUE] /\ UNCHANGED answers
       \/ EndLint(c, "failed") /\ answers' = answers \ {c}
    /\ UNCHANGED installing

\* Mutant: an answer is taken whatever became of the check.
OwnsAnyhow(c) == check[c].owner # "none"

\* _locked_lint: still running, and this claim's.
Owns(c) == check[c].status = "running"

LintComplete(c) ==
    /\ c \in answers /\ check[c].taken
    /\ IF Owns(c) THEN \E status \in {"success", "failed", "timed_out"} : EndLint(c, status)
       ELSE UNCHANGED check
    /\ answers' = answers \ {c} /\ UNCHANGED installing

WorkerDropsCheck(c) ==
    /\ c \in answers /\ answers' = answers \ {c}
    /\ UNCHANGED <<check, installing>>

\* Mutant: a queued check waits as long as it takes.
OnlyRunning == ChecksIn("running")

\* Lease over, overrun, or not claimed in time.
ReapableChecks == ChecksIn("queued") \union ChecksIn("running")

ReapLint(c) ==
    /\ c \in ReapableChecks
    /\ \E status \in {"failed", "timed_out"} : EndLint(c, status)
    /\ UNCHANGED <<answers, installing>>

PruneLint(c) ==
    /\ check[c].status \in Over /\ check' = [check EXCEPT ![c].status = "pruned"]
    /\ UNCHANGED <<answers, installing>>

CheckNext ==
    \/ \E p \in Persons : EnqueueLint(p)
    \/ ClaimLint \/ InstallWaits
    \/ \E c \in CheckIds : LintJob(c) \/ LintComplete(c) \/ WorkerDropsCheck(c)
                           \/ ReapLint(c) \/ PruneLint(c)

CheckSpec == CheckInit /\ [][CheckNext]_checkVars

\* The reaper passes for ever, over every check.
CheckFairness == \A c \in CheckIds : WF_checkVars(ReapLint(c))

-----------------------------------------------------------------------------
\* A person has at most one check waiting, their newest, and one running; no
\* more run in all than the limit, whatever order claims and requests come in.
ChecksWithinBounds ==
    /\ \A p \in Persons : \A c \in Of(p) \intersect ChecksIn("queued"), d \in Of(p) : d <= c
    /\ \A p \in Persons : Cardinality(Of(p) \intersect ChecksIn("running")) <= 1
    /\ Cardinality(ChecksIn("running")) <= MaxRunning

\* An outcome once recorded stays: an answer after the reaper gave up, or
\* after the check was replaced, changes nothing.
OutcomesStay ==
    [][\A c \in CheckIds : check[c].status \in Over =>
           check'[c].status \in {check[c].status, "pruned"}]_checkVars

\* Checks keep within their bounds and keep their outcomes.
ChecksSound == []ChecksWithinBounds /\ OutcomesStay

\* Every check that was asked for ends, claimed or not.
ChecksEnd ==
    CheckFairness =>
        (ChecksIn("queued") # {} ~> ChecksIn("queued") \union ChecksIn("running") = {})
=============================================================================
