------------------------------- MODULE Sweep -------------------------------
(***************************************************************************)
(* Emptying a slot between two jobs: WorkerSlots' Sweeping(s, clean) step  *)
(* by step.  The sweep is a process of the slot's own user; it runs beside *)
(* what the job left behind, beside the jobs of other slots (neighbours),  *)
(* which may hold on to what the job had opened to everyone, and beside    *)
(* the worker's thread that collects orphans as process 1.                 *)
(***************************************************************************)
EXTENDS Integers

CONSTANTS
    Procs,          \* the processes the slot's user may have
    KillRounds,     \* _SWEEP_KILL_ROUNDS
    SweepAttempts   \* _SWEEP_ATTEMPTS

ASSUME SweepAssumption == KillRounds \in Nat \ {0} /\ SweepAttempts \in Nat \ {0}

VARIABLES
    proc,       \* each process: dying has a SIGKILL and finishes its call
    home,       \* the user's home: open to others, own entries, others' entries
    ipc,        \* its IPC objects: held is attached by a neighbour, marked removed
    tmp,        \* its files in the temp directories; mixed: a neighbour's in them
    sweeper,    \* the sweep process: where it is, its kill rounds, its exit code
    ours,       \* the sweep process is registered in _children
    cleaner     \* the slot's thread: where it is, its attempt, home_clean, left

sweepVars == <<proc, home, ipc, tmp, sweeper, ours, cleaner>>

Absent == {"none", "zombie"}
Steps == {"kill", "close", "empty", "ipc", "files"}

SweepTypes ==
    /\ proc \in [Procs -> {"none", "live", "dying", "stuck", "zombie"}]
    /\ home \in [open : BOOLEAN, own : BOOLEAN, others : SUBSET {"file", "dir"}]
    /\ ipc \in {"none", "there", "held", "marked"}
    /\ tmp \in {"none", "own", "mixed"}
    /\ sweeper \in [at : {"none", "exited"} \union Steps, rounds : 0..KillRounds,
                    code : {"none", "clean", "homeNotClean", "killed"}]
    /\ ours \in BOOLEAN
    /\ cleaner \in [at : {"clean", "job", "sweep", "wait", "processes", "objects", "dirty"},
                    attempt : 0..SweepAttempts, homeClean : BOOLEAN, left : BOOLEAN]
    /\ cleaner.at = "wait" <=> ours

FreshHome == [open |-> FALSE, own |-> FALSE, others |-> {}]
NoSweeper == [at |-> "none", rounds |-> 0, code |-> "none"]
Cleaner(at, attempt) == [at |-> at, attempt |-> attempt, homeClean |-> FALSE, left |-> FALSE]

\* prepare_homes made the home, and start sweeps whatever an earlier worker left.
SweepInit ==
    /\ proc \in [Procs -> {"none", "live"}]
    /\ home = FreshHome /\ ipc = "none" /\ tmp = "none"
    /\ sweeper = NoSweeper /\ ours = FALSE
    /\ cleaner = Cleaner("sweep", 1)

slotState == <<proc, home, ipc, tmp>>
sweepState == <<sweeper, ours, cleaner>>

-----------------------------------------------------------------------------
(* The job, and the jobs of other slots.                                     *)

PlaybookStarts ==
    /\ cleaner.at = "clean" /\ cleaner' = Cleaner("job", 0)
    /\ \E q \in Procs : proc[q] = "none" /\ proc' = [proc EXCEPT ![q] = "live"]
    /\ UNCHANGED <<home, ipc, tmp, sweeper, ours>>

\* The job's child has ended; what it started may go on.
PlaybookEnds ==
    /\ cleaner.at = "job" /\ cleaner' = Cleaner("sweep", 1)
    /\ UNCHANGED <<slotState, sweeper, ours>>

Forks(p, q) ==
    /\ proc[p] = "live" /\ proc[q] = "none"
    /\ proc' = [proc EXCEPT ![q] = "live"]
    /\ UNCHANGED <<home, ipc, tmp, sweepState>>

\* A process leaves something, with its last call when it is dying.
Leaves(p) ==
    /\ proc[p] \in {"live", "dying"}
    /\ \/ home' = [home EXCEPT !.open = TRUE] /\ UNCHANGED <<ipc, tmp>>
       \/ home' = [home EXCEPT !.own = TRUE] /\ UNCHANGED <<ipc, tmp>>
       \/ ipc = "none" /\ ipc' = "there" /\ UNCHANGED <<home, tmp>>
       \/ tmp = "none" /\ tmp' = "own" /\ UNCHANGED <<home, ipc>>
    /\ proc' = [proc EXCEPT ![p] = IF @ = "dying" THEN "zombie" ELSE @]
    /\ UNCHANGED sweepState

\* It ends; a killed one may be stuck in a call that has nothing to do with the slot
\* (a dead network file system) and end later.
Dies(p) ==
    /\ \/ proc[p] \in {"live", "dying", "stuck"} /\ proc' = [proc EXCEPT ![p] = "zombie"]
       \/ proc[p] = "dying" /\ proc' = [proc EXCEPT ![p] = "stuck"]
    /\ UNCHANGED <<home, ipc, tmp, sweepState>>

\* A neighbour puts a file or a directory where the job lets it, or attaches to and
\* lets go of shared memory (a marked segment is gone then).
Neighbour ==
    /\ \/ /\ home.open /\ UNCHANGED <<ipc, tmp>>
          /\ \E kind \in {"file", "dir"} : home' = [home EXCEPT !.others = @ \union {kind}]
       \/ /\ \/ ipc = "there" /\ ipc' = "held"
             \/ ipc = "held" /\ ipc' = "there"
             \/ ipc = "marked" /\ ipc' = "none"
          /\ UNCHANGED <<home, tmp>>
       \/ tmp = "own" /\ tmp' = "mixed" /\ UNCHANGED <<home, ipc>>
    /\ UNCHANGED <<proc, sweepState>>

-----------------------------------------------------------------------------
(* The sweep process: kill, close the home, empty it, IPC objects, files.    *)

At(step) == sweeper.at = step /\ UNCHANGED <<ours, cleaner>>
GoOn(step) == sweeper' = [sweeper EXCEPT !.at = step]

\* kill_own_processes: kill(-1) reaches every process at once, until it finds none
\* (zombies count until they are collected) or its rounds are over; calls under way
\* at the first kill are over by then.
KillOwnProcesses ==
    /\ At("kill")
    /\ \/ /\ \E p \in Procs : proc[p] # "none"
          /\ sweeper.rounds < KillRounds
          /\ proc' = [p \in Procs |-> IF proc[p] = "live" THEN "dying" ELSE proc[p]]
          /\ sweeper' = [sweeper EXCEPT !.rounds = @ + 1]
       \/ /\ \/ \A p \in Procs : proc[p] = "none"
             \/ sweeper.rounds = KillRounds /\ \A p \in Procs : proc[p] # "dying"
          /\ GoOn("close") /\ UNCHANGED proc
    /\ UNCHANGED <<home, ipc, tmp>>

\* clear_home: private first, then its entries.  A neighbour's directory that is not
\* empty stays: only its owner can empty it.
CloseHome ==
    /\ At("close") /\ GoOn("empty")
    /\ home' = [home EXCEPT !.open = FALSE]
    /\ UNCHANGED <<proc, ipc, tmp>>

EmptyHome ==
    /\ At("empty")
    /\ \E stays \in SUBSET (home.others \intersect {"dir"}) :
         /\ home' = [home EXCEPT !.own = FALSE, !.others = stays]
         /\ sweeper' = [sweeper EXCEPT !.at = "ipc", !.code = IF stays = {} THEN "clean" ELSE "homeNotClean"]
    /\ UNCHANGED <<proc, ipc, tmp>>

RemoveOwnIpc ==
    /\ At("ipc") /\ GoOn("files")
    /\ ipc' = CASE ipc = "there" -> "none" [] ipc = "held" -> "marked" [] OTHER -> ipc
    /\ UNCHANGED <<proc, home, tmp>>

\* remove_own_files, and the exit.
RemoveOwnFiles ==
    /\ At("files") /\ GoOn("exited")
    /\ tmp' \in IF tmp = "mixed" THEN {"none", "mixed"} ELSE {"none"}
    /\ UNCHANGED <<proc, home, ipc>>

\* It is killed: its time is over, or the kernel ran out of memory.
SweeperKilled ==
    /\ sweeper.at \in Steps /\ UNCHANGED <<ours, cleaner>>
    /\ sweeper' = [sweeper EXCEPT !.at = "exited", !.code = "killed"]
    /\ UNCHANGED slotState

-----------------------------------------------------------------------------
(* The worker: the slot's thread and the thread that collects orphans.       *)

\* Mutant: every exited child is collected, the sweep too: its status reads as 0.
ReapEverything ==
    /\ \/ \E p \in Procs : proc[p] = "zombie" /\ proc' = [proc EXCEPT ![p] = "none"] /\ UNCHANGED sweeper
       \/ sweeper.at = "exited" /\ sweeper' = [sweeper EXCEPT !.code = "clean"] /\ UNCHANGED proc
    /\ UNCHANGED <<home, ipc, tmp, ours, cleaner>>

\* reap_once: leaves the children of run_executor alone; while one of those has exited
\* it may be all that waitid shows.
ReapOrphan ==
    /\ \E p \in Procs : proc[p] = "zombie" /\ proc' = [proc EXCEPT ![p] = "none"]
    /\ UNCHANGED <<home, ipc, tmp, sweepState>>

\* _start: started and registered under CHILDREN_LOCK.
StartSweep ==
    /\ cleaner.at = "sweep" /\ cleaner' = Cleaner("wait", cleaner.attempt)
    /\ sweeper' = [NoSweeper EXCEPT !.at = "kill"] /\ ours' = TRUE
    /\ UNCHANGED slotState

\* The exit code; a home its user could not empty is moved away and made anew
\* (replace_home), unless that fails.
CollectSweep ==
    /\ cleaner.at = "wait" /\ sweeper.at = "exited"
    /\ sweeper' = NoSweeper /\ ours' = FALSE
    /\ \E replaced \in BOOLEAN :
         /\ replaced => sweeper.code = "homeNotClean"
         /\ home' = IF replaced THEN FreshHome ELSE home
         /\ cleaner' = [cleaner EXCEPT !.at = "processes", !.homeClean = replaced \/ sweeper.code = "clean"]
    /\ UNCHANGED <<proc, ipc, tmp>>

\* processes_of, zombies aside.
CountProcesses ==
    /\ cleaner.at = "processes"
    /\ cleaner' = [cleaner EXCEPT !.at = "objects", !.left = \E p \in Procs : proc[p] \notin Absent]
    /\ UNCHANGED <<slotState, sweeper, ours>>

\* ipc_objects, and the verdict: clean, another attempt, or not clean.
JudgeSlot ==
    /\ cleaner.at = "objects"
    /\ cleaner' = IF ~cleaner.left /\ ipc = "none" /\ cleaner.homeClean THEN Cleaner("clean", 0)
                  ELSE IF cleaner.attempt < SweepAttempts THEN Cleaner("sweep", cleaner.attempt + 1)
                  ELSE Cleaner("dirty", 0)
    /\ UNCHANGED <<slotState, sweeper, ours>>

\* _sweep_until_clean.
SweepAgain ==
    /\ cleaner.at = "dirty" /\ cleaner' = Cleaner("sweep", 1)
    /\ UNCHANGED <<slotState, sweeper, ours>>

-----------------------------------------------------------------------------
SweepNext ==
    \/ PlaybookStarts \/ PlaybookEnds \/ Neighbour
    \/ \E p, q \in Procs : Forks(p, q)
    \/ \E p \in Procs : Leaves(p) \/ Dies(p)
    \/ KillOwnProcesses \/ CloseHome \/ EmptyHome \/ RemoveOwnIpc \/ RemoveOwnFiles \/ SweeperKilled
    \/ ReapOrphan \/ StartSweep \/ CollectSweep \/ CountProcesses \/ JudgeSlot \/ SweepAgain

SweepSpec == SweepInit /\ [][SweepNext]_sweepVars

-----------------------------------------------------------------------------
\* "True once no process or IPC object of it is left and its home is empty and
\* private": a slot sweep() calls clean has none of the earlier job's processes, IPC
\* objects and home entries, nor its files in the temp directories, except what is
\* tied up with another user's directory there.
SweptIsClean ==
    cleaner.at = "clean" =>
      /\ \A p \in Procs : proc[p] \in Absent
      /\ home = FreshHome /\ ipc = "none" /\ tmp # "own"
=============================================================================
