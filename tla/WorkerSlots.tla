---------------------------- MODULE WorkerSlots ----------------------------
(***************************************************************************)
(* One worker process: its slot threads, the task table they share with    *)
(* the heartbeat thread and with shutdown, the child process each slot     *)
(* runs its job in, what a job leaves behind under the slot's user, the    *)
(* sweep that removes it, and the network allowlist of a restricted job.   *)
(*                                                                         *)
(* A job is a run, a refresh, a check or a scan: the table's key.  What    *)
(* the API does to a job is the part of RunQueue a worker can notice.      *)
(* LeaseFence has the clocks: here a lease runs out only of a task that    *)
(* nobody renews, or that was told to stop.                                *)
(***************************************************************************)
EXTENDS Integers, FiniteSets

CONSTANTS
    Slots, NoSlot,
    SlotJobs, NoJob,
    Restricted,     \* jobs on inventories that restrict egress
    Combining       \* refreshes with constructed sources: a second child

ASSUME SlotsAssumption ==
    /\ NoSlot \notin Slots /\ NoJob \notin SlotJobs
    /\ Restricted \subseteq SlotJobs /\ Combining \subseteq SlotJobs
    /\ Restricted \intersect Combining = {}     \* runs are restricted, refreshes combine

VARIABLES
    api,        \* of each job at the API: status, owner, handed out
    slot,       \* of each slot: where its thread is, its job and stop reason
    tasks,      \* the task table: for each key the slot whose task it holds
    child,      \* the process of each slot's job: none, alive, stopping
    left,       \* the job that left something under the slot's user
    allow,      \* the job whose allowlist the slot's nft table holds
    beat,       \* the heartbeat under way: the slots of the tasks it was sent for
    combined,   \* refreshes whose second child is due or done
    halt        \* shutdown: no, draining (no new claims), stopped (tasks told)

slotVars == <<api, slot, tasks, child, left, allow, beat, combined, halt>>

\* Why a task was told to stop: its claim is gone (nothing is reported then), or
\* one of cancelled, timed out, lease lost and shutdown.
Reasons == {"none", "gone", "told"}
Places == {"dirty", "swept", "polling", "fetching", "preparing", "ready",
           "running", "cleaning", "reporting", "off"}
Busy == {"fetching", "preparing", "ready", "running", "cleaning", "reporting"}

\* Jobs at the API, slot threads, their children and what those leave.
SlotTypes ==
    /\ api \in [SlotJobs -> [status : {"waiting", "claimed", "ended", "lost"},
                         owner : Slots \union {NoSlot}, handed : BOOLEAN]]
    /\ slot \in [Slots -> [at : Places, job : SlotJobs \union {NoJob}, reason : Reasons]]
    /\ \A s \in Slots : slot[s].at \in Busy <=> slot[s].job # NoJob
    /\ tasks \in [SlotJobs -> Slots \union {NoSlot}]
    /\ child \in [Slots -> {"none", "alive", "stopping"}]
    /\ \A s \in Slots : child[s] # "none" => slot[s].at = "running"
    /\ left \in [Slots -> SlotJobs \union {NoJob}]
    /\ allow \in [Slots -> SlotJobs \union {NoJob}]
    /\ beat \in (SUBSET Slots) \union {{NoSlot}}
    /\ combined \subseteq Combining
    /\ halt \in {"no", "draining", "stopped"}

NoBeat == {NoSlot}

SlotInit ==
    /\ api = [j \in SlotJobs |-> [status |-> "waiting", owner |-> NoSlot, handed |-> FALSE]]
    /\ slot = [s \in Slots |-> [at |-> "off", job |-> NoJob, reason |-> "none"]]
    /\ tasks = [j \in SlotJobs |-> NoSlot]
    /\ child = [s \in Slots |-> "none"]
    /\ left = [s \in Slots |-> NoJob]
    /\ allow = [s \in Slots |-> NoJob]
    /\ beat = NoBeat /\ combined = {} /\ halt = "no"

osVars == <<child, left, allow>>

Goes(s, place) == slot' = [slot EXCEPT ![s].at = place]
Owned(s) == api[slot[s].job].owner = s
JobOver(j) == api' = [api EXCEPT ![j].status = "ended", ![j].owner = NoSlot]

\* The worker starts its slot threads, each by sweeping what an earlier worker left.
StartSlots ==
    /\ halt = "no" /\ \A s \in Slots : slot[s].at = "off"
    /\ slot' = [s \in Slots |-> [slot[s] EXCEPT !.at = "dirty"]]
    /\ UNCHANGED <<api, tasks, osVars, beat, combined, halt>>

-----------------------------------------------------------------------------
(* Sweeping a slot, as its user, and lifting its allowlist.                  *)

\* One call of sweep: it says whether processes, IPC objects and files are all gone.
Sweeping(s, clean) ==
    left' = [left EXCEPT ![s] = IF clean THEN NoJob ELSE @]

\* Mutant: a slot that is not clean is used all the same.
SweepOnce(s) ==
    /\ slot[s].at = "dirty"
    /\ \E clean \in BOOLEAN : Sweeping(s, clean)
    /\ Goes(s, "swept")
    /\ UNCHANGED <<api, tasks, child, allow, beat, combined, halt>>

\* _sweep_until_clean; a worker that is stopping tries once more on its way out.
SweepSlot(s) ==
    /\ slot[s].at = "dirty"
    /\ \/ Sweeping(s, TRUE) /\ Goes(s, "swept")
       \/ left[s] # NoJob /\ Sweeping(s, FALSE) /\ Goes(s, IF halt = "no" THEN "dirty" ELSE "off")
    /\ UNCHANGED <<api, tasks, child, allow, beat, combined, halt>>

\* Mutant: lifted whether or not the sweep succeeded.
ReleaseDirty(s) ==
    /\ slot[s].at \in {"dirty", "swept"}
    /\ allow' = [allow EXCEPT ![s] = NoJob]
    /\ Goes(s, IF slot[s].at = "dirty" THEN "dirty" ELSE IF halt = "no" THEN "polling" ELSE "off")
    /\ UNCHANGED <<api, tasks, child, left, beat, combined, halt>>

\* _release_until_done: nft may fail and is tried again, unless the worker stops.
ReleaseAllowlist(s) ==
    /\ slot[s].at = "swept"
    /\ \/ /\ allow' = [allow EXCEPT ![s] = NoJob]
          /\ Goes(s, IF halt = "no" THEN "polling" ELSE "off")
       \/ allow[s] # NoJob /\ halt # "no" /\ Goes(s, "off") /\ UNCHANGED allow
    /\ UNCHANGED <<api, tasks, child, left, beat, combined, halt>>

-----------------------------------------------------------------------------
(* The slot thread: _slot, _execute and its siblings.                        *)

\* Mutant: asked again also when stopping.
KeepPolling(s) ==
    /\ slot[s].at = "polling" /\ halt # "no"
    /\ UNCHANGED slotVars

\* A claim call that brings nothing, or fails: asked again, unless stopping.
NothingClaimed(s) ==
    /\ slot[s].at = "polling" /\ halt # "no"
    /\ Goes(s, "off")
    /\ UNCHANGED <<api, tasks, osVars, beat, combined, halt>>

\* Mutant: the shutdown that began during the call is not looked at.
ClaimIgnoringStop(s, j) ==
    /\ slot[s].at = "polling" /\ api[j].status = "waiting"
    /\ api' = [api EXCEPT ![j].status = "claimed", ![j].owner = s]
    /\ slot' = [slot EXCEPT ![s] = [at |-> "fetching", job |-> j, reason |-> "none"]]
    /\ tasks' = [tasks EXCEPT ![j] = s]
    /\ UNCHANGED <<osVars, beat, combined, halt>>

\* The claim's answer: into the table, and stopped at once when shutting down.
ClaimJob(s, j) ==
    /\ slot[s].at = "polling" /\ api[j].status = "waiting"
    /\ api' = [api EXCEPT ![j].status = "claimed", ![j].owner = s]
    /\ slot' = [slot EXCEPT ![s] = [at |-> "fetching", job |-> j,
                                    reason |-> IF halt = "no" THEN "none" ELSE "told"]]
    /\ tasks' = [tasks EXCEPT ![j] = s]
    /\ UNCHANGED <<osVars, beat, combined, halt>>

\* The slot's finally: the key is popped, whoever's task is under it.
Done(s) ==
    /\ slot' = [slot EXCEPT ![s] = [at |-> "dirty", job |-> NoJob, reason |-> "none"]]
    /\ tasks' = [tasks EXCEPT ![slot[s].job] = NoSlot]
    /\ beat' = beat \ {s}

\* _fetch_job is given the job; the answer may be lost, and a repetition is refused.
FetchJob(s) ==
    /\ slot[s].at = "fetching" /\ Owned(s) /\ ~api[slot[s].job].handed
    /\ api' = [api EXCEPT ![slot[s].job].handed = TRUE]
    /\ Goes(s, "preparing") \/ UNCHANGED slot
    /\ UNCHANGED <<tasks, osVars, beat, combined, halt>>

\* It is refused, or gives up: the lease runs out, unless the API ended the job, or
\* put it back because its secret store is down (held for HOLD_SECONDS, longer than
\* this call waits for its answer).
Requeue(j) == api' = [api EXCEPT ![j].status = "waiting", ![j].owner = NoSlot]
JobFetchFails(s) ==
    /\ slot[s].at = "fetching" /\ Done(s)
    /\ \/ UNCHANGED api
       \/ Owned(s) /\ ~api[slot[s].job].handed /\ JobOver(slot[s].job)
       \/ Owned(s) /\ ~api[slot[s].job].handed /\ Requeue(slot[s].job)
    /\ UNCHANGED <<osVars, combined, halt>>

\* _restrict and _fetch_snapshot: an allowlist that can't be had, installed or
\* reported (it may be in place then), and a repository that can't be fetched,
\* fail the job before anything of it starts.  A refresh has nothing to prepare.
PrepareJob(s) ==
    LET j == slot[s].job IN
    /\ slot[s].at = "preparing"
    /\ \/ /\ IF j \in Restricted THEN allow' = [allow EXCEPT ![s] = j] ELSE UNCHANGED allow
          /\ Goes(s, "ready")
       \/ /\ j \notin Combining
          /\ allow' \in {allow} \union {[allow EXCEPT ![s] = j] : r \in {j} \cap Restricted}
          /\ Goes(s, "reporting")
    /\ UNCHANGED <<api, tasks, child, left, beat, combined, halt>>

\* Mutant: a stop that came before the process is forgotten.
AttachOnly(s) ==
    /\ slot[s].at = "ready"
    /\ child' = [child EXCEPT ![s] = "alive"]
    /\ Goes(s, "running")
    /\ UNCHANGED <<api, tasks, left, allow, beat, combined, halt>>

\* run_in_worker: the handle attaches the process, and stops it if it was told to
\* before there was one.
StartChild(s) ==
    /\ slot[s].at = "ready"
    /\ child' = [child EXCEPT ![s] = IF slot[s].reason = "none" THEN "alive" ELSE "stopping"]
    /\ Goes(s, "running")
    /\ UNCHANGED <<api, tasks, left, allow, beat, combined, halt>>

\* Task workers with sessions of their own, ControlPersist masters, IPC objects
\* and files in the home outlive the child.
LeavesBehind(s) ==
    /\ child[s] # "none" /\ left[s] = NoJob
    /\ left' = [left EXCEPT ![s] = slot[s].job]
    /\ UNCHANGED <<api, slot, tasks, child, allow, beat, combined, halt>>

\* The child ends by itself, on SIGTERM, or on SIGKILL after the grace.
ChildEnds(s) ==
    /\ child[s] # "none"
    /\ child' = [child EXCEPT ![s] = "none"]
    /\ Goes(s, "cleaning")
    /\ UNCHANGED <<api, tasks, left, allow, beat, combined, halt>>

\* _clean_up after every child; a slot it can't clean is only logged here.
CleanUp(s) ==
    /\ slot[s].at = "cleaning"
    /\ \E clean \in BOOLEAN : Sweeping(s, clean)
    /\ Goes(s, "reporting")
    /\ UNCHANGED <<api, tasks, child, allow, beat, combined, halt>>

\* A refresh's sources are reported and the API answers with a combine job.
CombineNext(s) ==
    LET j == slot[s].job IN
    /\ slot[s].at = "reporting" /\ j \in Combining \ combined
    /\ slot[s].reason = "none" /\ Owned(s)
    /\ combined' = combined \union {j}
    /\ Goes(s, "ready")
    /\ UNCHANGED <<api, tasks, osVars, beat, halt>>

\* _complete: not for a claim that is gone; the API takes it from the owner only;
\* and the call may never get through.
ReportResult(s) ==
    /\ slot[s].at = "reporting" /\ Done(s)
    /\ \/ slot[s].reason # "gone" /\ Owned(s) /\ JobOver(slot[s].job)
       \/ UNCHANGED api
    /\ UNCHANGED <<osVars, combined, halt>>

-----------------------------------------------------------------------------
(* Stopping tasks, each with the reason given for it: the first reason wins. *)

Stopped(why) ==
    LET hit == {s \in DOMAIN why : slot[s].reason = "none" /\ why[s] # "none"} IN
    /\ slot' = [s \in Slots |-> IF s \in hit THEN [slot[s] EXCEPT !.reason = why[s]] ELSE slot[s]]
    /\ child' = [s \in Slots |-> IF s \in hit /\ child[s] = "alive" THEN "stopping" ELSE child[s]]

\* _snapshot: the tasks in the table.
Watched == {s \in Slots : slot[s].job # NoJob /\ tasks[slot[s].job] = s}

\* beat: a snapshot of the table; tasks past their deadline are stopped first.
BeatSend ==
    /\ beat = NoBeat
    /\ \E late \in SUBSET {s \in Watched : slot[s].at \notin {"fetching"}} :
         Stopped([s \in late |-> "told"])
    /\ beat' = Watched
    /\ UNCHANGED <<api, tasks, left, allow, combined, halt>>

\* What the API says of a task: not the caller's any more, or to be cancelled.
BeatAnswer(s, cancelled) ==
    IF ~Owned(s) THEN "gone" ELSE IF s \in cancelled THEN "told" ELSE "none"

BeatAnswered ==
    /\ beat # NoBeat /\ beat' = NoBeat
    /\ \E cancelled \in SUBSET beat :
         Stopped([s \in beat |-> BeatAnswer(s, cancelled)])
    /\ UNCHANGED <<api, tasks, left, allow, combined, halt>>

\* No answer: the tasks whose last renewal is too old are fenced.
BeatLost ==
    /\ beat # NoBeat /\ beat' = NoBeat
    /\ \E old \in SUBSET beat : Stopped([s \in old |-> "told"])
    /\ UNCHANGED <<api, tasks, left, allow, combined, halt>>

\* Worker.stop: no more claims; after the drain every task in the table is stopped.
StopBegins ==
    /\ halt = "no" /\ halt' = "draining"
    /\ UNCHANGED <<api, slot, tasks, osVars, beat, combined>>

StopTasks ==
    /\ halt = "draining" /\ halt' = "stopped"
    /\ Stopped([s \in Watched |-> "told"])
    /\ UNCHANGED <<api, tasks, left, allow, beat, combined>>

-----------------------------------------------------------------------------
(* The API, as RunQueue has it.                                              *)

\* The lease ran out.  A watched task was told to stop by then (LeaseFence).
LeaseRunsOut(j) ==
    LET s == api[j].owner IN
    /\ api[j].status = "claimed"
    /\ s \in Watched => slot[s].job # j \/ slot[s].reason # "none"
    /\ api' = [api EXCEPT ![j].status = "lost", ![j].owner = NoSlot]
    /\ UNCHANGED <<slot, tasks, osVars, beat, combined, halt>>

-----------------------------------------------------------------------------
SlotStep(s) ==
    \/ SweepSlot(s) \/ ReleaseAllowlist(s) \/ NothingClaimed(s)
    \/ FetchJob(s) \/ JobFetchFails(s) \/ PrepareJob(s) \/ StartChild(s)
    \/ ChildEnds(s) \/ CleanUp(s) \/ CombineNext(s) \/ ReportResult(s)

SlotNext ==
    \/ StartSlots \/ \E s \in Slots : SlotStep(s)
    \/ \E s \in Slots, j \in SlotJobs : ClaimJob(s, j)
    \/ \E s \in Slots : LeavesBehind(s)
    \/ BeatSend \/ BeatAnswered \/ BeatLost \/ StopBegins \/ StopTasks
    \/ \E j \in SlotJobs : LeaseRunsOut(j)

SlotSpec == SlotInit /\ [][SlotNext]_slotVars

-----------------------------------------------------------------------------
\* A job starts on a slot that has nothing of another: no process, IPC object or
\* home of an earlier job is there beside its own.
CleanSlots ==
    \A s \in Slots : child[s] # "none" => left[s] \in {NoJob, slot[s].job}

\* Everything a restricted job runs, while it runs and afterwards, is under its
\* allowlist; and a job that is not restricted is not held to another's.
AllowlistsHold ==
    \A s \in Slots :
      /\ left[s] \in Restricted => allow[s] = left[s]
      /\ child[s] # "none" =>
           allow[s] = IF slot[s].job \in Restricted THEN slot[s].job ELSE NoJob

\* "a run whose lease we couldn't renew may already be failed and its inventory
\* handed to another worker, so it must not keep changing hosts": the child of a
\* job whose lease ran out has been told to stop.
SelfFencing ==
    \A s \in Slots : child[s] # "none" /\ api[slot[s].job].status = "lost" => child[s] = "stopping"

\* Once shutdown has told the tasks, every job a slot is busy with was told,
\* also one whose claim was answered in between.
ShutdownReachesAll ==
    halt = "stopped" => \A s \in Slots : slot[s].at \in Busy => slot[s].reason # "none"

\* What a slot owes the jobs before and after, the other hosts, the other workers and
\* the one who stops it.
SlotsAreSafe == CleanSlots /\ AllowlistsHold /\ SelfFencing /\ ShutdownReachesAll

-----------------------------------------------------------------------------
\* Threads go on, calls to the API end or time out, a child that is stopped is
\* killed after its grace, sweeps succeed in the end.
SlotFairness ==
    /\ \A s \in Slots :
         /\ WF_slotVars(NothingClaimed(s))
         /\ WF_slotVars(slot[s].at = "dirty" /\ SweepSlot(s) /\ slot'[s].at # "dirty")
         /\ WF_slotVars(ReleaseAllowlist(s))
         /\ WF_slotVars(FetchJob(s) \/ JobFetchFails(s)) /\ WF_slotVars(PrepareJob(s))
         /\ WF_slotVars(StartChild(s)) /\ WF_slotVars(CleanUp(s))
         /\ WF_slotVars(child[s] = "stopping" /\ ChildEnds(s))
         /\ WF_slotVars(CombineNext(s) \/ ReportResult(s))
    /\ WF_slotVars(StopTasks)

\* A worker told to shut down does: no claim, fetch or child keeps a slot thread
\* that stop() joins.
ShutdownEnds ==
    SlotFairness => (halt # "no" ~> \A s \in Slots : slot[s].at = "off")
=============================================================================
