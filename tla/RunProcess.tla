----------------------------- MODULE RunProcess -----------------------------
(***************************************************************************)
(* The process a slot runs its job in, seen from both ends of its message  *)
(* pipe: app.run_worker prepares a private data directory, runs the tool   *)
(* (ansible-runner, ansible-lint, ssh-keyscan, ansible-inventory) and says *)
(* what came of it; run_in_worker reads until the pipe is closed, cleans   *)
(* up, and the slot's thread makes the job's outcome of what it read.      *)
(* WorkerSlots has this as StartChild, ChildEnds and CleanUp.              *)
(***************************************************************************)
EXTENDS Integers, Sequences

CONSTANT MaxPipe      \* bound: messages on their way

ASSUME RunProcessAssumption == MaxPipe \in Nat \ {0}

VARIABLES
    jobProcess,    \* the job's process: its mode, whether it runs as the slot's user (and
                \* the slot is swept), where it is, what its tool did, whether processes
                \* of the tool and its directory are there
    pipe,       \* messages written and not yet read
    reader,     \* run_in_worker: where it is and what it has read
    stopSign,   \* the handle: the first reason, and the signal sent for it
    verdict     \* what the slot reports

processVars == <<jobProcess, pipe, reader, stopSign, verdict>>

JobModes == {"run", "lint", "keyscan", "inventory"}
Kinds == {"started", "event", "answer", "result", "refused", "cut"}
Says(kind, value) == [kind |-> kind, value |-> value]

ProcessTypes ==
    /\ jobProcess \in [mode : JobModes, isolated : BOOLEAN, at : {"none", "setup", "preparing", "work",
                        "telling", "resulting", "tidying", "exited"},
                    tool : {"none", "good", "bad"}, left : BOOLEAN, dir : BOOLEAN]
    /\ \A i \in DOMAIN pipe : pipe[i] \in [kind : Kinds, value : {"none", "good", "bad"}]
    /\ Len(pipe) <= MaxPipe + 4
    /\ reader \in [at : {"idle", "writing", "reading", "ending", "judging", "done"},
                   dir : BOOLEAN, refused : BOOLEAN, crashed : BOOLEAN,
                   result : {"none", "good", "bad"}, answer : {"none", "good", "bad"}]
    /\ stopSign \in {"none", "cancelled", "timed_out", "failed", "gone"}
    /\ verdict \in {"none", "success", "failed", "cancelled", "timed_out", "unreported"}

ProcessInit ==
    /\ jobProcess \in [mode : JobModes, isolated : BOOLEAN, at : {"none"}, tool : {"none"},
                    left : {FALSE}, dir : {FALSE}]
    /\ pipe = <<>>
    /\ reader = [at |-> "idle", dir |-> FALSE, refused |-> FALSE, crashed |-> FALSE,
                 result |-> "none", answer |-> "none"]
    /\ stopSign = "none" /\ verdict = "none"

Alive == jobProcess.at \notin {"none", "exited"}
Emits(kind, value) == pipe' = Append(pipe, Says(kind, value))
GoesTo(place) == jobProcess' = [jobProcess EXCEPT !.at = place]
ChildAt(place) == jobProcess.at = place /\ UNCHANGED <<reader, stopSign, verdict>>

-----------------------------------------------------------------------------
(* The job's process.                                                        *)

LaunchProcess ==
    /\ reader.at = "idle" /\ reader' = [reader EXCEPT !.at = "writing"]
    /\ GoesTo("setup")
    /\ UNCHANGED <<pipe, stopSign, verdict>>

\* A run's directory is announced once it is complete, the others' at once.
MakeDir ==
    /\ ChildAt("setup")
    /\ IF jobProcess.mode = "run"
       THEN jobProcess' = [jobProcess EXCEPT !.at = "preparing", !.dir = TRUE] /\ UNCHANGED pipe
       ELSE jobProcess' = [jobProcess EXCEPT !.at = "work", !.dir = TRUE] /\ Emits("started", "none")

\* prepare: the repository is unpacked, the playbook and inventory written, the
\* certificate and the known hosts placed.  Some failures take the directory away.
Prepare ==
    /\ ChildAt("preparing")
    /\ \/ GoesTo("work") /\ Emits("started", "none")
       \/ /\ \E stays \in BOOLEAN : jobProcess' = [jobProcess EXCEPT !.at = "exited", !.dir = stays]
          /\ Emits("refused", "none")

\* An exception in run_lint, run_keyscan or run_inventory, after their finally.
Refuses ==
    /\ ChildAt("work") /\ jobProcess.mode # "run"
    /\ jobProcess' = [jobProcess EXCEPT !.at = "exited", !.dir = FALSE]
    /\ Emits("refused", "none")

\* on_event; an event that is too large is sent without its content.
PlaybookEvent ==
    /\ ChildAt("work") /\ jobProcess.mode = "run" /\ Len(pipe) < MaxPipe
    /\ Emits("event", "none") /\ UNCHANGED jobProcess

\* The tool starts processes with sessions of their own.
ToolLeaves ==
    /\ ChildAt("work") /\ ~jobProcess.left
    /\ jobProcess' = [jobProcess EXCEPT !.left = TRUE] /\ UNCHANGED pipe

ToolEnds ==
    /\ ChildAt("work")
    /\ \E how \in {"good", "bad"} : jobProcess' = [jobProcess EXCEPT !.at = "telling", !.tool = how]
    /\ UNCHANGED pipe

\* What the tool said: ansible-lint's findings or why there are none,
LintAnswer == IF jobProcess.tool = "good" THEN "good" ELSE "bad"
\* what ssh-keyscan printed, with its errors as text,
ScanAnswer == "good"
\* an inventory's output, or the call's exit code.
InventoryAnswer == IF jobProcess.tool = "good" THEN "good" ELSE "bad"

\* A run goes on to the keys ssh learned and its artifacts (see HostKeys, Artifacts).
TellAnswer ==
    /\ ChildAt("telling") /\ GoesTo("resulting")
    /\ CASE jobProcess.mode = "run" -> UNCHANGED pipe
         [] jobProcess.mode = "lint" -> Emits("answer", LintAnswer)
         [] jobProcess.mode = "keyscan" -> Emits("answer", ScanAnswer)
         [] jobProcess.mode = "inventory" -> Emits("answer", InventoryAnswer)

TellResult ==
    /\ ChildAt("resulting") /\ GoesTo("tidying")
    /\ Emits("result", jobProcess.tool)

Tidy ==
    /\ ChildAt("tidying")
    /\ jobProcess' = [jobProcess EXCEPT !.at = "exited", !.dir = FALSE] /\ UNCHANGED pipe

\* It dies: out of memory, or of a signal, perhaps in the middle of a line.
ProcessDies ==
    /\ Alive /\ GoesTo("exited")
    /\ UNCHANGED pipe \/ Emits("cut", "none")
    /\ UNCHANGED <<reader, stopSign, verdict>>

-----------------------------------------------------------------------------
(* run_in_worker.                                                            *)

ReaderAt(place) == reader.at = place /\ UNCHANGED <<stopSign, verdict>>

\* The job and a repository's tar go to its input; a process that is gone before it
\* read them all breaks the pipe.
WriteJob ==
    /\ ReaderAt("writing") /\ UNCHANGED <<jobProcess, pipe>>
    /\ \/ reader' = [reader EXCEPT !.at = "reading"]
       \/ ~Alive /\ reader' = [reader EXCEPT !.at = "ending", !.crashed = TRUE]

ReadMessage ==
    /\ ReaderAt("reading") /\ pipe # <<>> /\ pipe' = Tail(pipe)
    /\ LET m == Head(pipe) IN
       reader' = CASE m.kind = "started" -> [reader EXCEPT !.dir = TRUE]
                   [] m.kind = "event"   -> reader
                   [] m.kind = "answer"  -> [reader EXCEPT !.answer = m.value]
                   [] m.kind = "result"  -> [reader EXCEPT !.result = m.value]
                   [] m.kind = "refused" -> [reader EXCEPT !.refused = TRUE]
                   [] m.kind = "cut"     -> [reader EXCEPT !.at = "ending", !.crashed = TRUE]
    /\ UNCHANGED jobProcess

\* Mutant: the tool's processes inherit the pipe and keep it open.
PipeInherited == jobProcess.at = "exited" /\ ~jobProcess.left

\* Nobody can write any more: the process set its end not to be inherited.
PipeClosed == jobProcess.at = "exited"

ReadEnd ==
    /\ ReaderAt("reading") /\ pipe = <<>> /\ PipeClosed
    /\ reader' = [reader EXCEPT !.at = "ending"]
    /\ UNCHANGED <<jobProcess, pipe>>

\* Mutant: nothing is cleaned up when reading failed.
LeavesUnlessCrashed == reader.crashed

\* _clean_up knows what to remove: the slot's user has it all, else it goes by the
\* directory the process announced.
Unknown == ~jobProcess.isolated /\ ~reader.dir

\* stop_worker if it is still there, and _clean_up.
EndAndCleanUp ==
    /\ ReaderAt("ending")
    /\ reader' = [reader EXCEPT !.at = "judging"]
    /\ jobProcess' = [jobProcess EXCEPT !.at = "exited", !.left = @ /\ Unknown, !.dir = @ /\ Unknown]
    /\ UNCHANGED pipe

\* Mutant: no result is as good as one.
OutcomeByDefault ==
    IF reader.crashed \/ reader.refused \/ reader.result = "bad" \/ reader.answer = "bad"
    THEN "failed" ELSE "success"

\* The outcome: _outcome for a run, _execute_lint and the others for their answers.
Outcome ==
    IF reader.crashed \/ reader.refused THEN "failed"
    ELSE IF jobProcess.mode = "run"
         THEN IF reader.result = "good" THEN "success" ELSE "failed"
         ELSE IF reader.answer = "good" THEN "success" ELSE "failed"

\* A reason to stop comes first; for a claim that is gone nothing is reported.
Judge ==
    /\ reader.at = "judging" /\ reader' = [reader EXCEPT !.at = "done"]
    /\ verdict' = IF stopSign = "gone" THEN "unreported"
                  ELSE IF stopSign # "none" THEN stopSign ELSE Outcome
    /\ UNCHANGED <<jobProcess, pipe, stopSign>>

\* The handle's stop: the first reason wins, the process is sent SIGTERM.
StopProcess(reason) ==
    /\ stopSign = "none" /\ reader.at \in {"writing", "reading", "ending", "judging"}
    /\ stopSign' = reason
    /\ UNCHANGED <<jobProcess, pipe, reader, verdict>>

-----------------------------------------------------------------------------
ProcessNext ==
    \/ LaunchProcess \/ MakeDir \/ Prepare \/ Refuses \/ PlaybookEvent \/ ToolLeaves \/ ToolEnds
    \/ TellAnswer \/ TellResult \/ Tidy \/ ProcessDies
    \/ WriteJob \/ ReadMessage \/ ReadEnd \/ EndAndCleanUp \/ Judge
    \/ \E reason \in {"cancelled", "timed_out", "failed", "gone"} : StopProcess(reason)

ProcessSpec == ProcessInit /\ [][ProcessNext]_processVars

-----------------------------------------------------------------------------
\* A job is only reported successful when its tool ended, and (but for a scan, whose
\* errors are text) ended well: not when its process was killed, refused the job or
\* broke off in the middle of a message.
SuccessIsEarned ==
    verdict = "success" =>
        jobProcess.tool = "good" \/ (jobProcess.mode = "keyscan" /\ jobProcess.tool # "none")

\* "Nothing of the run may outlive it": when the slot has its outcome, the process has
\* exited, and its directory and what its tool started are gone; on a worker that does
\* not isolate, if the process came far enough to announce the directory.
NothingOutlives ==
    reader.at = "done" => /\ ~Alive
                          /\ jobProcess.isolated \/ reader.dir => ~jobProcess.left /\ ~jobProcess.dir

\* The outcome the slot reports is what happened, and nothing goes on behind it.
OutcomeIsTrue == SuccessIsEarned /\ NothingOutlives

\* The deadline passes (heartbeat), a process that was told to stop is killed after its
\* grace, and the slot's thread goes on.  The tool itself may hang.
ProcessFairness ==
    /\ WF_processVars(StopProcess("timed_out"))
    /\ WF_processVars(stopSign # "none" /\ ProcessDies)
    /\ WF_processVars(WriteJob) /\ WF_processVars(ReadMessage) /\ WF_processVars(ReadEnd)
    /\ WF_processVars(EndAndCleanUp) /\ WF_processVars(Judge)

\* Every job that was started comes to an end, also when its tool hangs or its
\* processes outlive it: the slot is not stuck on the pipe.
ProcessIsJudged == ProcessFairness => (reader.at = "writing" ~> reader.at = "done")
=============================================================================
