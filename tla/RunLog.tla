------------------------------- MODULE RunLog -------------------------------
(***************************************************************************)
(* The output of one run, from the worker that numbers its events, over    *)
(* HTTP calls that time out and are repeated, into a JSONL file whose      *)
(* committed length is kept in the run's row, and out to the viewers that  *)
(* tail the file and reconnect.                                            *)
(*                                                                         *)
(* A line is the number of an event, or Status for a line AnsiDeck writes  *)
(* itself.  Lengths count lines.                                           *)
(***************************************************************************)
EXTENDS Integers, Sequences, FiniteSets

CONSTANTS
    Viewers,
    MaxEvents,      \* bound: events the run prints
    MaxLate,        \* bound: calls the worker gave up on that still arrive
    Refusals,       \* the API may refuse a batch for reasons of its own (a 4xx answer)
    CommitsFail     \* a commit may fail after its lines were written

ASSUME LogAssumption ==
    /\ MaxEvents \in Nat /\ MaxLate \in Nat
    /\ Refusals \in BOOLEAN /\ CommitsFail \in BOOLEAN

VARIABLES
    row,        \* the run's row: status, logSeq, logLen
    file,       \* the lines on disk
    writer,     \* the transaction that has written and not yet committed
    produced,   \* events the sender has numbered
    dropped,    \* events the sender no longer keeps
    loop,       \* the sender's thread: idle, posting (waits for an answer) or ended
    cur,        \* its call, until the API handles it
    late,       \* calls it gave up on
    gone,       \* the API told the worker that it lost the run
    phase,      \* of the worker: running, closing, completing, reported or silent
    report,     \* a complete call is on its way
    view        \* of each viewer: phase, offset, skip, fin, got

apiVars == <<row, file, writer>>
senderVars == <<produced, dropped, loop, cur, gone>>
workerVars == <<phase, report>>
vars == <<apiVars, senderVars, late, workerVars, view>>

Status == 0
Min2(a, b) == IF a < b THEN a ELSE b
Batches == [first : 1..MaxEvents, last : 1..MaxEvents]
NoBatch == [first |-> 0, last |-> 0]
NoWrite == [kind |-> "none", last |-> 0, asked |-> FALSE]

ApiTypes ==
    /\ row \in [status : {"running", "completed", "reaped"}, logSeq : Nat, logLen : Nat]
    /\ file \in Seq(0..MaxEvents)
    /\ writer \in [kind : {"none", "events", "status"}, last : Nat, asked : BOOLEAN]

SenderTypes ==
    /\ produced \in 0..MaxEvents /\ dropped \in 0..produced
    /\ loop \in {"idle", "posting", "ended"} /\ gone \in BOOLEAN
    /\ cur \in Batches \union {NoBatch} /\ late \subseteq Batches
    /\ phase \in {"running", "closing", "completing", "reported", "silent"}
    /\ report \in BOOLEAN

View == [phase : {"off", "reading", "checking", "draining", "closed"},
         offset : Nat, skip : Nat, fin : BOOLEAN, got : Seq(0..MaxEvents)]

ViewTypes == view \in [Viewers -> View]

\* The row, the file, the sender, the worker and the viewers; what the sender
\* dropped it had numbered before.
TypeOK == ApiTypes /\ SenderTypes /\ ViewTypes

Init ==
    /\ row = [status |-> "running", logSeq |-> 0, logLen |-> 0]
    /\ file = <<>> /\ writer = NoWrite
    /\ produced = 0 /\ dropped = 0
    /\ loop = "idle" /\ cur = NoBatch /\ late = {}
    /\ gone = FALSE /\ phase = "running" /\ report = FALSE
    /\ view = [v \in Viewers |->
                 [phase |-> "off", offset |-> 0, skip |-> 0, fin |-> FALSE, got |-> <<>>]]

-----------------------------------------------------------------------------
(* The worker: EventSender. *)

\* EventSender.add.
Add ==
    /\ phase = "running" /\ produced < MaxEvents
    /\ produced' = produced + 1
    /\ UNCHANGED <<apiVars, dropped, loop, cur, gone, late, workerVars, view>>

\* _batch: how many of the pending events fit is left open.
Post ==
    /\ loop = "idle" /\ dropped < produced /\ ~gone
    /\ phase \in {"running", "closing"}
    /\ \E last \in (dropped + 1)..produced : cur' = [first |-> dropped + 1, last |-> last]
    /\ loop' = "posting"
    /\ UNCHANGED <<apiVars, produced, dropped, gone, late, workerVars, view>>

\* _batch returns None: closed and all acknowledged, gone, or abandoned by close.
LoopEnds ==
    /\ loop = "idle"
    /\ \/ phase # "running" /\ dropped = produced
       \/ gone
       \/ phase \notin {"running", "closing"}
    /\ loop' = "ended"
    /\ UNCHANGED <<apiVars, produced, dropped, cur, gone, late, workerVars, view>>

\* A call the worker no longer waits for is lost or arrives later.
LetGo == \/ late' = late
         \/ cur # NoBatch /\ Cardinality(late) < MaxLate /\ late' = late \union {cur}

\* Mutant: what was sent counts as delivered.
DropUnanswered ==
    /\ loop = "posting" /\ LetGo
    /\ dropped' = IF cur = NoBatch THEN dropped ELSE cur.last
    /\ loop' = "idle" /\ cur' = NoBatch
    /\ writer' = [writer EXCEPT !.asked = FALSE]
    /\ UNCHANGED <<row, file, produced, gone, workerVars, view>>

\* ApiUnavailable: no answer (or a 5xx) in time; the batch is sent again.
PostTimesOut ==
    /\ loop = "posting" /\ LetGo
    /\ loop' = "idle" /\ cur' = NoBatch
    /\ writer' = [writer EXCEPT !.asked = FALSE]
    /\ UNCHANGED <<row, file, produced, dropped, gone, workerVars, view>>

\* Mutant: acknowledged through the next number.
DropOneMore(seq) == seq + 1

\* _drop_through.
DropThrough(seq) == IF seq < dropped THEN dropped ELSE Min2(seq, produced)

\* The answers of /events: 200, 409 (always at or before the batch), 410, other.
Acked(seq) == dropped' = DropThrough(seq) /\ loop' = "idle" /\ UNCHANGED gone
Behind == dropped' = produced /\ loop' = "ended" /\ UNCHANGED gone
Gone == dropped' = produced /\ loop' = "ended" /\ gone' = TRUE
Unanswered == UNCHANGED <<dropped, loop, gone>>

Refused ==
    /\ Refusals /\ loop = "posting" /\ cur # NoBatch
    /\ dropped' = DropThrough(cur.last) /\ loop' = "idle" /\ cur' = NoBatch
    /\ UNCHANGED <<apiVars, produced, gone, late, workerVars, view>>

-----------------------------------------------------------------------------
(* The API: /events.  Every handler holds the run's row lock, which a        *)
(* transaction between its write and its commit has.                         *)

Unlocked == writer.kind = "none"

\* The API starts on the call in flight, or on one that arrives late.
Takes(b, asked) ==
    \/ asked /\ b = cur /\ cur # NoBatch /\ cur' = NoBatch /\ UNCHANGED late
    \/ ~asked /\ b \in late /\ late' = late \ {b} /\ UNCHANGED cur

EventsGone(b, asked) ==
    /\ Takes(b, asked) /\ Unlocked /\ row.status # "running"
    /\ IF asked THEN Gone ELSE Unanswered
    /\ UNCHANGED <<apiVars, produced, workerVars, view>>

EventsBehind(b, asked) ==
    /\ Takes(b, asked) /\ Unlocked /\ row.status = "running"
    /\ b.first > row.logSeq + 1
    /\ IF asked THEN Behind ELSE Unanswered
    /\ UNCHANGED <<apiVars, produced, workerVars, view>>

\* Every event is in the log already: acknowledged, nothing is written.
EventsKnown(b, asked) ==
    /\ Takes(b, asked) /\ Unlocked /\ row.status = "running"
    /\ b.first <= row.logSeq + 1 /\ b.last <= row.logSeq
    /\ IF asked THEN Acked(row.logSeq) ELSE Unanswered
    /\ UNCHANGED <<apiVars, produced, workerVars, view>>

\* Mutant: the whole batch is written, known events too.
AllOf(b) == [k \in 1..(b.last - b.first + 1) |-> b.first - 1 + k]

\* The slice of a batch that the log does not have.
Fresh(b) == [k \in 1..(b.last - row.logSeq) |-> row.logSeq + k]

\* Mutant: the file is opened for writing from scratch.
CutToNothing(n) == <<>>

\* append_events cuts the file back to the committed length first.
CutBack(n) == SubSeq(file, 1, n)

EventsWrite(b, asked) ==
    /\ Takes(b, asked) /\ Unlocked /\ row.status = "running"
    /\ b.first <= row.logSeq + 1 /\ b.last > row.logSeq
    /\ file' = CutBack(row.logLen) \o Fresh(b)
    /\ writer' = [kind |-> "events", last |-> b.last, asked |-> asked]
    /\ UNCHANGED <<row, produced, dropped, loop, gone, workerVars, view>>

\* log_bytes grows by what was written, log_seq to the batch's last number.
CommitEvents ==
    /\ writer.kind = "events" /\ writer' = NoWrite
    /\ row' = [row EXCEPT !.logSeq = writer.last, !.logLen = Len(file)]
    /\ IF writer.asked THEN Acked(writer.last) ELSE Unanswered
    /\ UNCHANGED <<file, produced, cur, late, workerVars, view>>

\* The transaction is rolled back; what it wrote stays until the next append.
CommitFails ==
    /\ CommitsFail /\ writer.kind # "none"
    /\ writer' = NoWrite
    /\ loop' = IF writer.asked THEN "idle" ELSE loop
    /\ UNCHANGED <<row, file, produced, dropped, cur, gone, late, workerVars, view>>

-----------------------------------------------------------------------------
(* The end of a run. *)

\* fail_run, by the reaper: a status line takes the next number.
Reap ==
    /\ Unlocked /\ row.status = "running"
    /\ file' = CutBack(row.logLen) \o <<Status>>
    /\ writer' = [kind |-> "status", last |-> row.logSeq + 1, asked |-> FALSE]
    /\ UNCHANGED <<row, senderVars, late, workerVars, view>>

CommitReap ==
    /\ writer.kind = "status" /\ writer' = NoWrite
    /\ row' = [status |-> "reaped", logSeq |-> writer.last, logLen |-> Len(file)]
    /\ UNCHANGED <<file, senderVars, late, workerVars, view>>

\* The process ended; EventSender.close starts to wait.
Close ==
    /\ phase = "running" /\ phase' = "closing"
    /\ UNCHANGED <<apiVars, senderVars, late, report, view>>

\* close returns: the sender is done, or it is abandoned after its time.  The
\* result is only reported if nothing is left to deliver.
Closed ==
    /\ phase = "closing"
    /\ phase' = IF gone \/ dropped < produced THEN "silent" ELSE "completing"
    /\ report' = (phase' = "completing")
    /\ UNCHANGED <<apiVars, senderVars, late, view>>

\* Mutant: the result is recorded whatever the log holds.
CompleteUnchecked ==
    /\ report /\ Unlocked
    /\ row' = IF row.status = "running"
                THEN [row EXCEPT !.status = "completed"] ELSE row
    /\ \/ phase = "completing" /\ phase' = "reported" /\ report' = FALSE
       \/ UNCHANGED <<phase, report>>
    /\ UNCHANGED <<file, writer, senderVars, late, view>>

\* complete, and its answer: 200, 409 and 410 all end the worker's attempts; an
\* answer that is lost leaves the call to be made again.
Complete ==
    /\ report /\ Unlocked
    /\ row' = IF row.status = "running" /\ row.logSeq = produced
                THEN [row EXCEPT !.status = "completed"] ELSE row
    /\ \/ phase = "completing" /\ phase' = "reported" /\ report' = FALSE
       \/ UNCHANGED <<phase, report>>
    /\ UNCHANGED <<file, writer, senderVars, late, view>>

\* _complete's deadline, with or without a call still on its way.
CompleteTimesOut ==
    /\ phase = "completing" /\ phase' = "silent"
    /\ report' \in BOOLEAN
    /\ UNCHANGED <<apiVars, senderVars, late, view>>

WorkerDies ==
    /\ phase \in {"running", "closing", "completing"} /\ phase' = "silent"
    /\ LetGo /\ cur' = NoBatch /\ loop' = "ended"
    /\ writer' = [writer EXCEPT !.asked = FALSE]
    /\ UNCHANGED <<row, file, produced, dropped, gone, report, view>>

-----------------------------------------------------------------------------
(* The viewers: run_ws, _stream_log and _LogTail. *)

Becomes(v, w) == view' = [view EXCEPT ![v] = w]

\* Mutant: from= is ignored.
ConnectFromStart(v) ==
    /\ view[v].phase = "off"
    /\ Becomes(v, [view[v] EXCEPT !.phase = "reading", !.offset = 0, !.skip = 0,
                                  !.fin = row.status # "running"])
    /\ UNCHANGED <<apiVars, senderVars, late, workerVars>>

\* A viewer resumes after the lines it has.
Connect(v) ==
    /\ view[v].phase = "off"
    /\ Becomes(v, [view[v] EXCEPT !.phase = "reading", !.offset = 0,
                                  !.skip = Len(view[v].got),
                                  !.fin = row.status # "running"])
    /\ UNCHANGED <<apiVars, senderVars, late, workerVars>>

Disconnect(v) ==
    /\ view[v].phase \in {"reading", "checking", "draining"}
    /\ Becomes(v, [view[v] EXCEPT !.phase = "off"])
    /\ UNCHANGED <<apiVars, senderVars, late, workerVars>>

\* What the file shows while a write is under way: any part of it.
Visible == IF Unlocked THEN {Len(file)} ELSE row.logLen..Len(file)

\* _LogTail.read finds nothing: all the lines there are were skipped.
ReadsNothing(v, end) ==
    /\ end <= view[v].offset + view[v].skip
    /\ LET skipped == IF end < view[v].offset THEN 0 ELSE end - view[v].offset
       IN  Becomes(v, [view[v] EXCEPT !.phase = IF @ = "draining" THEN "closed" ELSE "checking",
                                      !.offset = @ + skipped, !.skip = @ - skipped])

\* It returns some lines (a read is bounded), which are sent to the viewer.
ReadsLines(v, end) ==
    /\ end > view[v].offset + view[v].skip
    /\ \E upTo \in (view[v].offset + view[v].skip + 1)..end :
         Becomes(v, [view[v] EXCEPT !.offset = upTo, !.skip = 0,
                       !.got = @ \o SubSeq(file, view[v].offset + view[v].skip + 1, upTo)])

Read(v) ==
    /\ view[v].phase \in {"reading", "draining"}
    /\ \E end \in Visible : ReadsNothing(v, end) \/ ReadsLines(v, end)
    /\ UNCHANGED <<apiVars, senderVars, late, workerVars>>

\* Mutant: a finished run's stream is closed without another look at the file.
CheckWithoutDrain(v) ==
    /\ view[v].phase = "checking"
    /\ Becomes(v, [view[v] EXCEPT !.phase =
                     IF view[v].fin \/ row.status # "running" THEN "closed" ELSE "reading"])
    /\ UNCHANGED <<apiVars, senderVars, late, workerVars>>

\* Mutant: only a run that had finished when the viewer came is finished.
CheckAtConnect(v) ==
    /\ view[v].phase = "checking"
    /\ Becomes(v, [view[v] EXCEPT !.phase = IF view[v].fin THEN "draining" ELSE "reading"])
    /\ UNCHANGED <<apiVars, senderVars, late, workerVars>>

\* _run_finished, then one more drain, or a wait for news and another read.
Check(v) ==
    /\ view[v].phase = "checking"
    /\ Becomes(v, [view[v] EXCEPT !.phase =
                     IF view[v].fin \/ row.status # "running" THEN "draining" ELSE "reading"])
    /\ UNCHANGED <<apiVars, senderVars, late, workerVars>>

-----------------------------------------------------------------------------
Handle(b, asked) ==
    \/ EventsGone(b, asked) \/ EventsBehind(b, asked)
    \/ EventsKnown(b, asked) \/ EventsWrite(b, asked)

Sender == Add \/ Post \/ LoopEnds \/ PostTimesOut \/ Refused
Ending == Reap \/ CommitReap \/ Close \/ Closed \/ Complete \/ CompleteTimesOut \/ WorkerDies
Viewing(v) == Connect(v) \/ Disconnect(v) \/ Read(v) \/ Check(v)

Next ==
    \/ Sender
    \/ \E b \in Batches, asked \in BOOLEAN : Handle(b, asked)
    \/ CommitEvents \/ CommitFails
    \/ Ending
    \/ \E v \in Viewers : Viewing(v)

Spec == Init /\ [][Next]_vars

-----------------------------------------------------------------------------
\* Nothing is lost and nothing is written twice, over repeated, overtaken and
\* late calls: the committed log is events 1, 2, 3..., and a reaped run's log
\* has its status line at the end.
LogInOrder ==
    /\ row.logSeq = row.logLen /\ row.logLen <= Len(file)
    /\ \A k \in 1..row.logLen :
         file[k] = IF row.status = "reaped" /\ k = row.logLen THEN Status ELSE k

\* A result that the worker reported is only recorded over its whole output
\* ("a finished run's output is complete by definition").
CompleteMeansAll == row.status = "completed" => row.logLen = produced

\* The log is exactly what the run said: in order, and whole once a result is recorded.
LogExact == LogInOrder /\ CompleteMeansAll

\* What was committed stays as it is, whatever is written, cut back or rolled
\* back later: downloads read the file up to a length they took from the row.
CommittedNeverChanges ==
    [][/\ row.logLen <= row'.logLen /\ row.logLen <= Len(file')
       /\ \A k \in 1..row.logLen : file'[k] = file[k]]_vars

\* No call ever starts past the log, so the answer 409, which makes the sender
\* drop its output, is never given to the owner of a run whose batches are not
\* refused.
NeverBehind ==
    ~Refusals /\ row.status = "running" =>
        \A b \in late \union {cur} : b.first <= row.logSeq + 1

\* What a viewer has is always the beginning of the file, over any number of
\* reconnects: no line is sent twice or left out.
ViewersSeeTheLog ==
    \A v \in Viewers :
      LET got == view[v].got IN
      Len(got) <= Len(file) /\ \A k \in 1..Len(got) : got[k] = file[k]

\* A stream is closed normally "once the run has finished and every line was
\* sent".
ClosedHasAll ==
    \A v \in Viewers :
      LET got == view[v].got IN
      view[v].phase = "closed" =>
        /\ row.status # "running" /\ Len(got) = row.logLen
        /\ \A k \in 1..Len(got) : got[k] = file[k]

\* What viewers have is the log's beginning while they read, all of it once told so.
ViewsExact == ViewersSeeTheLog /\ ClosedHasAll

\* Of the same promise, only that every line of the log was sent.
EveryLineSent ==
    \A v \in Viewers :
      view[v].phase = "closed" =>
        \A k \in 1..row.logLen : \E n \in 1..Len(view[v].got) : view[v].got[n] = file[k]

-----------------------------------------------------------------------------
\* Transactions end, the streams keep reading, and the reaper ends a run whose
\* worker does not.  Workers, networks and viewers owe nothing.
Fairness ==
    /\ WF_vars(CommitEvents) /\ WF_vars(CommitReap) /\ WF_vars(Reap)
    /\ \A v \in Viewers : WF_vars(Read(v)) /\ WF_vars(Check(v))

FairSpec == Spec /\ Fairness

\* A viewer that stays is told of the end: no stream waits forever on a run
\* that has ended.
StreamsEnd == \A v \in Viewers : view[v].phase = "reading" ~> view[v].phase \in {"closed", "off"}
=============================================================================
