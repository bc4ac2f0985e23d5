------------------------------ MODULE Notices ------------------------------
(***************************************************************************)
(* Notifications: an outbox row per channel is written with what it        *)
(* reports; one dispatcher claims due rows under a lease, counts an        *)
(* attempt before it sends and records the outcome, and may die anywhere.  *)
(* Ops alerts keep a row per episode: the reaper raises a silent worker's, *)
(* the worker's next report clears it.                                     *)
(***************************************************************************)
EXTENDS Integers, Sequences, FiniteSets, SequencesExt

CONSTANTS
    Channels,
    ProjectChannels,    \* a project's own: run events only
    MaxAttempts,        \* MAX_ATTEMPTS
    MaxDeliveries             \* bound: deliveries ever queued

ASSUME NoticeAssumption ==
    /\ IsFiniteSet(Channels) /\ ProjectChannels \subseteq Channels
    /\ MaxAttempts \in Nat \ {0} /\ MaxDeliveries \in Nat

VARIABLES
    channel,    \* "on", "off" or "gone"
    paced,      \* channels sent to within the pacing window
    outbox,     \* notification_deliveries, oldest first (key: of an attack; received: arrivals)
    dispatcher, \* the claimed batch, and the delivery being sent (0: none)
    worker,     \* the workers row: "fresh", "silent" or "forgotten"
    alert,      \* its worker_offline row in notification_alerts
    sawSilent,  \* the reaper's check read it as silent and has not committed
    lastRun,    \* how the newest finished run of one playbook and inventory ended
    told        \* the last of its events queued since it was last forgotten (or "repeated")

noticeVars == <<channel, paced, outbox, dispatcher, worker, alert, sawSilent, lastRun, told>>

RunEvents == {"run_failed", "run_recovered"}
Outstanding == {"pending", "sending"}
Finished == {"sent", "failed"}
Deliveries == 1..Len(outbox)

\* A deleted row.
GoneRow(c) == [channel |-> c, key |-> "none", status |-> "gone", attempts |-> 0,
               due |-> FALSE, received |-> 0]

\* Deliveries, the dispatcher's batch and the alert.
NoticeTypes ==
    /\ channel \in [Channels -> {"on", "off", "gone"}] /\ paced \subseteq Channels
    /\ Len(outbox) <= MaxDeliveries
    /\ \A i \in Deliveries : outbox[i] \in
         [channel : Channels, key : {"none", "attack"}, status : Outstanding \union Finished \union {"gone"},
          attempts : Nat, due : BOOLEAN, received : Nat]
    /\ dispatcher.batch \in Seq(Deliveries) /\ dispatcher.sending \in {0} \union Deliveries
    /\ worker \in {"fresh", "silent", "forgotten"} /\ {alert, sawSilent} \subseteq BOOLEAN
    /\ lastRun \in {"success", "failed"}
    /\ told \in {"none", "offline", "resolved", "repeated"}

NoticeInit ==
    /\ channel = [c \in Channels |-> "on"] /\ paced = {} /\ outbox = <<>>
    /\ dispatcher = [batch |-> <<>>, sending |-> 0]
    /\ worker = "fresh" /\ alert = FALSE /\ sawSilent = FALSE
    /\ lastRun = "success" /\ told = "none"

\* The enabled channels an event goes to.
Recipients(event) ==
    {c \in Channels : channel[c] = "on" /\ (event \in RunEvents \/ c \notin ProjectChannels)}

\* A login attack is queued once per channel and window.
Duplicate(c, event) ==
    event = "attack" /\ \E i \in Deliveries : outbox[i].channel = c /\ outbox[i].key = "attack"
                                    /\ outbox[i].status # "gone"

\* One pending row per recipient, in the caller's transaction.
Emit(event) ==
    LET to == {c \in Recipients(event) : ~Duplicate(c, event)}
        row(c) == [channel |-> c, key |-> IF event = "attack" THEN event ELSE "none",
                   status |-> "pending", attempts |-> 0, due |-> TRUE, received |-> 0]
    IN  /\ Len(outbox) + Cardinality(to) <= MaxDeliveries
        /\ outbox' = outbox \o SetToSeq({row(c) : c \in to})

\* The history of the worker's events: an alert, its all-clear, an alert ...
Told(event) ==
    IF <<told, event>> \in {<<"none", "offline">>, <<"offline", "resolved">>,
                            <<"resolved", "offline">>}
    THEN event ELSE "repeated"

\* A run ends; the notice is queued in a savepoint, whose failure loses only the notice.
RunFinished(status) ==
    /\ lastRun' = status
    /\ \/ CASE status = "failed" -> Emit("run_failed")
            [] status = "success" /\ lastRun = "failed" -> Emit("run_recovered")
            [] OTHER -> UNCHANGED outbox
       \/ UNCHANGED outbox
    /\ UNCHANGED <<channel, paced, dispatcher, worker, alert, sawSilent, told>>

\* A lock-out or a wrong worker token, read off the audit trail.
AttackSeen ==
    /\ Emit("attack")
    /\ UNCHANGED <<channel, paced, dispatcher, worker, alert, sawSilent, lastRun, told>>

WorkerFallsSilent ==
    /\ worker = "fresh" /\ worker' = "silent"
    /\ UNCHANGED <<channel, paced, outbox, dispatcher, alert, sawSilent, lastRun, told>>

\* A claim or heartbeat: the row is fresh, a raised alert is cleared and says so once.
WorkerReports ==
    /\ worker' = "fresh" /\ alert' = FALSE
    /\ IF alert THEN Emit("resolved") /\ told' = Told("resolved") ELSE UNCHANGED <<outbox, told>>
    /\ UNCHANGED <<channel, paced, dispatcher, sawSilent, lastRun>>

\* The same report, its notification's savepoint rolled back.
WorkerReportsUnnoticed ==
    /\ worker # "fresh" /\ worker' = "fresh"
    /\ UNCHANGED <<channel, paced, outbox, dispatcher, alert, sawSilent, lastRun, told>>

\* The reaper's check reads the silent workers ...
ReaperLooks ==
    /\ worker = "silent" /\ ~sawSilent /\ sawSilent' = TRUE
    /\ UNCHANGED <<channel, paced, outbox, dispatcher, worker, alert, lastRun, told>>

\* Mutant: the alert is queued whether or not its row is new.
RaiseAgain ==
    /\ sawSilent /\ sawSilent' = FALSE /\ alert' = TRUE
    /\ Emit("offline") /\ told' = Told("offline")
    /\ UNCHANGED <<channel, paced, dispatcher, worker, lastRun>>

\* ... and raises their alert, once per episode, whatever they reported meanwhile.
ReaperRaises ==
    /\ sawSilent /\ sawSilent' = FALSE /\ alert' = TRUE
    /\ IF alert THEN UNCHANGED <<outbox, told>> ELSE Emit("offline") /\ told' = Told("offline")
    /\ UNCHANGED <<channel, paced, dispatcher, worker, lastRun>>

\* The reaper forgets a worker past its retention, and its alert without an all-clear.
ForgetWorker ==
    /\ worker = "silent" /\ ~sawSilent
    /\ worker' = "forgotten" /\ alert' = FALSE /\ told' = "none"
    /\ UNCHANGED <<channel, paced, outbox, dispatcher, sawSilent, lastRun>>

\* Mutant: only rows nobody ever claimed.
OnlyPending(i) == outbox[i].status = "pending" /\ outbox[i].due

\* Due rows, those of a lapsed lease included.
Claimable(i) == outbox[i].status \in Outstanding /\ outbox[i].due

\* The rows of a batch in the order of their ids.
OldestFirst(rows) == {q \in SetToSeqs(rows) : \A j, k \in 1..Len(q) : j < k => q[j] < q[k]}

\* One batch: rows out of attempts are given up, the others leased.
ClaimBatch ==
    LET taken == {i \in Deliveries : Claimable(i)}
        spent(i) == outbox[i].attempts >= MaxAttempts
    IN  /\ dispatcher = [batch |-> <<>>, sending |-> 0] /\ taken # {}
        /\ outbox' = [i \in Deliveries |->
             IF i \notin taken THEN outbox[i]
             ELSE IF spent(i) THEN [outbox[i] EXCEPT !.status = "failed"]
             ELSE [outbox[i] EXCEPT !.status = "sending", !.due = FALSE]]
        /\ \E batch \in OldestFirst({i \in taken : ~spent(i)}) :
             dispatcher' = [dispatcher EXCEPT !.batch = batch]
        /\ UNCHANGED <<channel, paced, worker, alert, sawSilent, lastRun, told>>

\* A row of the batch that may be sent now: leased, its channel on, not paced.
Sendable(i) ==
    /\ outbox[i].status = "sending" /\ channel[outbox[i].channel] = "on"
    /\ outbox[i].channel \notin paced

\* A row of the batch that is not sent: gone or ended meanwhile, turned off, or put off
\* for pacing.
SkipDelivery ==
    LET i == Head(dispatcher.batch) IN
    /\ dispatcher.batch # <<>> /\ dispatcher.sending = 0 /\ ~Sendable(i)
    /\ dispatcher' = [dispatcher EXCEPT !.batch = Tail(@)]
    /\ outbox' = IF outbox[i].status # "sending" THEN outbox
                 ELSE [outbox EXCEPT ![i].status =
                         IF channel[outbox[i].channel] = "on" THEN "pending" ELSE "failed"]
    /\ UNCHANGED <<channel, paced, worker, alert, sawSilent, lastRun, told>>

\* Mutant: the attempt is counted with its outcome.
StartUncounted ==
    LET i == Head(dispatcher.batch) IN
    /\ dispatcher.batch # <<>> /\ dispatcher.sending = 0 /\ Sendable(i)
    /\ dispatcher' = [batch |-> Tail(dispatcher.batch), sending |-> i]
    /\ UNCHANGED <<outbox, channel, paced, worker, alert, sawSilent, lastRun, told>>

\* The attempt is counted and committed before anything is sent.
StartSending ==
    LET i == Head(dispatcher.batch) IN
    /\ dispatcher.batch # <<>> /\ dispatcher.sending = 0 /\ Sendable(i)
    /\ dispatcher' = [batch |-> Tail(dispatcher.batch), sending |-> i]
    /\ outbox' = [outbox EXCEPT ![i].attempts = @ + 1]
    /\ UNCHANGED <<channel, paced, worker, alert, sawSilent, lastRun, told>>

\* What sending came to: accepted, refused for good (or a bug), or worth a retry; a
\* retryable failure (a timeout) may have arrived all the same.
Outcomes ==
    {[status |-> "sent", arrived |-> 1], [status |-> "failed", arrived |-> 0],
     [status |-> "pending", arrived |-> 0], [status |-> "pending", arrived |-> 1]}

\* The outcome is recorded; the last attempt's failure is final.
RecordOutcome(o) ==
    LET i == dispatcher.sending
        status == IF o.status = "pending" /\ outbox[i].attempts >= MaxAttempts
                  THEN "failed" ELSE o.status
    IN  /\ i # 0
        /\ dispatcher' = [dispatcher EXCEPT !.sending = 0]
        /\ IF outbox[i].status = "gone" THEN UNCHANGED <<outbox, paced>>
           ELSE /\ outbox' = [outbox EXCEPT ![i].status = status,
                                            ![i].received = @ + o.arrived]
                /\ paced' = IF o.status = "sent" THEN paced \union {outbox[i].channel} ELSE paced
        /\ UNCHANGED <<channel, worker, alert, sawSilent, lastRun, told>>

\* The process dies, or recording fails, with the message sent or not: the rows are left
\* to their leases.
DispatcherDies(arrived) ==
    LET i == dispatcher.sending IN
    /\ dispatcher # [batch |-> <<>>, sending |-> 0]
    /\ dispatcher' = [batch |-> <<>>, sending |-> 0]
    /\ outbox' = IF i = 0 \/ outbox[i].status = "gone" THEN outbox
                 ELSE [outbox EXCEPT ![i].received = @ + arrived]
    /\ UNCHANGED <<channel, paced, worker, alert, sawSilent, lastRun, told>>

\* A lease or a backoff runs out.
BecomesDue(i) ==
    /\ outbox[i].status \in Outstanding /\ ~outbox[i].due
    /\ outbox' = [outbox EXCEPT ![i].due = TRUE]
    /\ UNCHANGED <<channel, paced, dispatcher, worker, alert, sawSilent, lastRun, told>>

PacingPasses(c) ==
    /\ c \in paced /\ paced' = paced \ {c}
    /\ UNCHANGED <<channel, outbox, dispatcher, worker, alert, sawSilent, lastRun, told>>

CreateChannel(c, state) ==
    /\ channel[c] = "gone" /\ channel' = [channel EXCEPT ![c] = state]
    /\ UNCHANGED <<paced, outbox, dispatcher, worker, alert, sawSilent, lastRun, told>>

UpdateChannel(c, state) ==
    /\ channel[c] \notin {"gone", state} /\ channel' = [channel EXCEPT ![c] = state]
    /\ UNCHANGED <<paced, outbox, dispatcher, worker, alert, sawSilent, lastRun, told>>

\* The channel's deliveries go with it.
DeleteChannel(c) ==
    /\ channel[c] # "gone" /\ channel' = [channel EXCEPT ![c] = "gone"]
    /\ outbox' = [i \in Deliveries |-> IF outbox[i].channel = c
                                 THEN GoneRow(c) ELSE outbox[i]]
    /\ paced' = paced \ {c}
    /\ UNCHANGED <<dispatcher, worker, alert, sawSilent, lastRun, told>>

\* A test message is sent at once, and leaves a finished row.
TestChannel(c, ok) ==
    /\ channel[c] # "gone" /\ Len(outbox) < MaxDeliveries
    /\ outbox' = Append(outbox, [channel |-> c, key |-> "none", attempts |-> 1, due |-> FALSE,
                                 status |-> IF ok THEN "sent" ELSE "failed",
                                 received |-> IF ok THEN 1 ELSE 0])
    /\ paced' = IF ok THEN paced \union {c} ELSE paced
    /\ UNCHANGED <<channel, dispatcher, worker, alert, sawSilent, lastRun, told>>

\* Finished rows are forgotten after their retention.
PruneDelivery(i) ==
    /\ outbox[i].status \in Finished
    /\ outbox' = [outbox EXCEPT ![i] = GoneRow(@.channel)]
    /\ UNCHANGED <<channel, paced, dispatcher, worker, alert, sawSilent, lastRun, told>>

\* What administrators do to channels.
ChannelNext ==
    \E c \in Channels : \/ DeleteChannel(c)
                        \/ \E s \in {"on", "off"} : CreateChannel(c, s) \/ UpdateChannel(c, s)
                        \/ \E ok \in BOOLEAN : TestChannel(c, ok)

\* Alerts, raised and cleared by the reaper and the worker's reports.
AlertNext ==
    \/ WorkerFallsSilent \/ WorkerReports \/ WorkerReportsUnnoticed
    \/ ReaperLooks \/ ReaperRaises \/ ForgetWorker
    \/ ChannelNext

\* Deliveries, queued by runs and the audit trail and sent by the dispatcher.
OutboxNext ==
    \/ \E s \in {"success", "failed"} : RunFinished(s)
    \/ AttackSeen
    \/ ClaimBatch \/ SkipDelivery \/ StartSending
    \/ \E o \in Outcomes : RecordOutcome(o)
    \/ \E a \in {0, 1} : DispatcherDies(a)
    \/ \E i \in Deliveries : BecomesDue(i) \/ PruneDelivery(i)
    \/ \E c \in Channels : PacingPasses(c)
    \/ ChannelNext

NoticeNext == AlertNext \/ OutboxNext

(***************************************************************************)
(* The dispatcher runs for ever and is restarted; a lease, a backoff and   *)
(* the pacing window run out. Taking the next row of a batch is strongly   *)
(* fair: it does not die every time before it gets that far, but it may    *)
(* die in every send.                                                      *)
(***************************************************************************)
NoticeFairness ==
    /\ WF_noticeVars(ClaimBatch) /\ SF_noticeVars(SkipDelivery \/ StartSending)
    /\ WF_noticeVars(\E o \in Outcomes : RecordOutcome(o))
    /\ \A i \in 1..MaxDeliveries : WF_noticeVars(i \in Deliveries /\ BecomesDue(i))
    /\ \A c \in Channels : WF_noticeVars(PacingPasses(c))

\* However often the process dies, a delivery arrives at most as often as it was counted,
\* and no more often than the retries allow.
AttemptsBounded ==
    \A i \in Deliveries : outbox[i].received <= outbox[i].attempts /\ outbox[i].attempts <= MaxAttempts

\* Between two alerts of a worker there is its all-clear (or it was forgotten), and an
\* all-clear follows an alert, whatever the reaper had read before the worker reported.
AlertsAlternate == told # "repeated"

\* Nobody is told more often than there is something to tell.
NoticesSound == AttemptsBounded /\ AlertsAlternate

\* Every queued delivery is sent, given up or deleted, through crashes at any step.
DeliveriesEnd ==
    NoticeFairness =>
        (\E i \in Deliveries : outbox[i].status \in Outstanding)
            ~> (\A i \in Deliveries : outbox[i].status \notin Outstanding)
=============================================================================
