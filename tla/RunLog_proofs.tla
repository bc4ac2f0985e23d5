--------------------------- MODULE RunLog_proofs ---------------------------
(* Theorems about RunLog, for any number of events, calls and viewers. *)
EXTENDS RunLog, TLAPS

-----------------------------------------------------------------------------
(* Facts about the file. *)

\* Cutting a file back and appending to it keeps what was not cut.
LEMMA CutAndAppend ==
    ASSUME NEW S, NEW s \in Seq(S), NEW n \in Nat, n <= Len(s), NEW t \in Seq(S)
    PROVE  /\ SubSeq(s, 1, n) \o t \in Seq(S)
           /\ Len(SubSeq(s, 1, n) \o t) = n + Len(t)
           /\ \A k \in 1..n : (SubSeq(s, 1, n) \o t)[k] = s[k]
           /\ \A k \in 1..Len(t) : (SubSeq(s, 1, n) \o t)[n + k] = t[k]
<1>1. SubSeq(s, 1, n) \in Seq(S) /\ Len(SubSeq(s, 1, n)) = n
  OBVIOUS
<1>2. \A k \in 1..n : SubSeq(s, 1, n)[k] = s[k]
  OBVIOUS
<1> DEFINE c == SubSeq(s, 1, n)
<1>3. c \in Seq(S) /\ Len(c) = n /\ \A k \in 1..n : c[k] = s[k]
  BY <1>1, <1>2
<1> HIDE DEF c
<1>4. /\ c \o t \in Seq(S) /\ Len(c \o t) = n + Len(t)
      /\ \A k \in 1..n : (c \o t)[k] = s[k]
      /\ \A k \in 1..Len(t) : (c \o t)[n + k] = t[k]
  <2>1. c \o t \in Seq(S)
    BY <1>3
  <2>2. Len(c \o t) = n + Len(t)
    BY <1>3, SMTT(40)
  <2>3. ASSUME NEW k \in 1..n PROVE (c \o t)[k] = s[k]
    BY <1>3, k \in 1..(Len(c) + Len(t))
  <2>4. ASSUME NEW k \in 1..Len(t) PROVE (c \o t)[n + k] = t[k]
    BY <1>3, n + k \in 1..(Len(c) + Len(t)), ~(n + k <= Len(c)), (n + k) - Len(c) = k
  <2> QED
    BY <2>1, <2>2, <2>3, <2>4
<1> QED
  BY <1>4 DEF c

\* Some lines of a file are a file again.
LEMMA PartOfFile ==
    ASSUME NEW S, NEW f \in Seq(S), NEW a \in Nat \ {0}, NEW m \in Nat, m <= Len(f)
    PROVE  SubSeq(f, a, m) \in Seq(S)
OBVIOUS

\* A beginning of a file, extended by its next lines, is a longer beginning.
LEMMA ExtendPrefix ==
    ASSUME NEW S, NEW f \in Seq(S), NEW g \in Seq(S), NEW m \in Nat,
           Len(g) < m, m <= Len(f), \A k \in 1..Len(g) : g[k] = f[k]
    PROVE  /\ g \o SubSeq(f, Len(g) + 1, m) \in Seq(S)
           /\ Len(g \o SubSeq(f, Len(g) + 1, m)) = m
           /\ \A k \in 1..m : (g \o SubSeq(f, Len(g) + 1, m))[k] = f[k]
<1> DEFINE n == Len(g)
           new == SubSeq(f, n + 1, m)
<1>1. n \in Nat /\ Len(f) \in Nat /\ n < m /\ m <= Len(f)
  OBVIOUS
<1>2. /\ new \in Seq(S) /\ Len(new) = m - n
      /\ \A k \in 1..(m - n) : new[k] = f[n + k]
  <2> HIDE DEF n
  <2>1. new \in Seq(S) /\ Len(new) = m - n
    BY <1>1
  <2>2. ASSUME NEW k \in 1..(m - n) PROVE new[k] = f[n + k]
    BY <1>1, <2>2, n + 1 + k - 1 = n + k
  <2> QED
    BY <2>1, <2>2
<1> HIDE DEF new
<1>3. g \o new \in Seq(S) /\ Len(g \o new) = m
  BY <1>1, <1>2
<1>4. ASSUME NEW k \in 1..m PROVE (g \o new)[k] = f[k]
  <2>1. CASE k <= n
    <3>1. k \in 1..Len(g) /\ k \in 1..(Len(g) + Len(new)) /\ k <= Len(g)
      BY <1>1, <1>2, <2>1
    <3>2. (g \o new)[k] = g[k]
      BY <1>2, <3>1
    <3> QED
      BY <3>1, <3>2
  <2>2. CASE k > n
    <3>1. k - n \in 1..(m - n) /\ n + (k - n) = k /\ k \in 1..(Len(g) + Len(new))
      BY <1>1, <1>2, <2>2
    <3>2. (g \o new)[k] = new[k - n]
      BY <1>1, <1>2, <2>2, <3>1
    <3> QED
      BY <1>2, <3>1, <3>2
  <2>3. k <= n \/ k > n
    BY <1>1
  <2> QED
    BY <2>1, <2>2, <2>3
<1> QED
  BY <1>3, <1>4 DEF new

\* The same of the log's file, cut back to the committed length.
LEMMA FileAfterAppend ==
    ASSUME file \in Seq(0..MaxEvents), row.logLen \in Nat, row.logLen <= Len(file),
           NEW t \in Seq(0..MaxEvents), file' = CutBack(row.logLen) \o t
    PROVE  /\ file' \in Seq(0..MaxEvents)
           /\ Len(file') = row.logLen + Len(t)
           /\ \A k \in 1..row.logLen : file'[k] = file[k]
           /\ \A k \in 1..Len(t) : file'[row.logLen + k] = t[k]
<1> DEFINE n == row.logLen
           S == 0..MaxEvents
           u == CutBack(row.logLen) \o t
<1>1. n \in Nat /\ n <= Len(file) /\ file \in Seq(S) /\ t \in Seq(S)
  OBVIOUS
<1>2. u = SubSeq(file, 1, n) \o t
  BY DEF CutBack
<1> HIDE DEF n, S
<1>3. /\ u \in Seq(S)
      /\ Len(u) = n + Len(t)
      /\ \A k \in 1..n : u[k] = file[k]
      /\ \A k \in 1..Len(t) : u[n + k] = t[k]
  BY <1>1, <1>2, CutAndAppend, SMTT(40)
<1> QED
  BY <1>3 DEF n, S

\* The slice of a batch that is new: the numbers after log_seq.
LEMMA FreshLines ==
    ASSUME ApiTypes, LogAssumption, NEW b \in Batches, b.last > row.logSeq
    PROVE  /\ Fresh(b) \in Seq(0..MaxEvents)
           /\ Len(Fresh(b)) = b.last - row.logSeq
           /\ \A k \in 1..(b.last - row.logSeq) : Fresh(b)[k] = row.logSeq + k
<1>1. b.last - row.logSeq \in Nat /\ b.last \in 1..MaxEvents /\ row.logSeq \in Nat
  BY DEF ApiTypes, Batches, LogAssumption
<1>2. \A k \in 1..(b.last - row.logSeq) : row.logSeq + k \in 0..MaxEvents
  BY <1>1 DEF LogAssumption
<1> QED
  BY <1>1, <1>2 DEF Fresh

-----------------------------------------------------------------------------
(* What a step does to the row, the file and the writing transaction. *)

\* The worker stopped waiting for the answer of the call being handled.
NotAsked ==
    row' = row /\ file' = file /\ writer' = [writer EXCEPT !.asked = FALSE]

WritesEvents(b) ==
    /\ Unlocked /\ row.status = "running" /\ b.last > row.logSeq
    /\ row' = row /\ file' = CutBack(row.logLen) \o Fresh(b)
    /\ \E asked \in BOOLEAN :
         writer' = [kind |-> "events", last |-> b.last, asked |-> asked]

CommitsEvents ==
    /\ writer.kind = "events" /\ writer' = NoWrite /\ file' = file
    /\ row' = [row EXCEPT !.logSeq = writer.last, !.logLen = Len(file)]

RollsBack ==
    CommitsFail /\ writer.kind # "none" /\ writer' = NoWrite /\ row' = row /\ file' = file

WritesStatus ==
    /\ Unlocked /\ row.status = "running"
    /\ row' = row /\ file' = CutBack(row.logLen) \o <<Status>>
    /\ writer' = [kind |-> "status", last |-> row.logSeq + 1, asked |-> FALSE]

CommitsStatus ==
    /\ writer.kind = "status" /\ writer' = NoWrite /\ file' = file
    /\ row' = [status |-> "reaped", logSeq |-> writer.last, logLen |-> Len(file)]

Completes ==
    /\ Unlocked /\ row.status = "running" /\ row.logSeq = produced /\ report
    /\ row' = [row EXCEPT !.status = "completed"] /\ file' = file /\ writer' = writer

ApiEffect ==
    \/ UNCHANGED apiVars \/ NotAsked \/ CommitsEvents \/ RollsBack
    \/ WritesStatus \/ CommitsStatus \/ Completes
    \/ \E b \in Batches : WritesEvents(b)

\* Every step has one of these effects.
LEMMA EffectOfStep == [Next]_vars => ApiEffect
<1> SUFFICES ASSUME [Next]_vars PROVE ApiEffect
  OBVIOUS
<1> USE DEF ApiEffect
<1>1. CASE Add \/ Post \/ LoopEnds \/ Refused
  BY <1>1 DEF Add, Post, LoopEnds, Refused
<1>2. CASE PostTimesOut \/ WorkerDies
  BY <1>2 DEF PostTimesOut, WorkerDies, NotAsked
<1>3. ASSUME NEW b \in Batches, NEW asked \in BOOLEAN, Handle(b, asked) PROVE ApiEffect
  <2>1. CASE EventsGone(b, asked) \/ EventsBehind(b, asked) \/ EventsKnown(b, asked)
    BY <2>1 DEF EventsGone, EventsBehind, EventsKnown
  <2>2. CASE EventsWrite(b, asked)
    <3>1. WritesEvents(b)
      BY <2>2 DEF EventsWrite, WritesEvents
    <3> QED
      BY <3>1
  <2> QED
    BY <1>3, <2>1, <2>2 DEF Handle
<1>4. CASE CommitEvents
  BY <1>4 DEF CommitEvents, CommitsEvents
<1>5. CASE CommitFails
  BY <1>5 DEF CommitFails, RollsBack
<1>6. CASE Reap
  BY <1>6 DEF Reap, WritesStatus
<1>7. CASE CommitReap
  BY <1>7 DEF CommitReap, CommitsStatus
<1>8. CASE Close \/ Closed \/ CompleteTimesOut
  BY <1>8 DEF Close, Closed, CompleteTimesOut
<1>9. CASE Complete
  BY <1>9 DEF Complete, Completes, apiVars
<1>10. ASSUME NEW v \in Viewers, Viewing(v) PROVE ApiEffect
  BY <1>10 DEF Viewing, Connect, Disconnect, Read, Check
<1>11. CASE UNCHANGED vars
  BY <1>11 DEF vars
<1> QED
  BY <1>1, <1>2, <1>3, <1>4, <1>5, <1>6, <1>7, <1>8, <1>9, <1>10, <1>11
     DEF Next, Sender, Ending

-----------------------------------------------------------------------------
(* The log. *)

\* What a transaction between its write and its commit has put in the file.
WriterInv ==
    /\ writer.kind # "none" => row.status = "running"
    /\ writer.kind = "events" => /\ writer.last = Len(file) /\ row.logLen < Len(file)
                                 /\ \A k \in 1..Len(file) : file[k] = k
    /\ writer.kind = "status" => /\ writer.last = row.logSeq + 1
                                 /\ Len(file) = row.logLen + 1
                                 /\ file[Len(file)] = Status

LogInv == ApiTypes /\ LogInOrder /\ WriterInv

\* The log stays in order over writes, commits and rollbacks.
LEMMA StepLog == LogInv /\ ApiEffect => LogInv'
<1> SUFFICES ASSUME LogInv, ApiEffect PROVE LogInv'
  OBVIOUS
<1> USE LogAssumption
<1>1. /\ row.logSeq \in Nat /\ row.logLen \in Nat /\ row.logLen <= Len(file)
      /\ file \in Seq(0..MaxEvents) /\ Len(file) \in Nat /\ row.logSeq = row.logLen
  BY DEF LogInv, ApiTypes, LogInOrder
<1>2. CASE UNCHANGED apiVars
  BY <1>2 DEF LogInv, ApiTypes, LogInOrder, WriterInv, apiVars
<1>3. CASE NotAsked
  BY <1>3 DEF LogInv, ApiTypes, LogInOrder, WriterInv, NotAsked
<1>4. CASE CommitsEvents
  <2>1. /\ row.status = "running" /\ writer.last = Len(file)
        /\ \A k \in 1..Len(file) : file[k] = k
    BY <1>4 DEF LogInv, WriterInv, CommitsEvents
  <2>2. /\ row'.logSeq = Len(file) /\ row'.logLen = Len(file) /\ row'.status = "running"
        /\ file' = file /\ writer'.kind = "none"
        /\ row' \in [status : {"running", "completed", "reaped"}, logSeq : Nat, logLen : Nat]
        /\ writer' \in [kind : {"none", "events", "status"}, last : Nat, asked : BOOLEAN]
    BY <1>1, <1>4, <2>1 DEF LogInv, ApiTypes, CommitsEvents, NoWrite
  <2>3. ApiTypes'
    BY <1>1, <2>2 DEF ApiTypes
  <2>4. LogInOrder'
    BY <1>1, <2>1, <2>2 DEF LogInOrder
  <2> QED
    BY <2>2, <2>3, <2>4 DEF LogInv, WriterInv
<1>5. CASE RollsBack
  BY <1>5 DEF LogInv, ApiTypes, LogInOrder, WriterInv, RollsBack, NoWrite
<1>6. CASE WritesStatus
  <2> DEFINE t == <<Status>>
  <2>1. t \in Seq(0..MaxEvents) /\ Len(t) = 1 /\ t[1] = 0
    BY DEF Status
  <2>2. file' = CutBack(row.logLen) \o t
    BY <1>6 DEF WritesStatus
  <2> HIDE DEF t
  <2>3. /\ file' \in Seq(0..MaxEvents) /\ Len(file') = row.logLen + 1
        /\ \A k \in 1..row.logLen : file'[k] = file[k]
        /\ \A k \in 1..Len(t) : file'[row.logLen + k] = t[k]
    BY <1>1, <2>1, <2>2, FileAfterAppend
  <2>4. file'[Len(file')] = Status
    BY <1>1, <2>1, <2>3 DEF Status
  <2>5. /\ row' = row /\ row.status = "running"
        /\ writer'.kind = "status" /\ writer'.last = row.logSeq + 1
        /\ writer' \in [kind : {"none", "events", "status"}, last : Nat, asked : BOOLEAN]
    BY <1>1, <1>6 DEF WritesStatus
  <2>6. ApiTypes'
    BY <2>3, <2>5 DEF LogInv, ApiTypes
  <2>7. LogInOrder'
    BY <1>1, <2>3, <2>5, SMTT(40) DEF LogInv, LogInOrder
  <2> QED
    BY <2>3, <2>4, <2>5, <2>6, <2>7 DEF LogInv, WriterInv
<1>7. CASE CommitsStatus
  BY <1>7, <1>1, SMTT(40) DEF LogInv, ApiTypes, LogInOrder, WriterInv, CommitsStatus, NoWrite
<1>8. CASE Completes
  BY <1>8, <1>1 DEF LogInv, ApiTypes, LogInOrder, WriterInv, Completes, Unlocked
<1>9. ASSUME NEW b \in Batches, WritesEvents(b) PROVE LogInv'
  <2>1. /\ b.last \in Nat /\ b.last > row.logSeq /\ row.status = "running"
        /\ row' = row /\ file' = CutBack(row.logLen) \o Fresh(b)
        /\ writer'.kind = "events" /\ writer'.last = b.last
        /\ writer' \in [kind : {"none", "events", "status"}, last : Nat, asked : BOOLEAN]
    BY <1>9 DEF WritesEvents, Batches
  <2>2. /\ Fresh(b) \in Seq(0..MaxEvents) /\ Len(Fresh(b)) = b.last - row.logSeq
        /\ \A k \in 1..(b.last - row.logSeq) : Fresh(b)[k] = row.logSeq + k
    BY <2>1, FreshLines DEF LogInv
  <2>3. /\ file' \in Seq(0..MaxEvents) /\ Len(file') = row.logLen + Len(Fresh(b))
        /\ \A k \in 1..row.logLen : file'[k] = file[k]
        /\ \A k \in 1..Len(Fresh(b)) : file'[row.logLen + k] = Fresh(b)[k]
    BY <1>1, <2>1, <2>2, FileAfterAppend
  <2>4. Len(file') = b.last
    BY <1>1, <2>1, <2>2, <2>3
  <2>5. \A k \in 1..row.logLen : file[k] = k
    BY <2>1 DEF LogInv, LogInOrder
  <2>6. ASSUME NEW k \in 1..Len(file') PROVE file'[k] = k
    <3>1. CASE k <= row.logLen
      BY <1>1, <2>3, <2>5, <3>1, SMTT(40)
    <3>2. CASE k > row.logLen
      <4>1. k - row.logLen \in 1..Len(Fresh(b)) /\ row.logLen + (k - row.logLen) = k
        BY <1>1, <2>1, <2>2, <2>4, <3>2, SMTT(40)
      <4>2. Fresh(b)[k - row.logLen] = k
        BY <1>1, <2>2, <4>1
      <4> QED
        BY <2>3, <4>1, <4>2
    <3> QED
      BY <1>1, <2>1, <2>4, <3>1, <3>2, SMTT(40)
  <2>7. ApiTypes'
    BY <2>1, <2>3 DEF LogInv, ApiTypes
  <2>8. LogInOrder'
    <3>1. row.logLen <= Len(file')
      BY <1>1, <2>1, <2>4
    <3>2. \A k \in 1..row.logLen : file'[k] = k
      BY <2>3, <2>5
    <3> QED
      BY <1>1, <2>1, <3>1, <3>2 DEF LogInOrder
  <2> QED
    BY <1>1, <2>1, <2>4, <2>6, <2>7, <2>8 DEF LogInv, WriterInv
<1> QED
  BY <1>2, <1>3, <1>4, <1>5, <1>6, <1>7, <1>8, <1>9 DEF ApiEffect

\* No effect touches what is committed.
LEMMA StepCommitted ==
    LogInv /\ ApiEffect =>
        /\ row.logLen <= row'.logLen /\ row.logLen <= Len(file')
        /\ \A k \in 1..row.logLen : file'[k] = file[k]
<1> SUFFICES ASSUME LogInv, ApiEffect
             PROVE  /\ row.logLen <= row'.logLen /\ row.logLen <= Len(file')
                    /\ \A k \in 1..row.logLen : file'[k] = file[k]
  OBVIOUS
<1> USE LogAssumption
<1>1. /\ row.logSeq \in Nat /\ row.logLen \in Nat /\ row.logLen <= Len(file)
      /\ file \in Seq(0..MaxEvents) /\ Len(file) \in Nat
  BY DEF LogInv, ApiTypes, LogInOrder
<1>2. CASE UNCHANGED apiVars \/ NotAsked \/ RollsBack \/ Completes
  BY <1>1, <1>2 DEF apiVars, NotAsked, RollsBack, Completes, LogInv, ApiTypes
<1>3. CASE CommitsEvents \/ CommitsStatus
  <2>1. CASE CommitsEvents
    BY <1>1, <2>1 DEF CommitsEvents, LogInv, ApiTypes
  <2>2. CASE CommitsStatus
    BY <1>1, <2>2 DEF CommitsStatus
  <2> QED
    BY <1>3, <2>1, <2>2
<1>4. CASE WritesStatus
  <2> DEFINE t == <<Status>>
  <2>1. t \in Seq(0..MaxEvents) /\ Len(t) = 1
    BY DEF Status
  <2>2. file' = CutBack(row.logLen) \o t /\ row' = row
    BY <1>4 DEF WritesStatus
  <2> HIDE DEF t
  <2>3. Len(file') = row.logLen + Len(t) /\ \A k \in 1..row.logLen : file'[k] = file[k]
    BY <1>1, <2>1, <2>2, FileAfterAppend
  <2> QED
    BY <1>1, <2>1, <2>2, <2>3, SMTT(40) DEF LogInv, ApiTypes
<1>5. ASSUME NEW b \in Batches, WritesEvents(b)
      PROVE  /\ row.logLen <= row'.logLen /\ row.logLen <= Len(file')
             /\ \A k \in 1..row.logLen : file'[k] = file[k]
  <2>1. /\ b.last > row.logSeq /\ b.last \in Nat
        /\ row' = row /\ file' = CutBack(row.logLen) \o Fresh(b)
    BY <1>5 DEF WritesEvents, Batches
  <2>2. Fresh(b) \in Seq(0..MaxEvents) /\ Len(Fresh(b)) \in Nat
    BY <1>1, <2>1, FreshLines DEF LogInv
  <2>3. Len(file') = row.logLen + Len(Fresh(b)) /\ \A k \in 1..row.logLen : file'[k] = file[k]
    BY <1>1, <2>1, <2>2, FileAfterAppend
  <2> QED
    BY <1>1, <2>1, <2>2, <2>3, SMTT(40)
<1> QED
  BY <1>2, <1>3, <1>4, <1>5 DEF ApiEffect

-----------------------------------------------------------------------------
(* The sender and the worker. *)

\* Dropping acknowledged events never goes past the last one numbered.
LEMMA DropWithin ==
    ASSUME SenderTypes, LogAssumption, NEW seq \in Nat
    PROVE  DropThrough(seq) \in 0..produced
BY DEF SenderTypes, LogAssumption, DropThrough, Min2

\* The parts of the sender's state that stay within their types, step by step.
LEMMA StepSender == ApiTypes /\ SenderTypes /\ [Next]_vars => SenderTypes'
<1> SUFFICES ASSUME ApiTypes, SenderTypes, [Next]_vars PROVE SenderTypes'
  OBVIOUS
<1> USE LogAssumption
<1>1. CASE Add
  BY <1>1 DEF Add, SenderTypes, workerVars
<1>2. CASE Post
  <2>1. PICK last \in (dropped + 1)..produced : cur' = [first |-> dropped + 1, last |-> last]
    BY <1>2 DEF Post
  <2>2. cur' \in Batches
    BY <2>1 DEF SenderTypes, Batches
  <2> QED
    BY <1>2, <2>2 DEF Post, SenderTypes, workerVars
<1>3. CASE LoopEnds
  BY <1>3 DEF LoopEnds, SenderTypes, workerVars
<1>4. CASE PostTimesOut
  BY <1>4 DEF PostTimesOut, LetGo, SenderTypes, workerVars
<1>5. CASE Refused
  <2>1. cur.last \in Nat
    BY <1>5 DEF Refused, SenderTypes, Batches
  <2>2. DropThrough(cur.last) \in 0..produced
    BY <2>1, DropWithin
  <2> QED
    BY <1>5, <2>2 DEF Refused, SenderTypes, workerVars
<1>6. ASSUME NEW b \in Batches, NEW asked \in BOOLEAN, Handle(b, asked) PROVE SenderTypes'
  <2>1. CASE EventsGone(b, asked)
    <3>1. CASE asked
      BY <2>1, <3>1 DEF EventsGone, Takes, Gone, SenderTypes, workerVars
    <3>2. CASE ~asked
      BY <2>1, <3>2 DEF EventsGone, Takes, Unanswered, SenderTypes, workerVars
    <3> QED
      BY <3>1, <3>2
  <2>2. CASE EventsBehind(b, asked)
    BY <2>2 DEF EventsBehind, Takes, Behind, Unanswered, SenderTypes, workerVars
  <2>3. CASE EventsKnown(b, asked)
    <3>1. DropThrough(row.logSeq) \in 0..produced
      BY DropWithin DEF ApiTypes
    <3> QED
      BY <2>3, <3>1 DEF EventsKnown, Takes, Acked, Unanswered, SenderTypes, workerVars
  <2>4. CASE EventsWrite(b, asked)
    BY <2>4 DEF EventsWrite, Takes, SenderTypes, workerVars
  <2> QED
    BY <1>6, <2>1, <2>2, <2>3, <2>4 DEF Handle
<1>7. CASE CommitEvents
  <2>1. DropThrough(writer.last) \in 0..produced
    BY DropWithin DEF ApiTypes
  <2> QED
    BY <1>7, <2>1 DEF CommitEvents, Acked, Unanswered, SenderTypes, workerVars
<1>8. CASE CommitFails
  BY <1>8 DEF CommitFails, SenderTypes, workerVars
<1>9. CASE Reap \/ CommitReap
  BY <1>9 DEF Reap, CommitReap, SenderTypes, senderVars, workerVars
<1>10. CASE Close \/ Closed \/ CompleteTimesOut \/ Complete
  BY <1>10 DEF Close, Closed, CompleteTimesOut, Complete, SenderTypes, senderVars
<1>11. CASE WorkerDies
  BY <1>11 DEF WorkerDies, LetGo, SenderTypes
<1>12. ASSUME NEW v \in Viewers, Viewing(v) PROVE SenderTypes'
  BY <1>12 DEF Viewing, Connect, Disconnect, Read, Check, SenderTypes, senderVars, workerVars
<1>13. CASE UNCHANGED vars
  BY <1>13 DEF vars, SenderTypes, senderVars, workerVars
<1> QED
  BY <1>1, <1>2, <1>3, <1>4, <1>5, <1>6, <1>7, <1>8, <1>9, <1>10, <1>11, <1>12, <1>13
     DEF Next, Sender, Ending

\* Once a complete call exists the worker numbers no more events, and a
\* completed run has them all.
WorkerInv ==
    /\ report => phase # "running"
    /\ row.status = "completed" => phase # "running" /\ row.logLen = produced

\* Nothing changes the log or the numbering of a completed run.
LEMMA StepWorker ==
    LogInv /\ SenderTypes /\ WorkerInv /\ [Next]_vars => WorkerInv'
<1> SUFFICES ASSUME LogInv, SenderTypes, WorkerInv, [Next]_vars PROVE WorkerInv'
  OBVIOUS
<1>1. /\ produced' = produced \/ phase = "running"
      /\ phase # "running" => phase' # "running"
  <2>1. CASE Sender
    BY <2>1 DEF Sender, Add, Post, LoopEnds, PostTimesOut, Refused, workerVars
  <2>2. ASSUME NEW b \in Batches, NEW asked \in BOOLEAN, Handle(b, asked)
        PROVE  produced' = produced /\ phase' = phase
    BY <2>2 DEF Handle, EventsGone, EventsBehind, EventsKnown, EventsWrite, workerVars
  <2>3. CASE CommitEvents \/ CommitFails
    BY <2>3 DEF CommitEvents, CommitFails, workerVars
  <2>4. CASE Ending
    BY <2>4 DEF Ending, Reap, CommitReap, Close, Closed, Complete, CompleteTimesOut,
                WorkerDies, senderVars, workerVars
  <2>5. ASSUME NEW v \in Viewers, Viewing(v) PROVE produced' = produced /\ phase' = phase
    BY <2>5 DEF Viewing, Connect, Disconnect, Read, Check, senderVars, workerVars
  <2>6. CASE UNCHANGED vars
    BY <2>6 DEF vars, senderVars, workerVars
  <2> QED
    BY <2>1, <2>2, <2>3, <2>4, <2>5, <2>6 DEF Next
<1>2. report' => phase' # "running"
  <2>1. CASE Closed \/ CompleteTimesOut
    BY <2>1 DEF Closed, CompleteTimesOut
  <2>2. report' => report \/ Closed \/ CompleteTimesOut
    <3>1. CASE Sender
      BY <3>1 DEF Sender, Add, Post, LoopEnds, PostTimesOut, Refused, workerVars
    <3>2. ASSUME NEW b \in Batches, NEW asked \in BOOLEAN, Handle(b, asked)
          PROVE  report' = report
      BY <3>2 DEF Handle, EventsGone, EventsBehind, EventsKnown, EventsWrite, workerVars
    <3>3. CASE CommitEvents \/ CommitFails
      BY <3>3 DEF CommitEvents, CommitFails, workerVars
    <3>4. CASE Ending
      BY <3>4 DEF Ending, Reap, CommitReap, Close, Complete, WorkerDies, workerVars
    <3>5. ASSUME NEW v \in Viewers, Viewing(v) PROVE report' = report
      BY <3>5 DEF Viewing, Connect, Disconnect, Read, Check, workerVars
    <3>6. CASE UNCHANGED vars
      BY <3>6 DEF vars, workerVars
    <3> QED
      BY <3>1, <3>2, <3>3, <3>4, <3>5, <3>6 DEF Next
  <2> QED
    BY <1>1, <2>1, <2>2 DEF WorkerInv
<1>3. CASE row.status = "completed"
  <2>1. row' = row
    BY <1>3, EffectOfStep
       DEF LogInv, WriterInv, ApiEffect, apiVars, NotAsked, CommitsEvents, RollsBack, WritesStatus,
           CommitsStatus, Completes, WritesEvents
  <2> QED
    BY <1>1, <1>2, <1>3, <2>1 DEF WorkerInv
<1>4. CASE row.status # "completed" /\ row'.status = "completed"
  <2>1. Completes
    <3>1. ~CommitsEvents
      BY <1>4 DEF LogInv, ApiTypes, CommitsEvents
    <3>2. ~CommitsStatus
      BY <1>4 DEF CommitsStatus
    <3> QED
      BY <1>4, <3>1, <3>2, EffectOfStep
         DEF ApiEffect, apiVars, NotAsked, RollsBack, WritesStatus, WritesEvents
  <2>2. row'.logLen = produced /\ phase # "running"
    BY <2>1 DEF Completes, LogInv, ApiTypes, LogInOrder, WorkerInv
  <2> QED
    BY <1>1, <1>2, <2>2 DEF WorkerInv
<1> QED
  BY <1>2, <1>3, <1>4 DEF WorkerInv

-----------------------------------------------------------------------------
(* The sender is never ahead of the log. *)

\* What the sender dropped, and where its calls start, is covered by the log.
SyncInv ==
    row.status = "running" =>
        /\ dropped <= row.logSeq
        /\ \A b \in late \union {cur} : b.first <= row.logSeq + 1

\* The log's number never goes back, and an ended run stays ended.
LEMMA SeqGrows ==
    LogInv /\ ApiEffect => /\ row.logSeq <= row'.logSeq
                           /\ row.status # "running" => row' = row /\ file' = file
<1> SUFFICES ASSUME LogInv, ApiEffect
             PROVE  /\ row.logSeq <= row'.logSeq
                    /\ row.status # "running" => row' = row /\ file' = file
  OBVIOUS
<1>1. row.logSeq <= row'.logSeq
  <2>1. row.logLen <= row'.logLen
    BY StepCommitted
  <2>2. row.logSeq = row.logLen /\ row'.logSeq = row'.logLen
    BY StepLog DEF LogInv, LogInOrder
  <2> QED
    BY <2>1, <2>2
<1>2. row.status # "running" => row' = row /\ file' = file
  BY DEF LogInv, WriterInv, ApiEffect, apiVars, NotAsked, CommitsEvents, RollsBack, WritesStatus,
         CommitsStatus, Completes, WritesEvents
<1> QED
  BY <1>1, <1>2

\* Unless a batch is refused, a sender only drops what the log has.
LEMMA StepSync ==
    ~Refusals /\ LogInv /\ SenderTypes /\ SyncInv /\ [Next]_vars => SyncInv'
<1> SUFFICES ASSUME ~Refusals, LogInv, SenderTypes, SyncInv, [Next]_vars,
                    row'.status = "running"
             PROVE  /\ dropped' <= row'.logSeq
                    /\ \A b \in late' \union {cur'} : b.first <= row'.logSeq + 1
  BY DEF SyncInv
<1>1. /\ row.logSeq \in Nat /\ row'.logSeq \in Nat /\ row.logSeq <= row'.logSeq
      /\ row.status = "running" /\ dropped \in Nat /\ produced \in Nat
  <2>1. row.logSeq \in Nat /\ row'.logSeq \in Nat /\ row.logSeq <= row'.logSeq
    BY EffectOfStep, SeqGrows, StepLog DEF LogInv, ApiTypes
  <2>2. row.status = "running"
    BY EffectOfStep, SeqGrows
  <2> QED
    BY <2>1, <2>2, LogAssumption DEF SenderTypes
<1>2. /\ dropped <= row'.logSeq
      /\ \A b \in late \union {cur} : b.first \in Nat /\ b.first <= row'.logSeq + 1
  <2>1. \A b \in late \union {cur} : b.first \in Nat
    BY DEF SenderTypes, Batches, NoBatch
  <2> QED
    BY <1>1, <2>1 DEF SyncInv
<1> DEFINE Calls == \A b \in late' \union {cur'} : b.first <= row'.logSeq + 1
<1>3. ASSUME late' \subseteq late \union {cur}, cur' \in {cur, NoBatch} PROVE Calls
  BY <1>1, <1>2, <1>3 DEF NoBatch
<1>4. ASSUME NEW seq \in Nat, seq <= row'.logSeq PROVE DropThrough(seq) <= row'.logSeq
  BY <1>1, <1>2, <1>4 DEF DropThrough, Min2
<1>5. CASE Add \/ LoopEnds
  BY <1>2, <1>3, <1>5 DEF Add, LoopEnds
<1>6. CASE Post
  <2>1. cur'.first = dropped + 1 /\ late' = late /\ dropped' = dropped
    BY <1>6 DEF Post
  <2> QED
    BY <1>1, <1>2, <2>1
<1>7. CASE PostTimesOut \/ WorkerDies
  BY <1>2, <1>3, <1>7 DEF PostTimesOut, WorkerDies, LetGo
<1>8. CASE Refused
  BY <1>8 DEF Refused
<1>9. ASSUME NEW b \in Batches, NEW asked \in BOOLEAN, Handle(b, asked)
      PROVE  dropped' <= row'.logSeq /\ Calls
  <2>1. /\ late' \subseteq late \union {cur} /\ cur' \in {cur, NoBatch}
        /\ b \in late \union {cur}
    BY <1>9 DEF Handle, EventsGone, EventsBehind, EventsKnown, EventsWrite, Takes
  <2>2. CASE EventsGone(b, asked)
    BY <1>1, <2>2 DEF EventsGone
  <2>3. CASE EventsBehind(b, asked)
    <3>1. row' = row
      BY <2>3 DEF EventsBehind, apiVars
    <3> QED
      BY <1>1, <1>2, <2>1, <2>3, <3>1 DEF EventsBehind
  <2>4. CASE EventsKnown(b, asked)
    <3>1. DropThrough(row.logSeq) <= row'.logSeq
      BY <1>1, <1>4
    <3> QED
      BY <1>2, <1>3, <2>1, <2>4, <3>1 DEF EventsKnown, Acked, Unanswered
  <2>5. CASE EventsWrite(b, asked)
    BY <1>2, <1>3, <2>1, <2>5 DEF EventsWrite
  <2> QED
    BY <1>9, <2>2, <2>3, <2>4, <2>5 DEF Handle
<1>10. CASE CommitEvents
  <2>1. writer.last \in Nat /\ row'.logSeq = writer.last
    BY <1>10 DEF CommitEvents, LogInv, ApiTypes
  <2>2. DropThrough(writer.last) <= row'.logSeq
    BY <1>4, <2>1
  <2> QED
    BY <1>2, <1>3, <1>10, <2>2 DEF CommitEvents, Acked, Unanswered
<1>11. CASE CommitFails
  BY <1>2, <1>3, <1>11 DEF CommitFails
<1>12. CASE Reap \/ CommitReap \/ Close \/ Closed \/ Complete \/ CompleteTimesOut
  BY <1>2, <1>3, <1>12
     DEF Reap, CommitReap, Close, Closed, Complete, CompleteTimesOut, senderVars
<1>13. ASSUME NEW v \in Viewers, Viewing(v) PROVE dropped' <= row'.logSeq /\ Calls
  BY <1>2, <1>3, <1>13 DEF Viewing, Connect, Disconnect, Read, Check, senderVars
<1>14. CASE UNCHANGED vars
  BY <1>2, <1>3, <1>14 DEF vars, senderVars
<1> QED
  BY <1>5, <1>6, <1>7, <1>8, <1>9, <1>10, <1>11, <1>12, <1>13, <1>14 DEF Next, Sender, Ending

-----------------------------------------------------------------------------
(* The viewers, when commits do not fail. *)

\* With nobody writing, the file is the log.
FileInv == writer.kind = "none" => Len(file) = row.logLen

\* A viewer's position is what it has got: what it read plus what it will skip.
PlaceInv(v) ==
    LET w == view[v] IN
    /\ Len(w.got) <= Len(file) /\ \A k \in 1..Len(w.got) : w.got[k] = file[k]
    /\ w.phase \in {"reading", "checking", "draining"} => w.offset + w.skip = Len(w.got)
    /\ w.phase \in {"reading", "checking", "draining"} /\ w.fin => row.status # "running"
    /\ w.phase \in {"draining", "closed"} => row.status # "running"
    /\ w.phase = "closed" => Len(w.got) = row.logLen

ViewInv == ViewTypes /\ FileInv /\ \A v \in Viewers : PlaceInv(v)

\* Without rollbacks the file only grows.
LEMMA FileGrows ==
    ~CommitsFail /\ LogInv /\ FileInv /\ ApiEffect =>
        /\ FileInv' /\ Len(file) <= Len(file')
        /\ \A k \in 1..Len(file) : file'[k] = file[k]
<1> SUFFICES ASSUME ~CommitsFail, LogInv, FileInv, ApiEffect
             PROVE  /\ FileInv' /\ Len(file) <= Len(file')
                    /\ \A k \in 1..Len(file) : file'[k] = file[k]
  OBVIOUS
<1>1. /\ row.logLen \in Nat /\ Len(file) \in Nat /\ Len(file') \in Nat
      /\ row.logLen <= Len(file') /\ \A k \in 1..row.logLen : file'[k] = file[k]
  BY StepCommitted, StepLog DEF LogInv, ApiTypes
<1>2. CASE UNCHANGED apiVars \/ NotAsked
  BY <1>1, <1>2 DEF apiVars, NotAsked, FileInv, LogInv, ApiTypes
<1>3. CASE CommitsEvents
  BY <1>1, <1>3 DEF CommitsEvents, FileInv, LogInv, ApiTypes
<1>4. CASE CommitsStatus
  BY <1>1, <1>4 DEF CommitsStatus, FileInv
<1>5. CASE Completes
  BY <1>1, <1>5 DEF Completes, FileInv, LogInv, ApiTypes
<1>6. CASE RollsBack
  BY <1>6 DEF RollsBack
<1>7. CASE WritesStatus
  BY <1>1, <1>7 DEF WritesStatus, Unlocked, FileInv
<1>8. ASSUME NEW b \in Batches, WritesEvents(b)
      PROVE  /\ FileInv' /\ Len(file) <= Len(file')
             /\ \A k \in 1..Len(file) : file'[k] = file[k]
  BY <1>1, <1>8 DEF WritesEvents, Unlocked, FileInv
<1> QED
  BY <1>2, <1>3, <1>4, <1>5, <1>6, <1>7, <1>8 DEF ApiEffect

\* One viewer's state is replaced.
LEMMA OneViewChanged ==
    ASSUME ViewTypes, NEW v \in Viewers, NEW r \in View, Becomes(v, r)
    PROVE  /\ ViewTypes' /\ view'[v] = r
           /\ \A u \in Viewers : u # v => view'[u] = view[u]
BY DEF ViewTypes, Becomes

\* Only a viewer's own steps change what it sees.
LEMMA ViewersAlone ==
    ASSUME [Next]_vars
    PROVE  UNCHANGED view \/ \E v \in Viewers : Viewing(v)
<1>1. CASE Sender
  BY <1>1 DEF Sender, Add, Post, LoopEnds, PostTimesOut, Refused
<1>2. ASSUME NEW b \in Batches, NEW asked \in BOOLEAN, Handle(b, asked) PROVE UNCHANGED view
  BY <1>2 DEF Handle, EventsGone, EventsBehind, EventsKnown, EventsWrite
<1>3. CASE CommitEvents \/ CommitFails
  BY <1>3 DEF CommitEvents, CommitFails
<1>4. CASE Ending
  BY <1>4 DEF Ending, Reap, CommitReap, Close, Closed, Complete, CompleteTimesOut, WorkerDies
<1>5. CASE UNCHANGED vars
  BY <1>5 DEF vars
<1> QED
  BY <1>1, <1>2, <1>3, <1>4, <1>5 DEF Next

\* A read extends what the viewer has by the next lines of the file.
LEMMA ReadKeepsPlace ==
    ASSUME LogInv, ViewInv, NEW v \in Viewers, Read(v)
    PROVE  ViewTypes' /\ PlaceInv(v)'
<1> USE LogAssumption
<1> DEFINE w == view[v]
<1>1. /\ w.offset \in Nat /\ w.skip \in Nat /\ w.got \in Seq(0..MaxEvents)
      /\ file \in Seq(0..MaxEvents) /\ Len(file) \in Nat /\ row.logLen \in Nat
      /\ w.offset + w.skip = Len(w.got) /\ Len(w.got) \in Nat
      /\ w.phase \in {"reading", "draining"} /\ w.fin \in BOOLEAN
      /\ row.logLen <= Len(file)
  BY DEF ViewInv, ViewTypes, View, PlaceInv, LogInv, ApiTypes, LogInOrder, Read
<1>2. row' = row /\ file' = file /\ writer' = writer
  BY DEF Read, apiVars
<1>3. PICK end \in Visible : ReadsNothing(v, end) \/ ReadsLines(v, end)
  BY DEF Read
<1>4. end \in Nat /\ end <= Len(file)
  BY <1>1 DEF Visible
<1>5. CASE ReadsNothing(v, end)
  <2> DEFINE d == IF end < w.offset THEN 0 ELSE end - w.offset
             r == [w EXCEPT !.phase = IF @ = "draining" THEN "closed" ELSE "checking",
                            !.offset = @ + d, !.skip = @ - d]
  <2>1. d \in Nat /\ d <= w.skip /\ w.skip - d \in Nat /\ w.offset + d \in Nat
    <3>1. end <= w.offset + w.skip
      BY <1>5 DEF ReadsNothing
    <3> HIDE DEF w
    <3> QED
      BY <1>1, <1>4, <3>1, SMTT(40)
  <2>2. /\ ViewTypes' /\ view'[v] = r
    <3>1. Becomes(v, r)
      BY <1>5 DEF ReadsNothing
    <3>2. r \in View
      BY <1>1, <2>1 DEF ViewInv, ViewTypes, View
    <3> HIDE DEF r
    <3> QED
      BY <3>1, <3>2, OneViewChanged DEF ViewInv
  <2>6. /\ view'[v].got = w.got /\ view'[v].fin = w.fin
         /\ view'[v].offset = w.offset + d /\ view'[v].skip = w.skip - d
         /\ view'[v].phase = IF w.phase = "draining" THEN "closed" ELSE "checking"
    <3>1. w \in View
      BY DEF ViewInv, ViewTypes
    <3> HIDE DEF w, d
    <3> QED
      BY <2>2, <3>1 DEF View
  <2>3. w.phase = "draining" => Len(w.got) = row.logLen
    <3>1. w.phase = "draining" => end = Len(file) /\ Len(file) = row.logLen
      BY DEF ViewInv, PlaceInv, LogInv, WriterInv, FileInv, Visible, Unlocked, ApiTypes
    <3>2. end <= Len(w.got)
      BY <1>1, <1>5 DEF ReadsNothing
    <3> QED
      BY <1>1, <3>1, <3>2 DEF ViewInv, PlaceInv
  <2>4. view'[v].offset + view'[v].skip = Len(view'[v].got)
    BY <1>1, <2>1, <2>6, SMTT(40)
  <2>5. /\ Len(w.got) <= Len(file) /\ \A k \in 1..Len(w.got) : w.got[k] = file[k]
        /\ w.fin => row.status # "running"
        /\ w.phase = "draining" => row.status # "running"
    BY <1>1 DEF ViewInv, PlaceInv
  <2> HIDE DEF w
  <2> QED
    BY <1>1, <1>2, <2>2, <2>6, <2>3, <2>4, <2>5 DEF PlaceInv
<1>6. CASE ReadsLines(v, end)
  <2> DEFINE from == Len(w.got) + 1
  <2>1. PICK upTo \in from..end :
           Becomes(v, [w EXCEPT !.offset = upTo, !.skip = 0,
                                !.got = @ \o SubSeq(file, from, upTo)])
    BY <1>1, <1>6 DEF ReadsLines
  <2> DEFINE got == w.got \o SubSeq(file, from, upTo)
  <2>2. upTo \in Nat /\ Len(w.got) < upTo /\ upTo <= Len(file)
    <3>1. upTo \in (Len(w.got) + 1)..end /\ Len(w.got) \in Nat /\ Len(file) \in Nat
      BY <1>1, <2>1
    <3> HIDE DEF w
    <3> QED
      BY <1>4, <3>1
  <2>3. /\ got \in Seq(0..MaxEvents) /\ Len(got) = upTo
        /\ \A k \in 1..Len(got) : got[k] = file[k]
    <3> DEFINE S == 0..MaxEvents
               g == w.got
    <3>1. g \in Seq(S) /\ file \in Seq(S) /\ \A k \in 1..Len(g) : g[k] = file[k]
      BY <1>1 DEF ViewInv, PlaceInv
    <3>2. got = g \o SubSeq(file, Len(g) + 1, upTo) /\ Len(g) < upTo
      BY <2>2
    <3> HIDE DEF S, g, w, got
    <3>3. /\ got \in Seq(S) /\ Len(got) = upTo
          /\ \A k \in 1..upTo : got[k] = file[k]
      BY <2>2, <3>1, <3>2, ExtendPrefix
    <3> QED
      BY <3>3 DEF S
  <2> HIDE DEF got
  <2> DEFINE r == [w EXCEPT !.offset = upTo, !.skip = 0, !.got = got]
  <2>4. w \in View
    BY DEF ViewInv, ViewTypes
  <2>5. ViewTypes' /\ view'[v] = r
    <3>1. Becomes(v, r)
      BY <2>1 DEF got
    <3>2. r \in View
      BY <2>2, <2>3, <2>4 DEF View
    <3> HIDE DEF r
    <3> QED
      BY <3>1, <3>2, OneViewChanged DEF ViewInv
  <2>6. /\ w.fin => row.status # "running"
        /\ w.phase = "draining" => row.status # "running"
    BY <1>1 DEF ViewInv, PlaceInv
  <2> HIDE DEF w
  <2>7. /\ view'[v].got = got /\ view'[v].offset = upTo /\ view'[v].skip = 0
        /\ view'[v].phase = w.phase /\ view'[v].fin = w.fin
    BY <2>4, <2>5 DEF View
  <2>8. upTo + 0 = Len(got) /\ Len(got) <= Len(file) /\ w.phase # "closed"
    BY <1>1, <2>2, <2>3, SMTT(40)
  <2> QED
    BY <1>1, <1>2, <2>3, <2>5, <2>6, <2>7, <2>8 DEF PlaceInv
<1> QED
  BY <1>3, <1>5, <1>6

\* A step of the API leaves a viewer where it is.
LEMMA OthersKeepPlace ==
    ASSUME ~CommitsFail, LogInv, ViewInv, ApiEffect, NEW v \in Viewers, view'[v] = view[v]
    PROVE  PlaceInv(v)'
<1>1. /\ Len(file) \in Nat /\ Len(file') \in Nat /\ Len(view[v].got) \in Nat
      /\ Len(file) <= Len(file') /\ \A k \in 1..Len(file) : file'[k] = file[k]
  BY FileGrows, StepLog DEF ViewInv, ViewTypes, View, LogInv, ApiTypes
<1>2. row.status # "running" => row' = row
  BY SeqGrows
<1>3. PlaceInv(v)
  BY DEF ViewInv
<1> QED
  BY <1>1, <1>2, <1>3 DEF PlaceInv

\* Viewers keep their places over every step.
LEMMA StepView ==
    ~CommitsFail /\ LogInv /\ ViewInv /\ [Next]_vars => ViewInv'
<1> SUFFICES ASSUME ~CommitsFail, LogInv, ViewInv, [Next]_vars PROVE ViewInv'
  OBVIOUS
<1>1. ApiEffect /\ FileInv'
  BY EffectOfStep, FileGrows DEF ViewInv
<1>2. ASSUME UNCHANGED view PROVE ViewInv'
  <2>1. \A v \in Viewers : PlaceInv(v)'
    BY <1>1, <1>2, OthersKeepPlace
  <2> QED
    BY <1>1, <1>2, <2>1 DEF ViewInv, ViewTypes
<1>3. ASSUME NEW v \in Viewers, Viewing(v) PROVE ViewInv'
  <2> DEFINE w == view[v]
  <2>1. w \in View /\ PlaceInv(v)
    BY DEF ViewInv, ViewTypes
  <2>2. row' = row /\ file' = file
    BY <1>3 DEF Viewing, Connect, Disconnect, Read, Check, apiVars
  <2>3. ASSUME ViewTypes', PlaceInv(v)', \A u \in Viewers : u # v => view'[u] = view[u]
        PROVE  ViewInv'
    <3>1. ASSUME NEW u \in Viewers PROVE PlaceInv(u)'
      BY <1>1, <2>3, OthersKeepPlace
    <3> QED
      BY <1>1, <2>3, <3>1 DEF ViewInv
  <2>4. ASSUME NEW r \in View, Becomes(v, r), r.got = w.got,
               r.phase \in {"reading", "checking", "draining"} =>
                 r.offset + r.skip = Len(r.got) /\ (r.fin => row.status # "running"),
               r.phase = "draining" => row.status # "running",
               r.phase # "closed"
        PROVE  ViewInv'
    <3>1. /\ ViewTypes' /\ view'[v] = r
          /\ \A u \in Viewers : u # v => view'[u] = view[u]
      BY <2>4, OneViewChanged DEF ViewInv
    <3>2. PlaceInv(v)'
      BY <2>1, <2>2, <2>4, <3>1 DEF PlaceInv
    <3> QED
      BY <2>3, <3>1, <3>2
  <2>5. CASE Connect(v)
    <3> DEFINE r == [w EXCEPT !.phase = "reading", !.offset = 0, !.skip = Len(w.got),
                              !.fin = row.status # "running"]
    <3>1. Becomes(v, r)
      BY <2>5 DEF Connect
    <3>2. Len(w.got) \in Nat /\ (row.status # "running") \in BOOLEAN
      BY <2>1 DEF View
    <3>3. /\ r \in View /\ r.phase = "reading" /\ r.offset = 0 /\ r.skip = Len(w.got)
          /\ r.got = w.got /\ r.fin = (row.status # "running")
      BY <2>1, <3>2 DEF View
    <3> HIDE DEF r, w
    <3>4. r.offset + r.skip = Len(r.got)
      BY <3>2, <3>3
    <3>5. r.fin => row.status # "running"
      BY <3>3
    <3> QED
      BY <2>4, <3>1, <3>3, <3>4, <3>5
  <2>6. CASE Disconnect(v)
    <3> DEFINE r == [w EXCEPT !.phase = "off"]
    <3>1. Becomes(v, r)
      BY <2>6 DEF Disconnect
    <3>2. r \in View /\ r.phase = "off" /\ r.got = w.got
      BY <2>1 DEF View
    <3> HIDE DEF r, w
    <3> QED
      BY <2>4, <3>1, <3>2
  <2>7. CASE Check(v)
    <3> DEFINE next == IF w.fin \/ row.status # "running" THEN "draining" ELSE "reading"
               r == [w EXCEPT !.phase = next]
    <3>1. Becomes(v, r)
      BY <2>7 DEF Check
    <3>2. /\ w.offset + w.skip = Len(w.got) /\ (w.fin => row.status # "running")
      BY <2>1, <2>7 DEF PlaceInv, Check
    <3>3. /\ r \in View /\ r.phase = next /\ r.got = w.got /\ r.offset = w.offset
          /\ r.skip = w.skip /\ r.fin = w.fin
      BY <2>1 DEF View
    <3>4. next \in {"reading", "draining"} /\ (next = "draining" => row.status # "running")
      BY <3>2
    <3> HIDE DEF r, w, next
    <3> QED
      BY <2>4, <3>1, <3>2, <3>3, <3>4
  <2>8. CASE Read(v)
    <3>1. ViewTypes' /\ PlaceInv(v)'
      BY <2>8, ReadKeepsPlace
    <3>2. \A u \in Viewers : u # v => view'[u] = view[u]
      BY <2>8 DEF Read, ReadsNothing, ReadsLines, Becomes, ViewInv, ViewTypes
    <3> QED
      BY <2>3, <3>1, <3>2
  <2> QED
    BY <1>3, <2>5, <2>6, <2>7, <2>8 DEF Viewing
<1>4. \/ UNCHANGED view
      \/ \E v \in Viewers : Viewing(v)
  BY ViewersAlone
<1> QED
  BY <1>2, <1>3, <1>4

\* A read gives a viewer lines of the file and never leaves it more to skip
\* than there was, whatever was rolled back meanwhile.
LEMMA ReadKeepsTypes ==
    ASSUME LogInv, ViewTypes, NEW v \in Viewers, Read(v)
    PROVE  ViewTypes'
<1> USE LogAssumption
<1> DEFINE w == view[v]
<1>0. w \in View
  BY DEF ViewTypes
<1>1. /\ w.offset \in Nat /\ w.skip \in Nat /\ w.got \in Seq(0..MaxEvents)
      /\ file \in Seq(0..MaxEvents) /\ Len(file) \in Nat /\ row.logLen \in Nat
  BY <1>0 DEF View, LogInv, ApiTypes
<1>2. PICK end \in Visible : ReadsNothing(v, end) \/ ReadsLines(v, end)
  BY DEF Read
<1>3. end \in Nat /\ end <= Len(file)
  BY <1>1 DEF Visible
<1>4. CASE ReadsNothing(v, end)
  <2> DEFINE d == IF end < w.offset THEN 0 ELSE end - w.offset
             ph == IF w.phase = "draining" THEN "closed" ELSE "checking"
             r == [w EXCEPT !.phase = ph, !.offset = w.offset + d, !.skip = w.skip - d]
  <2>1. w.skip - d \in Nat /\ w.offset + d \in Nat
    <3>1. end <= w.offset + w.skip
      BY <1>4 DEF ReadsNothing
    <3> HIDE DEF w
    <3> QED
      BY <1>1, <1>3, <3>1, SMTT(40)
  <2>2. Becomes(v, r)
    BY <1>4 DEF ReadsNothing
  <2>3. ph \in {"closed", "checking"}
    OBVIOUS
  <2>4. r \in View
    <3> HIDE DEF w, d, ph
    <3> QED
      BY <1>0, <2>1, <2>3 DEF View
  <2> HIDE DEF r
  <2> QED
    BY <2>2, <2>4, OneViewChanged
<1>5. CASE ReadsLines(v, end)
  <2> DEFINE from == w.offset + w.skip + 1
  <2>1. PICK upTo \in from..end :
           Becomes(v, [w EXCEPT !.offset = upTo, !.skip = 0,
                                !.got = @ \o SubSeq(file, from, upTo)])
    BY <1>5 DEF ReadsLines
  <2> DEFINE S == 0..MaxEvents
             part == SubSeq(file, from, upTo)
             got == w.got \o part
             r == [w EXCEPT !.offset = upTo, !.skip = 0, !.got = got]
  <2>2. from \in Nat \ {0} /\ upTo \in Nat /\ upTo <= Len(file)
    <3>1. upTo \in from..end /\ w.offset \in Nat /\ w.skip \in Nat /\ Len(file) \in Nat
      BY <1>1, <2>1
    <3> HIDE DEF w
    <3>2. from \in Nat \ {0}
      BY <3>1
    <3> HIDE DEF from
    <3> QED
      BY <1>3, <3>1, <3>2
  <2>3. part \in Seq(S)
    <3>1. file \in Seq(S)
      BY <1>1
    <3> HIDE DEF S, from, w
    <3> QED
      BY <2>2, <3>1, PartOfFile
  <2>4. got \in Seq(S)
    <3> HIDE DEF S, part, w
    <3> QED
      BY <1>1, <2>3 DEF S
  <2>5. Becomes(v, r)
    BY <2>1
  <2>6. r \in View
    <3> HIDE DEF got, w, part
    <3> QED
      BY <1>0, <2>2, <2>4 DEF View, S
  <2> HIDE DEF r
  <2> QED
    BY <2>5, <2>6, OneViewChanged
<1> QED
  BY <1>2, <1>4, <1>5

LEMMA StepViewTypes == LogInv /\ ViewTypes /\ [Next]_vars => ViewTypes'
<1> SUFFICES ASSUME LogInv, ViewTypes, [Next]_vars PROVE ViewTypes'
  OBVIOUS
<1>1. CASE UNCHANGED view
  BY <1>1 DEF ViewTypes
<1>2. ASSUME NEW v \in Viewers, Viewing(v) PROVE ViewTypes'
  <2> DEFINE w == view[v]
  <2>1. w \in View /\ Len(w.got) \in Nat
    BY DEF ViewTypes, View
  <2>2. CASE Connect(v)
    <3> DEFINE fin == row.status # "running"
               r == [w EXCEPT !.phase = "reading", !.offset = 0, !.skip = Len(w.got),
                              !.fin = fin]
    <3>1. Becomes(v, r) /\ fin \in BOOLEAN
      BY <2>2 DEF Connect
    <3>2. r \in View
      BY <2>1 DEF View
    <3> HIDE DEF r
    <3> QED
      BY <3>1, <3>2, OneViewChanged
  <2>3. CASE Disconnect(v)
    <3> DEFINE r == [w EXCEPT !.phase = "off"]
    <3>1. Becomes(v, r) /\ r \in View
      BY <2>1, <2>3 DEF Disconnect, View
    <3> HIDE DEF r
    <3> QED
      BY <3>1, OneViewChanged
  <2>4. CASE Check(v)
    <3> DEFINE next == IF w.fin \/ row.status # "running" THEN "draining" ELSE "reading"
               r == [w EXCEPT !.phase = next]
    <3>1. Becomes(v, r)
      BY <2>4 DEF Check
    <3>2. r \in View
      BY <2>1 DEF View
    <3> HIDE DEF r
    <3> QED
      BY <3>1, <3>2, OneViewChanged
  <2> QED
    BY <1>2, <2>2, <2>3, <2>4, ReadKeepsTypes DEF Viewing
<1> QED
  BY <1>1, <1>2, ViewersAlone

-----------------------------------------------------------------------------
\* The invariants hold before the first event.
LEMMA InitLog ==
    Init => /\ LogInv /\ SenderTypes /\ WorkerInv /\ SyncInv /\ ViewInv
<1> SUFFICES ASSUME Init PROVE LogInv /\ SenderTypes /\ WorkerInv /\ SyncInv /\ ViewInv
  OBVIOUS
<1> USE LogAssumption
<1>1. file \in Seq(0..MaxEvents) /\ Len(file) = 0
  BY DEF Init
<1>2. LogInv
  BY <1>1 DEF Init, LogInv, ApiTypes, LogInOrder, WriterInv, NoWrite
<1>3. SenderTypes
  <2>1. produced \in 0..MaxEvents /\ dropped \in 0..produced
    BY DEF Init
  <2>2. cur \in Batches \union {NoBatch} /\ late \subseteq Batches
    BY DEF Init
  <2> QED
    BY <2>1, <2>2, Zenon DEF Init, SenderTypes
<1>4. WorkerInv /\ SyncInv
  BY DEF Init, WorkerInv, SyncInv, NoBatch
<1>5. ViewInv
  <2> DEFINE w == [phase |-> "off", offset |-> 0, skip |-> 0, fin |-> FALSE, got |-> <<>>]
  <2>1. w \in View /\ Len(w.got) = 0
    BY DEF View
  <2>2. \A v \in Viewers : view[v] = w
    BY DEF Init
  <2>3. ViewTypes
    BY <2>1 DEF Init, ViewTypes
  <2>4. FileInv
    BY <1>1 DEF Init, FileInv
  <2>5. ASSUME NEW v \in Viewers PROVE PlaceInv(v)
    BY <1>1, <2>1, <2>2 DEF PlaceInv
  <2> QED
    BY <2>3, <2>4, <2>5 DEF ViewInv
<1> QED
  BY <1>2, <1>3, <1>4, <1>5

\* One step of the invariant that needs nothing of the environment.
LEMMA StepAll ==
    LogInv /\ SenderTypes /\ WorkerInv /\ [Next]_vars
        => (LogInv /\ SenderTypes /\ WorkerInv)'
<1> SUFFICES ASSUME LogInv, SenderTypes, WorkerInv, [Next]_vars
             PROVE  LogInv' /\ SenderTypes' /\ WorkerInv'
  OBVIOUS
<1>1. LogInv'
  BY EffectOfStep, StepLog
<1>2. SenderTypes'
  BY StepSender DEF LogInv
<1>3. WorkerInv'
  BY StepWorker
<1> QED
  BY <1>1, <1>2, <1>3

\* Whatever calls are lost, repeated or late, whatever commits fail: the
\* committed log is the run's events in order, each once.
THEOREM LogOrdered == Spec => []LogInOrder
<1>1. LogInv => LogInOrder
  BY DEF LogInv
<1> QED
  BY <1>1, InitLog, StepAll, PTL DEF Spec

\* A completed run's log holds every event its worker numbered.
THEOREM CompletedHasAll == Spec => []CompleteMeansAll
<1>1. WorkerInv => CompleteMeansAll
  BY DEF WorkerInv, CompleteMeansAll
<1> QED
  BY <1>1, InitLog, StepAll, PTL DEF Spec

\* Committed lines are never changed or cut.
THEOREM CommittedStays == Spec => CommittedNeverChanges
<1>1. LogInv /\ [Next]_vars
        => [/\ row.logLen <= row'.logLen /\ row.logLen <= Len(file')
            /\ \A k \in 1..row.logLen : file'[k] = file[k]]_vars
  BY EffectOfStep, StepCommitted
<1> QED
  BY <1>1, InitLog, StepAll, PTL DEF Spec, CommittedNeverChanges

\* No call starts past the log, unless refusals made the sender drop events.
THEOREM SenderInStep == Spec => []NeverBehind
<1>1. CASE Refusals
  <2>1. NeverBehind
    BY <1>1 DEF NeverBehind
  <2> QED
    BY <2>1, PTL
<1>2. CASE ~Refusals
  <2>1. LogInv /\ SenderTypes /\ WorkerInv /\ SyncInv /\ [Next]_vars
          => (LogInv /\ SenderTypes /\ WorkerInv /\ SyncInv)'
    BY <1>2, StepAll, StepSync
  <2>2. SyncInv => NeverBehind
    BY DEF SyncInv, NeverBehind
  <2> QED
    BY <2>1, <2>2, InitLog, PTL DEF Spec
<1> QED
  BY <1>1, <1>2

\* If no commit fails, every viewer has a beginning of the log.
THEOREM ViewersInOrder == ASSUME ~CommitsFail PROVE Spec => []ViewersSeeTheLog
<1>1. LogInv /\ SenderTypes /\ WorkerInv /\ ViewInv /\ [Next]_vars
        => (LogInv /\ SenderTypes /\ WorkerInv /\ ViewInv)'
  BY StepAll, StepView
<1>2. ViewInv => ViewersSeeTheLog
  BY DEF ViewInv, PlaceInv, ViewersSeeTheLog
<1> QED
  BY <1>1, <1>2, InitLog, PTL DEF Spec

\* If no commit fails, a stream that was closed normally sent the whole log.
THEOREM StreamsComplete == ASSUME ~CommitsFail PROVE Spec => []ClosedHasAll
<1>1. LogInv /\ SenderTypes /\ WorkerInv /\ ViewInv /\ [Next]_vars
        => (LogInv /\ SenderTypes /\ WorkerInv /\ ViewInv)'
  BY StepAll, StepView
<1>2. ViewInv => ClosedHasAll
  BY DEF ViewInv, PlaceInv, ClosedHasAll
<1> QED
  BY <1>1, <1>2, InitLog, PTL DEF Spec

\* events and complete: the log is the run's output, exactly.
THEOREM LogIsExact == Spec => []LogExact
BY LogOrdered, CompletedHasAll, PTL DEF LogExact

\* _stream_log: if no commit fails, what viewers have is exact.
THEOREM ViewsAreExact == ASSUME ~CommitsFail PROVE Spec => []ViewsExact
BY ViewersInOrder, StreamsComplete, PTL DEF ViewsExact

\* The row, the file, the sender and the viewers keep their types also when
\* commits fail: a viewer's place never becomes negative by a file that was cut
\* back under it, and what a sender dropped it had numbered.
THEOREM LogTypes == Spec => []TypeOK
<1>1. Init => ViewTypes
  BY InitLog DEF ViewInv
<1>2. LogInv => ApiTypes
  BY DEF LogInv
<1> QED
  BY <1>1, <1>2, InitLog, StepAll, StepViewTypes, PTL DEF Spec, TypeOK
=============================================================================
