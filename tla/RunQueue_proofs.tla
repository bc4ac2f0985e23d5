--------------------------- MODULE RunQueue_proofs ---------------------------
(***************************************************************************)
(* Theorems about RunQueue, for any number of runs, inventories, slots and *)
(* tokens.                                                                 *)
(*                                                                         *)
(* The proofs first say, once, what each kind of transaction may do to the *)
(* runs table (the effects below) and that every action has one of these   *)
(* effects; the invariants are then preserved effect by effect.            *)
(***************************************************************************)
EXTENDS RunQueue, TLAPS

-----------------------------------------------------------------------------
(* What the writers of a row return. *)

\* The place in the queue and the hand-outs of a row.
Kept(x, y) == /\ y.queuedAt = x.queuedAt /\ y.arrival = x.arrival
              /\ y.handed = x.handed

\* A row the state of whose run did not change.
Alike(x, y) == /\ Kept(x, y) /\ y.status = x.status /\ y.token = x.token
               /\ y.jobToken = x.jobToken /\ y.cancel = x.cancel

LEMMA FailRunRow ==
    ASSUME NEW x \in Row, NEW s \in Finished
    PROVE  /\ FailRun(x, s) \in Row /\ Kept(x, FailRun(x, s))
           /\ FailRun(x, s).status = s
BY DEF FailRun, Row, Status, Finished, Active, Kept

LEMMA RequeueRunRow ==
    ASSUME NEW x \in Row
    PROVE  /\ RequeueRun(x) \in Row /\ Kept(x, RequeueRun(x))
           /\ RequeueRun(x).status = "queued" /\ RequeueRun(x).cancel = x.cancel
BY DEF RequeueRun, Row, Status, Finished, Active, Kept

LEMMA ClaimRowRow ==
    ASSUME NEW x \in Row, NEW t \in Tokens
    PROVE  /\ ClaimRow(x, t) \in Row /\ Kept(x, ClaimRow(x, t))
           /\ ClaimRow(x, t).status = "running" /\ ClaimRow(x, t).token = t
           /\ ClaimRow(x, t).jobToken = TRUE /\ ClaimRow(x, t).cancel = x.cancel
BY DEF ClaimRow, Row, Status, Finished, Active, Kept

LEMMA BeginRow ==
    ASSUME NEW x \in Row, NEW n \in Nat, NEW y,
           y = [x EXCEPT !.status = "inserting", !.queuedAt = n]
    PROVE  /\ y \in Row /\ y.status = "inserting" /\ y.handed = x.handed
           /\ y.cancel = x.cancel
BY DEF Row, Status

LEMMA RefreshedRow ==
    ASSUME NEW x \in Row, NEW y, y = [x EXCEPT !.refresh = "none"]
    PROVE  y \in Row /\ Alike(x, y)
BY DEF Row, Alike, Kept

LEMMA LeaseRow ==
    ASSUME NEW x \in Row, NEW l \in {"live", "expired"}, NEW y, y = [x EXCEPT !.lease = l]
    PROVE  y \in Row /\ Alike(x, y)
BY DEF Row, Alike, Kept

LEMMA MissingRow ==
    ASSUME NEW x \in Row, NEW m \in {"credential", "vault", "playbook"}, NEW y,
           y = [x EXCEPT !.missing = m]
    PROVE  y \in Row /\ Alike(x, y)
BY DEF Row, Alike, Kept

LEMMA CancelRow ==
    ASSUME NEW x \in Row, NEW y, y = [x EXCEPT !.cancel = TRUE]
    PROVE  /\ y \in Row /\ Kept(x, y) /\ y.status = x.status /\ y.token = x.token
           /\ y.jobToken = x.jobToken
BY DEF Row, Kept

LEMMA EndRow ==
    ASSUME NEW x \in Row, NEW s \in Finished
    PROVE  EndRun(x, s) \in Row /\ Kept(x, EndRun(x, s)) /\ EndRun(x, s).status = s
BY DEF Row, Kept, Status, EndRun

LEMMA HandOutRow ==
    ASSUME NEW x \in Row
    PROVE  /\ HandOut(x) \in Row /\ HandOut(x).queuedAt = x.queuedAt
           /\ HandOut(x).arrival = x.arrival /\ HandOut(x).status = x.status
           /\ HandOut(x).token = x.token /\ HandOut(x).cancel = x.cancel
           /\ HandOut(x).jobToken = FALSE
           /\ (x.handed = 0 => HandOut(x).handed = 1)
<1> DEFINE h == IF x.handed < 2 THEN x.handed + 1 ELSE x.handed
<1>1. x.handed \in 0..2
  BY DEF Row
<1>2. h \in 0..2 /\ (x.handed = 0 => h = 1)
  BY <1>1
<1>3. HandOut(x) = [x EXCEPT !.jobToken = FALSE, !.handed = h]
  BY DEF HandOut
<1> HIDE DEF h
<1> QED
  BY <1>2, <1>3 DEF Row

-----------------------------------------------------------------------------
(* The effects of a transaction on the runs table. *)

\* The table is well formed and only r's row may differ.
Only(r) == row' \in [Runs -> Row] /\ \A q \in Runs \ {r} : row'[q] = row[q]

Begun(r) == /\ Only(r) /\ Is(r, "absent") /\ row'[r].status = "inserting"
            /\ row'[r].handed = row[r].handed /\ row'[r].cancel = row[r].cancel

Queued(r) == /\ Only(r) /\ Is(r, "inserting") /\ row'[r].status = "queued"
             /\ row'[r].arrival = clock /\ clock' = clock + 1
             /\ row'[r].handed = row[r].handed /\ row'[r].cancel = row[r].cancel

Touched(r) == Only(r) /\ Alike(row[r], row'[r])

\* A cancel is recorded for the worker to pick up.
Flagged(r) == /\ Only(r) /\ Is(r, "running") /\ Kept(row[r], row'[r])
              /\ row'[r].status = "running" /\ row'[r].token = row[r].token
              /\ row'[r].jobToken = row[r].jobToken

Ended(r) == /\ Only(r) /\ Kept(row[r], row'[r]) /\ row'[r].status \in Finished
            /\ Is(r, "running") \/ (Is(r, "queued") /\ ~Locked(r))

Requeued(r) == /\ Only(r) /\ Kept(row[r], row'[r]) /\ Is(r, "running")
               /\ row'[r].status = "queued" /\ ~row'[r].cancel
               /\ <<r, row[r].token>> \in limbo

HandedOut(r) == /\ Only(r) /\ Is(r, "running") /\ row[r].jobToken
                /\ row'[r].status = "running" /\ row'[r].queuedAt = row[r].queuedAt
                /\ row'[r].arrival = row[r].arrival /\ row'[r].token = row[r].token
                /\ row'[r].cancel = row[r].cancel /\ ~row'[r].jobToken
                /\ (row[r].handed = 0 => row'[r].handed = 1)

LEMMA SetRowOnly ==
    ASSUME TypeOK, NEW r \in Runs, NEW x \in Row, SetRow(r, x)
    PROVE  Only(r) /\ row'[r] = x
BY DEF TypeOK, SetRow, Only

LEMMA TypeInit == Init => TypeOK
BY QueueAssumption
   DEF Init, TypeOK, AbsentRow, Row, Status, Finished, Active, Idle, Task, Request

\* Facts about single rows the other proofs keep using.
LEMMA RowFacts ==
    ASSUME TypeOK
    PROVE  /\ \A r \in Runs : row[r] \in Row
           /\ {"failed", "cancelled", "timed_out", "success"} = Finished
           /\ \A r \in Runs : row[r].cancel \in BOOLEAN /\ row[r].jobToken \in BOOLEAN
BY DEF TypeOK, Finished, Row

-----------------------------------------------------------------------------
(* Every action has one of these effects. *)

LEMMA TriggerEffect ==
    ASSUME TypeOK, NEW r \in Runs
    PROVE  /\ QueueRunBegin(r) => Begun(r) /\ clock' = clock + 1
           /\ QueueRunCommit(r) => Queued(r)
           /\ ReleaseWaitingRun(r) => Touched(r) \/ Ended(r)
<1>0. row[r] \in Row /\ clock \in Nat /\ "failed" \in Finished
  BY RowFacts DEF TypeOK
<1>1. ASSUME QueueRunBegin(r) PROVE Begun(r) /\ clock' = clock + 1
  <2> DEFINE y == [row[r] EXCEPT !.status = "inserting", !.queuedAt = clock]
  <2>1. /\ y \in Row /\ y.status = "inserting" /\ y.handed = row[r].handed
        /\ y.cancel = row[r].cancel
    BY <1>0, BeginRow, ZenonT(60)
  <2>2. SetRow(r, y) /\ Is(r, "absent") /\ clock' = clock + 1
    BY <1>1 DEF QueueRunBegin
  <2> HIDE DEF y
  <2> QED
    BY <2>1, <2>2, SetRowOnly DEF Begun
<1>2. ASSUME QueueRunCommit(r) PROVE Queued(r)
  <2> DEFINE b == IF r \in RefreshFirst THEN "pending" ELSE "none"
             y == [row[r] EXCEPT !.status = "queued", !.arrival = clock, !.refresh = b]
  <2>0. b \in {"none", "pending"}
    OBVIOUS
  <2>1. /\ y \in Row /\ y.status = "queued" /\ y.arrival = clock
        /\ y.handed = row[r].handed /\ y.cancel = row[r].cancel
    <3> HIDE DEF b
    <3> QED
      BY <1>0, <2>0 DEF Row, Status, Active
  <2>2. SetRow(r, y) /\ Is(r, "inserting") /\ clock' = clock + 1
    BY <1>2 DEF QueueRunCommit
  <2> HIDE DEF y
  <2> QED
    BY <2>1, <2>2, SetRowOnly DEF Queued
<1>3. ASSUME ReleaseWaitingRun(r) PROVE Touched(r) \/ Ended(r)
  <2> DEFINE y == [row[r] EXCEPT !.refresh = "none"]
             f == FailRun(row[r], "failed")
             z == [f EXCEPT !.refresh = "none"]
  <2>1. SetRow(r, y) \/ (Is(r, "queued") /\ ~Locked(r) /\ SetRow(r, z))
    BY <1>3 DEF ReleaseWaitingRun
  <2>2. y \in Row /\ Alike(row[r], y)
    BY <1>0, RefreshedRow
  <2>3. f \in Row /\ Kept(row[r], f) /\ f.status = "failed"
    BY <1>0, FailRunRow
  <2> HIDE DEF y, f
  <2>4. z \in Row /\ Alike(f, z)
    BY <2>3, RefreshedRow
  <2>5. Kept(row[r], z) /\ z.status \in Finished
    BY <1>0, <2>3, <2>4 DEF Kept, Alike
  <2> HIDE DEF z
  <2>6. CASE SetRow(r, y)
    BY <2>2, <2>6, SetRowOnly DEF Touched
  <2>7. CASE Is(r, "queued") /\ ~Locked(r) /\ SetRow(r, z)
    BY <2>4, <2>5, <2>7, SetRowOnly DEF Ended
  <2> QED
    BY <2>1, <2>6, <2>7
<1> QED
  BY <1>1, <1>2, <1>3

LEMMA UserEffect ==
    ASSUME TypeOK, NEW r \in Runs
    PROVE  /\ CancelRun(r) => Flagged(r) \/ Ended(r)
           /\ DeleteReference(r) => Touched(r)
<1>0. row[r] \in Row /\ "cancelled" \in Finished
  BY RowFacts
<1>1. ASSUME CancelRun(r) PROVE Flagged(r) \/ Ended(r)
  <2> DEFINE x == [row[r] EXCEPT !.cancel = TRUE]
             f == FailRun(x, "cancelled")
  <2>1. /\ row[r].status \in Active /\ ~Locked(r)
        /\ SetRow(r, IF Is(r, "queued") THEN f ELSE x)
    BY <1>1 DEF CancelRun
  <2>2. /\ x \in Row /\ Kept(row[r], x) /\ x.status = row[r].status
        /\ x.token = row[r].token /\ x.jobToken = row[r].jobToken
    BY <1>0, CancelRow
  <2> HIDE DEF x
  <2>3. f \in Row /\ Kept(x, f) /\ f.status = "cancelled"
    BY <1>0, <2>2, FailRunRow
  <2> HIDE DEF f
  <2>4. CASE Is(r, "queued")
    BY <1>0, <2>1, <2>2, <2>3, <2>4, SetRowOnly DEF Ended, Kept
  <2>5. CASE Is(r, "running")
    BY <2>1, <2>2, <2>5, SetRowOnly DEF Flagged, Is
  <2> QED
    BY <2>1, <2>4, <2>5 DEF Active, Is
<1>2. ASSUME DeleteReference(r) PROVE Touched(r)
  <2>1. PICK m \in Deletable \ {"inventory"} : SetRow(r, [row[r] EXCEPT !.missing = m])
    BY <1>2 DEF DeleteReference
  <2>2. m \in {"credential", "vault", "playbook"}
    BY QueueAssumption
  <2> DEFINE y == [row[r] EXCEPT !.missing = m]
  <2>3. y \in Row /\ Alike(row[r], y)
    BY <1>0, <2>2, MissingRow
  <2>4. SetRow(r, y)
    BY <2>1
  <2> HIDE DEF y
  <2> QED
    BY <2>3, <2>4, SetRowOnly DEF Touched
<1> QED
  BY <1>1, <1>2

LEMMA LeaseEffect ==
    ASSUME TypeOK, NEW r \in Runs, NEW l \in {"live", "expired"},
           SetRow(r, [row[r] EXCEPT !.lease = l])
    PROVE  Touched(r)
<1> DEFINE y == [row[r] EXCEPT !.lease = l]
<1>1. y \in Row /\ Alike(row[r], y)
  BY RowFacts, LeaseRow
<1>2. SetRow(r, y)
  OBVIOUS
<1> HIDE DEF y
<1> QED
  BY <1>1, <1>2, SetRowOnly DEF Touched

LEMMA FailEffect ==
    ASSUME TypeOK, NEW r \in Runs, NEW s \in Finished, SetRow(r, FailRun(row[r], s)),
           Is(r, "running") \/ (Is(r, "queued") /\ ~Locked(r))
    PROVE  Ended(r)
<1>1. FailRun(row[r], s) \in Row /\ Kept(row[r], FailRun(row[r], s))
        /\ FailRun(row[r], s).status = s
  BY RowFacts, FailRunRow
<1> QED
  BY <1>1, SetRowOnly DEF Ended

LEMMA ReapEffect ==
    ASSUME TypeOK, NEW r \in Runs,
           ReapLost(r) \/ ReapTimedOut(r) \/ ReapCancelled(r) \/ ReapUnrunnable(r)
    PROVE  Ended(r)
BY FailEffect, RowFacts
   DEF ReapLost, ReapTimedOut, ReapCancelled, ReapUnrunnable, Reap

\* The claim of slot w: granted with a fresh token, or failed in the same
\* transaction.  Either way w's row lock is released.
Claimed(w, r, t) ==
    /\ Only(r) /\ claiming[w] = r /\ ~UniqueViolation(r) /\ ~InvGone(r)
    /\ Kept(row[r], row'[r])
    /\ row'[r].status = "running" /\ row'[r].token = t /\ row'[r].jobToken
    /\ row'[r].cancel = row[r].cancel

ClaimFailed(w, r) ==
    /\ Only(r) /\ claiming[w] = r /\ Kept(row[r], row'[r]) /\ row'[r].status \in Finished

LEMMA ClaimEffect ==
    ASSUME TypeOK, NEW w \in Workers, claiming[w] # NoRun
    PROVE  /\ claiming[w] \in Runs
           /\ ClaimUnrunnable(w) => ClaimFailed(w, claiming[w])
           /\ \A t \in Tokens, d \in BOOLEAN :
                ClaimGranted(w, t, d) => Claimed(w, claiming[w], t)
<1>1. claiming[w] \in Runs
  BY DEF TypeOK
<1>2. PICK r \in Runs : claiming[w] = r
  BY <1>1
<1>3. row[r] \in Row /\ "failed" \in Finished
  BY RowFacts
<1>4. ASSUME ClaimUnrunnable(w) PROVE ClaimFailed(w, r)
  <2>1. SetRow(r, FailRun(row[r], "failed"))
    BY <1>2, <1>4 DEF ClaimUnrunnable
  <2> QED
    BY <1>2, <1>3, <2>1, FailRunRow, SetRowOnly DEF ClaimFailed
<1>5. ASSUME NEW t \in Tokens, NEW d \in BOOLEAN, ClaimGranted(w, t, d)
      PROVE  Claimed(w, r, t)
  <2>1. SetRow(r, ClaimRow(row[r], t)) /\ ~UniqueViolation(r) /\ ~InvGone(r)
    BY <1>2, <1>5 DEF ClaimGranted, Unrunnable
  <2> QED
    <3> DEFINE y == ClaimRow(row[r], t)
    <3>1. /\ y \in Row /\ Kept(row[r], y) /\ y.status = "running" /\ y.token = t
          /\ y.jobToken = TRUE /\ y.cancel = row[r].cancel
      BY <1>3, ClaimRowRow
    <3> HIDE DEF y
    <3> QED
      BY <1>2, <2>1, <3>1, SetRowOnly DEF Claimed, y
<1> QED
  BY <1>1, <1>2, <1>4, <1>5

LEMMA CallEffect ==
    ASSUME TypeOK, NEW r \in Runs, NEW t \in Tokens
    PROVE  /\ JobCancelled(r, t) \/ JobFailed(r, t) => Ended(r)
           /\ JobHandedOut(r, t) => HandedOut(r) /\ row[r].token = t
           /\ \A s \in Outcomes(r) : CompleteRun(r, t, s) => Ended(r)
<1>0. row[r] \in Row /\ Finished = {"failed", "cancelled", "timed_out", "success"}
  BY RowFacts
<1>1. ASSUME JobCancelled(r, t) \/ JobFailed(r, t) PROVE Ended(r)
  BY <1>0, <1>1, FailEffect DEF JobCancelled, JobFailed, JobTokenValid, Owns
<1>2. ASSUME JobHandedOut(r, t) PROVE HandedOut(r) /\ row[r].token = t
  <2>1. /\ SetRow(r, HandOut(row[r])) /\ Is(r, "running") /\ row[r].jobToken
        /\ row[r].token = t
    BY <1>2 DEF JobHandedOut, JobTokenValid, Owns
  <2> QED
    <3> DEFINE y == HandOut(row[r])
    <3>1. /\ y \in Row /\ y.queuedAt = row[r].queuedAt /\ y.arrival = row[r].arrival
          /\ y.status = row[r].status /\ y.token = row[r].token
          /\ y.cancel = row[r].cancel /\ y.jobToken = FALSE
          /\ (row[r].handed = 0 => y.handed = 1)
      BY <1>0, HandOutRow
    <3>2. Only(r) /\ row'[r] = y
      BY <2>1, <3>1, SetRowOnly
    <3> HIDE DEF y
    <3>3. ~row'[r].jobToken
      BY <3>1, <3>2
    <3> QED
      BY <2>1, <3>1, <3>2, <3>3 DEF HandedOut, Is
<1>3. ASSUME NEW s \in Outcomes(r), CompleteRun(r, t, s) PROVE Ended(r)
  <2>1. s \in Finished
    BY <1>0, <1>3 DEF Outcomes
  <2>2. SetRow(r, EndRun(row[r], s)) /\ Is(r, "running")
    BY <1>3 DEF CompleteRun, Owns
  <2> QED
    BY <1>0, <2>1, <2>2, EndRow, SetRowOnly DEF Ended
<1> QED
  BY <1>1, <1>2, <1>3

LEMMA StoreDownEffect ==
    ASSUME TypeOK, NEW r \in Runs, NEW t, Owns(r, t), <<r, t>> \in limbo,
           SetRow(r, StoreDownRow(r))
    PROVE  Ended(r) \/ Requeued(r)
<1>0. /\ row[r] \in Row /\ {"failed", "cancelled"} \subseteq Finished
      /\ Is(r, "running") /\ row[r].cancel \in BOOLEAN /\ row[r].token = t
  BY RowFacts DEF Owns
<1>1. CASE row[r].cancel
  BY <1>0, <1>1, FailEffect DEF StoreDownRow
<1>2. CASE ~row[r].cancel /\ (~StoreWait \/ r \in waitedOut)
  BY <1>0, <1>2, FailEffect DEF StoreDownRow
<1>3. CASE ~row[r].cancel /\ ~(~StoreWait \/ r \in waitedOut)
  BY <1>0, <1>3, RequeueRunRow, SetRowOnly DEF StoreDownRow, Requeued
<1> QED
  BY <1>1, <1>2, <1>3

-----------------------------------------------------------------------------
(* Type correctness. *)

\* What one call of a worker (job or complete) leaves in the tables.
LEMMA CallTypes ==
    ASSUME TypeOK, NEW r \in Runs, NEW t \in Tokens,
           \/ JobGone \/ JobCancelled(r, t) \/ JobFailed(r, t)
           \/ JobStoreError(r, t) \/ JobHandedOut(r, t)
           \/ \E s \in Outcomes(r) : CompleteRun(r, t, s)
    PROVE  /\ row' \in [Runs -> Row] /\ clock' = clock /\ goneInv' = goneInv
           /\ limbo' \subseteq Runs \X Tokens
           /\ install' = install /\ installs' = installs /\ storeUp' = storeUp
           /\ outages' = outages /\ outage' \in {"none", "held", "lapsed"}
           /\ waitedOut' \subseteq NeedsStore
<1>1. CASE JobGone
  BY <1>1 DEF TypeOK, JobGone, dbVars, gateVars, storeVars
<1>2. CASE JobCancelled(r, t) \/ JobFailed(r, t)
  <2>1. Only(r)
    BY <1>2, CallEffect DEF Ended
  <2> QED
    BY <1>2, <2>1 DEF TypeOK, Only, JobCancelled, JobFailed, gateVars, storeVars
<1>3. CASE JobStoreError(r, t)
  BY <1>3 DEF TypeOK, JobStoreError, dbVars, gateVars, storeVars
<1>4. CASE JobHandedOut(r, t)
  <2>1. Only(r)
    BY <1>4, CallEffect DEF HandedOut
  <2> QED
    BY <1>4, <2>1 DEF TypeOK, Only, JobHandedOut, gateVars
<1>5. CASE \E s \in Outcomes(r) : CompleteRun(r, t, s)
  <2>1. Only(r)
    BY <1>5, CallEffect DEF Ended
  <2> QED
    BY <1>5, <2>1 DEF TypeOK, Only, CompleteRun, gateVars, storeVars
<1> QED
  BY <1>1, <1>2, <1>3, <1>4, <1>5

\* A slot that is not idle holds a run and a token.
LEMMA HeldTypes ==
    ASSUME TypeOK, NEW w \in Workers, held[w].phase # "idle"
    PROVE  held[w] \in Task /\ held[w].run \in Runs /\ held[w].token \in Tokens
BY DEF TypeOK, Task, Idle

LEMMA TypeStep == TypeOK /\ [Next]_vars => TypeOK'
<1> SUFFICES ASSUME TypeOK, [Next]_vars PROVE TypeOK'
  OBVIOUS
<1> USE QueueAssumption
<1>1. ASSUME NEW r \in Runs, QueueRunBegin(r) \/ QueueRunCommit(r) PROVE TypeOK'
  <2>1. row' \in [Runs -> Row] /\ clock' = clock + 1
    BY <1>1, TriggerEffect DEF Begun, Queued, Only
  <2> QED
    BY <1>1, <2>1 DEF TypeOK, QueueRunBegin, QueueRunCommit, gateVars, storeVars
<1>2. ASSUME NEW r \in Runs, ReleaseWaitingRun(r) PROVE TypeOK'
  BY <1>2, TriggerEffect DEF TypeOK, ReleaseWaitingRun, Touched, Ended, Only, gateVars, storeVars
<1>3. ASSUME NEW r \in Runs, CancelRun(r) PROVE TypeOK'
  BY <1>3, UserEffect DEF TypeOK, CancelRun, Flagged, Ended, Only, gateVars, storeVars
<1>4. ASSUME NEW r \in Runs, DeleteReference(r) PROVE TypeOK'
  BY <1>4, UserEffect DEF TypeOK, DeleteReference, Touched, Only, gateVars, storeVars
<1>5. ASSUME NEW r \in Runs, LeaseExpires(r) PROVE TypeOK'
  BY <1>5, LeaseEffect DEF TypeOK, LeaseExpires, Touched, Only, gateVars, storeVars
<1>6. ASSUME NEW r \in Runs,
             ReapLost(r) \/ ReapTimedOut(r) \/ ReapCancelled(r) \/ ReapUnrunnable(r)
      PROVE  TypeOK'
  <2>1. Ended(r)
    BY <1>6, ReapEffect
  <2> QED
    BY <1>6, <2>1 DEF TypeOK, ReapLost, ReapTimedOut, ReapCancelled, ReapUnrunnable, Reap,
                      Ended, Only, gateVars, storeVars
<1>7. ASSUME NEW r \in Runs, WaitRunsOut(r) PROVE TypeOK'
  BY <1>7 DEF TypeOK, WaitRunsOut, dbVars, gateVars
<1>8. ASSUME NEW w \in Workers, ClaimSelect(w) \/ ClaimConflict(w) PROVE TypeOK'
  BY <1>8 DEF TypeOK, ClaimSelect, ClaimConflict, dbVars, gateVars, storeVars
<1>9. ASSUME NEW w \in Workers, ClaimUnrunnable(w) PROVE TypeOK'
  BY <1>9, ClaimEffect
     DEF TypeOK, ClaimUnrunnable, ClaimFailed, Only, gateVars, storeVars
<1>10. ASSUME NEW w \in Workers, NEW t \in Tokens, NEW d \in BOOLEAN, ClaimGranted(w, t, d)
       PROVE  TypeOK'
  <2>1. claiming[w] \in Runs /\ Only(claiming[w])
    BY <1>10, ClaimEffect DEF ClaimGranted, Claimed
  <2>2. held' \in [Workers -> Task \union {Idle}]
    BY <1>10, <2>1 DEF TypeOK, ClaimGranted, Task
  <2> QED
    BY <1>10, <2>1, <2>2 DEF TypeOK, ClaimGranted, Only, gateVars, storeVars
<1>11. ASSUME NEW w \in Workers, FetchJob(w) PROVE TypeOK'
  <2>1. /\ held[w] \in Task /\ held[w].run \in Runs /\ held[w].token \in Tokens
        /\ held[w].phase = "fetching"
    BY <1>11, HeldTypes DEF FetchJob
  <2>2. [held[w] EXCEPT !.phase = "executing"] \in Task
    BY <2>1 DEF Task
  <2>3. /\ held' \in [Workers -> Task \union {Idle}]
        /\ claiming' = claiming /\ late' = late
    BY <1>11, <2>2 DEF TypeOK, FetchJob
  <2>4. \/ JobGone \/ JobCancelled(held[w].run, held[w].token)
        \/ JobFailed(held[w].run, held[w].token)
        \/ JobStoreError(held[w].run, held[w].token)
        \/ JobHandedOut(held[w].run, held[w].token)
    BY <1>11 DEF FetchJob
  <2> QED
    BY <2>1, <2>3, <2>4, CallTypes DEF TypeOK
<1>12. ASSUME NEW w \in Workers, Heartbeat(w) PROVE TypeOK'
  BY <1>12, HeldTypes, LeaseEffect DEF TypeOK, Heartbeat, Touched, Only, gateVars, storeVars
<1>13. ASSUME NEW w \in Workers, HeartbeatGone(w) PROVE TypeOK'
  BY <1>13 DEF TypeOK, HeartbeatGone, dbVars, gateVars, storeVars
<1>14. ASSUME NEW w \in Workers, Complete(w) PROVE TypeOK'
  <2>1. held[w].run \in Runs /\ held[w].token \in Tokens
    BY <1>14, HeldTypes DEF Complete
  <2>2. /\ held' \in [Workers -> Task \union {Idle}]
        /\ claiming' = claiming /\ late' = late
    BY <1>14 DEF TypeOK, Complete
  <2>3. \E s \in Outcomes(held[w].run) : CompleteRun(held[w].run, held[w].token, s)
    BY <1>14 DEF Complete
  <2> QED
    BY <2>1, <2>2, <2>3, CallTypes DEF TypeOK
<1>15. ASSUME NEW w \in Workers, Abandon(w) PROVE TypeOK'
  <2>1. held[w].run \in Runs /\ held[w].token \in Tokens
    BY <1>15, HeldTypes DEF Abandon
  <2>2. late' \subseteq Request
    BY <1>15, <2>1 DEF TypeOK, Abandon, Request
  <2> QED
    BY <1>15, <2>2 DEF TypeOK, Abandon, dbVars, gateVars, storeVars
<1>16. ASSUME NEW q \in late, LateRequest(q) PROVE TypeOK'
  <2>1. q.run \in Runs /\ q.token \in Tokens
    BY DEF TypeOK, Request
  <2>2. late' \subseteq Request /\ claiming' = claiming /\ held' = held
    BY <1>16 DEF TypeOK, LateRequest
  <2>3. \/ JobGone \/ JobCancelled(q.run, q.token) \/ JobFailed(q.run, q.token)
        \/ JobStoreError(q.run, q.token) \/ JobHandedOut(q.run, q.token)
        \/ \E s \in Outcomes(q.run) : CompleteRun(q.run, q.token, s)
    BY <1>16 DEF LateRequest
  <2> QED
    BY <2>1, <2>2, <2>3, CallTypes DEF TypeOK
<1>17. ASSUME NEW p \in limbo, StoreDown(p[1], p[2]) PROVE TypeOK'
  <2>1. p[1] \in Runs
    BY DEF TypeOK
  <2>2. row' \in [Runs -> Row]
    BY <1>17, <2>1, StoreDownEffect DEF TypeOK, StoreDown, Ended, Requeued, Only
  <2> QED
    BY <1>17, <2>2 DEF TypeOK, StoreDown, gateVars
<1>18. ASSUME NEW i \in Inventories, DeleteInventory(i) PROVE TypeOK'
  BY <1>18 DEF TypeOK, DeleteInventory, gateVars, storeVars
<1>19. CASE CreateInstall \/ TryStartInstall \/ RunInstallEnds
  BY <1>19 DEF TypeOK, CreateInstall, TryStartInstall, RunInstallEnds, dbVars, storeVars, Active
<1>20. CASE StoreFails \/ StoreRecovers \/ ProbeSecretStore \/ HoldLapses
  <2>1. CASE StoreFails
    <3>1. outages' \in 0..MaxOutages
      BY <2>1 DEF TypeOK, StoreFails
    <3>2. storeUp' \in BOOLEAN
      BY <2>1 DEF StoreFails
    <3> QED
      BY <2>1, <3>1, <3>2 DEF TypeOK, StoreFails, dbVars, gateVars
  <2>2. CASE StoreRecovers
    BY <2>2 DEF TypeOK, StoreRecovers, dbVars, gateVars
  <2>3. CASE ProbeSecretStore
    BY <2>3 DEF TypeOK, ProbeSecretStore, dbVars, gateVars
  <2>4. CASE HoldLapses
    BY <2>4 DEF TypeOK, HoldLapses, dbVars, gateVars
  <2> QED
    BY <1>20, <2>1, <2>2, <2>3, <2>4
<1>21. CASE UNCHANGED vars
  BY <1>21 DEF TypeOK, vars, dbVars, gateVars, storeVars
<1> QED
  BY <1>1, <1>2, <1>3, <1>4, <1>5, <1>6, <1>7, <1>8, <1>9, <1>10, <1>11, <1>12, <1>13,
     <1>14, <1>15, <1>16, <1>17, <1>18, <1>19, <1>20, <1>21 DEF Next

\* The tables and the slots keep their types: in particular a slot that
\* executes always holds a real run and a real claim token.
THEOREM TypeCorrect == Spec => []TypeOK
BY TypeInit, TypeStep, PTL DEF Spec

-----------------------------------------------------------------------------
(* The effect of a step on the rows, the locks, the gate and the limbo. *)

RowEffect(r) ==
    \/ Begun(r) \/ Queued(r) \/ Touched(r) \/ Flagged(r) \/ Ended(r) \/ Requeued(r)
    \/ HandedOut(r) /\ (OverlappingCalls \/ <<r, row[r].token>> \notin limbo)

RowStep == /\ \E r \in Runs : RowEffect(r)
           /\ clock' \in Nat /\ clock' >= clock
           /\ UNCHANGED <<claiming, goneInv, install>> /\ limbo' \subseteq limbo

LockStep == /\ \E w \in Workers : ClaimSelect(w) \/ ClaimConflict(w)
            /\ UNCHANGED <<row, clock, goneInv, install, limbo>>

ClaimStep ==
    \E w \in Workers, r \in Runs :
        /\ ClaimFailed(w, r) \/ \E t \in Tokens : Claimed(w, r, t)
        /\ claiming' = [claiming EXCEPT ![w] = NoRun]
        /\ UNCHANGED <<clock, goneInv, install, limbo>>

\* The job handler met an outage: its run is still the one it fetched for.
LimboStep ==
    /\ \E r \in Runs, t \in Tokens : JobTokenValid(r, t) /\ limbo' = limbo \union {<<r, t>>}
    /\ UNCHANGED <<row, clock, claiming, goneInv, install>>

OtherStep ==
    /\ UNCHANGED <<row, clock, claiming>> /\ limbo' \subseteq limbo
    /\ goneInv' = goneInv \/ \E i \in Inventories : goneInv' = goneInv \union {i}
    /\ install' = install \/ install' = "none" \/ install' = "queued" \/ TryStartInstall

LEMMA CallStep ==
    ASSUME TypeOK, NEW r \in Runs, NEW t \in Tokens, claiming' = claiming,
           \/ JobGone \/ JobCancelled(r, t) \/ JobFailed(r, t)
           \/ JobStoreError(r, t)
           \/ JobHandedOut(r, t) /\ (OverlappingCalls \/ <<r, t>> \notin limbo)
           \/ \E s \in Outcomes(r) : CompleteRun(r, t, s)
    PROVE  RowStep \/ LimboStep \/ OtherStep
<1>0. clock \in Nat
  BY DEF TypeOK
<1>1. CASE JobGone
  BY <1>1 DEF JobGone, OtherStep, dbVars, gateVars
<1>2. CASE JobCancelled(r, t) \/ JobFailed(r, t)
  <2>1. Ended(r)
    BY <1>2, CallEffect
  <2> QED
    BY <1>0, <1>2, <2>1 DEF RowStep, RowEffect, JobCancelled, JobFailed, gateVars
<1>3. CASE JobStoreError(r, t)
  BY <1>3 DEF JobStoreError, LimboStep, dbVars, gateVars
<1>4. CASE JobHandedOut(r, t) /\ (OverlappingCalls \/ <<r, t>> \notin limbo)
  <2>1. HandedOut(r) /\ row[r].token = t
    BY <1>4, CallEffect
  <2> QED
    BY <1>0, <1>4, <2>1 DEF RowStep, RowEffect, JobHandedOut, gateVars
<1>5. CASE \E s \in Outcomes(r) : CompleteRun(r, t, s)
  <2>1. Ended(r)
    BY <1>5, CallEffect
  <2> QED
    BY <1>0, <1>5, <2>1 DEF RowStep, RowEffect, CompleteRun, gateVars
<1> QED
  BY <1>1, <1>2, <1>3, <1>4, <1>5

LEMMA StepEffect ==
    ASSUME TypeOK, [Next]_vars
    PROVE  RowStep \/ LockStep \/ ClaimStep \/ LimboStep \/ OtherStep
<1>0. clock \in Nat /\ clock + 1 \in Nat /\ clock + 1 >= clock /\ clock >= clock
  BY DEF TypeOK
<1>1. ASSUME NEW r \in Runs, QueueRunBegin(r) \/ QueueRunCommit(r) PROVE RowStep
  <2>1. (Begun(r) \/ Queued(r)) /\ clock' = clock + 1
    BY <1>1, TriggerEffect DEF Queued
  <2> QED
    BY <1>0, <1>1, <2>1 DEF RowStep, RowEffect, QueueRunBegin, QueueRunCommit, gateVars
<1>2. ASSUME NEW r \in Runs, ReleaseWaitingRun(r) PROVE RowStep
  <2>1. Touched(r) \/ Ended(r)
    BY <1>2, TriggerEffect
  <2> QED
    BY <1>0, <1>2, <2>1 DEF RowStep, RowEffect, ReleaseWaitingRun, gateVars
<1>3. ASSUME NEW r \in Runs, CancelRun(r) \/ DeleteReference(r) PROVE RowStep
  <2>1. Flagged(r) \/ Ended(r) \/ Touched(r)
    BY <1>3, UserEffect
  <2> QED
    BY <1>0, <1>3, <2>1 DEF RowStep, RowEffect, CancelRun, DeleteReference, gateVars
<1>4. ASSUME NEW r \in Runs, LeaseExpires(r) PROVE RowStep
  <2>1. Touched(r)
    BY <1>4, LeaseEffect DEF LeaseExpires
  <2> QED
    BY <1>0, <1>4, <2>1 DEF RowStep, RowEffect, LeaseExpires, gateVars
<1>5. ASSUME NEW r \in Runs,
             ReapLost(r) \/ ReapTimedOut(r) \/ ReapCancelled(r) \/ ReapUnrunnable(r)
      PROVE  RowStep
  <2>1. Ended(r)
    BY <1>5, ReapEffect
  <2> QED
    BY <1>0, <1>5, <2>1 DEF RowStep, RowEffect, Reap, ReapLost, ReapTimedOut, ReapCancelled,
                            ReapUnrunnable, gateVars
<1>6. ASSUME NEW r \in Runs, WaitRunsOut(r) PROVE OtherStep
  BY <1>6 DEF OtherStep, WaitRunsOut, dbVars, gateVars
<1>7. ASSUME NEW w \in Workers, ClaimSelect(w) \/ ClaimConflict(w) PROVE LockStep
  BY <1>7 DEF LockStep, ClaimSelect, ClaimConflict, dbVars, gateVars
<1>8. ASSUME NEW w \in Workers, ClaimUnrunnable(w) PROVE ClaimStep
  <2>1. claiming[w] \in Runs /\ ClaimFailed(w, claiming[w])
    BY <1>8, ClaimEffect DEF ClaimUnrunnable
  <2> QED
    BY <1>8, <2>1 DEF ClaimStep, ClaimUnrunnable, gateVars
<1>9. ASSUME NEW w \in Workers, NEW t \in Tokens, NEW d \in BOOLEAN, ClaimGranted(w, t, d)
      PROVE  ClaimStep
  <2>1. claiming[w] \in Runs /\ Claimed(w, claiming[w], t)
    BY <1>9, ClaimEffect DEF ClaimGranted
  <2> QED
    BY <1>9, <2>1 DEF ClaimStep, ClaimGranted, gateVars
<1>10. ASSUME NEW w \in Workers, FetchJob(w) PROVE RowStep \/ LimboStep \/ OtherStep
  <2>1. held[w].run \in Runs /\ held[w].token \in Tokens
    BY <1>10, HeldTypes DEF FetchJob
  <2> QED
    BY <1>10, <2>1, CallStep DEF FetchJob
<1>11. ASSUME NEW w \in Workers, Heartbeat(w) PROVE RowStep
  <2>1. held[w].run \in Runs
    BY <1>11, HeldTypes DEF Heartbeat
  <2>2. Touched(held[w].run)
    BY <1>11, <2>1, LeaseEffect DEF Heartbeat
  <2> QED
    BY <1>0, <1>11, <2>1, <2>2 DEF RowStep, RowEffect, Heartbeat, gateVars
<1>12. ASSUME NEW w \in Workers, HeartbeatGone(w) \/ Abandon(w) PROVE OtherStep
  BY <1>12 DEF OtherStep, HeartbeatGone, Abandon, dbVars, gateVars
<1>13. ASSUME NEW w \in Workers, Complete(w) PROVE RowStep \/ LimboStep \/ OtherStep
  <2>1. held[w].run \in Runs /\ held[w].token \in Tokens
    BY <1>13, HeldTypes DEF Complete
  <2> QED
    BY <1>13, <2>1, CallStep DEF Complete
<1>14. ASSUME NEW q \in late, LateRequest(q) PROVE RowStep \/ LimboStep \/ OtherStep
  <2>1. q.run \in Runs /\ q.token \in Tokens
    BY DEF TypeOK, Request
  <2> QED
    BY <1>14, <2>1, CallStep DEF LateRequest
<1>15. ASSUME NEW p \in limbo, StoreDown(p[1], p[2]) PROVE RowStep \/ OtherStep
  <2>1. p[1] \in Runs
    BY DEF TypeOK
  <2>2. CASE Owns(p[1], p[2])
    <3>1. Ended(p[1]) \/ Requeued(p[1])
      BY <1>15, <2>1, <2>2, StoreDownEffect DEF StoreDown
    <3> QED
      BY <1>0, <1>15, <2>1, <3>1 DEF RowStep, RowEffect, StoreDown, gateVars
  <2>3. CASE ~Owns(p[1], p[2])
    BY <1>15, <2>3 DEF OtherStep, StoreDown, gateVars
  <2> QED
    BY <2>2, <2>3
<1>16. ASSUME NEW i \in Inventories, DeleteInventory(i) PROVE OtherStep
  BY <1>16 DEF OtherStep, DeleteInventory, gateVars
<1>17. CASE CreateInstall \/ TryStartInstall \/ RunInstallEnds
  BY <1>17 DEF OtherStep, CreateInstall, TryStartInstall, RunInstallEnds, dbVars
<1>18. CASE StoreFails \/ StoreRecovers \/ ProbeSecretStore \/ HoldLapses
  BY <1>18 DEF OtherStep, StoreFails, StoreRecovers, ProbeSecretStore, HoldLapses,
               dbVars, gateVars
<1>19. CASE UNCHANGED vars
  BY <1>19 DEF OtherStep, vars, dbVars, gateVars
<1> QED
  BY <1>1, <1>2, <1>3, <1>4, <1>5, <1>6, <1>7, <1>8, <1>9, <1>10, <1>11, <1>12, <1>13,
     <1>14, <1>15, <1>16, <1>17, <1>18, <1>19 DEF Next

-----------------------------------------------------------------------------
(* The inductive invariant of the queue. *)

\* A claim's row lock keeps its run in the queue, and two claims never lock
\* the same row: without it a claim could commit over a cancelled run.
LockInv ==
    /\ \A w \in Workers : claiming[w] # NoRun => Is(claiming[w], "queued")
    /\ \A w, v \in Workers : claiming[w] # NoRun /\ claiming[w] = claiming[v] => w = v

\* The gate is held exclusively while an install runs.
GateInv ==
    install = "running" => /\ \A w \in Workers : claiming[w] = NoRun
                           /\ \A r \in Runs : ~Is(r, "running")

\* A run that was not claimed yet carries no cancel.
CancelInv ==
    \A r \in Runs : row[r].status \in {"absent", "inserting", "queued"} => ~row[r].cancel

\* A committed row arrived in the past.
ArrivalInv ==
    \A r \in Runs : row[r].status \notin {"absent", "inserting"} => row[r].arrival < clock

\* q was queued, and its row committed, before r's.
Before(q, r) == row[q].queuedAt < row[r].queuedAt /\ row[q].arrival < row[r].arrival

\* What the claim query saw stays true until its transaction commits: nothing
\* that could come back to the queue is ahead of the run it locked.
OrderInv ==
    \A w \in Workers : claiming[w] # NoRun =>
        \A q \in Runs : SameInventory(claiming[w], q) /\ row[q].status \in Active
                          => ~Before(q, claiming[w])

QueueInv == /\ TypeOK /\ LockInv /\ GateInv /\ CancelInv /\ ArrivalInv
            /\ OneRunningPerInventory /\ InQueueOrder /\ OrderInv

LEMMA QueueInit == Init => QueueInv
<1> SUFFICES ASSUME Init PROVE QueueInv
  OBVIOUS
<1>1. /\ \A r \in Runs : row[r].status = "absent" /\ row[r].cancel = FALSE
      /\ \A w \in Workers : claiming[w] = NoRun
      /\ install = "none"
  BY DEF Init, AbsentRow
<1> QED
  BY <1>1, TypeInit
     DEF QueueInv, LockInv, GateInv, CancelInv, ArrivalInv, OneRunningPerInventory,
         InQueueOrder, OrderInv, Is

\* The places of two rows are comparable numbers.
LEMMA PlaceTypes ==
    ASSUME TypeOK
    PROVE  \A r \in Runs : /\ row[r].queuedAt \in Nat /\ row[r].arrival \in Nat
                           /\ row[r].status \in Status /\ row[r] \in Row
                           /\ InventoryOf[r] \in Inventories
BY QueueAssumption DEF TypeOK, Row

LEMMA RowStepSafe == ASSUME QueueInv, RowStep, TypeOK' PROVE QueueInv'
<1>0. PICK r \in Runs : RowEffect(r)
  BY DEF RowStep
<1>1. /\ claiming' = claiming /\ goneInv' = goneInv /\ install' = install
      /\ clock' \in Nat /\ clock' >= clock /\ clock \in Nat
      /\ claiming \in [Workers -> Runs \union {NoRun}]
      /\ NoRun \notin Runs
  BY QueueAssumption DEF RowStep, QueueInv, TypeOK
<1>2. /\ \A q \in Runs \ {r} : row'[q] = row[q]
      /\ \A q \in Runs : row[q] \in Row /\ row'[q] \in Row
      /\ \A q \in Runs : /\ row[q].queuedAt \in Nat /\ row[q].arrival \in Nat
                         /\ row'[q].queuedAt \in Nat /\ row'[q].arrival \in Nat
  BY <1>0 DEF RowEffect, Begun, Queued, Touched, Flagged, Ended, Requeued, HandedOut, Only,
              QueueInv, TypeOK, Row
\* A row that is running was running; one that is queued was queued, or was
\* just committed, or went back.
<1>3. /\ row'[r].status = "running" => row[r].status = "running"
      /\ row[r].status \in {"inserting", "absent"}
           => row'[r].status \in {"absent", "inserting", "queued"}
  BY <1>0 DEF RowEffect, Begun, Queued, Touched, Flagged, Ended, Requeued, HandedOut, Is,
              Alike, Finished
<1>4. Locked(r) => row'[r].status = row[r].status
  BY <1>0, <1>1 DEF RowEffect, Begun, Queued, Touched, Flagged, Ended, Requeued, HandedOut,
                    Is, Alike, QueueInv, LockInv, Locked
<1>5. row'[r].status \notin {"absent", "inserting"} => row'[r].arrival < clock'
  <2>1. CASE Queued(r)
    BY <1>1, <2>1 DEF Queued
  <2>2. CASE ~Queued(r)
    <3>1. CASE row'[r].status \in {"absent", "inserting"}
      BY <3>1
    <3>2. CASE row'[r].status \notin {"absent", "inserting"}
      <4>1. row'[r].arrival = row[r].arrival
            /\ row[r].status \notin {"absent", "inserting"}
        BY <1>0, <2>2, <3>2
           DEF RowEffect, Begun, Touched, Flagged, Ended, Requeued, HandedOut, Is, Alike, Kept
      <4> QED
        BY <1>1, <1>2, <4>1 DEF QueueInv, ArrivalInv
    <3> QED
      BY <3>1, <3>2
  <2> QED
    BY <2>1, <2>2
<1>6. /\ row'[r].status \in Active /\ row[r].status \in Active
           => row'[r].queuedAt = row[r].queuedAt /\ row'[r].arrival = row[r].arrival
      /\ row'[r].status \in Active /\ row[r].status \notin Active
           => row'[r].status = "queued" /\ row'[r].arrival = clock
  BY <1>0 DEF RowEffect, Begun, Queued, Touched, Flagged, Ended, Requeued, HandedOut, Is,
              Alike, Kept, Active, Finished
<1>7. LockInv'
  BY <1>1, <1>2, <1>4 DEF QueueInv, LockInv, Locked, Is
<1>8. GateInv'
  BY <1>1, <1>2, <1>3 DEF QueueInv, GateInv, Is
<1>9. CancelInv'
  BY <1>0, <1>2 DEF QueueInv, CancelInv, RowEffect, Begun, Queued, Touched, Flagged, Ended,
                    Requeued, HandedOut, Is, Alike, Finished
<1>10. ArrivalInv'
  BY <1>1, <1>2, <1>5 DEF QueueInv, ArrivalInv
<1>11. OneRunningPerInventory'
  BY <1>1, <1>2, <1>3 DEF QueueInv, OneRunningPerInventory, SameInventory, InvGone, Is
<1>12. OrderInv'
  BY <1>1, <1>2, <1>4, <1>6
     DEF QueueInv, OrderInv, ArrivalInv, LockInv, SameInventory, InvGone, Before, Locked, Active, Is
<1>13. InQueueOrder'
  <2> SUFFICES ASSUME NEW a \in Runs, NEW b \in Runs,
                      SameInventory(a, b)', Is(a, "running")', Is(b, "queued")'
               PROVE  ~Before(b, a)'
    BY DEF InQueueOrder, Before
  <2>1. SameInventory(a, b) /\ a # b /\ Is(a, "running")
    BY <1>1, <1>2, <1>3 DEF SameInventory, InvGone, Is
  <2>2. row'[a].queuedAt = row[a].queuedAt /\ row'[a].arrival = row[a].arrival
    BY <1>2, <1>6, <2>1 DEF Active, Is
  <2>3. row[a].arrival < clock
    BY <2>1 DEF QueueInv, ArrivalInv, Is
  <2>4. CASE row[b].status = "queued"
    BY <1>2, <1>6, <2>1, <2>2, <2>4 DEF QueueInv, InQueueOrder, Before, Active, Is
  <2>5. CASE row[b].status = "running"
    BY <2>1, <2>5 DEF QueueInv, OneRunningPerInventory, Is
  <2>6. CASE row[b].status \notin Active
    BY <1>1, <1>2, <1>6, <2>2, <2>3, <2>6 DEF Before, Active, Is
  <2> QED
    BY <2>4, <2>5, <2>6 DEF Active
<1> QED
  BY <1>7, <1>8, <1>9, <1>10, <1>11, <1>12, <1>13 DEF QueueInv

LEMMA LockStepSafe == ASSUME QueueInv, LockStep, TypeOK' PROVE QueueInv'
<1>0. PICK w \in Workers : ClaimSelect(w) \/ ClaimConflict(w)
  BY DEF LockStep
<1>1. /\ row' = row /\ clock' = clock /\ goneInv' = goneInv /\ install' = install
      /\ claiming \in [Workers -> Runs \union {NoRun}]
      /\ NoRun \notin Runs
  BY QueueAssumption DEF LockStep, QueueInv, TypeOK
<1>2. CancelInv' /\ ArrivalInv' /\ OneRunningPerInventory' /\ InQueueOrder'
  BY <1>1 DEF QueueInv, CancelInv, ArrivalInv, OneRunningPerInventory, InQueueOrder,
              SameInventory, InvGone, Is
<1>3. CASE ClaimConflict(w)
  <2>1. claiming' = [claiming EXCEPT ![w] = NoRun]
    BY <1>3 DEF ClaimConflict
  <2> QED
    BY <1>1, <1>2, <2>1
       DEF QueueInv, LockInv, GateInv, OrderInv, SameInventory, InvGone, Before, Is
<1>4. CASE ClaimSelect(w)
  <2>1. PICK r \in Runs : Selected(w, r) /\ claiming' = [claiming EXCEPT ![w] = r]
    BY <1>4 DEF ClaimSelect
  <2>2. /\ install = "none" /\ Candidate(w, r) /\ ~Locked(r)
    BY <1>4, <2>1 DEF ClaimSelect, Selected
  <2>3. LockInv'
    BY <1>1, <2>1, <2>2 DEF QueueInv, LockInv, Candidate, Locked, Is
  <2>4. GateInv'
    BY <1>1, <2>2 DEF GateInv
  <2>5. OrderInv'
    <3>1. \A q \in Runs : SameInventory(r, q) /\ row[q].status \in Active => ~Before(q, r)
      BY <2>2 DEF Candidate, Before, Active, Is
    <3> QED
      BY <1>1, <2>1, <3>1 DEF QueueInv, OrderInv, SameInventory, InvGone, Before
  <2> QED
    BY <1>2, <2>3, <2>4, <2>5 DEF QueueInv
<1> QED
  BY <1>0, <1>3, <1>4

LEMMA ClaimStepSafe == ASSUME QueueInv, ClaimStep, TypeOK' PROVE QueueInv'
<1>0. PICK w \in Workers, r \in Runs :
        /\ ClaimFailed(w, r) \/ \E t \in Tokens : Claimed(w, r, t)
        /\ claiming' = [claiming EXCEPT ![w] = NoRun]
        /\ UNCHANGED <<clock, goneInv, install, limbo>>
  BY DEF ClaimStep
<1>1. /\ claiming \in [Workers -> Runs \union {NoRun}] /\ NoRun \notin Runs
      /\ claiming[w] = r /\ Is(r, "queued")
      /\ \A v \in Workers \ {w} : claiming'[v] = claiming[v] /\ claiming[v] # r
      /\ claiming'[w] = NoRun
  BY <1>0, QueueAssumption DEF QueueInv, TypeOK, LockInv, ClaimFailed, Claimed
<1>2. /\ \A q \in Runs \ {r} : row'[q] = row[q]
      /\ row'[r].queuedAt = row[r].queuedAt /\ row'[r].arrival = row[r].arrival
      /\ row'[r].status \in Finished \union {"running"}
      /\ row'[r].status = "running" => ~UniqueViolation(r)
  BY <1>0 DEF ClaimFailed, Claimed, Only, Kept, Finished
<1>3. install # "running"
  BY <1>1 DEF QueueInv, GateInv
<1>4. LockInv'
  BY <1>1, <1>2 DEF QueueInv, LockInv, Is
<1>5. GateInv'
  BY <1>0, <1>3 DEF GateInv
<1>6. CancelInv'
  BY <1>2 DEF QueueInv, CancelInv, Finished
<1>7. ArrivalInv'
  BY <1>0, <1>1, <1>2 DEF QueueInv, ArrivalInv, Is
<1>8. OneRunningPerInventory'
  BY <1>0, <1>2 DEF QueueInv, OneRunningPerInventory, UniqueViolation, SameInventory,
                    InvGone, Is
<1>9. InQueueOrder'
  <2> SUFFICES ASSUME NEW a \in Runs, NEW b \in Runs,
                      SameInventory(a, b)', Is(a, "running")', Is(b, "queued")'
               PROVE  ~Before(b, a)'
    BY DEF InQueueOrder, Before
  <2>1. b # r /\ Is(b, "queued") /\ SameInventory(a, b)
    BY <1>0, <1>2 DEF SameInventory, InvGone, Is, Finished
  <2>2. CASE a = r
    BY <1>1, <1>2, <2>1, <2>2 DEF QueueInv, OrderInv, Before, Active, Is
  <2>3. CASE a # r
    BY <1>2, <2>1, <2>3 DEF QueueInv, InQueueOrder, Before, Is
  <2> QED
    BY <2>2, <2>3
<1>10. OrderInv'
  <2> SUFFICES ASSUME NEW v \in Workers, claiming'[v] # NoRun, NEW q \in Runs,
                      SameInventory(claiming[v], q)', row'[q].status \in Active,
                      claiming'[v] = claiming[v]
               PROVE  ~Before(q, claiming[v])'
    BY <1>1 DEF OrderInv
  <2>1. claiming[v] # r /\ claiming[v] \in Runs /\ row[q].status \in Active
    BY <1>1, <1>2 DEF Active, Is
  <2> QED
    BY <1>0, <1>2, <2>1 DEF QueueInv, OrderInv, Before, SameInventory, InvGone
<1> QED
  BY <1>4, <1>5, <1>6, <1>7, <1>8, <1>9, <1>10 DEF QueueInv

LEMMA OtherStepSafe == ASSUME QueueInv, LimboStep \/ OtherStep, TypeOK' PROVE QueueInv'
<1>1. /\ row' = row /\ clock' = clock /\ claiming' = claiming /\ goneInv \subseteq goneInv'
  BY DEF LimboStep, OtherStep
<1>2. GateInv'
  BY <1>1 DEF QueueInv, GateInv, LimboStep, OtherStep, TryStartInstall, Is
<1> QED
  BY <1>1, <1>2 DEF QueueInv, LockInv, CancelInv, ArrivalInv, OneRunningPerInventory,
                    InQueueOrder, OrderInv, SameInventory, InvGone, Before, Is

LEMMA QueueStep == QueueInv /\ [Next]_vars => QueueInv'
<1> SUFFICES ASSUME QueueInv, [Next]_vars PROVE QueueInv'
  OBVIOUS
<1>1. TypeOK /\ TypeOK'
  BY TypeStep DEF QueueInv
<1> QED
  BY <1>1, StepEffect, RowStepSafe, LockStepSafe, ClaimStepSafe, OtherStepSafe

LEMMA QueueInvariant == Spec => []QueueInv
BY QueueInit, QueueStep, PTL DEF Spec

\* However many claims race, two runs of one inventory are never running at
\* the same time.
THEOREM OneRunning == Spec => []OneRunningPerInventory
<1>1. QueueInv => OneRunningPerInventory
  BY DEF QueueInv
<1> QED
  BY <1>1, QueueInvariant, PTL

\* The roles and collections are never installed under a running run.
THEOREM GateHolds == Spec => []InstallExcludesRuns
<1>1. QueueInv => InstallExcludesRuns
  BY DEF QueueInv, GateInv, InstallExcludesRuns
<1> QED
  BY <1>1, QueueInvariant, PTL

\* A run never overtakes one of its inventory that was queued and committed
\* before it, requeued runs included.
THEOREM OrderKept == Spec => []InQueueOrder
<1>1. QueueInv => InQueueOrder
  BY DEF QueueInv
<1> QED
  BY <1>1, QueueInvariant, PTL

\* A cancelled run never waits in the queue again.
THEOREM CancelKept == Spec => []CancelNotLost
<1>1. QueueInv => CancelNotLost
  BY DEF QueueInv, CancelInv, CancelNotLost, Is
<1> QED
  BY <1>1, QueueInvariant, PTL

\* No step of any handler, slot or reaper pass changes how a run ended.
THEOREM EndedStays == Spec => EndedIsFinal
<1>1. ASSUME QueueInv, [Next]_vars
      PROVE  \A r \in Runs : row[r].status \in Finished => row'[r].status = row[r].status
  <2>1. TypeOK
    BY <1>1 DEF QueueInv
  <2>2. CASE RowStep
    BY <2>2 DEF RowStep, RowEffect, Begun, Queued, Touched, Flagged, Ended, Requeued,
                HandedOut, Only, Alike, Is, Finished
  <2>3. CASE ClaimStep
    BY <1>1, <2>3, QueueAssumption
       DEF ClaimStep, ClaimFailed, Claimed, Only, QueueInv, LockInv, Is, Finished
  <2>4. CASE LockStep \/ LimboStep \/ OtherStep
    BY <2>4 DEF LockStep, LimboStep, OtherStep
  <2> QED
    BY <1>1, <2>1, <2>2, <2>3, <2>4, StepEffect
<1> QED
  BY <1>1, QueueInvariant, PTL DEF Spec, EndedIsFinal

-----------------------------------------------------------------------------
(* One owner per run. *)

\* Two slots never hold the same claim token: a fresh one is nobody's.
HeldInv ==
    \A w, v \in Workers :
        /\ held[w].phase # "idle" /\ held[v].phase # "idle" /\ held[w].token = held[v].token
        => w = v

LEMMA HeldStep == ASSUME TypeOK, HeldInv, [Next]_vars PROVE HeldInv'
<1>0. /\ held \in [Workers -> Task \union {Idle}]
      /\ Idle.phase = "idle"
  BY DEF TypeOK, Idle
<1>1. CASE held' = held
  BY <1>1 DEF HeldInv
<1>2. ASSUME NEW w \in Workers, held' = [held EXCEPT ![w] = Idle] PROVE HeldInv'
  BY <1>0, <1>2 DEF HeldInv
<1>3. ASSUME NEW w \in Workers, held[w].phase = "fetching",
             held' = [held EXCEPT ![w].phase = "executing"]
      PROVE  HeldInv'
  <2>1. held[w] \in Task
    BY <1>3, HeldTypes
  <2>2. held'[w].token = held[w].token /\ \A v \in Workers \ {w} : held'[v] = held[v]
    BY <1>0, <1>3, <2>1 DEF Task
  <2> QED
    BY <1>3, <2>2 DEF HeldInv
<1>4. ASSUME NEW w \in Workers, NEW t \in Tokens, NEW d \in BOOLEAN, ClaimGranted(w, t, d)
      PROVE  HeldInv'
  <2>1. CASE ~d
    BY <1>1, <1>4, <2>1 DEF ClaimGranted
  <2>2. CASE d
    <3>1. /\ held' = [held EXCEPT ![w] = [run |-> claiming[w], token |-> t,
                                          phase |-> "fetching"]]
          /\ \A v \in Workers : held[v].token # t
      BY <1>4, <2>2, SMTT(40) DEF ClaimGranted, Fresh, InUse
    <3> QED
      BY <1>0, <3>1 DEF HeldInv
  <2> QED
    BY <2>1, <2>2
<1>5. \/ held' = held
      \/ \E w \in Workers : held' = [held EXCEPT ![w] = Idle]
      \/ \E w \in Workers : /\ held[w].phase = "fetching"
                            /\ held' = [held EXCEPT ![w].phase = "executing"]
      \/ \E w \in Workers, t \in Tokens, d \in BOOLEAN : ClaimGranted(w, t, d)
  BY DEF Next, vars, QueueRunBegin, QueueRunCommit, ReleaseWaitingRun, CancelRun,
         DeleteReference, LeaseExpires, ReapLost, ReapTimedOut, ReapCancelled,
         ReapUnrunnable, Reap, WaitRunsOut, ClaimSelect, ClaimConflict, ClaimUnrunnable,
         FetchJob, Heartbeat, HeartbeatGone, Complete, Abandon, LateRequest, StoreDown,
         DeleteInventory, CreateInstall, TryStartInstall, RunInstallEnds, StoreFails,
         StoreRecovers, ProbeSecretStore, HoldLapses
<1> QED
  BY <1>1, <1>2, <1>3, <1>4, <1>5

\* Whatever answers are lost and whoever is re-claimed, at most one slot can
\* still renew, fetch or end a run.
THEOREM SingleOwner == Spec => []OneOwner
<1>1. Init => HeldInv
  BY DEF Init, HeldInv, Idle
<1>2. TypeOK /\ HeldInv /\ [Next]_vars => HeldInv'
  BY HeldStep
<1>3. HeldInv => OneOwner
  BY DEF HeldInv, OneOwner, Owns
<1> QED
  BY <1>1, <1>2, <1>3, TypeCorrect, PTL DEF Spec

-----------------------------------------------------------------------------
(* The job is handed out once, if the API never handles two job calls of one *)
(* claim at the same time.                                                   *)

\* A run has not been handed out while it waits, nor while its job token is
\* still good; a job handler between its two transactions acts for a run whose
\* job is still to be handed out.
JobInv ==
    /\ \A r \in Runs :
         /\ row[r].status \in {"absent", "inserting", "queued"} => row[r].handed = 0
         /\ Is(r, "running") /\ row[r].jobToken => row[r].handed = 0
         /\ row[r].handed < 2
    /\ \A r \in Runs, t \in Tokens : <<r, t>> \in limbo /\ Owns(r, t) => row[r].jobToken

LEMMA JobInit == Init => JobInv
BY DEF Init, JobInv, AbsentRow, Owns, Is

LEMMA JobStep ==
    ASSUME QueueInv, JobInv, [Next]_vars, ~OverlappingCalls
    PROVE  JobInv'
<1>0. /\ \A r \in Runs : row[r] \in Row /\ row[r].handed \in 0..2
      /\ limbo \subseteq Runs \X Tokens /\ TypeOK
  BY DEF QueueInv, TypeOK, Row
<1>1. CASE RowStep
  <2>0. PICK r \in Runs : RowEffect(r)
    BY <1>1 DEF RowStep
  <2>1. /\ limbo' \subseteq limbo
        /\ \A q \in Runs \ {r} : row'[q] = row[q]
    BY <1>1, <2>0 DEF RowStep, RowEffect, Begun, Queued, Touched, Flagged, Ended, Requeued,
                      HandedOut, Only
  <2>2. Requeued(r) => row[r].handed = 0
    BY <1>0 DEF Requeued, JobInv, Owns
  <2>3. HandedOut(r) => row[r].handed = 0 /\ row'[r].handed = 1
    BY DEF HandedOut, JobInv, Is
  <2>4. /\ row'[r].status \in {"absent", "inserting", "queued"} => row'[r].handed = 0
        /\ row'[r].status = "running" /\ row'[r].jobToken => row'[r].handed = 0
        /\ row'[r].handed < 2
    BY <2>0, <2>2, <2>3 DEF RowEffect, Begun, Queued, Touched, Flagged, Ended, Requeued,
                            HandedOut, Is, Alike, Kept, Finished, JobInv
  <2>5. ASSUME NEW t \in Tokens, <<r, t>> \in limbo, Owns(r, t)' PROVE row'[r].jobToken
    BY <2>0, <2>5 DEF RowEffect, Begun, Queued, Touched, Flagged, Ended, Requeued, HandedOut,
                      Is, Owns, Alike, Finished, JobInv
  <2> QED
    BY <2>1, <2>4, <2>5 DEF JobInv, Is, Owns
<1>2. CASE ClaimStep
  <2>0. PICK w \in Workers, r \in Runs :
          /\ ClaimFailed(w, r) \/ \E t \in Tokens : Claimed(w, r, t)
          /\ UNCHANGED limbo
    BY <1>2 DEF ClaimStep
  <2>1. /\ \A q \in Runs \ {r} : row'[q] = row[q]
        /\ row'[r].handed = row[r].handed
        /\ row'[r].status \in Finished \/ (row'[r].status = "running" /\ row'[r].jobToken)
    BY <2>0 DEF ClaimFailed, Claimed, Only, Kept
  <2>2. row[r].handed = 0
    BY <2>0, QueueAssumption DEF ClaimFailed, Claimed, QueueInv, LockInv, JobInv, Is
  <2> QED
    BY <2>0, <2>1, <2>2 DEF JobInv, Is, Owns, Finished
<1>3. CASE LockStep \/ OtherStep
  BY <1>3 DEF LockStep, OtherStep, JobInv, Is, Owns
<1>4. CASE LimboStep
  BY <1>4 DEF LimboStep, JobInv, JobTokenValid, Is, Owns
<1> QED
  BY <1>0, <1>1, <1>2, <1>3, <1>4, StepEffect

\* One job call of a claim at a time is enough for a job to be handed out at
\* most once, over all claims of its run; without it the run
\* RunQueue_overlap shows the second hand-out.
THEOREM HandedOutOnce == ~OverlappingCalls /\ Spec => []JobHandedOutOnce
<1>1. ASSUME ~OverlappingCalls PROVE QueueInv /\ JobInv /\ [Next]_vars => JobInv'
  BY <1>1, JobStep
<1>2. JobInv => JobHandedOutOnce
  BY DEF JobInv, JobHandedOutOnce
<1>3. CASE OverlappingCalls
  BY <1>3
<1>4. CASE ~OverlappingCalls
  <2>1. QueueInv /\ JobInv /\ [Next]_vars => JobInv'
    BY <1>1, <1>4
  <2> QED
    BY <2>1, <1>2, JobInit, QueueInvariant, PTL DEF Spec
<1> QED
  BY <1>3, <1>4

\* Under the same condition a run in the queue was never handed out: nothing
\* that may already execute is claimed again.
THEOREM NotRequeuedOnceStarted == ~OverlappingCalls /\ Spec => []QueuedBeforeHandedOut
<1>1. ASSUME ~OverlappingCalls PROVE QueueInv /\ JobInv /\ [Next]_vars => JobInv'
  BY <1>1, JobStep
<1>2. JobInv => QueuedBeforeHandedOut
  BY DEF JobInv, QueuedBeforeHandedOut, Is
<1>3. CASE OverlappingCalls
  BY <1>3
<1>4. CASE ~OverlappingCalls
  <2>1. QueueInv /\ JobInv /\ [Next]_vars => JobInv'
    BY <1>1, <1>4
  <2> QED
    BY <2>1, <1>2, JobInit, QueueInvariant, PTL DEF Spec
<1> QED
  BY <1>3, <1>4

\* requeue_run and cancel_run: what waits in the queue can be started afresh.
THEOREM QueuedRunsAreFresh == ~OverlappingCalls /\ Spec => []QueuedAfresh
BY CancelKept, NotRequeuedOnceStarted, PTL DEF QueuedAfresh

-----------------------------------------------------------------------------
(* The queue implements RunLifecycle.                                      *)

\* The run that holds inventory i in the table rw.
Holder(rw, g, i) ==
    IF i \notin g /\ \E r \in Runs : InventoryOf[r] = i /\ rw[r].status = "running"
    THEN CHOOSE r \in Runs : InventoryOf[r] = i /\ rw[r].status = "running"
    ELSE NoRun

\* The table rw has at most one running run per inventory that is not in g.
Single(rw, g) ==
    \A r, q \in Runs : /\ r # q /\ InventoryOf[q] = InventoryOf[r] /\ InventoryOf[r] \notin g
                       => ~(rw[r].status = "running" /\ rw[q].status = "running")

LEMMA HolderIsRunning ==
    ASSUME NEW rw, NEW g, Single(rw, g), NEW r \in Runs, rw[r].status = "running",
           InventoryOf[r] \notin g
    PROVE  Holder(rw, g, InventoryOf[r]) = r
<1>1. PICK q \in Runs : /\ InventoryOf[q] = InventoryOf[r] /\ rw[q].status = "running"
                        /\ Holder(rw, g, InventoryOf[r]) = q
  BY DEF Holder
<1> QED
  BY <1>1 DEF Single

LEMMA HolderIsNone ==
    ASSUME NEW rw, NEW g, NEW i,
           i \in g \/ \A r \in Runs : InventoryOf[r] = i => rw[r].status # "running"
    PROVE  Holder(rw, g, i) = NoRun
BY DEF Holder

LEMMA HolderKept ==
    ASSUME NEW rw, NEW rv, NEW g, NEW i,
           \A r \in Runs : InventoryOf[r] = i =>
                (rw[r].status = "running" <=> rv[r].status = "running")
    PROVE  Holder(rw, g, i) = Holder(rv, g, i)
<1> DEFINE P(r) == InventoryOf[r] = i /\ rw[r].status = "running"
           Q(r) == InventoryOf[r] = i /\ rv[r].status = "running"
<1>1. \A r \in Runs : P(r) <=> Q(r)
  OBVIOUS
<1>2. (CHOOSE r \in Runs : P(r)) = (CHOOSE r \in Runs : Q(r))
  BY <1>1
<1> QED
  BY <1>1, <1>2 DEF Holder

LEMMA HolderHolds ==
    ASSUME NEW rw, NEW g, NEW i
    PROVE  LET h == Holder(rw, g, i)
           IN  h = NoRun \/ (h \in Runs /\ InventoryOf[h] = i /\ rw[h].status = "running")
BY DEF Holder

\* rv is rw but for r's row.
OtherRows(rw, rv, r) == \A q \in Runs \ {r} : rv[q] = rw[q]

\* A run that stops running, or never ran, gives up what it held.
LEMMA HolderReleased ==
    ASSUME NEW rw, NEW rv, NEW g, NEW r \in Runs, NEW i, Single(rw, g),
           OtherRows(rw, rv, r), rv[r].status # "running"
    PROVE  Holder(rv, g, i) = IF Holder(rw, g, i) = r THEN NoRun ELSE Holder(rw, g, i)
<1>0. NoRun \notin Runs
  BY QueueAssumption
<1>1. CASE InventoryOf[r] = i /\ rw[r].status = "running" /\ i \notin g
  <2>1. Holder(rw, g, i) = r
    BY <1>1, HolderIsRunning
  <2>2. \A q \in Runs : InventoryOf[q] = i => rv[q].status # "running"
    BY <1>1 DEF Single, OtherRows
  <2> QED
    BY <2>1, <2>2, HolderIsNone
<1>2. CASE i \in g
  BY <1>0, <1>2, HolderIsNone
<1>3. CASE InventoryOf[r] # i \/ rw[r].status # "running"
  <2>1. Holder(rw, g, i) = Holder(rv, g, i)
    BY <1>3, HolderKept DEF OtherRows
  <2>2. Holder(rw, g, i) # r
    BY <1>0, <1>3, HolderHolds
  <2> QED
    BY <2>1, <2>2
<1> QED
  BY <1>1, <1>2, <1>3

\* The phase of a row.
Phase(x) ==
    CASE x.status \in {"absent", "inserting"} -> "new"
      [] x.status = "queued" -> "waiting"
      [] x.status = "running" /\ x.handed = 0 -> "claimed"
      [] x.status = "running" /\ x.handed # 0 -> "started"
      [] OTHER -> "ended"

LEMMA PhaseValues ==
    ASSUME NEW x
    PROVE  /\ x.status \in {"absent", "inserting"} => Phase(x) = "new"
           /\ x.status = "queued" => Phase(x) = "waiting"
           /\ x.status = "running" /\ x.handed = 0 => Phase(x) = "claimed"
           /\ x.status = "running" /\ x.handed # 0 => Phase(x) = "started"
           /\ x.status \in Finished => Phase(x) = "ended"
BY DEF Phase, Finished

phases(rw)     == [r \in Runs |-> Phase(rw[r])]
holders(rw, g) == [i \in Inventories |-> Holder(rw, g, i)]

\* The refinement mapping, before and after a step.
LEMMA Mapping ==
    /\ [r \in Runs |-> PhaseOf(r)] = phases(row)
    /\ [r \in Runs |-> PhaseOf(r)'] = phases(row')
    /\ [i \in Inventories |-> HolderOf(i)] = holders(row, goneInv)
    /\ [i \in Inventories |-> HolderOf(i)'] = holders(row', goneInv')
<1>1. /\ \A r \in Runs : PhaseOf(r) = Phase(row[r]) /\ PhaseOf(r)' = Phase(row'[r])
  BY DEF PhaseOf, Phase, Is
<1>2. \A i \in Inventories : /\ HolderOf(i) = Holder(row, goneInv, i)
                             /\ HolderOf(i)' = Holder(row', goneInv', i)
  BY DEF HolderOf, Holder, Is
<1> QED
  BY <1>1, <1>2 DEF phases, holders

LEMMA PhaseOfOne ==
    ASSUME NEW rw, NEW rv, NEW r \in Runs, OtherRows(rw, rv, r)
    PROVE  phases(rv) = [phases(rw) EXCEPT ![r] = Phase(rv[r])]
BY DEF phases, OtherRows

\* The holders when r gave up what it held.
Released(h, r) == [i \in Inventories |-> IF h[i] = r THEN NoRun ELSE h[i]]

LEMMA HoldersReleased ==
    ASSUME NEW rw, NEW rv, NEW g, NEW r \in Runs, Single(rw, g),
           OtherRows(rw, rv, r), rv[r].status # "running"
    PROVE  holders(rv, g) = Released(holders(rw, g), r)
BY HolderReleased DEF holders, Released

LEMMA HoldersKept ==
    ASSUME NEW rw, NEW rv, NEW g, NEW r \in Runs, OtherRows(rw, rv, r),
           rw[r].status = "running" <=> rv[r].status = "running"
    PROVE  holders(rv, g) = holders(rw, g)
<1>1. \A i \in Inventories : Holder(rw, g, i) = Holder(rv, g, i)
  BY HolderKept DEF OtherRows
<1> QED
  BY <1>1 DEF holders

\* What the abstract actions ask for, in terms of the mapping.
LEMMA AbstractStutter ==
    ASSUME goneInv' = goneInv, phases(row') = phases(row),
           holders(row', goneInv) = holders(row, goneInv)
    PROVE  UNCHANGED Lifecycle!vars
BY Mapping DEF Lifecycle!vars

\* The run moves from one phase to another.
Moves(r, from, to) == /\ phases(row)[r] = from /\ goneInv' = goneInv
                      /\ phases(row') = [phases(row) EXCEPT ![r] = to]

LEMMA AbstractSubmit ==
    ASSUME NEW r \in Runs, Moves(r, "new", "waiting"),
           holders(row', goneInv) = holders(row, goneInv)
    PROVE  Lifecycle!Next
<1>1. Lifecycle!Submit(r)
  BY Mapping DEF Moves, Lifecycle!Submit, Lifecycle!Move
<1> QED
  BY <1>1 DEF Lifecycle!Next

LEMMA AbstractClaim ==
    ASSUME NEW r \in Runs, Moves(r, "waiting", "claimed"), InventoryOf[r] \notin goneInv,
           holders(row, goneInv)[InventoryOf[r]] = NoRun,
           holders(row', goneInv) = [holders(row, goneInv) EXCEPT ![InventoryOf[r]] = r]
    PROVE  Lifecycle!Next
<1>1. Lifecycle!Claim(r)
  BY Mapping DEF Moves, Lifecycle!Claim, Lifecycle!Move
<1> QED
  BY <1>1 DEF Lifecycle!Next

LEMMA AbstractStart ==
    ASSUME NEW r \in Runs, Moves(r, "claimed", "started"),
           holders(row', goneInv) = holders(row, goneInv)
    PROVE  Lifecycle!Next
<1>1. Lifecycle!Start(r)
  BY Mapping DEF Moves, Lifecycle!Start, Lifecycle!Move
<1> QED
  BY <1>1 DEF Lifecycle!Next

LEMMA AbstractGiveBack ==
    ASSUME NEW r \in Runs, Moves(r, "claimed", "waiting"),
           holders(row', goneInv) = Released(holders(row, goneInv), r)
    PROVE  Lifecycle!Next
<1>1. Lifecycle!GiveBack(r)
  BY Mapping DEF Moves, Released, Lifecycle!GiveBack, Lifecycle!Move, Lifecycle!Release
<1> QED
  BY <1>1 DEF Lifecycle!Next

LEMMA AbstractEnd ==
    ASSUME NEW r \in Runs, NEW from \in {"waiting", "claimed", "started"},
           Moves(r, from, "ended"),
           holders(row', goneInv) = Released(holders(row, goneInv), r)
    PROVE  Lifecycle!Next
<1>1. Lifecycle!End(r)
  BY Mapping DEF Moves, Released, Lifecycle!End, Lifecycle!Release
<1> QED
  BY <1>1 DEF Lifecycle!Next

\* Queueing, ending, requeueing and handing out are steps of the abstract life
\* cycle; a heartbeat, a cancel that is only recorded and the rest are none.
LEMMA RowStepRefines ==
    ASSUME QueueInv, JobInv, RowStep
    PROVE  Lifecycle!Next \/ UNCHANGED Lifecycle!vars
<1>0. PICK r \in Runs : RowEffect(r)
  BY DEF RowStep
<1>1. /\ goneInv' = goneInv /\ OtherRows(row, row', r) /\ Single(row, goneInv)
  BY <1>0 DEF RowStep, RowEffect, Begun, Queued, Touched, Flagged, Ended, Requeued, HandedOut,
              Only, OtherRows, QueueInv, OneRunningPerInventory, Single, SameInventory,
              InvGone, Is
<1>2. Moves(r, Phase(row[r]), Phase(row'[r]))
  BY <1>1, PhaseOfOne DEF phases, Moves
<1>3. CASE Begun(r) \/ Touched(r) \/ Flagged(r)
  <2>1. /\ row[r].status = "running" <=> row'[r].status = "running"
        /\ Phase(row'[r]) = Phase(row[r])
    BY <1>3 DEF Begun, Touched, Flagged, Alike, Kept, Is, Phase
  <2>2. phases(row') = phases(row)
    BY <1>2, <2>1 DEF phases, Moves
  <2>3. holders(row', goneInv) = holders(row, goneInv)
    BY <1>1, <2>1, HoldersKept
  <2> QED
    BY <1>1, <2>2, <2>3, AbstractStutter
<1>4. CASE Queued(r)
  <2>1. row[r].status = "inserting" /\ row'[r].status = "queued"
    BY <1>4 DEF Queued, Is
  <2>2. Phase(row[r]) = "new" /\ Phase(row'[r]) = "waiting"
    BY <2>1, PhaseValues
  <2>3. holders(row', goneInv) = holders(row, goneInv)
    BY <1>1, <2>1, HoldersKept
  <2> QED
    BY <1>2, <2>2, <2>3, AbstractSubmit
<1>5. CASE Ended(r)
  <2>1. row[r].status \in Active /\ row'[r].status \in Finished /\ row'[r].status # "running"
    BY <1>5 DEF Ended, Is, Active, Finished
  <2>2. Phase(row[r]) \in {"waiting", "claimed", "started"} /\ Phase(row'[r]) = "ended"
    BY <2>1, PhaseValues DEF Active
  <2>3. holders(row', goneInv) = Released(holders(row, goneInv), r)
    BY <1>1, <2>1, HoldersReleased
  <2> QED
    BY <1>2, <2>2, <2>3, AbstractEnd
<1>6. CASE Requeued(r)
  <2>1. row[r].handed = 0 /\ row[r].status = "running" /\ row'[r].status = "queued"
    BY <1>6 DEF Requeued, JobInv, Owns, Is, QueueInv, TypeOK
  <2>2. Phase(row[r]) = "claimed" /\ Phase(row'[r]) = "waiting"
    BY <2>1, PhaseValues
  <2>3. holders(row', goneInv) = Released(holders(row, goneInv), r)
    BY <1>1, <2>1, HoldersReleased
  <2> QED
    BY <1>2, <2>2, <2>3, AbstractGiveBack
<1>7. CASE HandedOut(r)
  <2>1. /\ row[r].handed = 0 /\ row[r].status = "running"
        /\ row'[r].handed = 1 /\ row'[r].status = "running"
    BY <1>7 DEF HandedOut, JobInv, Is
  <2>2. Phase(row[r]) = "claimed" /\ Phase(row'[r]) = "started"
    BY <2>1, PhaseValues
  <2>3. holders(row', goneInv) = holders(row, goneInv)
    BY <1>1, <2>1, HoldersKept
  <2> QED
    BY <1>2, <2>2, <2>3, AbstractStart
<1> QED
  BY <1>0, <1>3, <1>4, <1>5, <1>6, <1>7 DEF RowEffect

LEMMA ClaimStepRefines ==
    ASSUME QueueInv, JobInv, ClaimStep
    PROVE  Lifecycle!Next
<1>0. PICK w \in Workers, r \in Runs :
        /\ ClaimFailed(w, r) \/ \E t \in Tokens : Claimed(w, r, t)
        /\ goneInv' = goneInv
  BY DEF ClaimStep
<1>1. /\ OtherRows(row, row', r) /\ Single(row, goneInv)
      /\ row[r].status = "queued" /\ row[r].handed = 0 /\ row'[r].handed = 0
  BY <1>0, QueueAssumption
     DEF ClaimFailed, Claimed, Only, Kept, OtherRows, QueueInv, LockInv, JobInv,
         OneRunningPerInventory, Single, SameInventory, InvGone, Is
<1>2. Moves(r, "waiting", Phase(row'[r]))
  BY <1>0, <1>1, PhaseOfOne, PhaseValues DEF phases, Moves
<1>3. CASE ClaimFailed(w, r)
  <2>1. row'[r].status \in Finished /\ row'[r].status # "running"
    BY <1>3 DEF ClaimFailed, Finished
  <2>2. Phase(row'[r]) = "ended"
    BY <2>1, PhaseValues
  <2>3. holders(row', goneInv) = Released(holders(row, goneInv), r)
    BY <1>1, <2>1, HoldersReleased
  <2> QED
    BY <1>2, <2>2, <2>3, AbstractEnd
<1>4. CASE \E t \in Tokens : Claimed(w, r, t)
  <2> DEFINE j == InventoryOf[r]
             h == holders(row, goneInv)
  <2>1. /\ row'[r].status = "running" /\ j \notin goneInv /\ j \in Inventories
        /\ \A q \in Runs : InventoryOf[q] = j => row[q].status # "running"
    BY <1>1, <1>4, QueueAssumption DEF Claimed, UniqueViolation, SameInventory, InvGone, Is
  <2>2. h[j] = NoRun
    BY <2>1, HolderIsNone DEF holders
  <2>3. Single(row', goneInv)
    BY <1>1, <2>1 DEF Single, OtherRows
  <2>4. Holder(row', goneInv, j) = r
    BY <2>1, <2>3, HolderIsRunning
  <2>5. \A i \in Inventories \ {j} : Holder(row', goneInv, i) = Holder(row, goneInv, i)
    BY <1>1, HolderKept DEF OtherRows
  <2>6. holders(row', goneInv) = [h EXCEPT ![j] = r]
    BY <2>1, <2>4, <2>5 DEF holders
  <2>7. Phase(row'[r]) = "claimed"
    BY <1>1, <2>1, PhaseValues
  <2> QED
    BY <1>2, <2>1, <2>2, <2>6, <2>7, AbstractClaim
<1> QED
  BY <1>0, <1>3, <1>4

LEMMA OtherStepRefines ==
    ASSUME QueueInv, LockStep \/ LimboStep \/ OtherStep
    PROVE  Lifecycle!Next \/ UNCHANGED Lifecycle!vars
<1>1. CASE goneInv' = goneInv
  <2>1. row' = row
    BY DEF LockStep, LimboStep, OtherStep
  <2> QED
    BY <1>1, <2>1, Mapping DEF Lifecycle!vars
<1>2. CASE \E i \in Inventories : goneInv' = goneInv \union {i}
  <2>1. row' = row
    BY DEF LockStep, LimboStep, OtherStep
  <2>2. PICK i \in Inventories : goneInv' = goneInv \union {i}
    BY <1>2
  <2>3. Holder(row, goneInv', i) = NoRun
    BY <2>2, HolderIsNone
  <2>4. \A j \in Inventories \ {i} : Holder(row, goneInv', j) = Holder(row, goneInv, j)
    BY <2>2 DEF Holder
  <2>5. holders(row', goneInv') = [holders(row, goneInv) EXCEPT ![i] = NoRun]
    BY <2>1, <2>3, <2>4 DEF holders
  <2>6. Lifecycle!Remove(i)
    BY <2>1, <2>2, <2>5, Mapping DEF Lifecycle!Remove
  <2> QED
    BY <2>6 DEF Lifecycle!Next
<1> QED
  BY <1>1, <1>2 DEF LockStep, LimboStep, OtherStep

LEMMA LifecycleInit == Init => Lifecycle!Init
<1> SUFFICES ASSUME Init PROVE Lifecycle!Init
  OBVIOUS
<1>1. \A r \in Runs : row[r].status = "absent"
  BY DEF Init, AbsentRow
<1>2. phases(row) = [r \in Runs |-> "new"]
  BY <1>1, PhaseValues DEF phases
<1>3. \A i \in Inventories : Holder(row, goneInv, i) = NoRun
  BY <1>1, HolderIsNone
<1>4. holders(row, goneInv) = [i \in Inventories |-> NoRun]
  BY <1>3 DEF holders
<1> QED
  BY <1>2, <1>4, Mapping DEF Init, Lifecycle!Init

\* Whatever the slots, the reaper, users, lost answers and outages do, a run
\* goes through the abstract life cycle: one holder per inventory, a give-back
\* only before the job was handed out, one hand-out, and a final end.
THEOREM QueueImplementsLifecycle == ~OverlappingCalls /\ Spec => ImplementsLifecycle
<1>1. ASSUME QueueInv, JobInv, [Next]_vars
      PROVE  Lifecycle!Next \/ UNCHANGED Lifecycle!vars
  <2>1. TypeOK
    BY <1>1 DEF QueueInv
  <2> QED
    BY <1>1, <2>1, StepEffect, RowStepRefines, ClaimStepRefines, OtherStepRefines
<1>2. QueueInv /\ JobInv /\ [Next]_vars => [Lifecycle!Next]_(Lifecycle!vars)
  BY <1>1
<1>3. CASE OverlappingCalls
  BY <1>3
<1>4. CASE ~OverlappingCalls
  <2>1. QueueInv /\ JobInv /\ [Next]_vars => JobInv'
    BY <1>4, JobStep
  <2> QED
    BY <1>2, <2>1, JobInit, LifecycleInit, QueueInvariant, PTL
       DEF Spec, ImplementsLifecycle, Lifecycle!Spec
<1> QED
  BY <1>3, <1>4

-----------------------------------------------------------------------------
(* What users are told about a waiting run.                                *)

\* wait_reason asks about the capabilities one after another: that some slot
\* has each must mean that some slot has all of them.
SomeSlotHasAll ==
    /\ Workers # {}
    /\ \A r \in CertRuns : /\ CertWorkers # {} /\ (\E w \in Workers : r \in CanRun[w])
                           => \E w \in CertWorkers : r \in CanRun[w]

\* The claim query's conditions that do not depend on the slot.
Claimable(r) ==
    /\ ~\E q \in Runs : SameInventory(r, q) /\ Is(q, "running")
    /\ row[r].refresh = "none" /\ ~StoreHolds(r)
    /\ ~\E q \in Runs : /\ SameInventory(r, q) /\ Is(q, "queued")
                        /\ row[q].queuedAt < row[r].queuedAt

LEMMA WaitState == ASSUME TypeOK, SomeSlotHasAll PROVE WaitIsExplained
<1> SUFFICES ASSUME NEW r \in Runs, Is(r, "queued")
             PROVE  WaitReason(r) = "worker"
                      <=> install = "none" /\ \E w \in Workers : Candidate(w, r)
  BY DEF WaitIsExplained
<1>0. row[r].refresh \in {"none", "pending"} /\ CertWorkers \subseteq Workers
  BY QueueAssumption DEF TypeOK, Row
<1> DEFINE capable == InvGone(r) \/ \E w \in Workers : r \in CanRun[w]
           certified == r \notin CertRuns \/ row[r].missing = "credential" \/ CertWorkers # {}
<1>1. WaitReason(r) = "worker" <=> install = "none" /\ Claimable(r) /\ capable /\ certified
  BY <1>0 DEF WaitReason, Claimable
<1>2. ASSUME NEW w \in Workers, Candidate(w, r) PROVE Claimable(r) /\ capable /\ certified
  BY <1>2 DEF Candidate, Claimable
<1>3. ASSUME Claimable(r), capable, certified PROVE \E w \in Workers : Candidate(w, r)
  <2>1. \E w \in Workers : /\ r \in CanRun[w] \/ InvGone(r)
                           /\ w \in CertWorkers \/ r \notin CertRuns
                                \/ row[r].missing = "credential"
    BY <1>0, <1>3 DEF SomeSlotHasAll
  <2> QED
    BY <1>3, <2>1 DEF Candidate, Claimable
<1> QED
  BY <1>1, <1>2, <1>3

\* As long as some slot has every capability that some slot has, the wait
\* reason is "worker" exactly for the runs the claim query would give out.
THEOREM WaitsAreExplained == SomeSlotHasAll /\ Spec => []WaitIsExplained
<1>1. CASE SomeSlotHasAll
  <2>1. TypeOK => WaitIsExplained
    BY <1>1, WaitState
  <2> QED
    BY <2>1, TypeCorrect, PTL
<1>2. CASE ~SomeSlotHasAll
  BY <1>2
<1> QED
  BY <1>1, <1>2
=============================================================================
