--------------------------- MODULE Content_proofs ---------------------------
(***************************************************************************)
(* Theorems about where runs get their content from: the refreshes of an   *)
(* inventory's sources and the syncs of a git source, as MCContent         *)
(* composes them.                                                          *)
(***************************************************************************)
EXTENDS MCContent, FiniteSetTheorems, WellFoundedInduction, TLAPS

-----------------------------------------------------------------------------
(* Refreshes.  The properties become inductive with: what was begun when a *)
(* run was triggered stays begun (RunWaits), which is why no refresh that  *)
(* goes back to the queue can be one of those; for each source, which of   *)
(* the refreshes still owes it a run (Owed), where a scope counts only     *)
(* until the job is built and a row only afterwards; and, for each row of  *)
(* a built job, what is known of its output and of edits since (RowOk).    *)

Statuses == {"none", "queued", "running", "success", "failed", "cancelled"}
JobRows == [ran : BOOLEAN, version : None..MaxEdits,
            status : {"none", "failed", "stale", "success"}]
RefreshRows == [status : Statuses, scope : SUBSET Sources,
                stage : {"none", "sources", "combine"}, rows : [Sources -> JobRows]]
SourceRows == [state : {"on", "off", "gone"}, version : 0..MaxEdits, queued : BOOLEAN]
WaitRows == [at : {"new", "waiting", "ready", "failed"}, on : 0..MaxRefreshes, begun : SUBSET Ids]
Snapshots == [by : 0..MaxRefreshes, holds : [Sources -> None..MaxEdits]]

OneOf(status) == \A r, q \in Ids : refresh[r].status = status /\ refresh[q].status = status => r = q

Staged == \A r \in Ids : refresh[r].stage # "none" => refresh[r].status = "running"

RowOk(s, w, stage) ==
    /\ w.ran => w.version \in 0..MaxEdits /\ w.version <= source[s].version
    /\ w.ran /\ w.version # source[s].version => s \notin told
    /\ w.status = "stale" => source[s].state = "gone" \/ w.version # source[s].version
    /\ w.status = "success" /\ w.version = source[s].version /\ source[s].state # "gone"
         => output[s] = w.version
    /\ stage = "combine" /\ w.ran => w.status # "none"
    /\ w.ran \/ w.status = "none"

JobsOk == \A r \in Ids : refresh[r].stage # "none" =>
            \A s \in Sources : RowOk(s, refresh[r].rows[s], refresh[r].stage)

RunWaits(w) ==
    /\ w.begun \subseteq Begun
    /\ w.at = "waiting" => w.on \in Ids /\ refresh[w.on].status \in Active /\ w.on \notin w.begun
    /\ w.at = "ready" => w.on \in Ids /\ refresh[w.on].status = "success" /\ w.on \notin w.begun

\* A refresh that will run the source, or runs it as it is.
Serves(r, s) ==
    /\ refresh[r].status \in Active
    /\ IF refresh[r].stage = "none" THEN s \in refresh[r].scope ELSE RanAsIs(r, s)

Owed(s) ==
    source[s].state = "on" =>
      \/ ~source[s].queued
      \/ \E r \in Ids : Serves(r, s)
      \/ output[s] = source[s].version
      \/ s \in told

\* What the snapshot holds of a source that is left is in the source's output too.
Backed == ~Legacy => \A s \in Sources :
            snapshot.holds[s] # None /\ source[s].state # "gone" => output[s] # None

RefreshInv ==
    /\ source \in [Sources -> SourceRows]
    /\ output \in [Sources -> None..MaxEdits]
    /\ refresh \in [Ids -> RefreshRows]
    /\ snapshot \in Snapshots
    /\ waiting \in [Runs -> WaitRows]
    /\ unsaid \subseteq Sources \X BOOLEAN /\ told \subseteq Sources
    /\ OneOf("queued") /\ OneOf("running") /\ Staged /\ JobsOk
    /\ \A x \in Runs : RunWaits(waiting[x])
    /\ \A s \in Sources : Owed(s)
    /\ Backed

\* The ranges of the bounds.
LEMMA RefreshFacts ==
    /\ MaxEdits \in Nat /\ MaxRefreshes \in Nat /\ Ids \subseteq Nat /\ 0 \notin Ids
    /\ None \in Int /\ None \notin Nat /\ None \in None..MaxEdits /\ 0..MaxEdits \subseteq None..MaxEdits
BY RefreshAssumption DEF Ids, None

\* The rows a refresh begins with.
LEMMA NoRefreshTyped ==
    /\ NoRow \in JobRows /\ NoRow.ran = FALSE /\ NoRow.status = "none"
    /\ NoRefresh \in RefreshRows /\ NoRefresh.stage = "none"
BY RefreshFacts DEF NoRow, NoRefresh, JobRows, RefreshRows, Statuses

\* A set of natural numbers that is not empty has a least one.
LEMMA Least == ASSUME NEW S \in SUBSET Nat, S # {} PROVE \E x \in S : \A y \in S : x <= y
<1>1. PICK x \in S : \A y \in S : ~(<<y, x>> \in OpToRel(<, Nat))
  BY NatLessThanWellFounded, WFMin
<1>2. \A y \in S : ~(y < x)
  BY <1>1 DEF OpToRel
<1> QED
  BY <1>2

LEMMA RefreshStart == RefreshInit => RefreshInv
<1> SUFFICES ASSUME RefreshInit PROVE RefreshInv
  OBVIOUS
<1> USE RefreshFacts, NoRefreshTyped
<1>1. source \in [Sources -> SourceRows] /\ output \in [Sources -> None..MaxEdits]
  BY DEF RefreshInit, SourceRows
<1>2. refresh \in [Ids -> RefreshRows] /\ \A r \in Ids : refresh[r] = NoRefresh /\ refresh[r].status = "none"
  BY DEF RefreshInit, NoRefresh
<1>3. snapshot \in Snapshots
  BY DEF RefreshInit, Snapshots
<1>4. waiting \in [Runs -> WaitRows] /\ \A x \in Runs : waiting[x].at = "new" /\ waiting[x].begun = {}
  BY DEF RefreshInit, WaitRows
<1>5. \A s \in Sources : Owed(s)
  BY DEF RefreshInit, Owed
<1>6. Backed
  BY DEF RefreshInit, Backed
<1>7. OneOf("queued") /\ OneOf("running") /\ Staged /\ JobsOk
  BY <1>2 DEF OneOf, Staged, JobsOk
<1>8. \A x \in Runs : RunWaits(waiting[x])
  BY <1>4 DEF RunWaits
<1> QED
  BY <1>1, <1>2, <1>3, <1>4, <1>5, <1>6, <1>7, <1>8 DEF RefreshInv, RefreshInit

\* Where a request goes is a refresh that is queued, or new while none is.
LEMMA PlaceIs ==
    ASSUME RefreshInv, Room
    PROVE  /\ Place \in Ids /\ refresh[Place].stage = "none"
           /\ \/ refresh[Place].status = "queued"
              \/ refresh[Place].status = "none" /\ IdsOf("queued") = {}
<1>1. CASE IdsOf("queued") # {}
  <2>1. Place \in IdsOf("queued")
    BY <1>1 DEF Place
  <2> QED
    BY <2>1 DEF IdsOf, RefreshInv, Staged
<1>2. CASE IdsOf("queued") = {}
  <2>1. IdsOf("none") # {} /\ IdsOf("none") \in SUBSET Nat
    BY <1>2, RefreshFacts DEF Room, IdsOf
  <2>2. \E r \in IdsOf("none") : \A q \in IdsOf("none") : r <= q
    BY <2>1, Least
  <2>3. NewId \in IdsOf("none")
    BY <2>2 DEF NewId
  <2> QED
    BY <1>2, <2>3 DEF Place, IdsOf, RefreshInv, Staged
<1> QED
  BY <1>1, <1>2

\* A refresh that is queued is not one that has begun.
LEMMA QueuedNotBegun ==
    ASSUME RefreshInv, NEW r \in Ids, refresh[r].status \in {"none", "queued"}
    PROVE  r \notin Begun
BY DEF Begun, RefreshInv, Staged

\* Marking sources as queued changes nothing else of them.
LEMMA QueuedRows ==
    ASSUME RefreshInv, NEW marked
    PROVE  /\ Queued(source, marked) \in [Sources -> SourceRows]
           /\ \A s \in Sources : LET q == Queued(source, marked)[s] IN
                /\ q.state = source[s].state /\ q.version = source[s].version
                /\ s \notin marked => q.queued = source[s].queued
<1>1. \A s \in Sources : source[s] \in SourceRows /\ [source[s] EXCEPT !.queued = TRUE] \in SourceRows
  BY DEF RefreshInv, SourceRows
<1> QED
  BY <1>1 DEF Queued, SourceRows

\* A request goes to the queued refresh or a new one, and marks what it asks for.
LEMMA EnqueueKeeps ==
    ASSUME RefreshInv, Room, NEW scope \in SUBSET Sources, NEW marked \in SUBSET scope,
           Enqueue(Place, scope), source' = Queued(source, marked),
           UNCHANGED <<output, snapshot, told>>, unsaid' \subseteq unsaid,
           waiting' \in [Runs -> WaitRows],
           \A x \in Runs : \/ waiting'[x] = waiting[x]
                           \/ waiting'[x].at = "waiting" /\ waiting'[x].on = Place
                              /\ waiting'[x].begun = Begun
    PROVE  RefreshInv'
<1> USE RefreshFacts, NoRefreshTyped
<1>1. PICK p \in Ids : p = Place
  BY PlaceIs
<1>2. /\ refresh[p].stage = "none"
      /\ refresh[p].status = "queued" \/ (refresh[p].status = "none" /\ IdsOf("queued") = {})
  BY <1>1, PlaceIs
<1>3. refresh[p] \in RefreshRows
  BY DEF RefreshInv
<1> DEFINE new == IF refresh[p].status = "queued" THEN [refresh[p] EXCEPT !.scope = refresh[p].scope \union scope]
                  ELSE [NoRefresh EXCEPT !.status = "queued", !.scope = scope]
<1>4. new \in RefreshRows /\ new.status = "queued" /\ new.stage = "none" /\ scope \subseteq new.scope
  BY <1>2, <1>3 DEF RefreshRows, Statuses, NoRefresh
<1>5. refresh[p].status = "queued" => refresh[p].scope \subseteq new.scope
  BY <1>3 DEF RefreshRows
<1>6. refresh' = [refresh EXCEPT ![p] = new]
  BY <1>1 DEF Enqueue, RefreshInv
<1> HIDE DEF new
<1>7. /\ refresh' \in [Ids -> RefreshRows] /\ refresh'[p] = new
      /\ \A q \in Ids \ {p} : refresh'[q] = refresh[q]
  BY <1>4, <1>6 DEF RefreshInv
<1>8. /\ source' \in [Sources -> SourceRows]
      /\ \A s \in Sources : /\ source'[s].state = source[s].state /\ source'[s].version = source[s].version
                            /\ s \notin marked => source'[s].queued = source[s].queued
  BY QueuedRows
<1>9. OneOf("queued")' /\ OneOf("running")'
  <2>1. \A q \in Ids \ {p} : refresh[q].status # "queued"
    BY <1>2 DEF RefreshInv, OneOf, IdsOf
  <2> QED
    BY <1>4, <1>7, <2>1 DEF RefreshInv, OneOf
<1>10. Staged'
  BY <1>4, <1>7 DEF RefreshInv, Staged
<1>11. JobsOk'
  BY <1>4, <1>7, <1>8 DEF RefreshInv, JobsOk, RowOk
<1>12. Begun' = Begun /\ p \notin Begun
  <2>1. p \notin Begun
    BY <1>2, QueuedNotBegun
  <2>2. \A q \in Ids : q \in Begun' <=> q \in Begun
    BY <1>4, <1>7, <2>1 DEF Begun
  <2> QED
    BY <2>1, <2>2 DEF Begun
<1>13. ASSUME NEW x \in Runs PROVE RunWaits(waiting[x])'
  <2>1. RunWaits(waiting[x])
    BY DEF RefreshInv
  <2>2. \A r \in Ids : refresh[r].status \in Active => refresh'[r].status \in Active
    BY <1>4, <1>7 DEF Active
  <2>3. \A r \in Ids : refresh[r].status = "success" => refresh'[r].status = "success"
    BY <1>2, <1>7
  <2>4. CASE waiting'[x] = waiting[x]
    BY <1>12, <2>1, <2>2, <2>3, <2>4 DEF RunWaits
  <2>5. CASE waiting'[x].at = "waiting" /\ waiting'[x].on = p /\ waiting'[x].begun = Begun
    BY <1>4, <1>7, <1>12, <2>5 DEF RunWaits, Active
  <2> QED
    BY <1>1, <2>4, <2>5
<1>14. ASSUME NEW s \in Sources PROVE Owed(s)'
  <2>1. Owed(s)
    BY DEF RefreshInv
  <2>2. s \in scope => Serves(p, s)'
    BY <1>4, <1>7 DEF Serves, Active
  <2>3. ASSUME NEW r \in Ids, Serves(r, s) PROVE Serves(r, s)'
    BY <1>2, <1>4, <1>5, <1>7, <1>8, <2>3 DEF Serves, Active, RanAsIs
  <2> QED
    BY <1>8, <2>1, <2>2, <2>3 DEF Owed
<1>15. Backed'
  BY <1>8 DEF RefreshInv, Backed
<1> QED
  BY <1>7, <1>8, <1>9, <1>10, <1>11, <1>13, <1>14, <1>15 DEF RefreshInv

LEMMA RequestsKeep ==
    ASSUME RefreshInv, \/ \E scope \in SUBSET Sources : RequestRefresh(scope)
                       \/ \E x \in Runs : TriggerRun(x)
    PROVE  RefreshInv'
<1> USE RefreshFacts
<1>1. ASSUME NEW scope \in SUBSET Sources, RequestRefresh(scope) PROVE RefreshInv'
  BY <1>1, EnqueueKeeps DEF RequestRefresh, RefreshInv
<1>2. ASSUME NEW x \in Runs, TriggerRun(x) PROVE RefreshInv'
  <2>1. Enabled(source) \in SUBSET Sources /\ Sources \in SUBSET Sources
    BY DEF Enabled
  <2>2. Place \in Ids /\ Begun \in SUBSET Ids
    BY <1>2, PlaceIs DEF TriggerRun, Begun
  <2> DEFINE w == [at |-> "waiting", on |-> Place, begun |-> Begun]
  <2>3. w \in WaitRows
    BY <2>2 DEF WaitRows, Ids
  <2>4. waiting' = [waiting EXCEPT ![x] = w]
    BY <1>2 DEF TriggerRun, RefreshForRun
  <2>5. waiting' \in [Runs -> WaitRows]
    BY <2>3, <2>4 DEF RefreshInv
  <2>6. \A y \in Runs : \/ waiting'[y] = waiting[y]
                        \/ waiting'[y].at = "waiting" /\ waiting'[y].on = Place
                           /\ waiting'[y].begun = Begun
    BY <2>4 DEF RefreshInv
  <2> QED
    BY <1>2, <2>1, <2>5, <2>6, EnqueueKeeps DEF TriggerRun
<1> QED
  BY <1>1, <1>2

\* A change of the sources while the refreshes stay: no older, and not forgotten.
LEMMA SourceChangeKeeps ==
    ASSUME RefreshInv, UNCHANGED <<refresh, snapshot, waiting>>, NEW s \in Sources, NEW row \in SourceRows,
           source' = [source EXCEPT ![s] = row],
           source[s].version <= row.version, source[s].state = "gone" => row.state = "gone",
           row.version = source[s].version \/ s \notin told',
           row.state = "on" /\ row.queued => row = source[s] /\ UNCHANGED output,
           output' = output \/ (row.state = "gone" /\ output' = [output EXCEPT ![s] = None]),
           told' \subseteq told, told \subseteq told' \union {s},
           s \in told => s \in told' \/ ~row.queued,
           unsaid' \subseteq Sources \X BOOLEAN
    PROVE  RefreshInv'
<1> USE RefreshFacts
<1>1. /\ source' \in [Sources -> SourceRows] /\ source'[s] = row
      /\ \A t \in Sources \ {s} : source'[t] = source[t]
  BY DEF RefreshInv
<1>2. /\ output' \in [Sources -> None..MaxEdits]
      /\ \A t \in Sources : output'[t] = output[t] \/ source'[t].state = "gone"
  BY <1>1 DEF RefreshInv
<1>3. \A t \in Sources : /\ source[t].version \in 0..MaxEdits /\ source'[t].version \in 0..MaxEdits
                         /\ source[t].version <= source'[t].version
  BY <1>1 DEF RefreshInv, SourceRows
<1>4. JobsOk'
  <2> SUFFICES ASSUME NEW r \in Ids, refresh[r].stage # "none", NEW t \in Sources
               PROVE  RowOk(t, refresh[r].rows[t], refresh[r].stage)'
    BY DEF JobsOk
  <2>1. RowOk(t, refresh[r].rows[t], refresh[r].stage)
    BY DEF RefreshInv, JobsOk
  <2>2. refresh[r].rows[t].version \in None..MaxEdits
    BY DEF RefreshInv, RefreshRows, JobRows
  <2>3. refresh[r].rows[t].status \in {"stale", "success"} => refresh[r].rows[t].ran
    BY <2>1 DEF RowOk
  <2>4. source'[t].version = source[t].version \/ t \notin told'
    BY <1>1
  <2> DEFINE w == refresh[r].rows[t]
  <2>5. w.ran => w.version \in 0..MaxEdits /\ w.version <= source'[t].version
    BY <1>3, <2>1, <2>2 DEF RowOk
  <2>6. w.ran /\ w.version # source'[t].version => t \notin told'
    BY <2>1, <2>4 DEF RowOk
  <2>7. w.status = "stale" => source'[t].state = "gone" \/ w.version # source'[t].version
    <3>1. source[t].state = "gone" => source'[t].state = "gone"
      BY <1>1
    <3> QED
      BY <1>3, <2>1, <2>2, <2>3, <3>1 DEF RowOk
  <2>8. w.status = "success" /\ w.version = source'[t].version /\ source'[t].state # "gone"
          => output'[t] = w.version
    <3>1. source[t].state = "gone" => source'[t].state = "gone"
      BY <1>1
    <3>2. w.status = "success" /\ w.version = source'[t].version => w.version = source[t].version
      BY <1>3, <2>1, <2>2, <2>3 DEF RowOk
    <3> QED
      BY <1>2, <2>1, <3>1, <3>2 DEF RowOk
  <2> QED
    BY <2>1, <2>5, <2>6, <2>7, <2>8 DEF RowOk
<1>5. ASSUME NEW t \in Sources PROVE Owed(t)'
  <2>1. Owed(t)
    BY DEF RefreshInv
  <2>2. CASE t # s
    BY <1>1, <1>2, <2>1, <2>2 DEF Owed, Serves, RanAsIs
  <2>3. CASE t = s /\ row.state = "on" /\ row.queued
    BY <1>1, <2>1, <2>3 DEF Owed, Serves, RanAsIs
  <2>4. CASE t = s /\ ~(row.state = "on" /\ row.queued)
    BY <1>1, <2>4 DEF Owed
  <2> QED
    BY <2>2, <2>3, <2>4
<1>6. Backed'
  <2>1. \A t \in Sources : source[t].state = "gone" => source'[t].state = "gone"
    BY <1>1
  <2> QED
    BY <1>2, <2>1 DEF RefreshInv, Backed
<1>7. OneOf("queued")' /\ OneOf("running")' /\ Staged' /\ Begun' = Begun
  BY DEF RefreshInv, OneOf, Staged, Begun
<1>8. \A x \in Runs : RunWaits(waiting[x])'
  BY <1>7 DEF RefreshInv, RunWaits
<1> QED
  BY <1>1, <1>2, <1>4, <1>5, <1>6, <1>7, <1>8 DEF RefreshInv

LEMMA EditsKeep ==
    ASSUME RefreshInv, NEW s \in Sources, EditSource(s) \/ TurnSource(s) \/ DeleteSource(s)
    PROVE  RefreshInv'
<1> USE RefreshFacts
<1>1. source[s] \in SourceRows
  BY DEF RefreshInv
<1>2. CASE EditSource(s)
  <2> DEFINE row == [source[s] EXCEPT !.version = @ + 1, !.queued = FALSE]
  <2>1. source' = [source EXCEPT ![s] = row]
    BY <1>2 DEF EditSource, RefreshInv
  <2>2. /\ row \in SourceRows /\ source[s].version <= row.version /\ row.state = source[s].state
        /\ row.queued = FALSE
    <3>1. source[s].version \in Int /\ source[s].version + 1 \in 0..MaxEdits
      BY <1>1, <1>2 DEF SourceRows, EditSource
    <3>2. row.state = source[s].state /\ row.version = source[s].version + 1 /\ row.queued = FALSE
      BY <1>1 DEF SourceRows
    <3>3. row \in SourceRows
      BY <1>1, <3>1 DEF SourceRows
    <3> QED
      BY <3>1, <3>2, <3>3
  <2>3. unsaid' \subseteq Sources \X BOOLEAN
    <3>1. <<s, TRUE>> \in Sources \X BOOLEAN
      OBVIOUS
    <3> QED
      BY <1>2, <3>1 DEF EditSource, RefreshInv
  <2>4. s \notin told' /\ told' \subseteq told /\ told \subseteq told' \union {s}
    BY <1>2 DEF EditSource
  <2> HIDE DEF row
  <2> QED
    BY <1>2, <2>1, <2>2, <2>3, <2>4, SourceChangeKeeps DEF EditSource
<1>3. CASE TurnSource(s)
  <2> DEFINE row == [source[s] EXCEPT !.state = IF @ = "on" THEN "off" ELSE "on",
                                      !.queued = @ /\ source[s].state = "on"]
  <2>1. source' = [source EXCEPT ![s] = row]
    BY <1>3 DEF TurnSource, RefreshInv
  <2>2. /\ row \in SourceRows /\ row.version = source[s].version
        /\ row.state # "on" \/ ~row.queued
    BY <1>1, <1>3 DEF SourceRows
  <2>3. unsaid' \subseteq Sources \X BOOLEAN
    <3>1. <<s, source[s].state = "off">> \in Sources \X BOOLEAN
      OBVIOUS
    <3> QED
      BY <1>3, <3>1 DEF TurnSource, RefreshInv
  <2>4. source[s].version \in Int /\ source[s].state # "gone" /\ told' = told /\ output' = output
    BY <1>1, <1>3 DEF SourceRows, TurnSource
  <2> HIDE DEF row
  <2> QED
    <3>1. /\ source[s].version <= row.version /\ told' \subseteq told /\ told \subseteq told' \union {s}
          /\ s \in told => s \in told'
          /\ ~(row.state = "on" /\ row.queued)
      BY <2>2, <2>4
    <3>2. UNCHANGED <<refresh, snapshot, waiting>>
      BY <1>3 DEF TurnSource
    <3> QED
      BY <2>1, <2>2, <2>3, <2>4, <3>1, <3>2, SourceChangeKeeps
<1>4. CASE DeleteSource(s)
  <2> DEFINE row == [source[s] EXCEPT !.state = "gone"]
  <2>1. source' = [source EXCEPT ![s] = row]
    BY <1>4 DEF DeleteSource, RefreshInv
  <2>2. row \in SourceRows /\ row.version = source[s].version /\ row.state = "gone"
    BY <1>1 DEF SourceRows
  <2>3. unsaid' \subseteq Sources \X BOOLEAN
    <3>1. <<s, FALSE>> \in Sources \X BOOLEAN
      OBVIOUS
    <3> QED
      BY <1>4, <3>1 DEF DeleteSource, RefreshInv
  <2>4. source[s].version \in Int /\ told' = told /\ output' = [output EXCEPT ![s] = None]
    BY <1>1, <1>4 DEF SourceRows, DeleteSource
  <2> HIDE DEF row
  <2> QED
    <3>1. /\ source[s].version <= row.version /\ told' \subseteq told /\ told \subseteq told' \union {s}
          /\ s \in told => s \in told'
          /\ ~(row.state = "on" /\ row.queued)
      BY <2>2, <2>4
    <3>2. UNCHANGED <<refresh, snapshot, waiting>>
      BY <1>4 DEF DeleteSource
    <3> QED
      BY <2>1, <2>2, <2>3, <2>4, <3>1, <3>2, SourceChangeKeeps
<1> QED
  BY <1>2, <1>3, <1>4

LEMMA ChangesKeep ==
    ASSUME RefreshInv, \/ \E s \in Sources, rerun \in BOOLEAN : SourcesChanged(s, rerun)
                       \/ ApiDies
    PROVE  RefreshInv'
<1> USE RefreshFacts
<1>1. ASSUME NEW s \in Sources, NEW rerun \in BOOLEAN, SourcesChanged(s, rerun) PROVE RefreshInv'
  <2>1. CASE Enabled(source) = {}
    <3>1. /\ snapshot' \in Snapshots /\ UNCHANGED <<source, refresh, output, waiting, told>>
          /\ unsaid' \subseteq unsaid /\ \A t \in Sources : snapshot'.holds[t] = None
      BY <1>1, <2>1 DEF SourcesChanged, Snapshots
    <3>2. Backed'
      BY <3>1 DEF Backed
    <3>3. /\ OneOf("queued")' /\ OneOf("running")' /\ Staged' /\ JobsOk'
          /\ Begun' = Begun /\ \A t \in Sources : Owed(t)'
      BY <3>1 DEF RefreshInv, OneOf, Staged, JobsOk, RowOk, Begun, Owed, Serves, RanAsIs
    <3>4. \A x \in Runs : RunWaits(waiting[x])'
      BY <3>1, <3>3 DEF RefreshInv, RunWaits
    <3> QED
      BY <3>1, <3>2, <3>3, <3>4 DEF RefreshInv
  <2>2. CASE Enabled(source) # {}
    <3> DEFINE scope == IF rerun /\ source[s].state # "gone" THEN {s} ELSE {}
    <3>1. scope \in SUBSET Sources
      OBVIOUS
    <3>2. Room /\ Enqueue(Place, scope) /\ source' = Queued(source, scope)
          /\ UNCHANGED <<snapshot, output, waiting, told>> /\ unsaid' \subseteq unsaid
      BY <1>1, <2>2 DEF SourcesChanged
    <3>3. waiting' \in [Runs -> WaitRows]
      BY <3>2 DEF RefreshInv
    <3> HIDE DEF scope
    <3> QED
      BY <3>1, <3>2, <3>3, EnqueueKeeps
  <2> QED
    BY <2>1, <2>2
<1>2. CASE ApiDies
  <2>1. UNCHANGED <<source, output, refresh, snapshot, waiting, told>> /\ unsaid' = {}
    BY <1>2 DEF ApiDies
  <2>2. /\ OneOf("queued")' /\ OneOf("running")' /\ Staged' /\ JobsOk'
        /\ Begun' = Begun /\ \A t \in Sources : Owed(t)'
    BY <2>1 DEF RefreshInv, OneOf, Staged, JobsOk, RowOk, Begun, Owed, Serves, RanAsIs
  <2>3. (\A x \in Runs : RunWaits(waiting[x])') /\ Backed'
    BY <2>1, <2>2 DEF RefreshInv, RunWaits, Backed
  <2> QED
    BY <2>1, <2>2, <2>3 DEF RefreshInv
<1> QED
  BY <1>1, <1>2

\* A refresh that was not handed out stays one that has not begun.
LEMMA ClaimKeeps == ASSUME RefreshInv, NEW r \in Ids, ClaimRefresh(r) PROVE RefreshInv'
<1> USE RefreshFacts
<1> DEFINE new == [refresh[r] EXCEPT !.status = "running"]
<1>1. refresh[r] \in RefreshRows /\ refresh[r].status = "queued" /\ refresh[r].stage = "none"
  BY DEF ClaimRefresh, RefreshInv, Staged
<1>2. new \in RefreshRows /\ new.status = "running" /\ new.stage = "none" /\ new.scope = refresh[r].scope
  BY <1>1 DEF RefreshRows, Statuses
<1>3. refresh' = [refresh EXCEPT ![r] = new]
  BY DEF ClaimRefresh, RefreshInv
<1> HIDE DEF new
<1>4. /\ refresh' \in [Ids -> RefreshRows] /\ refresh'[r] = new
      /\ \A q \in Ids \ {r} : refresh'[q] = refresh[q]
  BY <1>2, <1>3 DEF RefreshInv
<1>5. UNCHANGED <<source, output, snapshot, waiting, unsaid, told>>
  BY DEF ClaimRefresh
<1>6. OneOf("queued")' /\ OneOf("running")' /\ Staged'
  <2>1. \A q \in Ids : refresh[q].status # "running"
    BY DEF ClaimRefresh, IdsOf
  <2> QED
    BY <1>2, <1>4, <2>1 DEF RefreshInv, OneOf, Staged
<1>7. JobsOk'
  <2> SUFFICES ASSUME NEW q \in Ids, refresh'[q].stage # "none", NEW s \in Sources
               PROVE  RowOk(s, refresh[q].rows[s], refresh[q].stage)'
    BY DEF JobsOk
  <2>1. q # r /\ refresh'[q] = refresh[q]
    BY <1>2, <1>4
  <2>2. RowOk(s, refresh[q].rows[s], refresh[q].stage)
    BY <2>1 DEF RefreshInv, JobsOk
  <2> QED
    BY <1>5, <2>1, <2>2 DEF RowOk
<1>8. Begun' = Begun
  BY <1>1, <1>2, <1>4 DEF Begun
<1>9. \A x \in Runs : RunWaits(waiting[x])'
  BY <1>1, <1>2, <1>4, <1>5, <1>8 DEF RefreshInv, RunWaits, Active
<1>10. ASSUME NEW s \in Sources PROVE Owed(s)'
  <2>1. \A q \in Ids : Serves(q, s) => Serves(q, s)'
    BY <1>1, <1>2, <1>4, <1>5 DEF Serves, Active, RanAsIs
  <2> QED
    BY <1>5, <2>1 DEF RefreshInv, Owed
<1>11. Backed'
  BY <1>5 DEF RefreshInv, Backed
<1> QED
  BY <1>4, <1>5, <1>6, <1>7, <1>9, <1>10, <1>11 DEF RefreshInv

\* The job has a row for every enabled source, as it is now.
LEMMA BuildKeeps == ASSUME RefreshInv, NEW r \in Ids, BuildJob(r) PROVE RefreshInv'
<1> USE RefreshFacts, NoRefreshTyped
<1>1. PICK broken \in SUBSET RunsNow(r) :
         refresh' = [refresh EXCEPT
           ![r].stage = "sources",
           ![r].rows = [s \in Sources |->
              IF s \notin Enabled(source) THEN NoRow
              ELSE [ran |-> s \in RunsNow(r), version |-> source[s].version,
                    status |-> IF s \in broken THEN "failed" ELSE "none"]]]
  BY DEF BuildJob
<1> DEFINE made == [s \in Sources |->
              IF s \notin Enabled(source) THEN NoRow
              ELSE [ran |-> s \in RunsNow(r), version |-> source[s].version,
                    status |-> IF s \in broken THEN "failed" ELSE "none"]]
           new == [refresh[r] EXCEPT !.stage = "sources", !.rows = made]
<1>2. refresh[r] \in RefreshRows /\ refresh[r].status = "running" /\ refresh[r].stage = "none"
  BY DEF BuildJob, RefreshInv
<1>3. \A s \in Sources : source[s].version \in 0..MaxEdits
  BY DEF RefreshInv, SourceRows
<1>4. \A s \in Sources :
        /\ made[s] \in JobRows
        /\ s \notin Enabled(source) => made[s].ran = FALSE /\ made[s].status = "none"
        /\ s \in Enabled(source) => /\ made[s].ran = (s \in RunsNow(r))
                                    /\ made[s].version = source[s].version
                                    /\ made[s].status = IF s \in broken THEN "failed" ELSE "none"
  <2> TAKE s \in Sources
  <2>1. CASE s \notin Enabled(source)
    BY <2>1
  <2>2. CASE s \in Enabled(source)
    <3>1. made[s] = [ran |-> s \in RunsNow(r), version |-> source[s].version,
                     status |-> IF s \in broken THEN "failed" ELSE "none"]
      BY <2>2
    <3>2. (s \in RunsNow(r)) \in BOOLEAN
      OBVIOUS
    <3> QED
      BY <1>3, <2>2, <3>1, <3>2 DEF JobRows
  <2> QED
    BY <2>1, <2>2
<1>5. made \in [Sources -> JobRows]
  BY <1>4
<1>6. refresh' = [refresh EXCEPT ![r] = new]
  BY <1>1 DEF RefreshInv
<1> HIDE DEF made
<1>7. /\ new \in RefreshRows /\ new.status = "running" /\ new.stage = "sources" /\ new.rows = made
  BY <1>2, <1>5 DEF RefreshRows
<1> HIDE DEF new
<1>8. /\ refresh' \in [Ids -> RefreshRows] /\ refresh'[r] = new
      /\ \A q \in Ids \ {r} : refresh'[q] = refresh[q]
  BY <1>6, <1>7 DEF RefreshInv
<1>9. /\ source' \in [Sources -> SourceRows]
      /\ \A s \in Sources : /\ source'[s].state = source[s].state /\ source'[s].version = source[s].version
                            /\ s \notin RunsNow(r) => source'[s].queued = source[s].queued
  BY QueuedRows DEF BuildJob
<1>10. UNCHANGED <<output, snapshot, waiting, unsaid, told>>
  BY DEF BuildJob
<1>11. \A s \in Sources : s \in Enabled(source) <=> source[s].state = "on"
  BY DEF Enabled
<1>12. RunsNow(r) \subseteq Enabled(source)
  BY DEF RunsNow
<1>13. OneOf("queued")' /\ OneOf("running")' /\ Staged'
  BY <1>2, <1>7, <1>8 DEF RefreshInv, OneOf, Staged
<1>14. JobsOk'
  <2>1. ASSUME NEW s \in Sources, NEW w, w = made[s] PROVE RowOk(s, w, "sources")'
    <3>1. made[s].ran => s \in Enabled(source) /\ made[s].version = source[s].version
      BY <1>4
    <3>2. made[s].status \in {"none", "failed"}
      BY <1>4
    <3>3. made[s].ran \/ made[s].status = "none"
      BY <1>4, <1>12
    <3>4. made[s].ran => made[s].version \in 0..MaxEdits /\ made[s].version <= source'[s].version
      BY <1>3, <1>9, <3>1
    <3> QED
      BY <1>9, <2>1, <3>1, <3>2, <3>3, <3>4 DEF RowOk
  <2>2. ASSUME NEW q \in Ids, q # r, refresh'[q].stage # "none", NEW s \in Sources
        PROVE  RowOk(s, refresh[q].rows[s], refresh[q].stage)'
    <3>1. RowOk(s, refresh[q].rows[s], refresh[q].stage)
      BY <1>8, <2>2 DEF RefreshInv, JobsOk
    <3> QED
      BY <1>8, <1>9, <1>10, <2>2, <3>1 DEF RowOk
  <2>3. ASSUME NEW s \in Sources PROVE RowOk(s, refresh[r].rows[s], refresh[r].stage)'
    <3>1. PICK w : w = made[s]
      OBVIOUS
    <3>2. RowOk(s, w, "sources")'
      BY <2>1, <3>1
    <3> QED
      BY <1>7, <1>8, <3>1, <3>2 DEF RowOk
  <2> QED
    BY <2>2, <2>3 DEF JobsOk
<1>15. Begun \subseteq Begun'
  BY <1>2, <1>8 DEF Begun
<1>16. \A x \in Runs : RunWaits(waiting[x])'
  BY <1>2, <1>7, <1>8, <1>10, <1>15 DEF RefreshInv, RunWaits, Active
<1>17. ASSUME NEW s \in Sources, source[s].state = "on" PROVE Owed(s)'
  <2>1. Owed(s)
    BY DEF RefreshInv
  <2>2. CASE s \in RunsNow(r)
    <3>1. made[s].ran = TRUE /\ made[s].version = source[s].version
      BY <1>4, <1>11, <1>17, <2>2
    <3>2. Serves(r, s)'
      BY <1>7, <1>8, <1>9, <3>1 DEF Serves, RanAsIs, Active
    <3> QED
      BY <3>2 DEF Owed
  <2>3. CASE s \notin RunsNow(r)
    <3>1. source[s].queued /\ s \notin refresh[r].scope
      BY <1>11, <1>17, <2>3 DEF RunsNow
    <3>2. ASSUME NEW q \in Ids, Serves(q, s) PROVE q # r
      BY <1>2, <3>1, <3>2 DEF Serves
    <3>3. ASSUME NEW q \in Ids, Serves(q, s) PROVE Serves(q, s)'
      BY <1>8, <1>9, <3>2, <3>3 DEF Serves, RanAsIs
    <3> QED
      BY <1>9, <1>10, <1>17, <2>1, <3>1, <3>3 DEF Owed
  <2> QED
    BY <2>2, <2>3
<1>18. \A s \in Sources : Owed(s)'
  BY <1>9, <1>17 DEF Owed
<1>19. Backed'
  BY <1>9, <1>10 DEF RefreshInv, Backed
<1> QED
  BY <1>8, <1>9, <1>10, <1>13, <1>14, <1>16, <1>18, <1>19 DEF RefreshInv

\* Back into the queue, or into the refresh queued meanwhile, with the runs.
LEMMA RequeueKeeps == ASSUME RefreshInv, NEW r \in Ids, RequeueRefresh(r) PROVE RefreshInv'
<1> USE RefreshFacts, NoRefreshTyped
<1>1. refresh[r] \in RefreshRows /\ refresh[r].status = "running" /\ refresh[r].stage = "none"
  BY DEF RequeueRefresh, RefreshInv
<1>2. UNCHANGED <<source, output, snapshot, unsaid, told>>
  BY DEF RequeueRefresh
<1>3. Backed'
  BY <1>2 DEF RefreshInv, Backed
<1>4. r \notin Begun
  BY <1>1 DEF Begun
<1>5. CASE IdsOf("queued") = {}
  <2> DEFINE new == [refresh[r] EXCEPT !.status = "queued"]
  <2>1. new \in RefreshRows /\ new.status = "queued" /\ new.stage = "none" /\ new.scope = refresh[r].scope
    BY <1>1 DEF RefreshRows, Statuses
  <2>2. refresh' = [refresh EXCEPT ![r] = new] /\ waiting' = waiting
    BY <1>5 DEF RequeueRefresh, RefreshInv
  <2> HIDE DEF new
  <2>3. /\ refresh' \in [Ids -> RefreshRows] /\ refresh'[r] = new
        /\ \A q \in Ids \ {r} : refresh'[q] = refresh[q]
    BY <2>1, <2>2 DEF RefreshInv
  <2>4. OneOf("queued")' /\ OneOf("running")' /\ Staged'
    <3>1. \A q \in Ids : refresh[q].status # "queued"
      BY <1>5 DEF IdsOf
    <3> QED
      BY <1>1, <2>1, <2>3, <3>1 DEF RefreshInv, OneOf, Staged
  <2>5. JobsOk' /\ Begun' = Begun
    <3>1. JobsOk'
      BY <1>2, <2>1, <2>3 DEF RefreshInv, JobsOk, RowOk
    <3>2. Begun' = Begun
      BY <1>1, <2>1, <2>3 DEF Begun
    <3> QED
      BY <3>1, <3>2
  <2>6. \A x \in Runs : RunWaits(waiting[x])'
    BY <1>1, <2>1, <2>2, <2>3, <2>5 DEF RefreshInv, RunWaits, Active
  <2>7. ASSUME NEW s \in Sources PROVE Owed(s)'
    <3>1. \A q \in Ids : Serves(q, s) => Serves(q, s)'
      BY <1>1, <1>2, <2>1, <2>3 DEF Serves, Active, RanAsIs
    <3> QED
      BY <1>2, <3>1 DEF RefreshInv, Owed
  <2> QED
    BY <1>2, <1>3, <2>2, <2>3, <2>4, <2>5, <2>6, <2>7 DEF RefreshInv
<1>6. CASE IdsOf("queued") # {}
  <2>1. PICK p \in Ids : p = Place /\ refresh[p].status = "queued" /\ refresh[p].stage = "none"
    BY <1>6, PlaceIs DEF Room
  <2>2. p # r /\ refresh[p] \in RefreshRows
    BY <1>1, <2>1 DEF RefreshInv
  <2> DEFINE wide == [refresh[p] EXCEPT !.scope = refresh[p].scope \union refresh[r].scope]
             gone == [NoRefresh EXCEPT !.status = "cancelled"]
  <2>3. /\ wide \in RefreshRows /\ wide.status = "queued" /\ wide.stage = "none"
        /\ refresh[p].scope \subseteq wide.scope /\ refresh[r].scope \subseteq wide.scope
    BY <1>1, <2>1, <2>2 DEF RefreshRows
  <2>4. gone \in RefreshRows /\ gone.status = "cancelled" /\ gone.stage = "none"
    BY DEF RefreshRows, Statuses, NoRefresh
  <2>5. refresh' = [refresh EXCEPT ![p] = wide, ![r] = gone] /\ waiting' = MoveRuns(r, p)
    BY <1>6, <2>1 DEF RequeueRefresh, RefreshInv
  <2> HIDE DEF wide, gone
  <2>6. /\ refresh' \in [Ids -> RefreshRows] /\ refresh'[p] = wide /\ refresh'[r] = gone
        /\ \A q \in Ids \ {p, r} : refresh'[q] = refresh[q]
    BY <2>2, <2>3, <2>4, <2>5 DEF RefreshInv
  <2>7. OneOf("queued")' /\ OneOf("running")' /\ Staged'
    BY <2>1, <2>3, <2>4, <2>6 DEF RefreshInv, OneOf, Staged
  <2>8. JobsOk'
    BY <1>2, <2>3, <2>4, <2>6 DEF RefreshInv, JobsOk, RowOk
  <2>9. Begun' = Begun /\ p \notin Begun
    BY <1>1, <2>1, <2>3, <2>4, <2>6 DEF Begun
  <2>10. ASSUME NEW x \in Runs
         PROVE  /\ waiting'[x] \in WaitRows /\ waiting'[x].at = waiting[x].at
                /\ waiting'[x].begun = waiting[x].begun
                /\ waiting'[x].on = IF waiting[x].at = "waiting" /\ waiting[x].on = r THEN p
                                    ELSE waiting[x].on
    <3>1. waiting[x] \in WaitRows /\ p \in 0..MaxRefreshes
      BY DEF RefreshInv, Ids
    <3>2. waiting'[x] = IF waiting[x].at = "waiting" /\ waiting[x].on = r
                        THEN [waiting[x] EXCEPT !.on = p] ELSE waiting[x]
      BY <2>5 DEF MoveRuns
    <3> QED
      BY <3>1, <3>2 DEF WaitRows
  <2>11. waiting' \in [Runs -> WaitRows]
    BY <2>5, <2>10 DEF MoveRuns
  <2>12. ASSUME NEW x \in Runs PROVE RunWaits(waiting[x])'
    <3>1. RunWaits(waiting[x])
      BY DEF RefreshInv
    <3>2. waiting[x].begun \subseteq Begun
      BY <3>1 DEF RunWaits
    <3>3. CASE waiting[x].at = "waiting" /\ waiting[x].on = r
      BY <2>3, <2>6, <2>9, <2>10, <3>2, <3>3 DEF RunWaits, Active
    <3>4. CASE ~(waiting[x].at = "waiting" /\ waiting[x].on = r)
      <4>1. waiting'[x].on = waiting[x].on
        BY <2>10, <3>4
      <4>2. waiting[x].at \in {"waiting", "ready"} => waiting[x].on # r
        BY <1>1, <3>1, <3>4 DEF RunWaits
      <4>3. \A q \in Ids \ {r} : refresh'[q].status = refresh[q].status
        BY <2>1, <2>3, <2>6
      <4> QED
        BY <2>9, <2>10, <3>1, <4>1, <4>2, <4>3 DEF RunWaits
    <3> QED
      BY <3>3, <3>4
  <2>13. ASSUME NEW s \in Sources PROVE Owed(s)'
    <3>1. ASSUME NEW q \in Ids, Serves(q, s) PROVE \E o \in Ids : Serves(o, s)'
      <4>1. CASE q \in {p, r}
        <5>1. s \in wide.scope
          BY <1>1, <2>1, <2>3, <3>1, <4>1 DEF Serves
        <5>2. Serves(p, s)'
          BY <2>3, <2>6, <5>1 DEF Serves, Active
        <5> QED
          BY <5>2
      <4>2. CASE q \notin {p, r}
        <5>1. Serves(q, s)'
          BY <1>2, <2>6, <3>1, <4>2 DEF Serves, RanAsIs
        <5> QED
          BY <5>1
      <4> QED
        BY <4>1, <4>2
    <3> QED
      BY <1>2, <3>1 DEF RefreshInv, Owed
  <2> QED
    BY <1>2, <1>3, <2>6, <2>7, <2>8, <2>11, <2>12, <2>13 DEF RefreshInv
<1> QED
  BY <1>5, <1>6

\* A refresh ends: what it ran as it is shows its output or its failure.
LEMMA EndsKeep ==
    ASSUME RefreshInv, NEW r \in Ids, refresh[r].status = "running",
           NEW status \in {"success", "failed"}, NEW made \in BOOLEAN,
           NEW job \in [Sources -> JobRows], Ends(r, status, job, made),
           NEW marked, source' = Queued(source, marked),
           output' \in [Sources -> None..MaxEdits], snapshot' \in Snapshots, unsaid' = unsaid, Backed',
           \A s \in Sources : source[s].state # "gone" /\ output[s] = source[s].version
                                 => output'[s] = source[s].version,
           refresh[r].stage = "none" => status = "failed",
           refresh[r].stage # "none" => \A s \in Sources : RanAsIs(r, s) =>
                                            job[s].ran /\ job[s].version = source[s].version,
           \A s \in Sources : s \in marked => /\ status = "failed"
                                              /\ job[s].ran /\ job[s].version = source[s].version,
           status = "success" => \A s \in Sources : job[s].ran /\ source[s].state = "on" =>
                                     IF job[s].version = source[s].version
                                     THEN output'[s] = source[s].version ELSE s \notin told
    PROVE  RefreshInv'
<1> USE RefreshFacts, NoRefreshTyped
<1> DEFINE over == [NoRefresh EXCEPT !.status = status]
<1>1. over \in RefreshRows /\ over.status = status /\ over.stage = "none"
  BY DEF RefreshRows, Statuses, NoRefresh
<1>2. refresh' = [refresh EXCEPT ![r] = over]
  BY DEF Ends
<1> HIDE DEF over
<1>3. /\ refresh' \in [Ids -> RefreshRows] /\ refresh'[r] = over
      /\ \A q \in Ids \ {r} : refresh'[q] = refresh[q]
  BY <1>1, <1>2 DEF RefreshInv
<1>4. /\ source' \in [Sources -> SourceRows]
      /\ \A s \in Sources : /\ source'[s].state = source[s].state /\ source'[s].version = source[s].version
                            /\ s \notin marked => source'[s].queued = source[s].queued
  BY QueuedRows
<1>5. \A q \in Ids \ {r} : refresh[q].status # "running" /\ refresh[q].stage = "none"
  BY DEF RefreshInv, OneOf, Staged
<1>6. OneOf("queued")' /\ OneOf("running")' /\ Staged' /\ JobsOk'
  BY <1>1, <1>3, <1>5 DEF RefreshInv, OneOf, Staged, JobsOk
<1>7. Begun \subseteq Begun'
  BY <1>1, <1>3 DEF Begun
<1>8. told' \subseteq Sources
  BY DEF Ends, RefreshInv, RefreshRows
<1>9. ASSUME NEW x \in Runs
      PROVE  /\ waiting'[x] \in WaitRows /\ waiting'[x].on = waiting[x].on
             /\ waiting'[x].begun = waiting[x].begun
             /\ waiting'[x].at = IF waiting[x].at = "waiting" /\ waiting[x].on = r
                                 THEN IF status = "success" /\ made THEN "ready" ELSE "failed"
                                 ELSE waiting[x].at
  <2>1. waiting[x] \in WaitRows
    BY DEF RefreshInv
  <2>2. waiting'[x] = IF waiting[x].at = "waiting" /\ waiting[x].on = r
                      THEN [waiting[x] EXCEPT !.at = IF status = "success" /\ made THEN "ready" ELSE "failed"]
                      ELSE waiting[x]
    BY DEF Ends
  <2> QED
    BY <2>1, <2>2 DEF WaitRows
<1>10. waiting' \in [Runs -> WaitRows]
  BY <1>9 DEF Ends
<1>11. ASSUME NEW x \in Runs PROVE RunWaits(waiting[x])'
  <2>1. RunWaits(waiting[x])
    BY DEF RefreshInv
  <2>2. CASE waiting[x].at = "waiting" /\ waiting[x].on = r
    BY <1>1, <1>3, <1>7, <1>9, <2>1, <2>2 DEF RunWaits
  <2>3. CASE ~(waiting[x].at = "waiting" /\ waiting[x].on = r)
    <3>1. waiting[x].at \in {"waiting", "ready"} => waiting[x].on # r
      BY <2>1, <2>3 DEF RunWaits
    <3>2. /\ waiting'[x].at = waiting[x].at /\ waiting'[x].on = waiting[x].on
          /\ waiting'[x].begun = waiting[x].begun
      BY <1>9, <2>3
    <3>3. \A q \in Ids \ {r} : refresh'[q].status = refresh[q].status
      BY <1>3
    <3> QED
      BY <1>7, <2>1, <3>1, <3>2, <3>3 DEF RunWaits
  <2> QED
    BY <2>2, <2>3
<1>12. ASSUME NEW s \in Sources, source[s].state = "on" PROVE Owed(s)'
  <2>1. Owed(s)
    BY DEF RefreshInv
  <2>2. status = "failed" => told \subseteq told'
    BY DEF Ends
  <2>3. status = "success" => told' = told \ {t \in Sources : job[t].ran}
    BY DEF Ends
  <2>4. job[s].ran /\ job[s].version = source[s].version => s \in told' \/ output'[s] = source[s].version
    <3>1. CASE status = "success"
      BY <1>12, <3>1
    <3>2. CASE status = "failed"
      BY <3>2 DEF Ends
    <3> QED
      BY <3>1, <3>2
  <2>5. s \in told => s \in told' \/ output'[s] = source[s].version
    BY <1>12, <2>2, <2>3
  <2>6. Serves(r, s) => s \in told' \/ output'[s] = source[s].version
    <3>1. CASE refresh[r].stage = "none"
      <4>1. s \in refresh[r].scope /\ status = "failed" => s \in told'
        BY <3>1 DEF Ends
      <4> QED
        BY <3>1, <4>1 DEF Serves
    <3>2. CASE refresh[r].stage # "none"
      BY <2>4, <3>2 DEF Serves
    <3> QED
      BY <3>1, <3>2
  <2>7. ASSUME NEW q \in Ids \ {r}, Serves(q, s) PROVE Serves(q, s)'
    BY <1>3, <1>4, <2>7 DEF Serves, RanAsIs
  <2>8. s \in marked => s \in told' \/ output'[s] = source[s].version
    BY <2>4
  <2>9. output[s] = source[s].version => output'[s] = source[s].version
    BY <1>12
  <2> QED
    BY <1>4, <2>1, <2>5, <2>6, <2>7, <2>8, <2>9 DEF Owed
<1>13. \A s \in Sources : Owed(s)'
  BY <1>4, <1>12 DEF Owed
<1> QED
  BY <1>3, <1>4, <1>6, <1>8, <1>10, <1>11, <1>13 DEF RefreshInv

LEMMA LostKeep ==
    ASSUME RefreshInv, NEW r \in Ids, BuildFails(r) \/ RefreshLost(r) PROVE RefreshInv'
<1> USE RefreshFacts, NoRefreshTyped
<1>1. refresh[r].status = "running" /\ refresh[r].rows \in [Sources -> JobRows]
  BY DEF RefreshInv, BuildFails, RefreshLost, RefreshRows
<1>2. UNCHANGED <<output, snapshot, unsaid>>
  BY DEF BuildFails, RefreshLost, Fails
<1>3. output' \in [Sources -> None..MaxEdits] /\ snapshot' \in Snapshots
  BY <1>2 DEF RefreshInv
<1>4. ASSUME \A s \in Sources : source'[s].state = source[s].state PROVE Backed'
  BY <1>2, <1>4 DEF RefreshInv, Backed
<1>5. CASE RefreshLost(r)
  <2>1. Ends(r, "failed", refresh[r].rows, FALSE) /\ source' = source
    BY <1>5 DEF RefreshLost, Fails
  <2>2. source = Queued(source, {})
    BY DEF Queued, RefreshInv
  <2>3. Backed'
    BY <1>4, <2>1
  <2>4. \A s \in Sources : RanAsIs(r, s) =>
            refresh[r].rows[s].ran /\ refresh[r].rows[s].version = source[s].version
    BY DEF RanAsIs
  <2>5. PICK job \in [Sources -> JobRows] : job = refresh[r].rows
    BY <1>1
  <2> QED
    <3>1. Ends(r, "failed", job, FALSE) /\ source' = Queued(source, {})
      BY <2>1, <2>2, <2>5
    <3>2. \A s \in Sources : RanAsIs(r, s) => job[s].ran /\ job[s].version = source[s].version
      BY <2>4, <2>5
    <3>3. \A s \in Sources : source[s].state # "gone" /\ output[s] = source[s].version
                                 => output'[s] = source[s].version
      BY <1>2
    <3>4. PICK status \in {"success", "failed"}, made \in BOOLEAN :
             status = "failed" /\ Ends(r, status, job, made)
      BY <3>1
    <3> QED
      BY <1>1, <1>2, <1>3, <2>3, <3>1, <3>2, <3>3, <3>4, EndsKeep
<1>6. CASE BuildFails(r)
  <2> DEFINE made == [s \in Sources |-> [NoRow EXCEPT !.ran = s \in RunsNow(r),
                                                      !.version = source[s].version]]
  <2>1. PICK marked \in SUBSET RunsNow(r) : source' = Queued(source, marked)
    BY <1>6 DEF BuildFails
  <2>2. Ends(r, "failed", made, FALSE) /\ refresh[r].stage = "none"
    BY <1>6 DEF BuildFails
  <2>3. \A s \in Sources : source[s].version \in None..MaxEdits /\ (s \in RunsNow(r)) \in BOOLEAN
    BY DEF RefreshInv, SourceRows
  <2>4. \A s \in Sources : made[s] \in JobRows /\ made[s].ran = (s \in RunsNow(r))
                           /\ made[s].version = source[s].version
    BY <2>3 DEF NoRow, JobRows
  <2>5. made \in [Sources -> JobRows]
    BY <2>4
  <2> HIDE DEF made
  <2>6. Backed'
    BY <1>4, <2>1, QueuedRows
  <2>7. \A s \in Sources : s \in marked => made[s].ran /\ made[s].version = source[s].version
    BY <2>1, <2>4
  <2>8. PICK job \in [Sources -> JobRows] : job = made
    BY <2>5
  <2> QED
    <3>1. Ends(r, "failed", job, FALSE)
      BY <2>2, <2>8
    <3>2. \A s \in Sources : s \in marked => job[s].ran /\ job[s].version = source[s].version
      BY <2>7, <2>8
    <3>3. \A s \in Sources : source[s].state # "gone" /\ output[s] = source[s].version
                                 => output'[s] = source[s].version
      BY <1>2
    <3>4. PICK status \in {"success", "failed"}, flag \in BOOLEAN :
             status = "failed" /\ Ends(r, status, job, flag)
      BY <3>1
    <3> QED
      BY <1>1, <1>2, <1>3, <2>1, <2>2, <2>6, <3>1, <3>2, <3>3, <3>4, EndsKeep
<1> QED
  BY <1>5, <1>6

\* A refresh is finished: with a new snapshot, or the current one is kept.
LEMMA FinishKeeps ==
    ASSUME RefreshInv, NEW r \in Ids, refresh[r].status = "running", refresh[r].stage # "none",
           NEW job \in [Sources -> JobRows], NEW out \in [Sources -> None..MaxEdits],
           Finish(r, job, out), output' = out, UNCHANGED <<source, unsaid>>,
           \A s \in Sources : /\ job[s].ran = refresh[r].rows[s].ran
                              /\ job[s].version = refresh[r].rows[s].version
                              /\ job[s].ran => job[s].status # "none"
                              /\ job[s].status = "stale" =>
                                   source[s].state = "gone" \/ job[s].version # source[s].version
                              /\ job[s].status = "success" /\ job[s].version = source[s].version
                                 /\ source[s].state # "gone" => out[s] = job[s].version,
           \A s \in Sources : source[s].state # "gone" =>
                              /\ output[s] = source[s].version => out[s] = source[s].version
                              /\ output[s] # None => out[s] # None
    PROVE  RefreshInv'
<1> USE RefreshFacts
<1>1. PICK status \in {"success", "failed"}, made \in BOOLEAN :
         /\ Ends(r, status, job, made)
         /\ status = "success" => \A s \in Sources : job[s].status # "failed"
  <2> DEFINE failed == \E s \in Sources : job[s].status = "failed"
             kept == ~KeepCurrent(job, out)
  <2>1. Ends(r, IF failed THEN "failed" ELSE "success", job, kept)
    BY DEF Finish
  <2>2. kept \in BOOLEAN
    BY DEF KeepCurrent
  <2> HIDE DEF kept
  <2>3. CASE failed
    BY <2>1, <2>2, <2>3
  <2>4. CASE ~failed
    BY <2>1, <2>2, <2>4
  <2> QED
    BY <2>3, <2>4
<1>2. Combine(out, job) \in [Sources -> None..MaxEdits]
      /\ \A s \in Sources : Combine(out, job)[s] # None => out[s] # None
  BY DEF Combine
<1>3. snapshot' \in Snapshots
  BY <1>2 DEF Finish, Snapshots, RefreshInv, Ids
<1>4. Backed'
  <2>1. CASE snapshot' = snapshot
    BY <2>1 DEF RefreshInv, Backed
  <2>2. CASE snapshot' = [by |-> r, holds |-> Combine(out, job)]
    BY <1>2, <2>2 DEF Backed
  <2> QED
    BY <2>1, <2>2 DEF Finish
<1>5. source' = Queued(source, {})
  BY DEF Queued, RefreshInv
<1>6. output' \in [Sources -> None..MaxEdits]
  OBVIOUS
<1>7. \A s \in Sources : RanAsIs(r, s) => job[s].ran /\ job[s].version = source[s].version
  BY DEF RanAsIs
<1>8. ASSUME status = "success", NEW s \in Sources, job[s].ran, source[s].state = "on"
      PROVE  IF job[s].version = source[s].version THEN output'[s] = source[s].version ELSE s \notin told
  <2>1. job[s].status \in {"stale", "success"}
    BY <1>1, <1>8 DEF JobRows
  <2>2. RowOk(s, refresh[r].rows[s], refresh[r].stage)
    BY DEF RefreshInv, JobsOk
  <2>3. job[s].version # source[s].version => s \notin told
    BY <1>8, <2>2 DEF RowOk
  <2> QED
    BY <1>8, <2>1, <2>3
<1> QED
  BY <1>1, <1>3, <1>4, <1>5, <1>6, <1>7, <1>8, EndsKeep

\* What the report makes of the rows and of the outputs.
Reported(r, works) == [s \in Sources |-> Settled(s, refresh[r].rows[s], works)]
NewOutput(r, works, s) ==
    Reported(r, works)[s].status = "success" /\ refresh[r].rows[s].status = "none"
Outputs(r, works) ==
    [s \in Sources |-> IF NewOutput(r, works, s) THEN Reported(r, works)[s].version ELSE output[s]]

\* Every row that ran is settled; an output is stored only of the config the source has.
LEMMA ReportedRows ==
    ASSUME RefreshInv, NEW r \in Ids, refresh[r].stage = "sources", NEW works \in SUBSET Sources
    PROVE  /\ Reported(r, works) \in [Sources -> JobRows]
           /\ Outputs(r, works) \in [Sources -> None..MaxEdits]
           /\ \A s \in Sources : LET w == Reported(r, works)[s] IN
                /\ w.ran = refresh[r].rows[s].ran /\ w.version = refresh[r].rows[s].version
                /\ w.ran => w.status # "none"
                /\ w.ran \/ w.status = "none"
                /\ w.status = "stale" => source[s].state = "gone" \/ w.version # source[s].version
                /\ w.status = "success" /\ w.version = source[s].version /\ source[s].state # "gone"
                     => Outputs(r, works)[s] = w.version
           /\ \A s \in Sources : Outputs(r, works)[s] # output[s] =>
                Outputs(r, works)[s] = source[s].version /\ Outputs(r, works)[s] \in 0..MaxEdits
<1> USE RefreshFacts
<1> SUFFICES ASSUME NEW s \in Sources
             PROVE  LET w == Reported(r, works)[s] IN
                    /\ w \in JobRows /\ Outputs(r, works)[s] \in None..MaxEdits
                    /\ w.ran = refresh[r].rows[s].ran /\ w.version = refresh[r].rows[s].version
                    /\ w.ran => w.status # "none"
                    /\ w.ran \/ w.status = "none"
                    /\ w.status = "stale" => source[s].state = "gone" \/ w.version # source[s].version
                    /\ w.status = "success" /\ w.version = source[s].version /\ source[s].state # "gone"
                         => Outputs(r, works)[s] = w.version
                    /\ Outputs(r, works)[s] # output[s] =>
                         Outputs(r, works)[s] = source[s].version /\ Outputs(r, works)[s] \in 0..MaxEdits
  BY DEF Reported, Outputs
<1>1. PICK o : o = refresh[r].rows[s]
  OBVIOUS
<1>2. o \in JobRows
  BY <1>1 DEF RefreshInv, RefreshRows
<1>3. RowOk(s, o, "sources")
  BY <1>1 DEF RefreshInv, JobsOk
<1>4. PICK w : w = Reported(r, works)[s]
  OBVIOUS
<1>5. w = Settled(s, o, works)
  BY <1>1, <1>4 DEF Reported
<1>6. Outputs(r, works)[s] = IF w.status = "success" /\ o.status = "none" THEN w.version ELSE output[s]
  BY <1>1, <1>4 DEF Outputs, NewOutput
<1>7. CASE ~o.ran \/ o.status # "none"
  <2>1. w = o
    BY <1>5, <1>7 DEF Settled
  <2>2. o.ran => o.status # "none"
    BY <1>7
  <2>3. Outputs(r, works)[s] = output[s] /\ output[s] \in None..MaxEdits
    BY <1>6, <2>1 DEF RefreshInv
  <2> QED
    BY <1>1, <1>2, <1>3, <1>4, <2>1, <2>2, <2>3 DEF RowOk
<1>8. CASE o.ran /\ o.status = "none"
  <2>1. w = [o EXCEPT !.status = IF s \notin works THEN "failed"
                                 ELSE IF Stale(s, o) THEN "stale" ELSE "success"]
    BY <1>5, <1>8 DEF Settled
  <2>2. /\ w \in JobRows /\ w.ran = o.ran /\ w.version = o.version
        /\ w.status = IF s \notin works THEN "failed" ELSE IF Stale(s, o) THEN "stale" ELSE "success"
    BY <1>2, <2>1 DEF JobRows
  <2>3. w.version \in 0..MaxEdits /\ output[s] \in None..MaxEdits
    BY <1>3, <1>8, <2>2 DEF RowOk, RefreshInv
  <2>4. w.status # "none"
    BY <2>2
  <2>5. w.status = "stale" => source[s].state = "gone" \/ w.version # source[s].version
    BY <2>2 DEF Stale
  <2>6. w.status = "success" => Outputs(r, works)[s] = w.version /\ w.version = source[s].version
    BY <1>6, <1>8, <2>2 DEF Stale
  <2>7. w.status # "success" => Outputs(r, works)[s] = output[s]
    BY <1>6
  <2> QED
    BY <1>1, <1>4, <1>8, <2>2, <2>3, <2>4, <2>5, <2>6, <2>7
<1> QED
  BY <1>7, <1>8

\* The report's parts, by their names here.
LEMMA ReportIs ==
    ASSUME NEW r, NEW works, ReportSources(r, works)
    PROVE  /\ refresh[r].status = "running" /\ refresh[r].stage = "sources"
           /\ output' = Outputs(r, works) /\ UNCHANGED <<source, unsaid>>
           /\ \/ /\ refresh' = [refresh EXCEPT ![r].stage = "combine", ![r].rows = Reported(r, works)]
                 /\ UNCHANGED <<snapshot, waiting, told>>
              \/ Finish(r, Reported(r, works), Outputs(r, works))
BY DEF ReportSources, Outputs, Reported, NewOutput

LEMMA ReportKeeps ==
    ASSUME RefreshInv, NEW r \in Ids, NEW works \in SUBSET Sources, ReportSources(r, works)
    PROVE  RefreshInv'
<1> USE RefreshFacts
<1>1. /\ refresh[r].status = "running" /\ refresh[r].stage = "sources"
      /\ output' = Outputs(r, works) /\ UNCHANGED <<source, unsaid>>
  BY ReportIs
<1>2. PICK job \in [Sources -> JobRows] : job = Reported(r, works)
  BY <1>1, ReportedRows
<1>3. PICK out \in [Sources -> None..MaxEdits] : out = Outputs(r, works)
  BY <1>1, ReportedRows
<1>4. \A s \in Sources : /\ job[s].ran = refresh[r].rows[s].ran
                         /\ job[s].version = refresh[r].rows[s].version
                         /\ job[s].ran => job[s].status # "none"
                         /\ job[s].ran \/ job[s].status = "none"
                         /\ job[s].status = "stale" =>
                              source[s].state = "gone" \/ job[s].version # source[s].version
                         /\ job[s].status = "success" /\ job[s].version = source[s].version
                            /\ source[s].state # "gone" => out[s] = job[s].version
  BY <1>1, <1>2, <1>3, ReportedRows
<1>5. \A s \in Sources : out[s] # output[s] => out[s] = source[s].version /\ out[s] \in 0..MaxEdits
  BY <1>1, <1>3, ReportedRows
<1>6. \A s \in Sources : source[s].state # "gone" =>
                              /\ output[s] = source[s].version => out[s] = source[s].version
                              /\ output[s] # None => out[s] # None
  BY <1>5
<1>7. CASE Finish(r, Reported(r, works), Outputs(r, works))
  <2>1. Finish(r, job, out)
    BY <1>2, <1>3, <1>7
  <2> QED
    BY <1>1, <1>3, <1>4, <1>6, <2>1, FinishKeeps
<1>8. CASE /\ refresh' = [refresh EXCEPT ![r].stage = "combine", ![r].rows = Reported(r, works)]
           /\ UNCHANGED <<snapshot, waiting, told>>
  <2> DEFINE new == [refresh[r] EXCEPT !.stage = "combine", !.rows = job]
  <2>1. refresh[r] \in RefreshRows
    BY DEF RefreshInv
  <2>2. /\ new \in RefreshRows /\ new.stage = "combine" /\ new.rows = job /\ new.status = "running"
    BY <1>1, <2>1 DEF RefreshRows
  <2>3. refresh' = [refresh EXCEPT ![r] = new]
    BY <1>2, <1>8 DEF RefreshInv
  <2> HIDE DEF new
  <2>4. /\ refresh' \in [Ids -> RefreshRows] /\ refresh'[r] = new
        /\ \A q \in Ids \ {r} : refresh'[q] = refresh[q]
    BY <2>2, <2>3 DEF RefreshInv
  <2>5. \A q \in Ids \ {r} : refresh[q].stage = "none"
    BY <1>1 DEF RefreshInv, OneOf, Staged
  <2>6. OneOf("queued")' /\ OneOf("running")' /\ Staged'
    BY <1>1, <2>2, <2>4 DEF RefreshInv, OneOf, Staged
  <2>7. Begun' = Begun
    BY <1>1, <2>2, <2>4 DEF Begun
  <2>8. ASSUME NEW s \in Sources PROVE RowOk(s, job[s], "combine")'
    <3>1. RowOk(s, refresh[r].rows[s], refresh[r].stage)
      BY <1>1 DEF RefreshInv, JobsOk
    <3>2. job[s].ran => job[s].version \in 0..MaxEdits /\ job[s].version <= source[s].version
      BY <1>4, <3>1 DEF RowOk
    <3>3. job[s].ran /\ job[s].version # source[s].version => s \notin told
      BY <1>4, <3>1 DEF RowOk
    <3>4. output'[s] = out[s] /\ source' = source /\ told' = told
      BY <1>1, <1>3, <1>8
    <3> QED
      BY <1>4, <3>2, <3>3, <3>4 DEF RowOk
  <2>9. JobsOk'
    <3>1. \A s \in Sources : RowOk(s, refresh[r].rows[s], refresh[r].stage)'
      BY <2>2, <2>4, <2>8 DEF RowOk
    <3> QED
      BY <2>4, <2>5, <3>1 DEF JobsOk
  <2>10. \A x \in Runs : RunWaits(waiting[x])'
    BY <1>1, <1>8, <2>2, <2>4, <2>7 DEF RefreshInv, RunWaits
  <2>11. ASSUME NEW s \in Sources PROVE Owed(s)'
    <3>1. Owed(s)
      BY DEF RefreshInv
    <3>2. job[s].ran = refresh[r].rows[s].ran /\ job[s].version = refresh[r].rows[s].version
      BY <1>4
    <3>3. \A q \in Ids : Serves(q, s) => Serves(q, s)'
      BY <1>1, <2>2, <2>4, <3>2 DEF Serves, RanAsIs
    <3>4. source[s].state = "on" /\ output[s] = source[s].version => output'[s] = source[s].version
      BY <1>1, <1>3, <1>6
    <3> QED
      BY <1>1, <1>8, <3>1, <3>3, <3>4 DEF Owed
  <2>12. Backed'
    <3>1. \A s \in Sources : source[s].state # "gone" /\ output[s] # None => output'[s] # None
      BY <1>1, <1>3, <1>6
    <3> QED
      BY <1>1, <1>8, <3>1 DEF RefreshInv, Backed
  <2>13. output' \in [Sources -> None..MaxEdits]
    BY <1>1, <1>3
  <2> QED
    BY <1>1, <1>8, <2>4, <2>6, <2>9, <2>10, <2>11, <2>12, <2>13 DEF RefreshInv
<1> QED
  BY <1>7, <1>8, ReportIs

LEMMA CombinedKeeps == ASSUME RefreshInv, NEW r \in Ids, ReportCombined(r) PROVE RefreshInv'
<1> USE RefreshFacts
<1>1. PICK job \in [Sources -> JobRows] : job = refresh[r].rows
  BY DEF RefreshInv, RefreshRows
<1>2. PICK out \in [Sources -> None..MaxEdits] : out = output
  BY DEF RefreshInv
<1>3. refresh[r].status = "running" /\ refresh[r].stage = "combine" /\ UNCHANGED <<source, unsaid>>
      /\ output' = out /\ Finish(r, job, out)
  BY <1>1, <1>2 DEF ReportCombined
<1>4. \A s \in Sources : RowOk(s, job[s], "combine")
  BY <1>1, <1>3 DEF RefreshInv, JobsOk
<1>5. \A s \in Sources : /\ job[s].ran = refresh[r].rows[s].ran
                         /\ job[s].version = refresh[r].rows[s].version
                         /\ job[s].ran => job[s].status # "none"
                         /\ job[s].status = "stale" =>
                              source[s].state = "gone" \/ job[s].version # source[s].version
                         /\ job[s].status = "success" /\ job[s].version = source[s].version
                            /\ source[s].state # "gone" => out[s] = job[s].version
  BY <1>1, <1>2, <1>4 DEF RowOk
<1> QED
  BY <1>2, <1>3, <1>5, FinishKeeps

LEMMA RefreshKeeps == RefreshInv /\ [RefreshNext]_refreshVars => RefreshInv'
<1> SUFFICES ASSUME RefreshInv, [RefreshNext]_refreshVars PROVE RefreshInv'
  OBVIOUS
<1>1. CASE UNCHANGED refreshVars
  <2>1. UNCHANGED <<source, output, refresh, snapshot, waiting, unsaid, told>>
    BY <1>1 DEF refreshVars
  <2>2. /\ OneOf("queued")' /\ OneOf("running")' /\ Staged' /\ JobsOk'
        /\ Begun' = Begun /\ \A t \in Sources : Owed(t)'
    BY <2>1 DEF RefreshInv, OneOf, Staged, JobsOk, RowOk, Begun, Owed, Serves, RanAsIs
  <2>3. (\A x \in Runs : RunWaits(waiting[x])') /\ Backed'
    BY <2>1, <2>2 DEF RefreshInv, RunWaits, Backed
  <2> QED
    BY <2>1, <2>2, <2>3 DEF RefreshInv
<1>2. CASE RefreshNext
  BY <1>2, RequestsKeep, EditsKeep, ChangesKeep, ClaimKeeps, BuildKeeps, RequeueKeeps, LostKeep,
     ReportKeeps, CombinedKeeps DEF RefreshNext
<1> QED
  BY <1>1, <1>2

LEMMA RefreshTyped == RefreshInv => RefreshTypes
<1> SUFFICES ASSUME RefreshInv PROVE RefreshTypes
  OBVIOUS
<1> USE RefreshFacts
<1>1. ASSUME NEW status, OneOf(status) PROVE Cardinality(IdsOf(status)) <= 1
  <2>1. CASE IdsOf(status) = {}
    BY <2>1, FS_EmptySet
  <2>2. CASE IdsOf(status) # {}
    <3>1. PICK r : r \in IdsOf(status)
      BY <2>2
    <3>2. \A q \in IdsOf(status) : q = r
      BY <1>1, <3>1 DEF OneOf, IdsOf
    <3>3. IdsOf(status) = {r}
      BY <3>1, <3>2
    <3> QED
      BY <3>3, FS_Singleton
  <2> QED
    BY <2>1, <2>2
<1>2. Cardinality(IdsOf("queued")) <= 1 /\ Cardinality(IdsOf("running")) <= 1
  BY <1>1 DEF RefreshInv
<1>3. \A r \in Ids : /\ refresh[r].status \in {"none", "queued", "running", "success", "failed", "cancelled"}
                     /\ refresh[r].scope \subseteq Sources
                     /\ refresh[r].stage \in {"none", "sources", "combine"}
  BY DEF RefreshInv, RefreshRows, Statuses
<1>4. \A x \in Runs : waiting[x].at \in {"new", "waiting", "ready", "failed"}
  BY DEF RefreshInv, WaitRows
<1> QED
  BY <1>2, <1>3, <1>4 DEF RefreshInv, RefreshTypes, SourceRows, Snapshots

LEMMA RefreshServes == RefreshInv => RefreshesServe
<1> SUFFICES ASSUME RefreshInv PROVE RefreshesServe
  OBVIOUS
<1>1. RunsGetALaterRefresh
  BY DEF RefreshInv, RunWaits, RunsGetALaterRefresh
<1>2. ASSUME NEW s \in Sources, NEW r \in Ids, Serves(r, s)
      PROVE  refresh[r].status \in Active /\ (s \in refresh[r].scope \/ RanAsIs(r, s))
  BY <1>2 DEF Serves
<1>3. EditsAreNotForgotten
  BY <1>2 DEF RefreshInv, Owed, EditsAreNotForgotten
<1> QED
  BY <1>1, <1>3 DEF RefreshesServe

\* The two promises of SourcesContribute, of one step.
StoredAsIs == \A s \in Sources :
    output'[s] # output[s] /\ source'[s].state # "gone" => output'[s] = source[s].version
GoesOnContributing == \A s \in Sources :
    /\ snapshot'.by # 0 /\ snapshot'.by # snapshot.by
    /\ snapshot.holds[s] # None /\ source[s].state = "on"
    => snapshot'.holds[s] # None

\* An output is stored only by a report, and of the config the source has.
LEMMA OutputStep == ASSUME RefreshInv, [RefreshNext]_refreshVars PROVE StoredAsIs
<1>1. ASSUME NEW r \in Ids, NEW works \in SUBSET Sources, ReportSources(r, works) PROVE StoredAsIs
  <2>1. refresh[r].stage = "sources" /\ output' = Outputs(r, works)
    BY <1>1, ReportIs
  <2> QED
    BY <2>1, ReportedRows DEF StoredAsIs
<1>2. ASSUME NEW s \in Sources, DeleteSource(s) PROVE StoredAsIs
  BY <1>2 DEF DeleteSource, StoredAsIs, RefreshInv, SourceRows
<1>3. ASSUME output' = output PROVE StoredAsIs
  BY <1>3 DEF StoredAsIs
<1>4. ASSUME NEW r \in Ids, \/ ClaimRefresh(r) \/ BuildJob(r) \/ BuildFails(r) \/ RequeueRefresh(r)
                            \/ RefreshLost(r) \/ ReportCombined(r)
      PROVE  output' = output
  BY <1>4 DEF ClaimRefresh, BuildJob, BuildFails, RequeueRefresh, RefreshLost, Fails, ReportCombined
<1>5. ASSUME \/ \E scope \in SUBSET Sources : RequestRefresh(scope)
             \/ \E x \in Runs : TriggerRun(x)
             \/ \E s \in Sources : EditSource(s) \/ TurnSource(s)
             \/ \E s \in Sources, rerun \in BOOLEAN : SourcesChanged(s, rerun)
             \/ ApiDies
             \/ UNCHANGED refreshVars
      PROVE  output' = output
  BY <1>5 DEF RequestRefresh, TriggerRun, EditSource, TurnSource, SourcesChanged, ApiDies, refreshVars
<1> QED
  BY <1>1, <1>2, <1>3, <1>4, <1>5 DEF RefreshNext

\* A snapshot is made only of all the last good outputs.
LEMMA SnapshotStep ==
    ASSUME RefreshInv, ~Legacy, [RefreshNext]_refreshVars PROVE GoesOnContributing
<1>1. ASSUME NEW r, NEW job, NEW out, Finish(r, job, out),
             \A s \in Sources : output[s] # None => out[s] # None
      PROVE  GoesOnContributing
  <2>1. CASE snapshot' = snapshot
    BY <2>1 DEF GoesOnContributing
  <2>2. CASE snapshot' = [by |-> r, holds |-> Combine(out, job)]
    <3>1. \A s \in Sources : source[s].state = "on" => snapshot'.holds[s] = out[s]
      BY <2>2 DEF Combine
    <3> QED
      BY <1>1, <3>1 DEF GoesOnContributing, RefreshInv, Backed
  <2> QED
    BY <1>1, <2>1, <2>2 DEF Finish
<1>2. ASSUME NEW r \in Ids, NEW works \in SUBSET Sources, ReportSources(r, works)
      PROVE  GoesOnContributing
  <2>1. refresh[r].stage = "sources"
    BY <1>2, ReportIs
  <2>2. \A s \in Sources : output[s] # None => Outputs(r, works)[s] # None
    BY <2>1, ReportedRows, RefreshFacts
  <2>3. CASE Finish(r, Reported(r, works), Outputs(r, works))
    BY <1>1, <2>2, <2>3
  <2>4. CASE snapshot' = snapshot
    BY <2>4 DEF GoesOnContributing
  <2> QED
    BY <1>2, <2>3, <2>4, ReportIs
<1>3. ASSUME NEW r \in Ids, ReportCombined(r) PROVE GoesOnContributing
  BY <1>1, <1>3 DEF ReportCombined
<1>4. ASSUME NEW s \in Sources, NEW rerun \in BOOLEAN, SourcesChanged(s, rerun) PROVE GoesOnContributing
  BY <1>4 DEF SourcesChanged, GoesOnContributing
<1>5. ASSUME snapshot' = snapshot PROVE GoesOnContributing
  BY <1>5 DEF GoesOnContributing
<1>6. ASSUME NEW r \in Ids, \/ ClaimRefresh(r) \/ BuildJob(r) \/ BuildFails(r) \/ RequeueRefresh(r)
                            \/ RefreshLost(r)
      PROVE  snapshot' = snapshot
  BY <1>6 DEF ClaimRefresh, BuildJob, BuildFails, RequeueRefresh, RefreshLost, Fails
<1>7. ASSUME \/ \E scope \in SUBSET Sources : RequestRefresh(scope)
             \/ \E x \in Runs : TriggerRun(x)
             \/ \E s \in Sources : EditSource(s) \/ TurnSource(s) \/ DeleteSource(s)
             \/ ApiDies
             \/ UNCHANGED refreshVars
      PROVE  snapshot' = snapshot
  BY <1>7 DEF RequestRefresh, TriggerRun, EditSource, TurnSource, DeleteSource, ApiDies, refreshVars
<1> QED
  BY <1>2, <1>3, <1>4, <1>5, <1>6, <1>7 DEF RefreshNext

-----------------------------------------------------------------------------
(* Git sources.  A snapshot's row has its tar (TarsBehindRows); a sync     *)
(* that has built one either found the row, and looks again before it      *)
(* applies, or made the tar of a commit that still has no row, which no    *)
(* pruning can take (BuiltStays); what is current is not superseded        *)
(* (CurrentIsKept); a known key was confirmed (KnownIsConfirmed).          *)

GitRows == [server : Servers, known : Servers \union {"none"}, subdir : Subdirs,
            current : Commits \union {NoCommit}, requested : BOOLEAN, enabled : BOOLEAN,
            status : {"none", "running", "ok", "failed"}]
Syncs == [at : {"idle", "started", "fetched", "built"}, server : Servers \union {"none"},
          known : Servers \union {"none"}, subdir : Subdirs \union {"none"},
          commit : Commits \union {NoCommit}, had : BOOLEAN]

TarsBehindRows == \A c \in Commits : rows[c] # "none" => tars[c] # "none"

SyncOk ==
    /\ sync.at # "idle" => sync.subdir \in Subdirs
    /\ sync.at \in {"fetched", "built"} => sync.commit \in Commits /\ sync.server \in confirmed

BuiltStays == sync.at = "built" /\ ~sync.had => rows[sync.commit] = "none" /\ tars[sync.commit] # "none"

CurrentIsKept == git.current # NoCommit => rows[git.current] = "kept"

\* What prune has selected still has its row.
StaleHasRows == \A c \in stale : rows[c] # "none"

KnownIsConfirmed == {git.known, sync.known} \subseteq confirmed \union {"none"}

\* Under the two conditions the promises need.
PinsStay == ~PruneSplit => \A r \in PinnedRuns : pins[r] # NoCommit => rows[pins[r]] # "none"
OneSubdir == \A d, e \in Subdirs : d = e
OffersStay == OneSubdir => OfferedIsRunnable

GitInv ==
    /\ git \in GitRows /\ sync \in Syncs /\ head \in Commits
    /\ rows \in [Commits -> Ages] /\ tars \in [Commits -> Subdirs \union {"none"}]
    /\ shown \subseteq Paths /\ pins \in [PinnedRuns -> Commits \union {NoCommit}]
    /\ scan \in Servers \union {"none"} /\ stale \subseteq Commits
    /\ TarsBehindRows /\ SyncOk /\ BuiltStays /\ CurrentIsKept /\ KnownIsConfirmed
    /\ StaleHasRows /\ PinsStay /\ OffersStay

\* The names used for nothing are nobody's.
LEMMA GitFacts ==
    /\ NoCommit \notin Commits /\ "none" \notin Servers /\ "none" \notin Subdirs
    /\ Holds \in [Commits \X Subdirs -> SUBSET Paths]
    /\ PruneSplit \in BOOLEAN /\ AutoSync \in BOOLEAN
BY GitAssumption

\* No sync is one that asks for nothing.
LEMMA NoSyncTyped ==
    /\ NoSync \in Syncs /\ NoSync.at = "idle" /\ NoSync.known = "none" /\ NoSync.had = FALSE
BY DEF NoSync, Syncs

LEMMA GitStart == GitInit => GitInv
<1> SUFFICES ASSUME GitInit PROVE GitInv
  OBVIOUS
<1> USE GitFacts, NoSyncTyped
<1>1. PICK d \in Subdirs, h \in Servers : git =
         [server |-> h, known |-> "none", subdir |-> d, current |-> NoCommit,
          requested |-> FALSE, enabled |-> TRUE, status |-> "none"]
  BY DEF GitInit
<1>2. git \in GitRows /\ git.current = NoCommit /\ git.known = "none"
  BY <1>1 DEF GitRows
<1>3. /\ sync \in Syncs /\ head \in Commits /\ rows \in [Commits -> Ages]
      /\ tars \in [Commits -> Subdirs \union {"none"}] /\ shown \subseteq Paths
      /\ pins \in [PinnedRuns -> Commits \union {NoCommit}]
      /\ scan \in Servers \union {"none"} /\ stale \subseteq Commits
  BY DEF GitInit, Ages
<1>4. TarsBehindRows /\ SyncOk /\ BuiltStays /\ PinsStay /\ StaleHasRows
  BY DEF GitInit, TarsBehindRows, SyncOk, BuiltStays, PinsStay, StaleHasRows
<1>5. CurrentIsKept /\ KnownIsConfirmed /\ OffersStay
  BY <1>2 DEF GitInit, CurrentIsKept, KnownIsConfirmed, OffersStay, OfferedIsRunnable
<1> QED
  BY <1>2, <1>3, <1>4, <1>5 DEF GitInv

\* The routes and the remote: what they do to the row, and nothing to the snapshots.
LEMMA RoutesKeep ==
    ASSUME GitInv, git' \in GitRows, git'.current = git.current,
           confirmed \subseteq confirmed', git'.known \in confirmed' \union {"none"},
           UNCHANGED <<rows, tars, shown, sync, pins>>,
           head' \in Commits, scan' \in Servers \union {"none"}, stale' \subseteq stale
    PROVE  GitInv'
<1>1. TarsBehindRows' /\ BuiltStays' /\ PinsStay' /\ CurrentIsKept' /\ StaleHasRows'
  BY DEF GitInv, TarsBehindRows, BuiltStays, PinsStay, CurrentIsKept, StaleHasRows
<1>2. SyncOk' /\ KnownIsConfirmed'
  BY DEF GitInv, SyncOk, KnownIsConfirmed
<1>3. OffersStay'
  BY DEF GitInv, OffersStay, OfferedIsRunnable, OneSubdir
<1> QED
  BY <1>1, <1>2, <1>3 DEF GitInv

LEMMA RouteStepsKeep ==
    ASSUME GitInv, \/ \E h \in Servers, d \in Subdirs : EditGitSource(h, d)
                   \/ TurnGitSource \/ RequestSync \/ ScanServer \/ TrustHostKey \/ RefuseHostKey
                   \/ \E c \in Commits : Push(c)
    PROVE  GitInv'
<1> USE GitFacts
<1>1. git \in GitRows /\ git.known \in confirmed \union {"none"} /\ head \in Commits
      /\ scan \in Servers \union {"none"} /\ stale \subseteq Commits
  BY DEF GitInv, KnownIsConfirmed
<1>2. ASSUME NEW h \in Servers, NEW d \in Subdirs, EditGitSource(h, d) PROVE GitInv'
  <2>1. /\ git' \in GitRows /\ git'.current = git.current
        /\ git'.known = IF h = git.server THEN git.known ELSE "none"
    BY <1>1, <1>2 DEF EditGitSource, ApplySettings, GitRows
  <2> QED
    BY <1>1, <1>2, <2>1, RoutesKeep DEF EditGitSource
<1>3. CASE TurnGitSource
  <2>1. git' = [git EXCEPT !.enabled = ~git.enabled]
    BY <1>3 DEF TurnGitSource
  <2>2. git' \in GitRows /\ git'.current = git.current /\ git'.known = git.known
    BY <1>1, <2>1 DEF GitRows
  <2> QED
    BY <1>1, <1>3, <2>2, RoutesKeep DEF TurnGitSource
<1>4. CASE RequestSync
  <2>1. git' \in GitRows /\ git'.current = git.current /\ git'.known = git.known
    BY <1>1, <1>4 DEF GitRows, RequestSync
  <2> QED
    BY <1>1, <1>4, <2>1, RoutesKeep DEF RequestSync
<1>5. CASE ScanServer \/ RefuseHostKey
  <2>1. UNCHANGED <<git, confirmed, head, rows, tars, shown, sync, pins, stale>>
        /\ scan' \in Servers \union {"none"}
    BY <1>1, <1>5 DEF ScanServer, RefuseHostKey, GitRows
  <2> QED
    BY <1>1, <2>1, RoutesKeep
<1>6. CASE TrustHostKey
  <2>1. git' = [git EXCEPT !.known = scan, !.requested = TRUE]
    BY <1>6 DEF TrustHostKey, TrustLines
  <2>2. git' \in GitRows /\ git'.current = git.current /\ git'.known = scan
    BY <1>1, <2>1 DEF GitRows
  <2>3. confirmed' = confirmed \union {scan} /\ scan' = "none"
        /\ UNCHANGED <<head, rows, tars, shown, sync, pins, stale>>
    BY <1>6 DEF TrustHostKey
  <2> QED
    BY <1>1, <2>2, <2>3, RoutesKeep
<1>7. ASSUME NEW c \in Commits, Push(c) PROVE GitInv'
  BY <1>1, <1>7, RoutesKeep DEF Push
<1> QED
  BY <1>2, <1>3, <1>4, <1>5, <1>6, <1>7

LEMMA PinStepsKeep ==
    ASSUME GitInv, NEW r \in PinnedRuns, PinRun(r) \/ RunOver(r) PROVE GitInv'
<1> USE GitFacts
<1>1. UNCHANGED <<git, head, rows, tars, shown, sync, scan, stale, confirmed>>
  BY DEF PinRun, RunOver
<1>2. /\ pins' \in [PinnedRuns -> Commits \union {NoCommit}]
      /\ \A x \in PinnedRuns : pins'[x] # NoCommit => pins'[x] = pins[x] \/ rows[pins'[x]] # "none"
  BY DEF PinRun, RunOver, Some, GitInv, GitRows
<1>3. PinsStay'
  BY <1>1, <1>2 DEF PinsStay, GitInv
<1>4. /\ TarsBehindRows' /\ SyncOk' /\ BuiltStays' /\ CurrentIsKept' /\ KnownIsConfirmed'
      /\ StaleHasRows' /\ OffersStay'
  BY <1>1 DEF GitInv, TarsBehindRows, SyncOk, BuiltStays, CurrentIsKept, KnownIsConfirmed,
              StaleHasRows, OffersStay, OfferedIsRunnable, OneSubdir
<1> QED
  BY <1>1, <1>2, <1>3, <1>4 DEF GitInv

LEMMA TimeKeeps == ASSUME GitInv, NEW c \in Commits, TimePasses(c) PROVE GitInv'
<1>1. UNCHANGED <<git, head, tars, shown, sync, scan, pins, stale, confirmed>>
  BY DEF TimePasses
<1>2. /\ rows' \in [Commits -> Ages] /\ rows[c] = "superseded"
      /\ \A x \in Commits : (rows'[x] = "none" <=> rows[x] = "none") /\ (rows[x] = "kept" => rows'[x] = "kept")
  BY DEF TimePasses, GitInv, Ages
<1>3. /\ TarsBehindRows' /\ SyncOk' /\ BuiltStays' /\ KnownIsConfirmed' /\ StaleHasRows'
  BY <1>1, <1>2 DEF GitInv, TarsBehindRows, SyncOk, BuiltStays, KnownIsConfirmed, StaleHasRows
<1>4. CurrentIsKept'
  BY <1>1, <1>2 DEF GitInv, CurrentIsKept, GitRows
<1>5. PinsStay'
  BY <1>1, <1>2 DEF GitInv, PinsStay
<1>6. OffersStay'
  BY <1>1 DEF GitInv, OffersStay, OfferedIsRunnable, OneSubdir
<1> QED
  BY <1>1, <1>2, <1>3, <1>4, <1>5, <1>6 DEF GitInv

\* A sync begins, looks at the remote, or is over without a result.
LEMMA SyncMoves ==
    ASSUME GitInv, git' \in GitRows, git'.current = git.current, git'.known = git.known,
           UNCHANGED <<head, rows, tars, shown, pins, confirmed>>,
           scan' \in {scan, "none"}, stale' \subseteq stale,
           sync' \in Syncs, sync'.at # "built", sync'.known \in confirmed \union {"none"},
           sync'.at # "idle" => sync'.subdir \in Subdirs,
           sync'.at = "fetched" => sync'.commit \in Commits /\ sync'.server \in confirmed
    PROVE  GitInv'
<1>1. SyncOk' /\ BuiltStays' /\ KnownIsConfirmed'
  BY DEF SyncOk, BuiltStays, KnownIsConfirmed, GitInv, Syncs
<1>2. TarsBehindRows' /\ CurrentIsKept' /\ StaleHasRows' /\ PinsStay'
  BY DEF GitInv, TarsBehindRows, CurrentIsKept, StaleHasRows, PinsStay
<1>3. OffersStay'
  BY DEF GitInv, OffersStay, OfferedIsRunnable, OneSubdir
<1> QED
  BY <1>1, <1>2, <1>3 DEF GitInv

LEMMA SyncMovesKeep ==
    ASSUME GitInv, \/ SyncStarts \/ FetchFails \/ Fetch \/ InspectFails \/ ApplyLosesRow \/ ApiDiesSyncing
    PROVE  GitInv'
<1> USE GitFacts, NoSyncTyped
<1>1. /\ git \in GitRows /\ sync \in Syncs /\ head \in Commits
      /\ git.known \in confirmed \union {"none"} /\ sync.known \in confirmed \union {"none"}
  BY DEF GitInv, KnownIsConfirmed
<1>2. CASE SyncStarts
  <2>1. git' = [git EXCEPT !.status = "running", !.requested = FALSE]
    BY <1>2 DEF SyncStarts, MarkStarted
  <2>2. git' \in GitRows /\ git'.current = git.current /\ git'.known = git.known
    BY <1>1, <2>1 DEF GitRows
  <2>3. sync' = [NoSync EXCEPT !.at = "started", !.server = git.server, !.known = git.known,
                               !.subdir = git.subdir]
    BY <1>2 DEF SyncStarts
  <2>4. sync' \in Syncs /\ sync'.at = "started" /\ sync'.known = git.known /\ sync'.subdir \in Subdirs
    BY <1>1, <2>3 DEF NoSync, Syncs, GitRows
  <2> QED
    BY <1>1, <1>2, <2>2, <2>4, SyncMoves DEF SyncStarts
<1>3. CASE FetchFails \/ InspectFails
  <2>1. git' = [git EXCEPT !.status = "failed"] /\ sync' = NoSync
    BY <1>3 DEF FetchFails, InspectFails, Failed
  <2>2. git' \in GitRows /\ git'.current = git.current /\ git'.known = git.known
    BY <1>1, <2>1 DEF GitRows
  <2>3. UNCHANGED <<head, rows, tars, shown, pins, confirmed, scan, stale>>
    BY <1>3 DEF FetchFails, InspectFails
  <2> QED
    BY <2>1, <2>2, <2>3, SyncMoves
<1>4. CASE Fetch
  <2>1. sync' = [sync EXCEPT !.at = "fetched", !.commit = head]
    BY <1>4 DEF Fetch
  <2>2. /\ sync' \in Syncs /\ sync'.at = "fetched" /\ sync'.commit = head /\ sync'.server = sync.server
        /\ sync'.known = sync.known /\ sync'.subdir = sync.subdir
    BY <1>1, <2>1 DEF Syncs
  <2>3. sync.server \in confirmed /\ sync.subdir \in Subdirs
    BY <1>1, <1>4 DEF Fetch, Accepts, GitInv, SyncOk
  <2>4. UNCHANGED <<git, head, rows, tars, shown, pins, confirmed, scan, stale>>
    BY <1>4 DEF Fetch
  <2> QED
    BY <1>1, <2>2, <2>3, <2>4, SyncMoves
<1>5. CASE ApplyLosesRow \/ ApiDiesSyncing
  <2>1. /\ sync' = NoSync /\ UNCHANGED <<git, head, rows, tars, shown, pins, confirmed>>
        /\ scan' \in {scan, "none"} /\ stale' \subseteq stale
    BY <1>5 DEF ApplyLosesRow, ApiDiesSyncing
  <2> QED
    BY <1>1, <2>1, SyncMoves
<1> QED
  BY <1>2, <1>3, <1>4, <1>5

LEMMA SnapshotBuilt == ASSUME GitInv, BuildSnapshot PROVE GitInv'
<1> USE GitFacts
<1>1. sync \in Syncs /\ sync.at = "fetched" /\ sync.commit \in Commits /\ sync.subdir \in Subdirs
      /\ sync.server \in confirmed
  BY DEF BuildSnapshot, GitInv, SyncOk
<1>2. UNCHANGED <<git, head, rows, shown, scan, pins, stale, confirmed>>
  BY DEF BuildSnapshot
<1>3. sync' = [sync EXCEPT !.at = "built", !.had = (rows[sync.commit] # "none")]
  BY DEF BuildSnapshot
<1>4. /\ sync' \in Syncs /\ sync'.at = "built" /\ sync'.commit = sync.commit /\ sync'.server = sync.server
      /\ sync'.known = sync.known /\ sync'.subdir = sync.subdir
      /\ sync'.had = (rows[sync.commit] # "none")
  <2>1. (rows[sync.commit] # "none") \in BOOLEAN
    OBVIOUS
  <2> QED
    BY <1>1, <1>3, <2>1 DEF Syncs
<1>5. /\ tars' \in [Commits -> Subdirs \union {"none"}]
      /\ \A c \in Commits : rows[c] # "none" => tars'[c] = tars[c]
      /\ rows[sync.commit] = "none" => tars'[sync.commit] # "none"
  BY <1>1 DEF BuildSnapshot, TarOf, GitInv, TarsBehindRows
<1>6. TarsBehindRows'
  BY <1>2, <1>5 DEF GitInv, TarsBehindRows
<1>7. SyncOk' /\ BuiltStays' /\ KnownIsConfirmed'
  BY <1>1, <1>2, <1>4, <1>5 DEF SyncOk, BuiltStays, KnownIsConfirmed, GitInv
<1>8. CurrentIsKept' /\ StaleHasRows' /\ PinsStay'
  BY <1>2 DEF GitInv, CurrentIsKept, StaleHasRows, PinsStay
<1>9. OffersStay'
  <2>1. git.current # NoCommit => tars'[git.current] = tars[git.current]
    BY <1>5 DEF GitInv, GitRows, CurrentIsKept
  <2> QED
    BY <1>2, <2>1, ZenonT(60) DEF GitInv, OffersStay, OfferedIsRunnable, OneSubdir
<1> QED
  BY <1>2, <1>4, <1>5, <1>6, <1>7, <1>8, <1>9 DEF GitInv

LEMMA AppliedKeeps == ASSUME GitInv, SyncApplies PROVE GitInv'
<1> USE GitFacts, NoSyncTyped
<1>1. PICK k \in Commits : k = sync.commit
  BY DEF SyncApplies, GitInv, SyncOk
<1>2. sync.at = "built" /\ sync.subdir \in Subdirs /\ sync' = NoSync
      /\ UNCHANGED <<head, tars, scan, pins, stale, confirmed>>
  BY DEF SyncApplies, GitInv, SyncOk
<1>3. tars[k] # "none"
  <2>1. sync.had \in BOOLEAN
    BY DEF GitInv, Syncs
  <2>2. CASE sync.had = TRUE
    BY <1>1, <2>2 DEF SyncApplies, GitInv, TarsBehindRows
  <2>3. CASE sync.had = FALSE
    BY <1>1, <1>2, <2>3 DEF GitInv, BuiltStays
  <2> QED
    BY <2>1, <2>2, <2>3
<1>4. /\ rows' \in [Commits -> Ages] /\ rows'[k] = "kept"
      /\ \A c \in Commits \ {k} : rows'[c] = "none" <=> rows[c] = "none"
  <2>1. rows' = [c \in Commits |-> IF c = k THEN "kept"
                                  ELSE IF c = git.current /\ rows[c] # "none" THEN "superseded"
                                  ELSE rows[c]]
    BY <1>1 DEF SyncApplies
  <2>2. \A c \in Commits : rows[c] \in Ages
    BY DEF GitInv
  <2>3. rows'[k] = "kept"
    BY <2>1
  <2>4. \A c \in Commits \ {k} :
          rows'[c] = IF c = git.current /\ rows[c] # "none" THEN "superseded" ELSE rows[c]
    BY <2>1
  <2>5. \A c \in Commits : rows'[c] \in Ages
    BY <2>2, <2>3, <2>4 DEF Ages
  <2> QED
    BY <2>1, <2>3, <2>4, <2>5
<1>5. git' = [git EXCEPT !.current = k, !.status = "ok"]
  BY <1>1 DEF SyncApplies, MarkApplied
<1>6. git' \in GitRows /\ git'.current = k /\ git'.known = git.known
  BY <1>5 DEF GitInv, GitRows
<1>7. shown' = Holds[<<k, sync.subdir>>] /\ shown' \subseteq Paths
  BY <1>1, <1>2 DEF SyncApplies, ShowPlaybooks
<1>8. TarsBehindRows'
  BY <1>2, <1>3, <1>4 DEF GitInv, TarsBehindRows
<1>9. SyncOk' /\ BuiltStays' /\ KnownIsConfirmed' /\ CurrentIsKept'
  BY <1>2, <1>4, <1>6 DEF SyncOk, BuiltStays, KnownIsConfirmed, CurrentIsKept, GitInv
<1>10. StaleHasRows' /\ PinsStay'
  BY <1>2, <1>4 DEF GitInv, StaleHasRows, PinsStay
<1>11. OffersStay'
  <2>1. tars[k] \in Subdirs
    BY <1>3 DEF GitInv
  <2>2. OneSubdir => tars[k] = sync.subdir
    BY <1>2, <2>1 DEF OneSubdir
  <2> QED
    BY <1>2, <1>6, <1>7, <2>2 DEF OffersStay, OfferedIsRunnable, OneSubdir
<1> QED
  BY <1>2, <1>4, <1>6, <1>7, <1>8, <1>9, <1>10, <1>11 DEF GitInv

LEMMA PruneKeeps == ASSUME GitInv, PruneSnapshots PROVE GitInv'
<1> USE GitFacts
<1>1. Prunable \subseteq Commits /\ \A c \in Prunable : /\ rows[c] # "none" /\ c # git.current
                                                     /\ \A r \in PinnedRuns : pins[r] # c
  BY DEF Prunable
<1>2. CASE PruneSplit /\ stale = {}
  <2>1. stale' = Prunable /\ UNCHANGED <<git, head, rows, tars, shown, sync, scan, pins, confirmed>>
    BY <1>2 DEF PruneSnapshots
  <2>2. /\ TarsBehindRows' /\ SyncOk' /\ BuiltStays' /\ CurrentIsKept' /\ KnownIsConfirmed'
        /\ PinsStay' /\ OffersStay'
    BY <2>1 DEF GitInv, TarsBehindRows, SyncOk, BuiltStays, CurrentIsKept, KnownIsConfirmed,
                PinsStay, OffersStay, OfferedIsRunnable, OneSubdir
  <2>3. StaleHasRows'
    BY <1>1, <2>1 DEF StaleHasRows
  <2> QED
    BY <1>1, <2>1, <2>2, <2>3 DEF GitInv
<1>3. CASE ~(PruneSplit /\ stale = {})
  <2>1. PICK gone \in SUBSET Commits : /\ Delete(gone) /\ stale' = {}
                                       /\ \A c \in gone : rows[c] # "none"
                                       /\ ~PruneSplit => gone = Prunable
    BY <1>1, <1>3 DEF PruneSnapshots, GitInv, StaleHasRows
  <2>2. UNCHANGED <<head, shown, sync, scan, pins, confirmed>>
    BY <2>1 DEF Delete
  <2>3. /\ rows' \in [Commits -> Ages] /\ tars' \in [Commits -> Subdirs \union {"none"}]
        /\ \A c \in Commits : /\ c \in gone => rows'[c] = "none"
                              /\ c \notin gone => rows'[c] = rows[c] /\ tars'[c] = tars[c]
    BY <2>1 DEF Delete, GitInv, Ages
  <2>4. git' = [git EXCEPT !.current = IF git.current \in gone THEN NoCommit ELSE git.current]
    BY <2>1 DEF Delete
  <2>5. /\ git' \in GitRows /\ git'.known = git.known
        /\ git'.current = IF git.current \in gone THEN NoCommit ELSE git.current
    BY <2>4 DEF GitInv, GitRows
  <2>6. TarsBehindRows' /\ StaleHasRows'
    BY <2>1, <2>3 DEF GitInv, TarsBehindRows, StaleHasRows
  <2>7. SyncOk' /\ KnownIsConfirmed'
    BY <2>2, <2>5 DEF GitInv, SyncOk, KnownIsConfirmed
  <2>8. BuiltStays'
    <3>1. sync.at = "built" => sync.commit \in Commits
      BY DEF GitInv, SyncOk
    <3> QED
      BY <2>1, <2>2, <2>3, <3>1 DEF GitInv, BuiltStays
  <2>9. git'.current # NoCommit => git'.current = git.current /\ git.current \in Commits /\ git.current \notin gone
    BY <2>5 DEF GitInv, GitRows
  <2>10. CurrentIsKept'
    BY <2>3, <2>9 DEF GitInv, CurrentIsKept
  <2>11. PinsStay'
    BY <1>1, <2>1, <2>2, <2>3 DEF GitInv, PinsStay
  <2>12. OffersStay'
    BY <2>2, <2>3, <2>9 DEF GitInv, OffersStay, OfferedIsRunnable, OneSubdir
  <2> QED
    BY <2>1, <2>2, <2>3, <2>5, <2>6, <2>7, <2>8, <2>10, <2>11, <2>12 DEF GitInv
<1> QED
  BY <1>2, <1>3

LEMMA GitKeeps == GitInv /\ [GitNext]_gitVars => GitInv'
<1> SUFFICES ASSUME GitInv, [GitNext]_gitVars PROVE GitInv'
  OBVIOUS
<1>1. CASE UNCHANGED gitVars
  BY <1>1, RoutesKeep DEF gitVars, GitInv, KnownIsConfirmed
<1>2. CASE GitNext
  BY <1>2, RouteStepsKeep, PinStepsKeep, TimeKeeps, SyncMovesKeep, SnapshotBuilt, AppliedKeeps,
     PruneKeeps DEF GitNext, SyncSteps
<1> QED
  BY <1>1, <1>2

LEMMA GitTyped == GitInv => GitTypes
BY DEF GitInv, GitTypes, GitRows, Syncs, CurrentIsKept

\* What runs and the source point at is there, if prune selects and deletes at once.
LEMMA PinnedAreThere == ASSUME GitInv, ~PruneSplit PROVE PinnedSnapshotsStay
<1> USE GitFacts
<1>1. git.current # NoCommit => rows[git.current] # "none" /\ git.current \in Commits
  BY DEF GitInv, CurrentIsKept, GitRows
<1>2. \A r \in PinnedRuns : pins[r] # NoCommit => rows[pins[r]] # "none" /\ pins[r] \in Commits
  BY DEF GitInv, PinsStay
<1> QED
  BY <1>1, <1>2 DEF GitInv, TarsBehindRows, PinnedSnapshotsStay

LEMMA FetchesTrusted == ASSUME GitInv PROVE FetchesAreTrusted
BY DEF GitInv, SyncOk, FetchesAreTrusted

-----------------------------------------------------------------------------
(* The composition.                                                        *)

contentVars == <<component, refreshVars, gitVars>>

\* The inductive invariants hold together.
LEMMA ContentInvariant == ContentSpec => [](RefreshInv /\ GitInv)
<1>1. MCInit => RefreshInv /\ GitInv
  BY RefreshStart, GitStart DEF MCInit
<1>2. [MCNext]_contentVars => [RefreshNext]_refreshVars /\ [GitNext]_gitVars
  BY DEF MCNext, contentVars
<1>3. RefreshInv /\ GitInv /\ [MCNext]_contentVars => RefreshInv' /\ GitInv'
  BY <1>2, RefreshKeeps, GitKeeps
<1> QED
  BY <1>1, <1>3, PTL DEF ContentSpec, contentVars

\* Sources, outputs, refreshes, snapshots and syncs have their types, and one refresh is
\* queued and one running at most, for any number of sources, refreshes, runs and commits.
THEOREM ContentIsTyped == ContentSpec => []ContentTypes
<1>1. RefreshInv /\ GitInv => ContentTypes
  BY RefreshTyped, GitTyped DEF ContentTypes
<1> QED
  BY <1>1, ContentInvariant, PTL

\* A run gets a refresh that started after it asked (_refresh_for_run), also when its
\* refresh was merged into another; and a source whose config changed is not forgotten
\* (enqueue_refresh, requeue_refresh, build_refresh_job), for any number of them.
THEOREM RefreshesAlwaysServe == ContentSpec => []RefreshesServe
<1>1. RefreshInv /\ GitInv => RefreshesServe
  BY RefreshServes
<1> QED
  BY <1>1, ContentInvariant, PTL

\* Stored outputs are of the config the source has (_store_results), and no refresh takes
\* a source out of the snapshot that is still on (_finish_refresh), unless the snapshot
\* dates from before outputs were kept per source.
THEOREM SourcesStay == ~Legacy /\ ContentSpec => SourcesContribute
<1> SUFFICES ASSUME ~Legacy PROVE ContentSpec => SourcesContribute
  OBVIOUS
<1>1. RefreshInv /\ GitInv /\ [MCNext]_contentVars => [StoredAsIs]_refreshVars /\ [GoesOnContributing]_refreshVars
  <2>1. [MCNext]_contentVars => [RefreshNext]_refreshVars
    BY DEF MCNext, contentVars
  <2> QED
    BY <2>1, OutputStep, SnapshotStep
<1>2. [StoredAsIs]_refreshVars <=>
        [\A s \in Sources :
           output'[s] # output[s] /\ source'[s].state # "gone" => output'[s] = source[s].version]_refreshVars
  BY DEF StoredAsIs
<1>3. [GoesOnContributing]_refreshVars <=>
        [\A s \in Sources :
           /\ snapshot'.by # 0 /\ snapshot'.by # snapshot.by
           /\ snapshot.holds[s] # None /\ source[s].state = "on"
           => snapshot'.holds[s] # None]_refreshVars
  BY DEF GoesOnContributing
<1> QED
  BY <1>1, <1>2, <1>3, ContentInvariant, PTL
     DEF SourcesContribute, OutputsFollowConfig, SourcesKeepContributing, ContentSpec, contentVars

\* A snapshot a run is pinned to stays, row and tar, until the run is over, a sync talks
\* only to a server whose key was confirmed, and the playbooks offered are in the tar:
\* for any number of commits, servers, runs and deaths of the API, if nothing comes
\* between prune's SELECT and DELETE and the source keeps one subdirectory.
THEOREM SnapshotsStaySound == ~PruneSplit /\ OneSubdir /\ ContentSpec => []SnapshotsSound
<1> SUFFICES ASSUME ~PruneSplit, OneSubdir PROVE ContentSpec => []SnapshotsSound
  BY DEF OneSubdir
<1>1. RefreshInv /\ GitInv => SnapshotsSound
  BY PinnedAreThere, FetchesTrusted DEF SnapshotsSound, GitInv, OffersStay
<1> QED
  BY <1>1, ContentInvariant, PTL

\* Whatever prune does and however the subdirectory is edited, a sync talks only to a
\* server whose host key an administrator confirmed for that server (trust_host_key).
THEOREM FetchesStayTrusted == ContentSpec => []FetchesAreTrusted
<1>1. RefreshInv /\ GitInv => FetchesAreTrusted
  BY FetchesTrusted
<1> QED
  BY <1>1, ContentInvariant, PTL
=============================================================================
