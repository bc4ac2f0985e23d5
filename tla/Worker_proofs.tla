---------------------------- MODULE Worker_proofs ----------------------------
(***************************************************************************)
(* Theorems about the worker: its egress filter, the process a job runs in *)
(* and the slots, for any number of addresses, messages, slots and jobs.   *)
(***************************************************************************)
EXTENDS WorkerSlots, RunProcess, EgressFilter, TLAPS

-----------------------------------------------------------------------------
(* The egress filter.                                                      *)

Filters == [stage : {"starting", "waiting", "on", "without", "refused"},
            addresses : SUBSET ApiAddresses, healthy : BOOLEAN, ready : BOOLEAN]

\* FilterSound needs one more fact: before its first table, which nft may take and
\* still be killed, the filter does not call itself healthy.
FilterInv ==
    /\ dns \subseteq ApiAddresses /\ table \subseteq ApiAddresses /\ filter \in Filters
    /\ FilterSound
    /\ filter.stage = "starting" => ~filter.healthy

LEMMA FilterStart == EgressInit => FilterInv
BY DEF EgressInit, FilterInv, Filters, FilterSound, HealthyMeansInstalled, FilterProven

LEMMA FilterStep == ASSUME FilterInv, [EgressNext]_egressVars PROVE FilterInv'
<1> USE DEF FilterInv, FilterSound, HealthyMeansInstalled, FilterProven
<1>1. CASE ApiMoves
  BY <1>1 DEF ApiMoves
<1>2. CASE StartFilter
  BY <1>2 DEF StartFilter, Without, Filters
<1>3. CASE SelfTest
  BY <1>3 DEF SelfTest, Without, Filters
<1>4. ASSUME NEW ok \in BOOLEAN, Refresh(ok) PROVE FilterInv'
  BY <1>4 DEF Refresh, Install, Filters
<1>5. CASE UNCHANGED egressVars
  BY <1>5 DEF egressVars
<1> QED
  BY <1>1, <1>2, <1>3, <1>4, <1>5 DEF EgressNext

LEMMA FilterInvariant == EgressSpec => []FilterInv
BY FilterStart, FilterStep, PTL DEF EgressSpec

LEMMA FilterTypesKept == EgressSpec => []EgressTypes
<1>1. FilterInv => EgressTypes
  BY DEF FilterInv, Filters, EgressTypes
<1> QED
  BY <1>1, FilterInvariant, PTL

\* Whatever nft and the look-ups do, a filter that calls itself healthy has its
\* addresses in the kernel's table, and one that is on was proven.
THEOREM FilterIsSound == EgressSpec => []FilterSound
<1>1. FilterInv => FilterSound
  BY DEF FilterInv
<1> QED
  BY <1>1, FilterInvariant, PTL

-----------------------------------------------------------------------------
(* The process of a job.                                                   *)

Values == {"none", "good", "bad"}
Messages == [kind : Kinds, value : Values]
Children == [mode : JobModes, isolated : BOOLEAN, at : {"none", "setup", "preparing", "work",
                 "telling", "resulting", "tidying", "exited"},
             tool : Values, left : BOOLEAN, dir : BOOLEAN]
Readers == [at : {"idle", "writing", "reading", "ending", "judging", "done"},
            dir : BOOLEAN, refused : BOOLEAN, crashed : BOOLEAN,
            result : Values, answer : Values]

\* The state of the process, the reader and the handle.
ProcessShape ==
    /\ jobProcess \in Children /\ pipe \in Seq(Messages) /\ reader \in Readers
    /\ stopSign \in {"none", "cancelled", "timed_out", "failed", "gone"}
    /\ verdict \in {"none", "success", "failed", "cancelled", "timed_out", "unreported"}

\* The tool ended, and ended well unless it was a scan.
Earned == jobProcess.tool = "good" \/ (jobProcess.mode = "keyscan" /\ jobProcess.tool # "none")

\* A message that makes a success of the job.
Good(m) == m.value = "good" /\ m.kind \in {"answer", "result"}

\* A good message is only written, read and believed of a tool that earned it; and a
\* tool that has not ended has nothing said of it.
EarnedInv ==
    /\ \A i \in 1..Len(pipe) : Good(pipe[i]) => Earned
    /\ reader.result = "good" => Earned
    /\ reader.answer = "good" => Earned
    /\ verdict = "success" => Earned
    /\ jobProcess.at \in {"none", "setup", "preparing", "work"} => jobProcess.tool = "none"
    /\ jobProcess.at \in {"telling", "resulting"} => jobProcess.tool # "none"

\* What the reader cleaned up after stays so: nothing starts again behind it.
CleanedInv ==
    /\ reader.at \in {"judging", "done"} =>
         /\ jobProcess.at = "exited"
         /\ jobProcess.isolated \/ reader.dir => ~jobProcess.left /\ ~jobProcess.dir
    /\ reader.at = "idle" => jobProcess.at = "none" /\ pipe = <<>>

\* Messages beyond the bound of events: those of the end.
Extra(at) == CASE at \in {"none", "setup", "preparing"} -> 0 - MaxPipe
               [] at \in {"work", "telling"} -> 0
               [] at = "resulting" -> 1
               [] at = "tidying" -> 2
               [] OTHER -> 3

PipeInv == Len(pipe) <= MaxPipe + Extra(jobProcess.at)

ProcessInv == ProcessShape /\ EarnedInv /\ CleanedInv /\ PipeInv

LEMMA ProcessStart == ProcessInit => ProcessInv
<1> SUFFICES ASSUME ProcessInit PROVE ProcessInv
  OBVIOUS
<1>1. pipe \in Seq(Messages) /\ Len(pipe) = 0
  BY DEF ProcessInit
<1>2. Extra("none") = 0 - MaxPipe
  BY DEF Extra
<1>3. ProcessShape
  BY <1>1 DEF ProcessInit, ProcessShape, Children, Readers, Values
<1>4. EarnedInv
  BY <1>1 DEF ProcessInit, EarnedInv
<1>5. CleanedInv
  BY DEF ProcessInit, CleanedInv
<1>6. PipeInv
  <2>1. jobProcess.at = "none"
    BY DEF ProcessInit
  <2> QED
    BY <1>1, <1>2, <2>1, RunProcessAssumption DEF PipeInv
<1> QED
  BY <1>3, <1>4, <1>5, <1>6 DEF ProcessInv

\* A message is written: what was said before stays before it.
LEMMA EmitsOne ==
    ASSUME pipe \in Seq(Messages), NEW k \in Kinds, NEW v \in Values, Emits(k, v)
    PROVE  /\ pipe' \in Seq(Messages) /\ Len(pipe') = Len(pipe) + 1
           /\ \A i \in 1..Len(pipe') : pipe'[i] = IF i = Len(pipe') THEN Says(k, v) ELSE pipe[i]
<1>1. Says(k, v) \in Messages
  BY DEF Says, Messages
<1> QED
  BY <1>1 DEF Emits

LEMMA ReadsOne ==
    ASSUME pipe \in Seq(Messages), pipe # <<>>, pipe' = Tail(pipe)
    PROVE  /\ pipe' \in Seq(Messages) /\ Len(pipe') = Len(pipe) - 1 /\ Head(pipe) = pipe[1]
           /\ Head(pipe) \in Messages /\ Len(pipe) \in Nat \ {0}
           /\ \A i \in 1..Len(pipe') : pipe'[i] = pipe[i + 1]
OBVIOUS

\* What a step of the job's process may do to the process,
ChildMoves ==
    /\ UNCHANGED <<reader, stopSign, verdict>> /\ Alive
    /\ jobProcess' \in Children /\ jobProcess'.mode = jobProcess.mode
    /\ jobProcess'.isolated = jobProcess.isolated
    /\ \/ jobProcess'.tool = jobProcess.tool
       \/ jobProcess.at = "work" /\ jobProcess'.at = "telling" /\ jobProcess'.tool # "none"
    /\ jobProcess'.at # "none"
    /\ jobProcess'.at \in {"setup", "preparing", "work"} => jobProcess'.tool = "none"
    /\ jobProcess'.at \in {"telling", "resulting"} => jobProcess'.tool # "none"

\* and to the pipe: it says nothing, or one thing that is true.
ChildQuiet == pipe' = pipe /\ Len(pipe) <= MaxPipe + Extra(jobProcess'.at)
ChildSays(k, v) == /\ Emits(k, v) /\ (Good(Says(k, v)) => Earned')
                   /\ Len(pipe) + 1 <= MaxPipe + Extra(jobProcess'.at)

ChildEffect ==
    ChildMoves /\ (ChildQuiet \/ \E k \in Kinds, v \in Values : ChildSays(k, v))

\* The bounds on the pipe before and after each place.
LEMMA ExtraValues ==
    /\ Extra("none") = 0 - MaxPipe /\ Extra("setup") = 0 - MaxPipe
    /\ Extra("preparing") = 0 - MaxPipe
    /\ Extra("work") = 0 /\ Extra("telling") = 0 /\ Extra("resulting") = 1
    /\ Extra("tidying") = 2 /\ Extra("exited") = 3
BY DEF Extra

LEMMA PipeBounds ==
    ASSUME ProcessInv
    PROVE  /\ Len(pipe) \in Nat
           /\ jobProcess.at \in {"none", "setup", "preparing"} => Len(pipe) <= 0
           /\ jobProcess.at \in {"work", "telling"} => Len(pipe) <= MaxPipe
           /\ jobProcess.at = "resulting" => Len(pipe) <= MaxPipe + 1
           /\ jobProcess.at = "tidying" => Len(pipe) <= MaxPipe + 2
           /\ jobProcess.at = "exited" => Len(pipe) <= MaxPipe + 3
<1>1. Len(pipe) \in Nat
  BY DEF ProcessInv, ProcessShape
<1> QED
  BY <1>1, ExtraValues, RunProcessAssumption DEF ProcessInv, PipeInv

\* A step that goes to a place, and may change what is left behind, moves the process.
LEMMA ChildGoes ==
    ASSUME ProcessInv, Alive, UNCHANGED <<reader, stopSign, verdict>>,
           NEW place \in {"preparing", "work", "resulting", "tidying", "exited"},
           NEW l \in BOOLEAN, NEW d \in BOOLEAN,
           jobProcess' = [jobProcess EXCEPT !.at = place, !.left = l, !.dir = d],
           place \in {"preparing", "work"} => jobProcess.at \in {"setup", "preparing", "work"},
           place = "resulting" => jobProcess.at = "telling"
    PROVE  ChildMoves /\ jobProcess'.at = place /\ (Earned' <=> Earned)
<1>1. /\ jobProcess \in Children
      /\ jobProcess.at \in {"setup", "preparing", "work"} => jobProcess.tool = "none"
      /\ jobProcess.at = "telling" => jobProcess.tool # "none"
  BY DEF ProcessInv, ProcessShape, EarnedInv
<1>2. /\ jobProcess'.at = place /\ jobProcess'.mode = jobProcess.mode
      /\ jobProcess'.isolated = jobProcess.isolated /\ jobProcess'.tool = jobProcess.tool
      /\ jobProcess' \in Children
  BY <1>1 DEF Children
<1> QED
  BY <1>1, <1>2 DEF ChildMoves, Earned

\* Nothing good is said of a tool by any other message.
LEMMA ChildMentions ==
    ASSUME ProcessInv, NEW k \in Kinds \ {"answer", "result"}, Emits(k, "none"),
           Len(pipe) + 1 <= MaxPipe + Extra(jobProcess'.at)
    PROVE  \E kk \in Kinds, v \in Values : ChildSays(kk, v)
<1>1. ~Good(Says(k, "none"))
  BY DEF Good, Says
<1>2. ChildSays(k, "none")
  BY <1>1 DEF ChildSays
<1> QED
  BY <1>2 DEF Values

LEMMA ChildEffects ==
    ASSUME ProcessInv,
           \/ MakeDir \/ Prepare \/ Refuses \/ PlaybookEvent \/ ToolLeaves \/ ToolEnds
           \/ TellAnswer \/ TellResult \/ Tidy \/ ProcessDies
    PROVE  ChildEffect
<1>0. /\ jobProcess \in Children /\ MaxPipe \in Nat \ {0} /\ Len(pipe) \in Nat
      /\ jobProcess.at \in {"none", "setup", "preparing", "work"} => jobProcess.tool = "none"
      /\ jobProcess.at \in {"telling", "resulting"} => jobProcess.tool # "none"
  BY PipeBounds, RunProcessAssumption DEF ProcessInv, ProcessShape, EarnedInv
<1>k. {"started", "event", "refused", "cut"} \subseteq Kinds \ {"answer", "result"}
  BY DEF Kinds
<1>v. \A x \in Children :
        /\ x.left \in BOOLEAN /\ x.dir \in BOOLEAN /\ x.tool \in Values
        /\ \A place, l, d : [x EXCEPT !.at = place, !.dir = d]
                             = [x EXCEPT !.at = place, !.left = x.left, !.dir = d]
        /\ \A place : [x EXCEPT !.at = place]
                      = [x EXCEPT !.at = place, !.left = x.left, !.dir = x.dir]
        /\ \A l : [x EXCEPT !.left = l] = [x EXCEPT !.at = x.at, !.left = l, !.dir = x.dir]
  BY ZenonT(60) DEF Children
<1> USE <1>0
<1>1. CASE MakeDir
  <2>1. Alive /\ jobProcess.at = "setup" /\ UNCHANGED <<reader, stopSign, verdict>>
    BY <1>1 DEF MakeDir, ChildAt, Alive
  <2>2. CASE jobProcess.mode = "run"
    <3>1. jobProcess' = [jobProcess EXCEPT !.at = "preparing", !.left = jobProcess.left,
                                           !.dir = TRUE] /\ pipe' = pipe
      BY <1>1, <1>v, <2>2 DEF MakeDir
    <3>2. ChildMoves /\ jobProcess'.at = "preparing"
      BY <1>v, <2>1, <3>1, ChildGoes
    <3> QED
      BY <2>1, <3>1, <3>2, PipeBounds, ExtraValues DEF ChildEffect, ChildQuiet
  <2>3. CASE jobProcess.mode # "run"
    <3>1. jobProcess' = [jobProcess EXCEPT !.at = "work", !.left = jobProcess.left,
                                           !.dir = TRUE] /\ Emits("started", "none")
      BY <1>1, <1>v, <2>3 DEF MakeDir
    <3>2. ChildMoves /\ jobProcess'.at = "work"
      BY <1>v, <2>1, <3>1, ChildGoes
    <3>3. Len(pipe) + 1 <= MaxPipe + Extra(jobProcess'.at)
      BY <2>1, <3>2, PipeBounds, ExtraValues
    <3> QED
      BY <1>k, <3>1, <3>2, <3>3, ChildMentions DEF ChildEffect
  <2> QED
    BY <2>2, <2>3
<1>2. CASE Prepare
  <2>1. Alive /\ jobProcess.at = "preparing" /\ UNCHANGED <<reader, stopSign, verdict>>
    BY <1>2 DEF Prepare, ChildAt, Alive
  <2>2. CASE GoesTo("work") /\ Emits("started", "none")
    <3>1. jobProcess' = [jobProcess EXCEPT !.at = "work", !.left = jobProcess.left,
                                           !.dir = jobProcess.dir]
      BY <1>v, <2>2 DEF GoesTo
    <3>2. ChildMoves /\ jobProcess'.at = "work"
      BY <1>v, <2>1, <3>1, ChildGoes
    <3>3. Len(pipe) + 1 <= MaxPipe + Extra(jobProcess'.at)
      BY <2>1, <3>2, PipeBounds, ExtraValues
    <3> QED
      BY <1>k, <2>2, <3>2, <3>3, ChildMentions, SMTT(40) DEF ChildEffect
  <2>3. ASSUME NEW stays \in BOOLEAN, Emits("refused", "none"),
               jobProcess' = [jobProcess EXCEPT !.at = "exited", !.dir = stays]
        PROVE  ChildEffect
    <3>1. jobProcess' = [jobProcess EXCEPT !.at = "exited", !.left = jobProcess.left,
                                           !.dir = stays]
      BY <1>v, <2>3
    <3>2. ChildMoves /\ jobProcess'.at = "exited"
      BY <1>v, <2>1, <3>1, ChildGoes
    <3>3. Len(pipe) + 1 <= MaxPipe + Extra(jobProcess'.at)
      BY <2>1, <3>2, PipeBounds, ExtraValues
    <3> QED
      BY <1>k, <2>3, <3>2, <3>3, ChildMentions, SMTT(40) DEF ChildEffect
  <2> QED
    BY <1>2, <2>2, <2>3 DEF Prepare
<1>3. CASE Refuses
  <2>1. Alive /\ jobProcess.at = "work" /\ UNCHANGED <<reader, stopSign, verdict>>
    BY <1>3, SMTT(40) DEF Refuses, ChildAt, Alive
  <2>2. jobProcess' = [jobProcess EXCEPT !.at = "exited", !.left = jobProcess.left,
                                         !.dir = FALSE] /\ Emits("refused", "none")
    BY <1>3, <1>v DEF Refuses
  <2>3. ChildMoves /\ jobProcess'.at = "exited"
    BY <1>v, <2>1, <2>2, ChildGoes
  <2>4. Len(pipe) + 1 <= MaxPipe + Extra(jobProcess'.at)
    BY <2>1, <2>3, PipeBounds, ExtraValues
  <2> QED
    BY <1>k, <2>2, <2>3, <2>4, ChildMentions DEF ChildEffect
<1>4. CASE PlaybookEvent
  <2>1. /\ Alive /\ jobProcess.at = "work" /\ UNCHANGED <<reader, stopSign, verdict>>
        /\ Len(pipe) < MaxPipe /\ Emits("event", "none") /\ jobProcess' = jobProcess
    BY <1>4 DEF PlaybookEvent, ChildAt, Alive
  <2>2. ChildMoves
    BY <2>1 DEF ChildMoves
  <2>3. Len(pipe) + 1 <= MaxPipe + Extra(jobProcess'.at)
    BY <2>1, ExtraValues
  <2> QED
    BY <1>k, <2>1, <2>2, <2>3, ChildMentions DEF ChildEffect
<1>5. CASE ToolLeaves
  <2>1. /\ Alive /\ jobProcess.at = "work" /\ UNCHANGED <<reader, stopSign, verdict>>
        /\ pipe' = pipe
    BY <1>5, SMTT(40) DEF ToolLeaves, ChildAt, Alive
  <2>2. jobProcess' = [jobProcess EXCEPT !.at = "work", !.left = TRUE, !.dir = jobProcess.dir]
    BY <1>5, <1>v, <2>1 DEF ToolLeaves
  <2>3. ChildMoves /\ jobProcess'.at = "work"
    BY <1>v, <2>1, <2>2, ChildGoes
  <2> QED
    BY <2>1, <2>3, PipeBounds, ExtraValues DEF ChildEffect, ChildQuiet
<1>6. CASE ToolEnds
  <2>1. /\ Alive /\ jobProcess.at = "work" /\ UNCHANGED <<reader, stopSign, verdict>>
        /\ pipe' = pipe
    BY <1>6 DEF ToolEnds, ChildAt, Alive
  <2>2. PICK how \in {"good", "bad"} :
          jobProcess' = [jobProcess EXCEPT !.at = "telling", !.tool = how]
    BY <1>6 DEF ToolEnds
  <2>3. /\ jobProcess' \in Children /\ jobProcess'.at = "telling" /\ jobProcess'.tool = how
        /\ jobProcess'.mode = jobProcess.mode /\ jobProcess'.isolated = jobProcess.isolated
    BY <2>2 DEF Children, Values
  <2>4. ChildMoves
    BY <2>1, <2>3 DEF ChildMoves
  <2> QED
    BY <2>1, <2>3, <2>4, PipeBounds, ExtraValues DEF ChildEffect, ChildQuiet
<1>7. CASE TellAnswer
  <2>1. Alive /\ jobProcess.at = "telling" /\ UNCHANGED <<reader, stopSign, verdict>>
    BY <1>7, SMTT(40) DEF TellAnswer, ChildAt, Alive
  <2>2. jobProcess' = [jobProcess EXCEPT !.at = "resulting", !.left = jobProcess.left,
                                         !.dir = jobProcess.dir]
    BY <1>7, <1>v DEF TellAnswer, GoesTo
  <2>3. ChildMoves /\ jobProcess'.at = "resulting" /\ (Earned' <=> Earned)
    BY <1>v, <2>1, <2>2, ChildGoes
  <2>4. Len(pipe) + 1 <= MaxPipe + Extra(jobProcess'.at) /\ Len(pipe) <= MaxPipe + Extra(jobProcess'.at)
    BY <2>1, <2>3, PipeBounds, ExtraValues
  <2>5. PICK v \in Values : (pipe' = pipe \/ Emits("answer", v)) /\ (v = "good" => Earned)
    <3>1. CASE jobProcess.mode = "run"
      <4>1. pipe' = pipe
        BY <1>7, <3>1 DEF TellAnswer
      <4> QED
        BY <4>1 DEF Values
    <3>2. CASE jobProcess.mode = "lint"
      <4>1. Emits("answer", LintAnswer)
        BY <1>7, <3>2 DEF TellAnswer
      <4> QED
        BY <4>1 DEF Values, LintAnswer, Earned
    <3>3. CASE jobProcess.mode = "keyscan"
      <4>1. Emits("answer", ScanAnswer)
        BY <1>7, <3>3 DEF TellAnswer
      <4> QED
        BY <4>1, <2>1, <3>3 DEF Values, ScanAnswer, Earned
    <3>4. CASE jobProcess.mode = "inventory"
      <4>1. Emits("answer", InventoryAnswer)
        BY <1>7, <3>4 DEF TellAnswer
      <4> QED
        BY <4>1 DEF Values, InventoryAnswer, Earned
    <3> QED
      BY <3>1, <3>2, <3>3, <3>4 DEF Children, JobModes
  <2>6. CASE pipe' = pipe
    BY <2>3, <2>4, <2>6 DEF ChildEffect, ChildQuiet
  <2>7. CASE Emits("answer", v)
    <3>1. ChildSays("answer", v)
      BY <2>3, <2>4, <2>5, <2>7, SMTT(40) DEF ChildSays, Good, Says
    <3> QED
      BY <2>3, <3>1 DEF ChildEffect, Kinds
  <2> QED
    BY <2>5, <2>6, <2>7
<1>8. CASE TellResult
  <2>1. Alive /\ jobProcess.at = "resulting" /\ UNCHANGED <<reader, stopSign, verdict>>
    BY <1>8, SMTT(40) DEF TellResult, ChildAt, Alive
  <2>2. jobProcess' = [jobProcess EXCEPT !.at = "tidying", !.left = jobProcess.left,
                                         !.dir = jobProcess.dir]
    BY <1>8, <1>v DEF TellResult, GoesTo
  <2>3. ChildMoves /\ jobProcess'.at = "tidying" /\ (Earned' <=> Earned)
    BY <1>v, <2>1, <2>2, ChildGoes
  <2>4. Len(pipe) + 1 <= MaxPipe + Extra(jobProcess'.at)
    BY <2>1, <2>3, PipeBounds, ExtraValues
  <2>5. Emits("result", jobProcess.tool)
    BY <1>8 DEF TellResult
  <2>6. ChildSays("result", jobProcess.tool)
    BY <2>3, <2>4, <2>5 DEF ChildSays, Good, Says, Earned
  <2> QED
    BY <1>v, <2>3, <2>6 DEF ChildEffect, Kinds
<1>9. CASE Tidy
  <2>1. /\ Alive /\ jobProcess.at = "tidying" /\ UNCHANGED <<reader, stopSign, verdict>>
        /\ pipe' = pipe
    BY <1>9, SMTT(40) DEF Tidy, ChildAt, Alive
  <2>2. jobProcess' = [jobProcess EXCEPT !.at = "exited", !.left = jobProcess.left, !.dir = FALSE]
    BY <1>9, <1>v DEF Tidy
  <2>3. ChildMoves /\ jobProcess'.at = "exited"
    BY <1>v, <2>1, <2>2, ChildGoes
  <2> QED
    BY <2>1, <2>3, PipeBounds, ExtraValues, SMTT(40) DEF ChildEffect, ChildQuiet
<1>10. CASE ProcessDies
  <2>1. Alive /\ UNCHANGED <<reader, stopSign, verdict>>
    BY <1>10, SMTT(40) DEF ProcessDies
  <2>2. jobProcess' = [jobProcess EXCEPT !.at = "exited", !.left = jobProcess.left,
                                         !.dir = jobProcess.dir]
    BY <1>10, <1>v DEF ProcessDies, GoesTo
  <2>3. ChildMoves /\ jobProcess'.at = "exited"
    BY <1>v, <2>1, <2>2, ChildGoes
  <2>4. jobProcess.at \in {"setup", "preparing", "work", "telling", "resulting", "tidying"}
    BY <2>1 DEF Children, Alive
  <2>5. Len(pipe) + 1 <= MaxPipe + Extra(jobProcess'.at) /\ Len(pipe) <= MaxPipe + Extra(jobProcess'.at)
    BY <2>3, <2>4, PipeBounds, ExtraValues
  <2>6. pipe' = pipe \/ Emits("cut", "none")
    BY <1>10 DEF ProcessDies
  <2>7. CASE pipe' = pipe
    BY <2>3, <2>5, <2>7 DEF ChildEffect, ChildQuiet
  <2>8. CASE Emits("cut", "none")
    BY <1>k, <2>3, <2>5, <2>8, ChildMentions DEF ChildEffect
  <2> QED
    BY <2>6, <2>7, <2>8
<1> QED
  BY <1>1, <1>2, <1>3, <1>4, <1>5, <1>6, <1>7, <1>8, <1>9, <1>10

LEMMA ChildKeeps == ASSUME ProcessInv, ChildEffect PROVE ProcessInv'
<1>1. pipe' \in Seq(Messages)
  BY EmitsOne DEF ProcessInv, ProcessShape, ChildEffect, ChildMoves, ChildQuiet, ChildSays
<1>2. ProcessShape'
  BY <1>1 DEF ProcessInv, ProcessShape, ChildEffect, ChildMoves, ChildQuiet, ChildSays
<1>3. Earned => Earned'
  BY DEF ProcessInv, EarnedInv, ChildEffect, ChildMoves, Earned, Alive
<1>4. \A i \in 1..Len(pipe') : Good(pipe'[i]) => Earned'
  <2>1. CASE pipe' = pipe
    BY <1>3, <2>1 DEF ProcessInv, EarnedInv
  <2>2. ASSUME NEW k \in Kinds, NEW v \in Values, Emits(k, v), Good(Says(k, v)) => Earned'
        PROVE  \A i \in 1..Len(pipe') : Good(pipe'[i]) => Earned'
    <3>1. /\ Len(pipe) \in Nat /\ Len(pipe') = Len(pipe) + 1
          /\ \A i \in 1..Len(pipe') : pipe'[i] = IF i = Len(pipe') THEN Says(k, v) ELSE pipe[i]
      BY <2>2, EmitsOne DEF ProcessInv, ProcessShape
    <3> SUFFICES ASSUME NEW i \in 1..Len(pipe'), Good(pipe'[i]) PROVE Earned'
      OBVIOUS
    <3>2. CASE i = Len(pipe')
      BY <2>2, <3>1, <3>2
    <3>3. CASE i \in 1..Len(pipe)
      BY <1>3, <3>1, <3>3 DEF ProcessInv, EarnedInv
    <3> QED
      BY <3>1, <3>2, <3>3
  <2> QED
    BY <2>1, <2>2 DEF ChildEffect, ChildQuiet, ChildSays
<1>5. EarnedInv'
  BY <1>3, <1>4 DEF ProcessInv, EarnedInv, ChildEffect, ChildMoves, Alive
<1>6. CleanedInv'
  BY DEF ProcessInv, CleanedInv, ChildEffect, ChildMoves, Alive
<1>7. PipeInv'
  BY EmitsOne DEF ProcessInv, ProcessShape, PipeInv, ChildEffect, ChildMoves, ChildQuiet, ChildSays
<1> QED
  BY <1>2, <1>5, <1>6, <1>7 DEF ProcessInv

\* What ReadMessage, the only step that takes from the pipe, keeps.
LEMMA ReadKeeps == ASSUME ProcessInv, ReadMessage PROVE ProcessInv'
<1>1. /\ pipe \in Seq(Messages) /\ pipe # <<>> /\ pipe' = Tail(pipe) /\ jobProcess' = jobProcess
      /\ reader.at = "reading" /\ UNCHANGED <<stopSign, verdict>>
      /\ reader \in Readers
  BY DEF ProcessInv, ProcessShape, ReadMessage, ReaderAt
<1>2. /\ pipe' \in Seq(Messages) /\ Len(pipe') = Len(pipe) - 1 /\ Head(pipe) = pipe[1]
      /\ Head(pipe) \in Messages /\ Len(pipe) \in Nat \ {0}
      /\ \A i \in 1..Len(pipe') : pipe'[i] = pipe[i + 1]
  BY <1>1, ReadsOne
<1> DEFINE m == Head(pipe)
<1>3. /\ m.kind \in Kinds /\ m.value \in Values
      /\ (m.kind \in {"answer", "result"} /\ m.value = "good") => Earned
  BY <1>1, <1>2 DEF Messages, ProcessInv, EarnedInv, Good
<1>4. \/ reader' = [reader EXCEPT !.dir = TRUE] \/ reader' = reader
      \/ reader' = [reader EXCEPT !.refused = TRUE]
      \/ reader' = [reader EXCEPT !.at = "ending", !.crashed = TRUE]
      \/ m.kind = "answer" /\ reader' = [reader EXCEPT !.answer = m.value]
      \/ m.kind = "result" /\ reader' = [reader EXCEPT !.result = m.value]
  BY <1>3 DEF ReadMessage, Kinds
<1> HIDE DEF m
<1>5. /\ reader' \in Readers /\ reader'.at \in {"reading", "ending"}
      /\ reader'.answer \in {reader.answer, m.value} /\ reader'.result \in {reader.result, m.value}
      /\ reader'.answer # reader.answer => m.kind = "answer"
      /\ reader'.result # reader.result => m.kind = "result"
  BY <1>1, <1>3, <1>4 DEF Readers, Values
<1>6. ProcessShape'
  BY <1>1, <1>2, <1>5 DEF ProcessInv, ProcessShape
<1>7. EarnedInv'
  <2>1. Earned' <=> Earned
    BY <1>1 DEF Earned
  <2>2. (reader'.answer = "good" => Earned) /\ (reader'.result = "good" => Earned)
    BY <1>3, <1>5 DEF ProcessInv, EarnedInv
  <2>3. \A i \in 1..Len(pipe') : Good(pipe'[i]) => Earned
    BY <1>2 DEF ProcessInv, EarnedInv
  <2> QED
    BY <1>1, <2>1, <2>2, <2>3 DEF ProcessInv, EarnedInv
<1>8. CleanedInv'
  BY <1>5 DEF CleanedInv
<1>9. PipeInv'
  <2>1. Extra(jobProcess.at) \in Int
    BY RunProcessAssumption DEF Extra
  <2> QED
    BY <1>1, <1>2, <2>1, RunProcessAssumption DEF ProcessInv, PipeInv
<1> QED
  BY <1>6, <1>7, <1>8, <1>9 DEF ProcessInv

\* The other steps of the slot's thread and of the handle leave the pipe alone.
LEMMA ReaderKeeps ==
    ASSUME ProcessInv,
           \/ LaunchProcess \/ WriteJob \/ ReadEnd \/ EndAndCleanUp \/ Judge
           \/ \E reason \in {"cancelled", "timed_out", "failed", "gone"} : StopProcess(reason)
    PROVE  ProcessInv'
<1>0. /\ jobProcess \in Children /\ reader \in Readers /\ pipe' = pipe
      /\ pipe \in Seq(Messages) /\ Len(pipe) \in Nat
  BY DEF ProcessInv, ProcessShape, LaunchProcess, WriteJob, ReadEnd, EndAndCleanUp, Judge, StopProcess
<1>1. CASE LaunchProcess
  <2>1. /\ reader.at = "idle" /\ reader' = [reader EXCEPT !.at = "writing"]
        /\ jobProcess' = [jobProcess EXCEPT !.at = "setup"] /\ UNCHANGED <<stopSign, verdict>>
        /\ jobProcess.at = "none" /\ pipe = <<>> /\ jobProcess.tool = "none"
    BY <1>1 DEF LaunchProcess, GoesTo, ProcessInv, CleanedInv, EarnedInv
  <2>2. /\ reader' \in Readers /\ reader'.at = "writing" /\ reader'.result = reader.result
        /\ reader'.answer = reader.answer
    BY <1>0, <2>1 DEF Readers
  <2>3. /\ jobProcess' \in Children /\ jobProcess'.at = "setup" /\ jobProcess'.tool = "none"
        /\ jobProcess'.mode = jobProcess.mode
    BY <1>0, <2>1 DEF Children
  <2>4. ProcessShape'
    BY <1>0, <2>1, <2>2, <2>3 DEF ProcessInv, ProcessShape
  <2>5. EarnedInv'
    BY <1>0, <2>1, <2>2, <2>3 DEF ProcessInv, EarnedInv, Earned
  <2>6. CleanedInv' /\ PipeInv'
    BY <1>0, <2>1, <2>2, <2>3, ExtraValues, RunProcessAssumption DEF CleanedInv, PipeInv
  <2> QED
    BY <2>4, <2>5, <2>6 DEF ProcessInv
<1>2. CASE WriteJob \/ ReadEnd
  <2>1. /\ jobProcess' = jobProcess /\ UNCHANGED <<stopSign, verdict>>
        /\ \/ reader' = [reader EXCEPT !.at = "reading"]
           \/ reader' = [reader EXCEPT !.at = "ending", !.crashed = TRUE]
           \/ reader' = [reader EXCEPT !.at = "ending"]
    BY <1>2 DEF WriteJob, ReadEnd, ReaderAt
  <2>2. /\ reader' \in Readers /\ reader'.at \in {"reading", "ending"}
        /\ reader'.result = reader.result /\ reader'.answer = reader.answer
    BY <1>0, <2>1 DEF Readers
  <2>3. ProcessShape'
    BY <1>0, <2>1, <2>2 DEF ProcessInv, ProcessShape
  <2>4. EarnedInv'
    BY <1>0, <2>1, <2>2 DEF ProcessInv, EarnedInv, Earned
  <2>5. CleanedInv' /\ PipeInv'
    BY <1>0, <2>1, <2>2 DEF CleanedInv, PipeInv, ProcessInv
  <2> QED
    BY <2>3, <2>4, <2>5 DEF ProcessInv
<1>3. CASE EndAndCleanUp
  <2>1. /\ reader' = [reader EXCEPT !.at = "judging"] /\ UNCHANGED <<stopSign, verdict>>
        /\ jobProcess' = [jobProcess EXCEPT !.at = "exited", !.left = @ /\ Unknown,
                                            !.dir = @ /\ Unknown]
    BY <1>3 DEF EndAndCleanUp, ReaderAt
  <2>2. /\ reader' \in Readers /\ reader'.at = "judging" /\ reader'.result = reader.result
        /\ reader'.answer = reader.answer /\ reader'.dir = reader.dir
    BY <1>0, <2>1 DEF Readers
  <2>3. /\ jobProcess'.at = "exited" /\ jobProcess'.tool = jobProcess.tool
        /\ jobProcess'.mode = jobProcess.mode /\ jobProcess'.isolated = jobProcess.isolated
        /\ jobProcess'.left = (jobProcess.left /\ Unknown)
        /\ jobProcess'.dir = (jobProcess.dir /\ Unknown)
        /\ jobProcess' \in Children
    BY <1>0, <2>1 DEF Children
  <2>4. ProcessShape'
    BY <1>0, <2>1, <2>2, <2>3 DEF ProcessInv, ProcessShape
  <2>5. EarnedInv'
    BY <1>0, <2>1, <2>2, <2>3 DEF ProcessInv, EarnedInv, Earned
  <2>6. CleanedInv'
    BY <1>0, <2>2, <2>3 DEF CleanedInv, Unknown
  <2>7. PipeInv'
    <3>1. jobProcess.at \in {"none", "setup", "preparing", "work", "telling", "resulting",
                             "tidying", "exited"}
      BY <1>0 DEF Children
    <3> QED
      BY <1>0, <2>3, <3>1, PipeBounds, ExtraValues, RunProcessAssumption DEF PipeInv
  <2> QED
    BY <2>4, <2>5, <2>6, <2>7 DEF ProcessInv
<1>4. CASE Judge
  <2>1. /\ reader.at = "judging" /\ reader' = [reader EXCEPT !.at = "done"]
        /\ jobProcess' = jobProcess /\ stopSign' = stopSign
        /\ verdict' = IF stopSign = "gone" THEN "unreported"
                      ELSE IF stopSign # "none" THEN stopSign ELSE Outcome
    BY <1>4 DEF Judge
  <2>2. /\ reader' \in Readers /\ reader'.at = "done" /\ reader'.result = reader.result
        /\ reader'.answer = reader.answer /\ reader'.dir = reader.dir
    BY <1>0, <2>1 DEF Readers
  <2>3. /\ Outcome \in {"success", "failed"}
        /\ Outcome = "success" => reader.result = "good" \/ reader.answer = "good"
    BY DEF Outcome
  <2>4. ProcessShape'
    BY <1>0, <2>1, <2>2, <2>3 DEF ProcessInv, ProcessShape
  <2>5. verdict' = "success" => Earned
    BY <2>1, <2>3 DEF ProcessInv, EarnedInv, ProcessShape
  <2>6. EarnedInv'
    BY <1>0, <2>1, <2>2, <2>5 DEF ProcessInv, EarnedInv, Earned
  <2>7. CleanedInv' /\ PipeInv'
    BY <1>0, <2>1, <2>2 DEF CleanedInv, PipeInv, ProcessInv
  <2> QED
    BY <2>4, <2>6, <2>7 DEF ProcessInv
<1>5. ASSUME NEW reason \in {"cancelled", "timed_out", "failed", "gone"}, StopProcess(reason)
      PROVE  ProcessInv'
  BY <1>5 DEF StopProcess, ProcessInv, ProcessShape, EarnedInv, Earned, CleanedInv, PipeInv
<1> QED
  BY <1>1, <1>2, <1>3, <1>4, <1>5

LEMMA ProcessKeeps == ASSUME ProcessInv, [ProcessNext]_processVars PROVE ProcessInv'
<1>1. CASE UNCHANGED processVars
  BY <1>1 DEF processVars, ProcessInv, ProcessShape, EarnedInv, Earned, CleanedInv, PipeInv
<1> QED
  BY <1>1, ChildEffects, ChildKeeps, ReadKeeps, ReaderKeeps DEF ProcessNext

LEMMA ProcessInvariant == ProcessSpec => []ProcessInv
BY ProcessStart, ProcessKeeps, PTL DEF ProcessSpec

LEMMA ProcessTyped == ASSUME ProcessInv PROVE ProcessTypes
<1>1. jobProcess.at \in {"none", "setup", "preparing", "work", "telling", "resulting",
                         "tidying", "exited"}
  BY DEF ProcessInv, ProcessShape, Children
<1>2. Len(pipe) <= MaxPipe + 4
  BY <1>1, PipeBounds, RunProcessAssumption
<1>3. \A i \in DOMAIN pipe : pipe[i] \in Messages
  BY DEF ProcessInv, ProcessShape
<1> QED
  BY <1>2, <1>3 DEF ProcessInv, ProcessShape, ProcessTypes, Children, Readers, Messages, Values

LEMMA ProcessTypesKept == ProcessSpec => []ProcessTypes
BY ProcessInvariant, ProcessTyped, PTL

\* However the process, its tool, the pipe and the handle interleave: a success is
\* reported only of a tool that earned it, and behind the outcome nothing goes on.
THEOREM OutcomesAreTrue == ProcessSpec => []OutcomeIsTrue
<1>1. ProcessInv => OutcomeIsTrue
  BY DEF ProcessInv, EarnedInv, CleanedInv, Earned, OutcomeIsTrue, SuccessIsEarned,
         NothingOutlives, Alive
<1> QED
  BY <1>1, ProcessInvariant, PTL

-----------------------------------------------------------------------------
(* The slots.                                                              *)

\* A slot that takes a job was swept since the last, and what is left on one that runs
\* or reports a job is that job's.
SlotClean(s) ==
    /\ slot[s].at \in {"swept", "polling", "fetching", "preparing"} => left[s] = NoJob
    /\ slot[s].at \in {"ready", "running", "cleaning", "reporting"} =>
         left[s] \in {NoJob, slot[s].job}

\* The allowlist of a job is there from before its process until what it left is gone.
SlotAllowed(s) ==
    /\ left[s] \in Restricted => allow[s] = left[s]
    /\ slot[s].at \in {"polling", "fetching", "preparing"} => allow[s] = NoJob
    /\ slot[s].at \in {"ready", "running", "cleaning"} =>
         allow[s] = IF slot[s].job \in Restricted THEN slot[s].job ELSE NoJob
    /\ slot[s].at = "reporting" => allow[s] \in {NoJob} \union ({slot[s].job} \intersect Restricted)

\* The slot's job is under its key in the table, and nobody else's at the API; once its
\* lease ran out, the slot was told.
SlotHeld(s) ==
    slot[s].job # NoJob =>
      /\ tasks[slot[s].job] = s
      /\ api[slot[s].job].status # "waiting"
      /\ api[slot[s].job].status = "claimed" => api[slot[s].job].owner = s
      /\ api[slot[s].job].status = "lost" => slot[s].reason # "none"

\* A slot that was told has told its process, and shutdown tells all that have a job.
SlotStopped(s) ==
    /\ slot[s].reason # "none" => child[s] # "alive"
    /\ halt = "stopped" /\ slot[s].job # NoJob => slot[s].reason # "none"

SlotOk(s) == SlotClean(s) /\ SlotAllowed(s) /\ SlotHeld(s) /\ SlotStopped(s)

SlotInv == SlotTypes /\ \A s \in Slots : SlotOk(s)

SlotRecords == [at : Places, job : SlotJobs \union {NoJob}, reason : Reasons]
ApiRecords == [status : {"waiting", "claimed", "ended", "lost"},
               owner : Slots \union {NoSlot}, handed : BOOLEAN]

\* The slots other than the one that steps see nothing of the step.
OthersStay(s) ==
    /\ slot' \in [Slots -> SlotRecords] /\ child' \in [Slots -> {"none", "alive", "stopping"}]
    /\ left' \in [Slots -> SlotJobs \union {NoJob}]
    /\ allow' \in [Slots -> SlotJobs \union {NoJob}]
    /\ \A t \in Slots \ {s} :
         /\ slot'[t] = slot[t] /\ child'[t] = child[t]
         /\ left'[t] = left[t] /\ allow'[t] = allow[t]

\* The slot itself keeps what is said of one slot.
SelfStays(s) ==
    /\ slot'[s].at \in Busy <=> slot'[s].job # NoJob
    /\ child'[s] # "none" => slot'[s].at = "running"
    /\ SlotOk(s)'

\* The table and the API keep what they have for the jobs of the other slots.
JobsStay(s) ==
    /\ api' \in [SlotJobs -> ApiRecords] /\ tasks' \in [SlotJobs -> Slots \union {NoSlot}]
    /\ \A j \in SlotJobs : tasks[j] # s /\ api[j].status # "waiting" =>
         api'[j] = api[j] /\ tasks'[j] = tasks[j]

RestTyped == /\ beat' \in (SUBSET Slots) \union {{NoSlot}} /\ combined' \subseteq Combining
             /\ halt' = halt /\ halt \in {"no", "draining", "stopped"}

LEMMA OneSlotSteps ==
    ASSUME SlotInv, NEW s \in Slots, OthersStay(s), SelfStays(s), JobsStay(s), RestTyped
    PROVE  SlotInv'
<1>1. ASSUME NEW t \in Slots \ {s} PROVE SlotOk(t)'
  <2>1. /\ slot'[t] = slot[t] /\ child'[t] = child[t] /\ left'[t] = left[t]
        /\ allow'[t] = allow[t] /\ halt' = halt /\ SlotOk(t)
        /\ slot[t].job \in SlotJobs \union {NoJob}
    BY DEF SlotInv, SlotTypes, OthersStay, RestTyped
  <2>2. slot[t].job # NoJob => api'[slot[t].job] = api[slot[t].job]
                               /\ tasks'[slot[t].job] = tasks[slot[t].job]
    BY <2>1 DEF JobsStay, SlotOk, SlotHeld
  <2> QED
    BY <2>1, <2>2 DEF SlotOk, SlotClean, SlotAllowed, SlotHeld, SlotStopped
<1>2. \A t \in Slots : SlotOk(t)'
  BY <1>1 DEF SelfStays
<1>3. \A t \in Slots : /\ slot'[t].at \in Busy <=> slot'[t].job # NoJob
                       /\ child'[t] # "none" => slot'[t].at = "running"
  BY DEF SelfStays, OthersStay, SlotInv, SlotTypes
<1>4. SlotTypes'
  <2>1. /\ slot' \in [Slots -> SlotRecords] /\ api' \in [SlotJobs -> ApiRecords]
        /\ tasks' \in [SlotJobs -> Slots \union {NoSlot}]
        /\ child' \in [Slots -> {"none", "alive", "stopping"}]
        /\ left' \in [Slots -> SlotJobs \union {NoJob}]
        /\ allow' \in [Slots -> SlotJobs \union {NoJob}]
        /\ beat' \in (SUBSET Slots) \union {{NoSlot}} /\ combined' \subseteq Combining
        /\ halt' \in {"no", "draining", "stopped"}
    BY DEF OthersStay, JobsStay, RestTyped
  <2> QED
    BY <1>3, <2>1 DEF SlotTypes, SlotRecords, ApiRecords
<1> QED
  BY <1>2, <1>4 DEF SlotInv

LEMMA SlotFacts ==
    ASSUME SlotInv
    PROVE  /\ slot \in [Slots -> SlotRecords] /\ api \in [SlotJobs -> ApiRecords]
           /\ tasks \in [SlotJobs -> Slots \union {NoSlot}]
           /\ child \in [Slots -> {"none", "alive", "stopping"}]
           /\ left \in [Slots -> SlotJobs \union {NoJob}]
           /\ allow \in [Slots -> SlotJobs \union {NoJob}]
           /\ beat \in (SUBSET Slots) \union {{NoSlot}} /\ combined \subseteq Combining
           /\ halt \in {"no", "draining", "stopped"}
           /\ \A s \in Slots :
                /\ slot[s].at \in Places /\ slot[s].job \in SlotJobs \union {NoJob}
                /\ slot[s].reason \in Reasons
                /\ slot[s].at \in Busy <=> slot[s].job # NoJob
                /\ child[s] # "none" => slot[s].at = "running"
                /\ SlotClean(s) /\ SlotAllowed(s) /\ SlotHeld(s) /\ SlotStopped(s)
BY DEF SlotInv, SlotTypes, SlotRecords, ApiRecords, SlotOk

LEMMA GoesOne ==
    ASSUME slot \in [Slots -> SlotRecords], NEW s \in Slots, NEW place \in Places, Goes(s, place)
    PROVE  /\ slot' \in [Slots -> SlotRecords]
           /\ slot'[s].at = place /\ slot'[s].job = slot[s].job /\ slot'[s].reason = slot[s].reason
           /\ \A t \in Slots \ {s} : slot'[t] = slot[t]
BY DEF Goes, SlotRecords

\* A step that leaves the jobs alone.
LEMMA JobsUntouched ==
    ASSUME SlotInv, NEW s, UNCHANGED <<api, tasks>> PROVE JobsStay(s)
BY SlotFacts DEF JobsStay

LEMMA SlotStart == SlotInit => SlotInv
<1> SUFFICES ASSUME SlotInit PROVE SlotInv
  OBVIOUS
<1>1. SlotTypes
  <2>1. \A s \in Slots : slot[s] = [at |-> "off", job |-> NoJob, reason |-> "none"] /\ child[s] = "none"
    BY DEF SlotInit
  <2>2. slot \in [Slots -> [at : Places, job : SlotJobs \union {NoJob}, reason : Reasons]]
    BY DEF SlotInit, Places, Reasons
  <2>3. api \in [SlotJobs -> [status : {"waiting", "claimed", "ended", "lost"},
                            owner : Slots \union {NoSlot}, handed : BOOLEAN]]
    BY DEF SlotInit
  <2>4. beat \in (SUBSET Slots) \union {{NoSlot}}
    BY DEF SlotInit, NoBeat
  <2> QED
    BY <2>1, <2>2, <2>3, <2>4 DEF SlotInit, SlotTypes, Busy
<1>2. \A s \in Slots : SlotOk(s)
  BY SlotsAssumption DEF SlotInit, SlotOk, SlotClean, SlotAllowed, SlotHeld, SlotStopped
<1> QED
  BY <1>1, <1>2 DEF SlotInv

LEMMA SweepKeeps ==
    ASSUME SlotInv, NEW s \in Slots, SweepSlot(s) \/ ReleaseAllowlist(s) PROVE SlotInv'
<1>0. /\ UNCHANGED <<api, tasks, child, beat, combined, halt>> /\ slot[s].at \in {"dirty", "swept"}
      /\ slot[s].job = NoJob /\ NoJob \notin Restricted
  BY SlotFacts, SlotsAssumption DEF SweepSlot, ReleaseAllowlist, Busy, Places
<1>1. \E place \in {"dirty", "swept", "polling", "off"} :
        /\ Goes(s, place)
        /\ left' \in [Slots -> SlotJobs \union {NoJob}]
        /\ allow' \in [Slots -> SlotJobs \union {NoJob}]
        /\ left'[s] \in {NoJob, left[s]} /\ allow'[s] \in {NoJob, allow[s]}
        /\ \A t \in Slots \ {s} : left'[t] = left[t] /\ allow'[t] = allow[t]
        /\ place \in {"swept", "polling"} => left'[s] = NoJob
        /\ place = "polling" => allow'[s] = NoJob
        /\ left'[s] # NoJob => allow'[s] = allow[s]
  <2>1. CASE SweepSlot(s)
    BY <2>1, SlotFacts DEF SweepSlot, Sweeping
  <2>2. CASE ReleaseAllowlist(s)
    BY <2>2, SlotFacts DEF ReleaseAllowlist, SlotClean
  <2> QED
    BY <2>1, <2>2
<1>2. PICK place \in {"dirty", "swept", "polling", "off"} :
        /\ Goes(s, place)
        /\ left' \in [Slots -> SlotJobs \union {NoJob}]
        /\ allow' \in [Slots -> SlotJobs \union {NoJob}]
        /\ left'[s] \in {NoJob, left[s]} /\ allow'[s] \in {NoJob, allow[s]}
        /\ \A t \in Slots \ {s} : left'[t] = left[t] /\ allow'[t] = allow[t]
        /\ place \in {"swept", "polling"} => left'[s] = NoJob
        /\ place = "polling" => allow'[s] = NoJob
        /\ left'[s] # NoJob => allow'[s] = allow[s]
  BY <1>1
<1>3. /\ slot' \in [Slots -> SlotRecords] /\ slot'[s].at = place /\ slot'[s].job = NoJob
      /\ slot'[s].reason = slot[s].reason /\ \A t \in Slots \ {s} : slot'[t] = slot[t]
  BY <1>0, <1>2, SlotFacts, GoesOne DEF Places
<1>4. OthersStay(s)
  BY <1>0, <1>2, <1>3, SlotFacts DEF OthersStay
<1>5. SlotOk(s)'
  BY <1>0, <1>2, <1>3, SlotFacts DEF SlotOk, SlotClean, SlotAllowed, SlotHeld, SlotStopped
<1>6. SelfStays(s)
  BY <1>0, <1>2, <1>3, <1>5, SlotFacts DEF SelfStays, Busy
<1> QED
  BY <1>0, <1>4, <1>6, JobsUntouched, OneSlotSteps, SlotFacts DEF RestTyped

\* Steps of a slot thread that keep its job and touch no other job.
LEMMA ThreadKeeps ==
    ASSUME SlotInv, NEW s \in Slots,
           \/ NothingClaimed(s) \/ StartChild(s) \/ ChildEnds(s) \/ CleanUp(s)
           \/ CombineNext(s) \/ LeavesBehind(s)
    PROVE  SlotInv'
<1>0. /\ UNCHANGED <<api, tasks, allow, beat, halt>> /\ NoJob \notin SlotJobs
      /\ Restricted \intersect Combining = {} /\ Restricted \subseteq SlotJobs
  BY SlotsAssumption DEF NothingClaimed, StartChild, ChildEnds, CleanUp, CombineNext,
                         LeavesBehind, osVars
<1>1. JobsStay(s) /\ (combined' \subseteq Combining => RestTyped)
  BY <1>0, JobsUntouched, SlotFacts DEF RestTyped
<1> USE SlotFacts
<1>2. CASE NothingClaimed(s)
  <2>1. Goes(s, "off") /\ slot[s].at = "polling" /\ UNCHANGED <<child, left, combined>>
    BY <1>2 DEF NothingClaimed, osVars
  <2>2. /\ slot' \in [Slots -> SlotRecords] /\ slot'[s].at = "off" /\ slot'[s].job = slot[s].job
        /\ slot'[s].reason = slot[s].reason /\ \A t \in Slots \ {s} : slot'[t] = slot[t]
    BY <2>1, GoesOne DEF Places
  <2>3. OthersStay(s)
    BY <1>0, <2>1, <2>2 DEF OthersStay
  <2>4. SlotOk(s)'
    BY <1>0, <2>1, <2>2 DEF SlotOk, SlotClean, SlotAllowed, SlotHeld, SlotStopped
  <2>5. SelfStays(s)
    BY <2>1, <2>2, <2>4 DEF SelfStays, Busy
  <2> QED
    BY <1>1, <2>1, <2>3, <2>5, OneSlotSteps
<1>3. CASE StartChild(s)
  <2>1. /\ Goes(s, "running") /\ slot[s].at = "ready" /\ UNCHANGED <<left, combined>>
        /\ child' = [child EXCEPT ![s] = IF slot[s].reason = "none" THEN "alive" ELSE "stopping"]
    BY <1>3 DEF StartChild
  <2>2. /\ slot' \in [Slots -> SlotRecords] /\ slot'[s].at = "running"
        /\ slot'[s].job = slot[s].job /\ slot[s].job # NoJob
        /\ slot'[s].reason = slot[s].reason /\ \A t \in Slots \ {s} : slot'[t] = slot[t]
    BY <2>1, GoesOne DEF Places, Busy
  <2>3. OthersStay(s)
    BY <1>0, <2>1, <2>2 DEF OthersStay
  <2>4. SlotOk(s)'
    BY <1>0, <2>1, <2>2 DEF SlotOk, SlotClean, SlotAllowed, SlotHeld, SlotStopped
  <2>5. SelfStays(s)
    BY <2>1, <2>2, <2>4 DEF SelfStays, Busy
  <2> QED
    BY <1>1, <2>1, <2>3, <2>5, OneSlotSteps
<1>4. CASE ChildEnds(s)
  <2>1. /\ Goes(s, "cleaning") /\ slot[s].at = "running" /\ UNCHANGED <<left, combined>>
        /\ child' = [child EXCEPT ![s] = "none"]
    BY <1>4 DEF ChildEnds
  <2>2. /\ slot' \in [Slots -> SlotRecords] /\ slot'[s].at = "cleaning"
        /\ slot'[s].job = slot[s].job /\ slot[s].job # NoJob
        /\ slot'[s].reason = slot[s].reason /\ \A t \in Slots \ {s} : slot'[t] = slot[t]
    BY <2>1, GoesOne DEF Places, Busy
  <2>3. OthersStay(s)
    BY <1>0, <2>1, <2>2 DEF OthersStay
  <2>4. SlotOk(s)'
    BY <1>0, <2>1, <2>2 DEF SlotOk, SlotClean, SlotAllowed, SlotHeld, SlotStopped
  <2>5. SelfStays(s)
    BY <2>1, <2>2, <2>4 DEF SelfStays, Busy
  <2> QED
    BY <1>1, <2>1, <2>3, <2>5, OneSlotSteps
<1>5. CASE CleanUp(s)
  <2>1. /\ Goes(s, "reporting") /\ slot[s].at = "cleaning" /\ UNCHANGED <<child, combined>>
        /\ left' \in [Slots -> SlotJobs \union {NoJob}] /\ left'[s] \in {NoJob, left[s]}
        /\ \A t \in Slots \ {s} : left'[t] = left[t]
    BY <1>5 DEF CleanUp, Sweeping
  <2>2. /\ slot' \in [Slots -> SlotRecords] /\ slot'[s].at = "reporting"
        /\ slot'[s].job = slot[s].job /\ slot[s].job # NoJob
        /\ slot'[s].reason = slot[s].reason /\ \A t \in Slots \ {s} : slot'[t] = slot[t]
    BY <2>1, GoesOne DEF Places, Busy
  <2>3. OthersStay(s)
    BY <1>0, <2>1, <2>2 DEF OthersStay
  <2>4. SlotOk(s)'
    BY <1>0, <2>1, <2>2 DEF SlotOk, SlotClean, SlotAllowed, SlotHeld, SlotStopped
  <2>5. SelfStays(s)
    BY <2>1, <2>2, <2>4 DEF SelfStays, Busy
  <2> QED
    BY <1>1, <2>1, <2>3, <2>5, OneSlotSteps
<1>6. CASE CombineNext(s)
  <2>1. /\ Goes(s, "ready") /\ slot[s].at = "reporting" /\ UNCHANGED <<child, left>>
        /\ combined' \subseteq Combining /\ slot[s].job \notin Restricted
    BY <1>0, <1>6 DEF CombineNext, osVars
  <2>2. /\ slot' \in [Slots -> SlotRecords] /\ slot'[s].at = "ready"
        /\ slot'[s].job = slot[s].job /\ slot[s].job # NoJob
        /\ slot'[s].reason = slot[s].reason /\ \A t \in Slots \ {s} : slot'[t] = slot[t]
    BY <2>1, GoesOne DEF Places, Busy
  <2>3. OthersStay(s)
    BY <1>0, <2>1, <2>2 DEF OthersStay
  <2>4. SlotOk(s)'
    BY <1>0, <2>1, <2>2 DEF SlotOk, SlotClean, SlotAllowed, SlotHeld, SlotStopped
  <2>5. SelfStays(s)
    BY <2>1, <2>2, <2>4 DEF SelfStays, Busy
  <2> QED
    BY <1>1, <2>1, <2>3, <2>5, OneSlotSteps
<1>7. CASE LeavesBehind(s)
  <2>1. /\ slot[s].at = "running" /\ UNCHANGED <<slot, child, combined>>
        /\ left' = [left EXCEPT ![s] = slot[s].job]
    BY <1>7 DEF LeavesBehind
  <2>2. OthersStay(s)
    BY <1>0, <2>1 DEF OthersStay
  <2>3. SlotOk(s)'
    BY <1>0, <2>1 DEF SlotOk, SlotClean, SlotAllowed, SlotHeld, SlotStopped
  <2>4. SelfStays(s)
    BY <2>1, <2>3 DEF SelfStays
  <2> QED
    BY <1>1, <2>1, <2>2, <2>4, OneSlotSteps
<1> QED
  BY <1>2, <1>3, <1>4, <1>5, <1>6, <1>7

LEMMA PrepareKeeps == ASSUME SlotInv, NEW s \in Slots, PrepareJob(s) PROVE SlotInv'
<1> USE SlotFacts
<1>1. /\ UNCHANGED <<api, tasks, child, left, beat, combined, halt>>
      /\ slot[s].at = "preparing" /\ slot[s].job \in SlotJobs /\ NoJob \notin SlotJobs
      /\ Restricted \subseteq SlotJobs
  BY SlotsAssumption DEF PrepareJob, Busy
<1>2. PICK place \in {"ready", "reporting"} :
        /\ Goes(s, place) /\ allow' \in [Slots -> SlotJobs \union {NoJob}]
        /\ \A t \in Slots \ {s} : allow'[t] = allow[t]
        /\ allow'[s] \in {NoJob} \union ({slot[s].job} \intersect Restricted)
        /\ place = "ready" => allow'[s] = IF slot[s].job \in Restricted THEN slot[s].job ELSE NoJob
  <2>1. allow[s] = NoJob
    BY <1>1 DEF SlotAllowed
  <2> QED
    BY <1>1, <2>1 DEF PrepareJob
<1>3. /\ slot' \in [Slots -> SlotRecords] /\ slot'[s].at = place
      /\ slot'[s].job = slot[s].job /\ slot[s].job # NoJob
      /\ slot'[s].reason = slot[s].reason /\ \A t \in Slots \ {s} : slot'[t] = slot[t]
  BY <1>1, <1>2, GoesOne DEF Places
<1>4. OthersStay(s)
  BY <1>1, <1>2, <1>3 DEF OthersStay
<1>5. SlotOk(s)'
  BY <1>1, <1>2, <1>3 DEF SlotOk, SlotClean, SlotAllowed, SlotHeld, SlotStopped
<1>6. SelfStays(s)
  BY <1>1, <1>2, <1>3, <1>5 DEF SelfStays, Busy
<1> QED
  BY <1>1, <1>4, <1>6, JobsUntouched, OneSlotSteps DEF RestTyped

LEMMA FetchKeeps == ASSUME SlotInv, NEW s \in Slots, FetchJob(s) PROVE SlotInv'
<1> USE SlotFacts
<1> DEFINE j == slot[s].job
<1>1. /\ UNCHANGED <<tasks, child, left, allow, beat, combined, halt>>
      /\ slot[s].at = "fetching" /\ j \in SlotJobs
      /\ api' = [api EXCEPT ![j].handed = TRUE] /\ tasks[j] = s
  BY SlotsAssumption DEF FetchJob, Busy, osVars, SlotHeld
<1>2. PICK place \in {"preparing", "fetching"} :
        /\ slot' \in [Slots -> SlotRecords] /\ slot'[s].at = place
        /\ slot'[s].job = slot[s].job /\ slot'[s].reason = slot[s].reason
        /\ \A t \in Slots \ {s} : slot'[t] = slot[t]
  <2>1. CASE Goes(s, "preparing")
    BY <2>1, GoesOne DEF Places
  <2>2. CASE UNCHANGED slot
    BY <1>1, <2>2
  <2> QED
    BY <2>1, <2>2 DEF FetchJob
<1>3. JobsStay(s)
  BY <1>1, ZenonT(60) DEF JobsStay, ApiRecords
<1>4. api'[j].status = api[j].status /\ api'[j].owner = api[j].owner
  BY <1>1 DEF ApiRecords
<1>5. OthersStay(s)
  BY <1>1, <1>2 DEF OthersStay
<1>6. SlotOk(s)'
  BY <1>1, <1>2, <1>4 DEF SlotOk, SlotClean, SlotAllowed, SlotHeld, SlotStopped
<1>7. SelfStays(s)
  BY <1>1, <1>2, <1>6 DEF SelfStays, Busy
<1> QED
  BY <1>1, <1>3, <1>5, <1>7, OneSlotSteps DEF RestTyped

\* A slot that is done with its job, whatever the API made of the report.
LEMMA DoneKeeps ==
    ASSUME SlotInv, NEW s \in Slots, JobFetchFails(s) \/ ReportResult(s) PROVE SlotInv'
<1> USE SlotFacts
<1> DEFINE j == slot[s].job
<1>1. /\ UNCHANGED <<child, left, allow, combined, halt>>
      /\ slot[s].at \in {"fetching", "reporting"} /\ j \in SlotJobs
      /\ Done(s) /\ (UNCHANGED api \/ JobOver(j) \/ Requeue(j)) /\ tasks[j] = s
  BY SlotsAssumption DEF JobFetchFails, ReportResult, Busy, osVars, SlotHeld
<1>2. JobsStay(s)
  <2>1. tasks' = [tasks EXCEPT ![j] = NoSlot]
    BY <1>1 DEF Done
  <2>2. api' \in [SlotJobs -> ApiRecords] /\ \A k \in SlotJobs \ {j} : api'[k] = api[k]
    <3>1. CASE JobOver(j)
      BY <1>1, <3>1 DEF JobOver, ApiRecords
    <3>2. CASE Requeue(j)
      BY <1>1, <3>2 DEF Requeue, ApiRecords
    <3> QED
      BY <1>1, <3>1, <3>2
  <2> QED
    BY <1>1, <2>1, <2>2 DEF JobsStay
<1>3. /\ slot' \in [Slots -> SlotRecords] /\ slot'[s].at = "dirty" /\ slot'[s].job = NoJob
      /\ slot'[s].reason = "none" /\ \A t \in Slots \ {s} : slot'[t] = slot[t]
      /\ beat' = beat \ {s}
  BY <1>1 DEF Done, SlotRecords, Places, Reasons
<1>4. OthersStay(s)
  BY <1>1, <1>3 DEF OthersStay
<1>5. child'[s] = "none"
  BY <1>1
<1>6. SlotOk(s)'
  BY <1>1, <1>3, <1>5 DEF SlotOk, SlotClean, SlotAllowed, SlotHeld, SlotStopped
<1>7. SelfStays(s)
  BY <1>3, <1>5, <1>6 DEF SelfStays, Busy
<1>8. RestTyped
  BY <1>1, <1>3, SlotsAssumption DEF RestTyped
<1> QED
  BY <1>2, <1>4, <1>7, <1>8, OneSlotSteps

LEMMA ClaimKeeps ==
    ASSUME SlotInv, NEW s \in Slots, NEW j \in SlotJobs, ClaimJob(s, j) PROVE SlotInv'
<1> USE SlotFacts
<1>1. /\ UNCHANGED <<child, left, allow, beat, combined, halt>> /\ j # NoJob
      /\ slot[s].at = "polling" /\ api[j].status = "waiting" /\ tasks' = [tasks EXCEPT ![j] = s]
      /\ api' = [api EXCEPT ![j].status = "claimed", ![j].owner = s]
      /\ slot' = [slot EXCEPT ![s] = [at |-> "fetching", job |-> j,
                                      reason |-> IF halt = "no" THEN "none" ELSE "told"]]
  BY SlotsAssumption DEF ClaimJob, osVars
<1>2. JobsStay(s) /\ api'[j].status = "claimed" /\ api'[j].owner = s
  BY <1>1, ZenonT(60) DEF JobsStay, ApiRecords
<1>3. /\ slot' \in [Slots -> SlotRecords] /\ slot'[s].at = "fetching" /\ slot'[s].job = j
      /\ slot'[s].reason = (IF halt = "no" THEN "none" ELSE "told")
      /\ \A t \in Slots \ {s} : slot'[t] = slot[t]
  BY <1>1 DEF SlotRecords, Places, Reasons
<1>4. OthersStay(s)
  BY <1>1, <1>3 DEF OthersStay
<1>5. child'[s] = "none" /\ tasks'[j] = s
  BY <1>1
<1>6. SlotOk(s)'
  BY <1>1, <1>2, <1>3, <1>5 DEF SlotOk, SlotClean, SlotAllowed, SlotHeld, SlotStopped
<1>7. SelfStays(s)
  BY <1>1, <1>3, <1>5, <1>6 DEF SelfStays, Busy
<1> QED
  BY <1>1, <1>2, <1>4, <1>7, OneSlotSteps DEF RestTyped

\* A lease runs out of a slot's job only once the slot was told.
LEMMA LeaseKeeps == ASSUME SlotInv, NEW j \in SlotJobs, LeaseRunsOut(j) PROVE SlotInv'
<1> USE SlotFacts
<1>1. /\ UNCHANGED <<slot, tasks, child, left, allow, beat, combined, halt>>
      /\ api[j].status = "claimed"
      /\ api' = [api EXCEPT ![j].status = "lost", ![j].owner = NoSlot]
  BY DEF LeaseRunsOut, osVars
<1>2. api' \in [SlotJobs -> ApiRecords] /\ api'[j].status = "lost" /\ \A k \in SlotJobs \ {j} : api'[k] = api[k]
  BY <1>1, ZenonT(60) DEF ApiRecords
<1>3. ASSUME NEW t \in Slots PROVE SlotOk(t)'
  <2>1. SlotHeld(t)'
    <3>1. CASE slot[t].job = j
      <4>1. api[j].owner = t /\ tasks[j] = t /\ j # NoJob
        BY <1>1, <3>1, SlotsAssumption DEF SlotHeld
      <4>2. slot[t].reason # "none"
        BY <3>1, <4>1 DEF LeaseRunsOut, Watched
      <4> QED
        BY <1>1, <1>2, <3>1, <4>1, <4>2 DEF SlotHeld
    <3>2. CASE slot[t].job # j
      BY <1>1, <1>2, <3>2 DEF SlotHeld
    <3> QED
      BY <3>1, <3>2
  <2> QED
    BY <1>1, <2>1 DEF SlotOk, SlotClean, SlotAllowed, SlotStopped
<1>4. SlotTypes'
  BY <1>1, <1>2 DEF SlotInv, SlotTypes, ApiRecords
<1> QED
  BY <1>3, <1>4 DEF SlotInv

\* Telling tasks to stop: a slot keeps its place and its first reason.
LEMMA StoppedEach ==
    ASSUME SlotInv, NEW D \in SUBSET Slots, NEW why \in [D -> Reasons], Stopped(why)
    PROVE  /\ slot' \in [Slots -> SlotRecords]
           /\ child' \in [Slots -> {"none", "alive", "stopping"}]
           /\ \A s \in Slots :
                /\ slot'[s].at = slot[s].at /\ slot'[s].job = slot[s].job
                /\ slot[s].reason # "none" => slot'[s].reason # "none"
                /\ s \in D /\ why[s] # "none" => slot'[s].reason # "none"
                /\ child'[s] = "none" <=> child[s] = "none"
                /\ slot'[s].reason # "none" => child'[s] # "alive"
<1> DEFINE hit == {s \in DOMAIN why : slot[s].reason = "none" /\ why[s] # "none"}
<1>1. /\ slot' = [s \in Slots |-> IF s \in hit THEN [slot[s] EXCEPT !.reason = why[s]] ELSE slot[s]]
      /\ child' = [s \in Slots |-> IF s \in hit /\ child[s] = "alive" THEN "stopping" ELSE child[s]]
  BY DEF Stopped
<1>2. \A s \in Slots : s \in hit <=> (s \in D /\ slot[s].reason = "none" /\ why[s] # "none")
  OBVIOUS
<1> HIDE DEF hit
<1>3. ASSUME NEW s \in Slots
      PROVE  /\ slot'[s] \in SlotRecords /\ child'[s] \in {"none", "alive", "stopping"}
             /\ slot'[s].at = slot[s].at /\ slot'[s].job = slot[s].job
             /\ slot[s].reason # "none" => slot'[s].reason # "none"
             /\ s \in D /\ why[s] # "none" => slot'[s].reason # "none"
             /\ child'[s] = "none" <=> child[s] = "none"
             /\ slot'[s].reason # "none" => child'[s] # "alive"
  <2>1. CASE s \in hit
    BY <1>1, <1>2, <2>1, SlotFacts DEF SlotRecords
  <2>2. CASE s \notin hit
    BY <1>1, <1>2, <2>2, SlotFacts DEF SlotStopped
  <2> QED
    BY <2>1, <2>2
<1>4. DOMAIN slot' = Slots /\ DOMAIN child' = Slots
  BY <1>1
<1> QED
  BY <1>1, <1>3, <1>4

LEMMA StopKeeps ==
    ASSUME SlotInv, NEW D \in SUBSET Slots, NEW why \in [D -> Reasons], Stopped(why),
           UNCHANGED <<api, tasks, left, allow, combined>>,
           beat' \in (SUBSET Slots) \union {{NoSlot}}, halt' \in {"no", "draining", "stopped"},
           \/ halt' = halt
           \/ \A s \in Slots : slot[s].job # NoJob => s \in D /\ why[s] # "none"
    PROVE  SlotInv'
<1>0. /\ slot' \in [Slots -> SlotRecords] /\ child' \in [Slots -> {"none", "alive", "stopping"}]
      /\ \A s \in Slots :
           /\ slot'[s].at = slot[s].at /\ slot'[s].job = slot[s].job
           /\ slot[s].reason # "none" => slot'[s].reason # "none"
           /\ s \in D /\ why[s] # "none" => slot'[s].reason # "none"
           /\ child'[s] = "none" <=> child[s] = "none"
           /\ slot'[s].reason # "none" => child'[s] # "alive"
  BY StoppedEach
<1>1. ASSUME NEW s \in Slots PROVE SlotOk(s)'
  <2>0. SlotClean(s) /\ SlotAllowed(s) /\ SlotHeld(s) /\ SlotStopped(s)
    BY SlotFacts
  <2>1. SlotClean(s)' /\ SlotAllowed(s)'
    BY <1>0, <2>0 DEF SlotClean, SlotAllowed
  <2>2. SlotHeld(s)'
    BY <1>0, <2>0 DEF SlotHeld
  <2>3. SlotStopped(s)'
    BY <1>0, <2>0 DEF SlotStopped
  <2> QED
    BY <2>1, <2>2, <2>3 DEF SlotOk
<1>2. \A s \in Slots : /\ slot'[s].at \in Busy <=> slot'[s].job # NoJob
                       /\ child'[s] # "none" => slot'[s].at = "running"
  BY <1>0, SlotFacts
<1>3. SlotTypes'
  BY <1>0, <1>2, SlotFacts DEF SlotTypes, SlotRecords, ApiRecords
<1> QED
  BY <1>1, <1>3 DEF SlotInv

LEMMA BeatKeeps ==
    ASSUME SlotInv, BeatSend \/ BeatAnswered \/ BeatLost \/ StopTasks PROVE SlotInv'
<1>0. Watched \subseteq Slots /\ "told" \in Reasons /\ "told" # "none"
  BY DEF Watched, Reasons
<1>n. beat # NoBeat => beat \in SUBSET Slots
  BY SlotFacts DEF NoBeat
<1>1. CASE BeatSend
  <2>1. PICK late \in SUBSET {s \in Watched : slot[s].at \notin {"fetching"}} :
          Stopped([s \in late |-> "told"])
    BY <1>1 DEF BeatSend
  <2>2. late \in SUBSET Slots /\ [s \in late |-> "told"] \in [late -> Reasons]
    BY <1>0
  <2>3. UNCHANGED <<api, tasks, left, allow, combined, halt>> /\ beat' \in (SUBSET Slots) \union {{NoSlot}}
    BY <1>0, <1>1 DEF BeatSend
  <2> QED
    BY <2>1, <2>2, <2>3, StopKeeps, SlotFacts
<1>2. CASE BeatAnswered
  <2>1. PICK cancelled \in SUBSET beat : Stopped([s \in beat |-> BeatAnswer(s, cancelled)])
    BY <1>2 DEF BeatAnswered
  <2>2. beat \in SUBSET Slots /\ [s \in beat |-> BeatAnswer(s, cancelled)] \in [beat -> Reasons]
    BY <1>2, <1>n DEF BeatAnswered, BeatAnswer, Reasons
  <2>3. UNCHANGED <<api, tasks, left, allow, combined, halt>> /\ beat' \in (SUBSET Slots) \union {{NoSlot}}
    BY <1>2 DEF BeatAnswered, NoBeat
  <2> QED
    BY <2>1, <2>2, <2>3, StopKeeps, SlotFacts
<1>3. CASE BeatLost
  <2>1. PICK old \in SUBSET beat : Stopped([s \in old |-> "told"])
    BY <1>3 DEF BeatLost
  <2>2. old \in SUBSET Slots /\ [s \in old |-> "told"] \in [old -> Reasons]
    BY <1>0, <1>3, <1>n DEF BeatLost
  <2>3. UNCHANGED <<api, tasks, left, allow, combined, halt>> /\ beat' \in (SUBSET Slots) \union {{NoSlot}}
    BY <1>3 DEF BeatLost, NoBeat
  <2> QED
    BY <2>1, <2>2, <2>3, StopKeeps, SlotFacts
<1>4. CASE StopTasks
  <2>1. Stopped([s \in Watched |-> "told"]) /\ halt' = "stopped"
        /\ UNCHANGED <<api, tasks, left, allow, beat, combined>>
    BY <1>4 DEF StopTasks
  <2>2. Watched \in SUBSET Slots /\ [s \in Watched |-> "told"] \in [Watched -> Reasons]
    BY <1>0
  <2>3. \A s \in Slots : slot[s].job # NoJob => s \in Watched
    BY SlotFacts DEF Watched, SlotHeld
  <2>4. \A s \in Slots : slot[s].job # NoJob =>
          s \in Watched /\ [t \in Watched |-> "told"][s] # "none"
    BY <1>0, <2>3
  <2> QED
    BY <2>1, <2>2, <2>4, StopKeeps, SlotFacts
<1> QED
  BY <1>1, <1>2, <1>3, <1>4

LEMMA StartKeeps == ASSUME SlotInv, StartSlots \/ StopBegins PROVE SlotInv'
<1> USE SlotFacts
<1>1. CASE StartSlots
  <2>1. /\ UNCHANGED <<api, tasks, child, left, allow, beat, combined, halt>>
        /\ \A s \in Slots : slot[s].at = "off" /\ slot[s].job = NoJob
        /\ slot' = [s \in Slots |-> [slot[s] EXCEPT !.at = "dirty"]]
    BY <1>1 DEF StartSlots, osVars, Busy
  <2>2. /\ slot' \in [Slots -> SlotRecords]
        /\ \A s \in Slots : slot'[s].at = "dirty" /\ slot'[s].job = NoJob
                            /\ slot'[s].reason = slot[s].reason
    BY <2>1 DEF SlotRecords, Places
  <2>3. \A s \in Slots : SlotOk(s)'
    BY <2>1, <2>2 DEF SlotOk, SlotClean, SlotAllowed, SlotHeld, SlotStopped
  <2>4. SlotTypes'
    BY <2>1, <2>2 DEF SlotTypes, SlotRecords, ApiRecords, Busy
  <2> QED
    BY <2>3, <2>4 DEF SlotInv
<1>2. CASE StopBegins
  <2>1. UNCHANGED <<api, slot, tasks, child, left, allow, beat, combined>> /\ halt' = "draining"
    BY <1>2 DEF StopBegins, osVars
  <2>2. \A s \in Slots : SlotOk(s)'
    BY <2>1 DEF SlotOk, SlotClean, SlotAllowed, SlotHeld, SlotStopped
  <2>3. SlotTypes'
    BY <2>1 DEF SlotInv, SlotTypes
  <2> QED
    BY <2>2, <2>3 DEF SlotInv
<1> QED
  BY <1>1, <1>2

LEMMA SlotKeeps == ASSUME SlotInv, [SlotNext]_slotVars PROVE SlotInv'
<1>1. CASE UNCHANGED slotVars
  BY <1>1 DEF slotVars, SlotInv, SlotTypes, SlotOk, SlotClean, SlotAllowed, SlotHeld, SlotStopped
<1>2. ASSUME NEW s \in Slots, SlotStep(s) \/ LeavesBehind(s) PROVE SlotInv'
  BY <1>2, SweepKeeps, ThreadKeeps, PrepareKeeps, FetchKeeps, DoneKeeps DEF SlotStep
<1>3. ASSUME NEW s \in Slots, NEW j \in SlotJobs, ClaimJob(s, j) PROVE SlotInv'
  BY <1>3, ClaimKeeps
<1>4. ASSUME NEW j \in SlotJobs, LeaseRunsOut(j) PROVE SlotInv'
  BY <1>4, LeaseKeeps
<1> QED
  BY <1>1, <1>2, <1>3, <1>4, StartKeeps, BeatKeeps DEF SlotNext

LEMMA SlotInvariant == SlotSpec => []SlotInv
BY SlotStart, SlotKeeps, PTL DEF SlotSpec

LEMMA SlotTypesKept == SlotSpec => []SlotTypes
<1>1. SlotInv => SlotTypes
  BY DEF SlotInv
<1> QED
  BY <1>1, SlotInvariant, PTL

\* However claims, stops, heartbeats, sweeps and leases interleave, for any number of
\* slots and jobs: a job starts on a clean slot and under its own allowlist, stays under
\* it while anything of it is there, and is told of a lost lease and of shutdown.
THEOREM SlotsStaySafe == SlotSpec => []SlotsAreSafe
<1>1. SlotInv => SlotsAreSafe
  <2> SUFFICES ASSUME SlotInv PROVE SlotsAreSafe
    OBVIOUS
  <2> USE SlotFacts
  <2>1. CleanSlots
    BY DEF CleanSlots, SlotClean
  <2>2. AllowlistsHold
    BY DEF AllowlistsHold, SlotAllowed
  <2>3. SelfFencing
    BY DEF SelfFencing, SlotHeld, SlotStopped, Busy
  <2>4. ShutdownReachesAll
    BY DEF ShutdownReachesAll, SlotStopped
  <2> QED
    BY <2>1, <2>2, <2>3, <2>4 DEF SlotsAreSafe
<1> QED
  BY <1>1, SlotInvariant, PTL
=============================================================================
