---------------------------- MODULE Guards_proofs ----------------------------
(***************************************************************************)
(* Theorems about the components whose promises are all about what never   *)
(* happens, as MCGuards composes them.                                     *)
(***************************************************************************)
EXTENDS MCGuards, Accounts_proofs, Allowlist_proofs, FiniteSetTheorems, SequenceTheorems, TLAPS

-----------------------------------------------------------------------------
(* The lease's clocks: for every heartbeat, timeout, fence and lease with  *)
(* D + F + H + T < L the worker stops a job before the API may end its     *)
(* claim.  The fence looks at the worker's own clock and only at the end   *)
(* of a beat.  The invariant therefore bounds that clock between two beats *)
(* (F plus what passed since, Between), and ties it to the API's: a call   *)
(* that was handled has been out at least as long as the lease is old, so  *)
(* a worker that counts from the call is at most D behind (HandledSince).  *)

BeatInTime == beatAt.for <= (IF beatAt.sent THEN T ELSE H)

HandledSince == beatAt.handled => leaseAge <= beatAt.for

Between ==
    process = Running =>
        renewed <= F + beatAt.for + (IF beatAt.sent THEN H ELSE 0)

FenceInv ==
    FenceTypes /\ BeatInTime /\ HandledSince /\ Between /\ RenewedIsNotOptimistic

\* The constants are natural numbers.
LEMMA ConstantsAreNat == /\ H \in Nat /\ T \in Nat /\ F \in Nat /\ L \in Nat /\ G \in Nat /\ D \in Nat
                         /\ D + F + H + T < L
BY FenceAssumption

LEMMA FenceStart == FenceInit => FenceInv
<1> SUFFICES ASSUME FenceInit PROVE FenceInv
  OBVIOUS
<1> USE ConstantsAreNat
<1>1. PICK n \in 0..H : beatAt = [sent |-> FALSE, for |-> n, handled |-> FALSE]
  BY DEF FenceInit, Resting
<1>2. /\ leaseAge \in 0..D /\ renewed = 0 /\ late = FALSE /\ process = -2
  BY DEF FenceInit, Running
<1>3. beatAt \in [sent : BOOLEAN, for : 0..H + T, handled : BOOLEAN]
  BY <1>1
<1>4. FenceTypes
  <2>1. /\ leaseAge \in 0..L + 1 /\ renewed \in 0..L + 1 /\ process \in -2..G
    BY <1>2
  <2>2. late \in BOOLEAN
    BY <1>2
  <2> QED BY <2>1, <2>2, <1>3 DEF FenceTypes, Running
<1>5. BeatInTime /\ HandledSince /\ Between /\ RenewedIsNotOptimistic
  BY <1>1, <1>2 DEF BeatInTime, HandledSince, Between, RenewedIsNotOptimistic
<1> QED BY <1>4, <1>5 DEF FenceInv

\* The end of a beat either stops the job or leaves its clock at most at the fence.
LEMMA EndKeepsTypes ==
  ASSUME NEW age \in 0..L + 1, FenceTypes, EndOfBeat(age)
  PROVE  /\ renewed' = age /\ process' \in Running..G
         /\ beatAt' = Resting(0) /\ Between'
<1>1. /\ renewed' = age /\ beatAt' = Resting(0)
      /\ process' = IF age > F THEN Stops ELSE process
  BY DEF EndOfBeat, Fenced
<1>2. process' \in Running..G
  BY <1>1, ConstantsAreNat DEF FenceTypes, Stops, Running
<1>3. Between'
  <2>1. beatAt'.for = 0 /\ beatAt'.sent = FALSE
    BY <1>1 DEF Resting
  <2>2. process' = Running => age <= F
    BY <1>1, ConstantsAreNat DEF FenceTypes, Stops, Running
  <2> QED BY <1>1, <2>1, <2>2, ConstantsAreNat DEF Between
<1> QED BY <1>1, <1>2, <1>3

LEMMA FenceKeeps == FenceInv /\ [FenceNext]_fenceVars => FenceInv'
<1> SUFFICES ASSUME FenceInv, [FenceNext]_fenceVars PROVE FenceInv'
  OBVIOUS
<1> USE ConstantsAreNat DEF FenceInv
<1>1. CASE BeatCalls
  BY <1>1 DEF BeatCalls, FenceTypes, BeatInTime, HandledSince, Between,
              RenewedIsNotOptimistic
<1>2. CASE ApiRenews
  <2>1. /\ beatAt' = [sent |-> TRUE, for |-> beatAt.for, handled |-> TRUE]
        /\ beatAt.sent /\ leaseAge' = 0 /\ UNCHANGED <<renewed, late, process>>
    BY <1>2 DEF ApiRenews, FenceTypes
  <2>2. FenceTypes'
    BY <2>1 DEF FenceTypes
  <2> QED BY <2>1, <2>2 DEF FenceTypes, BeatInTime, HandledSince, Between,
                            RenewedIsNotOptimistic
<1>3. CASE BeatReturns
  <2>1. /\ beatAt.for \in 0..L + 1 /\ leaseAge <= beatAt.for
        /\ UNCHANGED <<leaseAge, late>> /\ EndOfBeat(beatAt.for)
    BY <1>3 DEF BeatReturns, AnsweredAt, FenceTypes, BeatInTime, HandledSince
  <2>2. /\ renewed' = beatAt.for /\ process' \in Running..G
        /\ beatAt' = Resting(0) /\ Between'
    BY <2>1, EndKeepsTypes
  <2> QED BY <2>1, <2>2 DEF FenceTypes, BeatInTime, HandledSince,
                            RenewedIsNotOptimistic, Resting
<1>4. CASE BeatRefused
  BY <1>4 DEF BeatRefused, Stops, Running, Resting, FenceTypes, BeatInTime, HandledSince,
              Between, RenewedIsNotOptimistic
<1>5. CASE BeatFails
  <2>1. /\ renewed \in 0..L + 1 /\ EndOfBeat(renewed)
        /\ late' \in BOOLEAN /\ UNCHANGED leaseAge
    BY <1>5 DEF BeatFails, FenceTypes
  <2>2. /\ renewed' = renewed /\ process' \in Running..G
        /\ beatAt' = Resting(0) /\ Between'
    BY <2>1, EndKeepsTypes
  <2> QED BY <2>1, <2>2 DEF FenceTypes, BeatInTime, HandledSince,
                            RenewedIsNotOptimistic, Resting
<1>6. CASE ApiRenewsLate
  <2>1. leaseAge' = 0 /\ late' \in BOOLEAN /\ UNCHANGED <<renewed, beatAt, process>>
    BY <1>6 DEF ApiRenewsLate
  <2>2. FenceTypes'
    BY <2>1 DEF FenceTypes
  <2> QED BY <2>1, <2>2 DEF FenceTypes, BeatInTime, HandledSince, Between,
                            RenewedIsNotOptimistic
<1>7. CASE ProcessEnds
  BY <1>7 DEF ProcessEnds, Running, Gone, FenceTypes, BeatInTime, HandledSince, Between,
              RenewedIsNotOptimistic
<1>8. CASE Tick
  <2>1. /\ leaseAge' \in 0..L + 1 /\ renewed' \in 0..L + 1
        /\ process' \in Running..G /\ late' \in BOOLEAN
    BY <1>8 DEF Tick, FenceTypes, Running
  <2>2. /\ beatAt' \in [sent : BOOLEAN, for : 0..H + T, handled : BOOLEAN]
        /\ BeatInTime'
    BY <1>8 DEF Tick, FenceTypes, BeatInTime
  <2>3. HandledSince'
    BY <1>8 DEF Tick, FenceTypes, HandledSince
  <2>4. Between'
    BY <1>8 DEF Tick, FenceTypes, Between, Running
  <2>5. RenewedIsNotOptimistic'
    BY <1>8 DEF Tick, FenceTypes, RenewedIsNotOptimistic
  <2> QED BY <2>1, <2>2, <2>3, <2>4, <2>5 DEF FenceTypes
<1>9. CASE UNCHANGED fenceVars
  BY <1>9 DEF fenceVars, FenceTypes, BeatInTime, HandledSince, Between,
              RenewedIsNotOptimistic
<1> QED BY <1>1, <1>2, <1>3, <1>4, <1>5, <1>6, <1>7, <1>8, <1>9 DEF FenceNext

LEMMA AlwaysFenceInv == FenceSpec => []FenceInv
BY FenceStart, FenceKeeps, PTL DEF FenceSpec

\* The clocks, the heartbeat and the process keep their types.
THEOREM FenceTypeCorrect == FenceSpec => []FenceTypes
BY AlwaysFenceInv, PTL DEF FenceInv

\* Runner.beat: the worker's idea of its lease is at most D ticks younger than the lease.
THEOREM NotOptimistic == FenceSpec => []RenewedIsNotOptimistic
BY AlwaysFenceInv, PTL DEF FenceInv

\* Runner.beat and the reaper: when a claim's lease is over, the job was told to stop.
THEOREM StopsInTime == FenceSpec => []StoppedBeforeLeaseEnds
<1>1. FenceInv => StoppedBeforeLeaseEnds
  BY ConstantsAreNat
  DEF FenceInv, FenceTypes, BeatInTime, Between, RenewedIsNotOptimistic,
      StoppedBeforeLeaseEnds, Running
<1> QED BY <1>1, AlwaysFenceInv, PTL

\* Runner.beat and the reaper: the fence holds for every setting of the times.
THEOREM FenceIsSound == FenceSpec => []FenceHolds
BY NotOptimistic, StopsInTime, PTL DEF FenceHolds

-----------------------------------------------------------------------------
(* Certificates: the role may change between a refusal and the second      *)
(* request, so what is asked for says nothing about the role; the          *)
(* invariant (Asks) ties it to what the run needs instead.                 *)

\* What is asked for: all that is needed, or once a shorter maximum worth having.
Asks ==
    signing.at = "asked" =>
      /\ signing.ttl \in Seconds /\ signing.refusals \in 0..1
      /\ signing.refusals = 0 => ~signing.capped
      /\ ~signing.capped => signing.ttl = signing.wanted
      /\ signing.capped => signing.ttl < signing.wanted /\ signing.ttl >= MinSeconds

\* Nothing was refused before the first request.
Rests == signing.at = "idle" => signing.refusals = 0 /\ ~signing.capped

CertInv == CertificateTypes /\ Asks /\ Rests /\ LastsOrSaysSo

LEMMA CertStart == CertInit => CertInv
BY CertificatesAssumption
DEF CertInit, CertInv, CertificateTypes, Asks, Rests, LastsOrSaysSo, NoCertificate

LEMMA CertKeeps == CertInv /\ [CertNext]_certVars => CertInv'
<1> SUFFICES ASSUME CertInv, [CertNext]_certVars PROVE CertInv'
  OBVIOUS
<1> USE CertificatesAssumption DEF CertInv
<1>1. CASE RoleChanges
  BY <1>1 DEF RoleChanges, CertificateTypes, Asks, Rests, LastsOrSaysSo
<1>2. CASE AskToSign
  <2>1. PICK n \in Seconds :
          signing' = [signing EXCEPT !.at = "asked", !.wanted = n, !.ttl = n]
    BY <1>2 DEF AskToSign
  <2>2. /\ signing.refusals = 0 /\ ~signing.capped /\ UNCHANGED <<role, certificate>>
    BY <1>2 DEF AskToSign, Rests
  <2>3. CertificateTypes'
    BY <2>1, <2>2 DEF CertificateTypes
  <2>4. Asks' /\ Rests' /\ LastsOrSaysSo'
    BY <2>1, <2>2 DEF CertificateTypes, Asks, Rests, LastsOrSaysSo
  <2> QED BY <2>3, <2>4
<1>3. CASE TooLong
  <2>1. /\ signing.at = "asked" /\ signing.refusals \in 0..1
        /\ UNCHANGED <<role, certificate>>
    BY <1>3 DEF TooLong, Asks
  <2>2. CASE signing.refusals = 0 /\ Usable(role.maximum)
    <3>1. signing' = [signing EXCEPT !.ttl = role.maximum, !.capped = TRUE, !.refusals = 1]
      BY <1>3, <2>2 DEF TooLong, AskAgain, CertificateTypes
    <3>2. /\ role.maximum \in Seconds /\ role.maximum >= MinSeconds
          /\ role.maximum < signing.wanted
      BY <2>2 DEF Usable, CertificateTypes
    <3>3. CertificateTypes'
      <4>1. 1 \in 0..2 /\ TRUE \in BOOLEAN /\ role.maximum \in Seconds \union {0}
        BY <3>2
      <4> HIDE CertificatesAssumption
      <4> QED BY <2>1, <3>1, <4>1 DEF CertificateTypes
    <3> QED BY <2>1, <3>1, <3>2, <3>3 DEF CertificateTypes, Asks, Rests, LastsOrSaysSo
  <2>3. CASE ~(signing.refusals = 0 /\ Usable(role.maximum))
    <3>1. signing' = [signing EXCEPT !.at = "failed", !.refusals = signing.refusals + 1]
      BY <1>3, <2>3 DEF TooLong
    <3>2. CertificateTypes'
      <4>1. signing.refusals + 1 \in 0..2
        BY <2>1
      <4> HIDE CertificatesAssumption
      <4> QED BY <2>1, <3>1, <4>1 DEF CertificateTypes
    <3> QED BY <2>1, <3>1, <3>2 DEF CertificateTypes, Asks, Rests, LastsOrSaysSo
  <2> QED BY <2>2, <2>3
<1>4. CASE SigningFails
  BY <1>4 DEF SigningFails, CertificateTypes, Asks, Rests, LastsOrSaysSo
<1>5. ASSUME NEW own \in BOOLEAN, Signed(own) PROVE CertInv'
  BY <1>5 DEF Signed, Describes, CertificateTypes, Asks, Rests, LastsOrSaysSo
<1>6. CASE UNCHANGED certVars
  BY <1>6 DEF certVars, CertificateTypes, Asks, Rests, LastsOrSaysSo
<1> QED BY <1>1, <1>2, <1>3, <1>4, <1>5, <1>6 DEF CertNext

\* issue: however the role changes, a run's certificate lasts as long as asked for or is
\* recorded as capped, and is for its own key.
THEOREM CertificatesLast == CertSpec => []LastsOrSaysSo
<1>1. CertSpec => []CertInv
  BY CertStart, CertKeeps, PTL DEF CertSpec
<1> QED BY <1>1, PTL DEF CertInv

-----------------------------------------------------------------------------
(* Artifacts: as long as a run runs it lists nothing, and a listed tar     *)
(* changes no more, so what was intact when it was listed stays so.        *)

Uploads == [at : {"running", "uploading", "completing", "done"}, offset : 0..Chunks,
            report : {"none", "whole", "error"}]
RunRows == [running : BOOLEAN, listing : {"none", "files", "error"}, deleted : BOOLEAN]

\* The two files and the posts on their way.
FileTypes ==
    /\ latePosts \subseteq 0..Chunks /\ posts \in 0..MaxLatePosts
    /\ part \in Seq(0..Chunks) /\ kept \in Seq(0..Chunks) /\ Len(part) <= Chunks
    /\ apiDeaths \in 0..MaxApiDeaths

ArtifactInv ==
    /\ upload \in Uploads /\ runRow \in RunRows /\ FileTypes
    /\ runRow.running => runRow.listing = "none" /\ ~runRow.deleted
    /\ OfferedIsTheTar

LEMMA ArtifactConstants == Chunks \in Nat \ {0} /\ MaxLatePosts \in Nat /\ MaxApiDeaths \in Nat
BY ArtifactsAssumption

LEMMA ArtifactStart == ArtifactInit => ArtifactInv
BY ArtifactConstants
   DEF ArtifactInit, ArtifactInv, Uploads, RunRows, FileTypes, OfferedIsTheTar

\* A chunk written where the file goes to: the file ends behind it.
LEMMA WritesChunk ==
    ASSUME NEW file \in Seq(0..Chunks), NEW offset \in Nat, offset <= Len(file), offset < Chunks,
           NEW chunk \in 0..Chunks
    PROVE  WriteAt(file, offset, chunk) \in Seq(0..Chunks) /\ Len(WriteAt(file, offset, chunk)) <= Chunks
<1>1. \A i \in 1..offset : file[i] \in 0..Chunks
  <2>1. Len(file) \in Nat /\ \A i \in 1..Len(file) : file[i] \in 0..Chunks
    BY ElementOfSeq, LenProperties
  <2> QED
    BY <2>1
<1>2. SubSeq(file, 1, offset) \in Seq(0..Chunks) /\ Len(SubSeq(file, 1, offset)) = offset
  BY <1>1, SubSeqProperties
<1> QED
  BY <1>2, ArtifactConstants DEF WriteAt

LEMMA ArtifactKeeps == ASSUME ArtifactInv, [ArtifactNext]_artifactVars PROVE ArtifactInv'
<1> USE ArtifactConstants
<1>0. /\ upload \in Uploads /\ runRow \in RunRows /\ FileTypes /\ OfferedIsTheTar
      /\ runRow.running => runRow.listing = "none" /\ ~runRow.deleted
  BY DEF ArtifactInv
<1>1. ASSUME NEW report \in {"none", "whole", "error"}, CollectingEnds(report) PROVE ArtifactInv'
  <2>1. upload' \in Uploads
    BY <1>0, <1>1 DEF CollectingEnds, Uploads
  <2> QED
    BY <1>0, <1>1, <2>1 DEF CollectingEnds, ArtifactInv, FileTypes, OfferedIsTheTar
<1>2. CASE PostChunk
  <2>0. upload.offset \in 0..Chunks /\ upload.offset < Chunks /\ part \in Seq(0..Chunks)
        /\ Len(part) \in 0..Chunks
    BY <1>0, <1>2 DEF PostChunk, Uploads, FileTypes
  <2>1. part' \in Seq(0..Chunks) /\ Len(part') <= Chunks
    <3>1. CASE Takes(upload.offset)
      <4>1. part' = WriteAt(part, upload.offset, upload.offset + 1) /\ upload.offset <= Len(part)
        BY <1>2, <3>1 DEF PostChunk, Takes
      <4> QED
        BY <2>0, <4>1, WritesChunk
    <3> QED
      BY <1>2, <2>0, <3>1 DEF PostChunk
  <2>2. upload' \in Uploads
    <3>1. upload.offset + 1 \in 0..Chunks
      BY <2>0
    <3> QED
      BY <1>0, <1>2, <2>0, <3>1 DEF PostChunk, Uploads
  <2> QED
    BY <1>0, <1>2, <2>1, <2>2 DEF PostChunk, ArtifactInv, FileTypes, OfferedIsTheTar
<1>3. CASE PostLate
  <2>1. posts' \in 0..MaxLatePosts
    BY <1>0, <1>3 DEF PostLate, FileTypes
  <2>2. upload.offset \in 0..Chunks /\ Chunks \in 0..Chunks /\ latePosts \subseteq 0..Chunks
    BY <1>0 DEF Uploads, FileTypes
  <2>3. latePosts' \subseteq 0..Chunks
    BY <1>3, <2>2 DEF PostLate
  <2> QED
    BY <1>0, <1>3, <2>1, <2>3 DEF PostLate, ArtifactInv, FileTypes, OfferedIsTheTar
<1>4. CASE UploadEnds
  <2>1. upload' \in Uploads
    BY <1>0, <1>4 DEF UploadEnds, Uploads
  <2> QED
    BY <1>0, <1>4, <2>1 DEF UploadEnds, ArtifactInv, FileTypes, OfferedIsTheTar
<1>k. ASSUME Keep PROVE /\ runRow' \in RunRows /\ ~runRow'.running /\ OfferedIsTheTar'
                        /\ part' \in Seq(0..Chunks) /\ kept' \in Seq(0..Chunks) /\ Len(part') <= Chunks
  <2>1. runRow' \in RunRows /\ ~runRow'.running /\ ~runRow'.deleted
    BY <1>0, <1>k DEF Keep, RunRows
  <2>2. part' \in Seq(0..Chunks) /\ kept' \in Seq(0..Chunks) /\ Len(part') <= Chunks
    <3>1. part' \in {part, <<>>} /\ kept' \in {part, kept}
      BY <1>k DEF Keep
    <3>2. <<>> \in Seq(0..Chunks) /\ Len(<<>>) <= Chunks
      OBVIOUS
    <3> QED
      BY <1>0, <3>1, <3>2 DEF FileTypes
  <2>3. runRow'.listing = "files" => kept' = Whole
    BY <1>0, <1>k DEF Keep, RunRows, Intact
  <2> QED
    BY <2>1, <2>2, <2>3 DEF OfferedIsTheTar, Whole
<1>5. CASE PostComplete
  <2>1. upload' \in Uploads
    BY <1>0, <1>5 DEF PostComplete, Uploads
  <2>2. CASE Keep
    BY <1>0, <1>5, <1>k, <2>1, <2>2 DEF PostComplete, ArtifactInv, FileTypes
  <2>3. CASE UNCHANGED <<part, kept, runRow>>
    BY <1>0, <1>5, <2>1, <2>3 DEF PostComplete, ArtifactInv, FileTypes, OfferedIsTheTar
  <2> QED
    BY <1>5, <2>2, <2>3 DEF PostComplete
<1>6. CASE LateComplete
  <2>1. latePosts' \subseteq 0..Chunks
    BY <1>0, <1>6 DEF LateComplete, FileTypes
  <2>2. CASE Keep
    BY <1>0, <1>6, <1>k, <2>1, <2>2 DEF LateComplete, ArtifactInv, FileTypes
  <2>3. CASE UNCHANGED <<part, kept, runRow>>
    BY <1>0, <1>6, <2>1, <2>3 DEF LateComplete, ArtifactInv, FileTypes, OfferedIsTheTar
  <2> QED
    BY <1>6, <2>2, <2>3 DEF LateComplete
<1>7. CASE ApiDiesKeeping
  BY <1>0, <1>7 DEF ApiDiesKeeping, ArtifactInv, FileTypes, OfferedIsTheTar
<1>8. CASE ReapRun
  <2>1. runRow' \in RunRows /\ ~runRow'.running /\ runRow'.listing = "none"
    BY <1>0, <1>8 DEF ReapRun, RunRows
  <2> QED
    BY <1>0, <1>8, <2>1 DEF ReapRun, ArtifactInv, FileTypes, OfferedIsTheTar
<1>9. CASE WorkerGivesUp
  <2>1. upload' \in Uploads
    BY <1>0, <1>9 DEF WorkerGivesUp, Uploads
  <2> QED
    BY <1>0, <1>9, <2>1 DEF WorkerGivesUp, ArtifactInv, FileTypes, OfferedIsTheTar
<1>10. ASSUME NEW offset \in 0..Chunks, LateChunk(offset) \/ ApiDiesWriting(offset) PROVE ArtifactInv'
  <2>0. /\ offset < Chunks /\ UNCHANGED <<upload, posts, kept, runRow>> /\ latePosts' \subseteq 0..Chunks
        /\ apiDeaths' \in 0..MaxApiDeaths /\ apiDeaths' >= apiDeaths
    <3>0. latePosts \subseteq 0..Chunks /\ apiDeaths \in 0..MaxApiDeaths
      BY <1>0 DEF FileTypes
    <3>1. offset # Chunks => offset < Chunks
      OBVIOUS
    <3>2. CASE LateChunk(offset)
      <4>1. latePosts' \subseteq latePosts
        BY <3>2 DEF LateChunk
      <4> QED
        BY <3>0, <3>1, <3>2, <4>1 DEF LateChunk
    <3>3. CASE ApiDiesWriting(offset)
      <4>1. latePosts' \subseteq latePosts
        BY <3>3 DEF ApiDiesWriting
      <4> QED
        BY <3>0, <3>3, <4>1 DEF ApiDiesWriting
    <3> QED
      BY <1>10, <3>2, <3>3
  <2>1. part' \in Seq(0..Chunks) /\ Len(part') <= Chunks
    <3>1. CASE Takes(offset)
      <4>1. PICK chunk \in {offset + 1, Torn} : part' = WriteAt(part, offset, chunk)
        BY <1>10, <3>1 DEF LateChunk, ApiDiesWriting
      <4>2. chunk \in 0..Chunks /\ offset <= Len(part) /\ part \in Seq(0..Chunks)
        BY <1>0, <2>0, <3>1 DEF Torn, Takes, FileTypes
      <4> QED
        BY <2>0, <4>1, <4>2, WritesChunk
    <3>2. CASE ~Takes(offset)
      BY <1>0, <1>10, <3>2 DEF LateChunk, ApiDiesWriting, FileTypes
    <3> QED
      BY <3>1, <3>2
  <2> QED
    BY <1>0, <2>0, <2>1 DEF ArtifactInv, FileTypes, OfferedIsTheTar
<1>11. ASSUME NEW committed \in BOOLEAN, PruneArtifacts(committed) PROVE ArtifactInv'
  <2>1. runRow' \in RunRows /\ ~runRow'.running /\ runRow'.listing = runRow.listing
        /\ (committed <=> runRow'.deleted)
    BY <1>0, <1>11 DEF PruneArtifacts, Prunable, RunRows
  <2>2. apiDeaths' \in 0..MaxApiDeaths /\ (committed \/ apiDeaths' > 0) /\ kept' = <<>>
    BY <1>0, <1>11 DEF PruneArtifacts, FileTypes
  <2> QED
    BY <1>0, <1>11, <2>1, <2>2 DEF PruneArtifacts, ArtifactInv, FileTypes, OfferedIsTheTar
<1>12. CASE UNCHANGED artifactVars
  BY <1>0, <1>12 DEF artifactVars, ArtifactInv, FileTypes, OfferedIsTheTar
<1> QED
  BY <1>1, <1>2, <1>3, <1>4, <1>5, <1>6, <1>7, <1>8, <1>9, <1>10, <1>11, <1>12 DEF ArtifactNext

LEMMA ArtifactsTyped == ASSUME ArtifactInv PROVE ArtifactTypes
BY DEF ArtifactInv, ArtifactTypes, Uploads, RunRows, FileTypes

\* For a tar of any number of chunks, posts that come late and deaths of the API
\* (_append_artifacts, _keep_artifacts, prune_artifacts): what is offered is the tar.
THEOREM ArtifactsAreTheTar == ArtifactSpec => []OfferedIsTheTar
<1>1. ArtifactInv => OfferedIsTheTar
  BY DEF ArtifactInv
<1> QED
  BY <1>1, ArtifactStart, ArtifactKeeps, PTL DEF ArtifactSpec

-----------------------------------------------------------------------------
(* Emptying a slot.  Behind the kill nothing of the job can act any more   *)
(* (Stilled): what each later step of the sweep removed stays removed, what  *)
(* a neighbour still holds is seen by the code, the count or the look at   *)
(* the IPC objects.                                                        *)

Stilled == \A p \in Procs : proc[p] \notin {"live", "dying"}
Emptied == ~home.open /\ ~home.own
Removed == ipc \in {"none", "marked"}

\* What the sweep process has done at each of its steps.
SweepSoFar ==
    /\ sweeper.at = "kill" /\ sweeper.rounds > 0 => \A p \in Procs : proc[p] # "live"
    /\ sweeper.at \in {"kill", "close", "empty"} => sweeper.code = "none"
    /\ sweeper.at \in Steps \ {"kill"} => Stilled
    /\ sweeper.at = "empty" => ~home.open
    /\ sweeper.at \in {"ipc", "files"} \/ (sweeper.at = "exited" /\ sweeper.code # "killed") =>
         /\ Stilled /\ Emptied /\ sweeper.code \in {"clean", "homeNotClean"}
         /\ sweeper.code = "clean" => home.others = {}
    /\ sweeper.at = "files" => Removed
    /\ sweeper.at = "exited" /\ sweeper.code # "killed" => Removed /\ tmp # "own"

\* What the slot's thread may conclude from its code and from the count.
ThreadKnows ==
    /\ cleaner.at \in {"processes", "objects"} /\ cleaner.homeClean =>
         Stilled /\ home = FreshHome /\ Removed /\ tmp # "own"
    /\ cleaner.at = "objects" /\ cleaner.homeClean /\ ~cleaner.left =>
         \A p \in Procs : proc[p] \in Absent
    /\ cleaner.at # "wait" => sweeper.at = "none"

SweepInv == SweepTypes /\ SweepSoFar /\ ThreadKnows /\ SweptIsClean

Homes == [open : BOOLEAN, own : BOOLEAN, others : SUBSET {"file", "dir"}]
Sweepers == [at : {"none", "exited"} \union Steps, rounds : 0..KillRounds,
             code : {"none", "clean", "homeNotClean", "killed"}]
Cleaners == [at : {"clean", "job", "sweep", "wait", "processes", "objects", "dirty"},
             attempt : 0..SweepAttempts, homeClean : BOOLEAN, left : BOOLEAN]

LEMMA SweepFacts ==
    ASSUME SweepInv
    PROVE  /\ proc \in [Procs -> {"none", "live", "dying", "stuck", "zombie"}] /\ home \in Homes
           /\ ipc \in {"none", "there", "held", "marked"} /\ tmp \in {"none", "own", "mixed"}
           /\ sweeper \in Sweepers /\ ours \in BOOLEAN /\ cleaner \in Cleaners
           /\ (cleaner.at = "wait" <=> ours) /\ KillRounds \in Nat \ {0} /\ SweepAttempts \in Nat \ {0}
           /\ SweepSoFar /\ ThreadKnows /\ SweptIsClean
BY SweepAssumption DEF SweepInv, SweepTypes, Homes, Sweepers, Cleaners

LEMMA SweepStart == SweepInit => SweepInv
<1> SUFFICES ASSUME SweepInit PROVE SweepInv
  OBVIOUS
<1>1. SweepTypes
  <2>1. home \in Homes /\ ipc = "none" /\ tmp = "none" /\ ours = FALSE
    BY DEF SweepInit, FreshHome, Homes
  <2>2. sweeper \in Sweepers
    BY SweepAssumption DEF SweepInit, NoSweeper, Sweepers
  <2>3. cleaner \in Cleaners /\ cleaner.at = "sweep"
    BY SweepAssumption DEF SweepInit, Cleaner, Cleaners
  <2>4. proc \in [Procs -> {"none", "live", "dying", "stuck", "zombie"}]
    BY DEF SweepInit
  <2> QED
    BY <2>1, <2>2, <2>3, <2>4 DEF SweepTypes, Homes, Sweepers, Cleaners
<1>2. cleaner.at = "sweep" /\ sweeper.at = "none"
  BY DEF SweepInit, Cleaner, NoSweeper
<1> QED
  BY <1>1, <1>2 DEF SweepInv, SweepSoFar, ThreadKnows, SweptIsClean, Steps

\* What the job and its neighbours do.
LEMMA JobsKeep ==
    ASSUME SweepInv,
           \/ PlaybookStarts \/ PlaybookEnds \/ Neighbour \/ ReapOrphan
           \/ \E p, q \in Procs : Forks(p, q)
           \/ \E p \in Procs : Leaves(p) \/ Dies(p)
    PROVE  SweepInv'
<1> USE SweepFacts DEF Absent
<1>1. CASE PlaybookStarts
  <2>1. cleaner' \in Cleaners /\ cleaner'.at = "job" /\ cleaner.at = "clean"
    BY <1>1 DEF PlaybookStarts, Cleaner, Cleaners
  <2>2. proc' \in [Procs -> {"none", "live", "dying", "stuck", "zombie"}]
    BY <1>1 DEF PlaybookStarts
  <2>3. UNCHANGED <<home, ipc, tmp, sweeper, ours>> /\ sweeper.at = "none"
    BY <1>1, <2>1 DEF PlaybookStarts, ThreadKnows
  <2>4. SweepTypes'
    BY <2>1, <2>2, <2>3 DEF SweepTypes, Homes, Sweepers, Cleaners
  <2> QED
    BY <2>1, <2>3, <2>4 DEF SweepInv, SweepSoFar, ThreadKnows, SweptIsClean, Steps
<1>2. CASE PlaybookEnds
  <2>1. cleaner' \in Cleaners /\ cleaner'.at = "sweep" /\ cleaner.at = "job"
    BY <1>2 DEF PlaybookEnds, Cleaner, Cleaners
  <2>2. UNCHANGED <<proc, home, ipc, tmp, sweeper, ours>> /\ sweeper.at = "none"
    BY <1>2, <2>1 DEF PlaybookEnds, slotState, ThreadKnows
  <2>3. SweepTypes'
    BY <2>1, <2>2 DEF SweepTypes, Homes, Sweepers, Cleaners
  <2> QED
    BY <2>1, <2>2, <2>3 DEF SweepInv, SweepSoFar, ThreadKnows, SweptIsClean, Steps
<1>3. CASE Neighbour
  <2>1. UNCHANGED <<proc, sweeper, ours, cleaner>>
    BY <1>3 DEF Neighbour, sweepState
  <2>2. home' \in Homes /\ ipc' \in {"none", "there", "held", "marked"} /\ tmp' \in {"none", "own", "mixed"}
    BY <1>3 DEF Neighbour, Homes
  <2>3. /\ home'.open = home.open /\ home'.own = home.own /\ (~home.open => home' = home)
        /\ (Removed => Removed') /\ (ipc = "none" => ipc' = "none") /\ (tmp # "own" => tmp' # "own")
    BY <1>3 DEF Neighbour, Homes, Removed
  <2>4. SweepTypes'
    BY <2>1, <2>2 DEF SweepTypes, Homes, Sweepers, Cleaners
  <2>5. FreshHome.open = FALSE
    BY DEF FreshHome
  <2>6. SweepSoFar'
    BY <2>1, <2>3 DEF SweepSoFar, Stilled, Emptied
  <2> QED
    BY <2>1, <2>3, <2>4, <2>5, <2>6 DEF SweepInv, ThreadKnows, SweptIsClean, Stilled
<1>4. CASE ReapOrphan \/ \E p \in Procs : Dies(p)
  <2>1. UNCHANGED <<home, ipc, tmp, sweeper, ours, cleaner>>
    BY <1>4 DEF ReapOrphan, Dies, sweepState
  <2>2. /\ proc' \in [Procs -> {"none", "live", "dying", "stuck", "zombie"}]
        /\ \A p \in Procs : /\ proc'[p] = "live" => proc[p] = "live"
                            /\ proc'[p] \in {"live", "dying"} => proc[p] \in {"live", "dying"}
                            /\ proc[p] \in Absent => proc'[p] \in Absent
    BY <1>4 DEF ReapOrphan, Dies
  <2>3. SweepTypes'
    BY <2>1, <2>2 DEF SweepTypes, Homes, Sweepers, Cleaners
  <2>4. SweepSoFar'
    BY <2>1, <2>2 DEF SweepSoFar, Stilled, Emptied, Removed
  <2> QED
    BY <2>1, <2>2, <2>3, <2>4 DEF SweepInv, ThreadKnows, SweptIsClean, Stilled, Removed
<1>5. ASSUME NEW p \in Procs, NEW q \in Procs, Forks(p, q) PROVE SweepInv'
  <2>1. UNCHANGED <<home, ipc, tmp, sweeper, ours, cleaner>> /\ proc[p] = "live"
        /\ proc' \in [Procs -> {"none", "live", "dying", "stuck", "zombie"}]
    BY <1>5 DEF Forks, sweepState
  <2>2. SweepTypes'
    BY <2>1 DEF SweepTypes, Homes, Sweepers, Cleaners
  <2>3. ~Stilled /\ ~\A r \in Procs : proc[r] # "live"
    BY <2>1 DEF Stilled
  <2>4. SweepSoFar'
    BY <2>1, <2>3 DEF SweepSoFar
  <2> QED
    BY <2>1, <2>2, <2>3, <2>4 DEF SweepInv, ThreadKnows, SweptIsClean, Stilled
<1>6. ASSUME NEW p \in Procs, Leaves(p) PROVE SweepInv'
  <2>1. /\ UNCHANGED <<sweeper, ours, cleaner>> /\ proc[p] \in {"live", "dying"}
        /\ proc' \in [Procs -> {"none", "live", "dying", "stuck", "zombie"}]
        /\ \A r \in Procs : proc'[r] = "live" => proc[r] = "live"
    BY <1>6 DEF Leaves, sweepState
  <2>2. home' \in Homes /\ ipc' \in {"none", "there", "held", "marked"} /\ tmp' \in {"none", "own", "mixed"}
    BY <1>6 DEF Leaves, Homes
  <2>3. SweepTypes'
    BY <2>1, <2>2 DEF SweepTypes, Homes, Sweepers, Cleaners
  <2>4. ~Stilled /\ ~\A r \in Procs : proc[r] \in Absent
    BY <2>1 DEF Stilled
  <2>5. SweepSoFar'
    BY <2>1, <2>4 DEF SweepSoFar, Steps
  <2> QED
    BY <2>1, <2>3, <2>4, <2>5 DEF SweepInv, ThreadKnows, SweptIsClean
<1> QED
  BY <1>1, <1>2, <1>3, <1>4, <1>5, <1>6

\* The steps of the sweep process.
LEMMA SweeperKeeps ==
    ASSUME SweepInv, \/ KillOwnProcesses \/ CloseHome \/ EmptyHome \/ RemoveOwnIpc
                     \/ RemoveOwnFiles \/ SweeperKilled
    PROVE  SweepInv'
<1> USE SweepFacts
<1>0. UNCHANGED <<ours, cleaner>> /\ sweeper.at \in Steps
  BY DEF KillOwnProcesses, CloseHome, EmptyHome, RemoveOwnIpc, RemoveOwnFiles, SweeperKilled, At, Steps
<1>1. cleaner.at = "wait"
  BY <1>0 DEF ThreadKnows, Steps
<1>c. ASSUME SweepTypes', SweepSoFar' PROVE SweepInv'
  BY <1>0, <1>1, <1>c DEF SweepInv, ThreadKnows, SweptIsClean
<1>2. CASE KillOwnProcesses
  <2>0. UNCHANGED <<home, ipc, tmp>> /\ sweeper.at = "kill"
    BY <1>2 DEF KillOwnProcesses, At
  <2>1. CASE /\ sweeper.rounds < KillRounds
             /\ proc' = [p \in Procs |-> IF proc[p] = "live" THEN "dying" ELSE proc[p]]
             /\ sweeper' = [sweeper EXCEPT !.rounds = @ + 1]
    <3>1. sweeper.rounds + 1 \in 0..KillRounds
      BY <2>1 DEF Sweepers
    <3>2. sweeper' \in Sweepers /\ sweeper'.at = "kill" /\ sweeper'.code = sweeper.code
      BY <2>0, <2>1, <3>1 DEF Sweepers
    <3>3. proc' \in [Procs -> {"none", "live", "dying", "stuck", "zombie"}]
          /\ \A p \in Procs : proc'[p] # "live"
      BY <2>1
    <3>4. SweepTypes'
      BY <1>0, <2>0, <3>2, <3>3 DEF SweepTypes, Homes, Sweepers, Cleaners
    <3>5. SweepSoFar'
      BY <2>0, <3>2, <3>3 DEF SweepSoFar, Steps
    <3> QED
      BY <1>c, <3>4, <3>5
  <2>2. CASE /\ \/ \A p \in Procs : proc[p] = "none"
                \/ sweeper.rounds = KillRounds /\ \A p \in Procs : proc[p] # "dying"
             /\ GoOn("close") /\ UNCHANGED proc
    <3>1. sweeper' \in Sweepers /\ sweeper'.at = "close" /\ sweeper'.code = sweeper.code
      BY <2>2 DEF GoOn, Sweepers, Steps
    <3>2. SweepTypes'
      BY <1>0, <2>0, <2>2, <3>1 DEF SweepTypes, Homes, Sweepers, Cleaners
    <3>3. KillRounds > 0 /\ UNCHANGED proc
      BY <2>2
    <3>4. Stilled
      BY <2>0, <2>2, <3>3 DEF SweepSoFar, Stilled
    <3>5. Stilled'
      BY <3>3, <3>4 DEF Stilled
    <3>6. SweepSoFar'
      BY <2>0, <3>1, <3>5 DEF SweepSoFar, Steps
    <3> QED
      BY <1>c, <3>2, <3>6
  <2> QED
    BY <1>2, <2>1, <2>2 DEF KillOwnProcesses
<1>3. CASE CloseHome
  <2>1. /\ UNCHANGED <<proc, ipc, tmp>> /\ sweeper.at = "close"
        /\ sweeper' \in Sweepers /\ sweeper'.at = "empty" /\ sweeper'.code = sweeper.code
    BY <1>3 DEF CloseHome, At, GoOn, Sweepers, Steps
  <2>2. home' \in Homes /\ ~home'.open
    BY <1>3 DEF CloseHome, Homes
  <2>3. SweepTypes'
    BY <1>0, <2>1, <2>2 DEF SweepTypes, Homes, Sweepers, Cleaners
  <2>4. SweepSoFar'
    BY <2>1, <2>2 DEF SweepSoFar, Steps, Stilled
  <2> QED
    BY <1>c, <2>3, <2>4
<1>4. CASE EmptyHome
  <2>1. PICK stays \in SUBSET (home.others \intersect {"dir"}) :
         /\ home' = [home EXCEPT !.own = FALSE, !.others = stays]
         /\ sweeper' = [sweeper EXCEPT !.at = "ipc", !.code = IF stays = {} THEN "clean" ELSE "homeNotClean"]
    BY <1>4 DEF EmptyHome
  <2>2. UNCHANGED <<proc, ipc, tmp>> /\ sweeper.at = "empty"
    BY <1>4 DEF EmptyHome, At
  <2>3. home' \in Homes /\ home'.open = home.open /\ ~home'.own /\ home'.others = stays
    BY <2>1 DEF Homes
  <2>4. sweeper' \in Sweepers /\ sweeper'.at = "ipc" /\ sweeper'.code \in {"clean", "homeNotClean"}
        /\ (sweeper'.code = "clean" => stays = {})
    BY <2>1 DEF Sweepers, Steps
  <2>5. SweepTypes'
    BY <1>0, <2>2, <2>3, <2>4 DEF SweepTypes, Homes, Sweepers, Cleaners
  <2>6. Stilled' /\ ~home.open
    BY <2>2 DEF SweepSoFar, Stilled, Steps
  <2>7. SweepSoFar'
    BY <2>3, <2>4, <2>6 DEF SweepSoFar, Steps, Emptied
  <2> QED
    BY <1>c, <2>5, <2>7
<1>5. CASE RemoveOwnIpc
  <2>1. /\ UNCHANGED <<proc, home, tmp>> /\ sweeper.at = "ipc"
        /\ sweeper' \in Sweepers /\ sweeper'.at = "files" /\ sweeper'.code = sweeper.code
    BY <1>5 DEF RemoveOwnIpc, At, GoOn, Sweepers, Steps
  <2>2. ipc' \in {"none", "marked"}
    BY <1>5 DEF RemoveOwnIpc
  <2>3. SweepTypes'
    BY <1>0, <2>1, <2>2 DEF SweepTypes, Homes, Sweepers, Cleaners
  <2>4. SweepSoFar'
    BY <2>1, <2>2 DEF SweepSoFar, Steps, Stilled, Emptied, Removed
  <2> QED
    BY <1>c, <2>3, <2>4
<1>6. CASE RemoveOwnFiles
  <2>1. /\ UNCHANGED <<proc, home, ipc>> /\ sweeper.at = "files"
        /\ sweeper' \in Sweepers /\ sweeper'.at = "exited" /\ sweeper'.code = sweeper.code
    BY <1>6 DEF RemoveOwnFiles, At, GoOn, Sweepers, Steps
  <2>2. tmp' \in {"none", "mixed"}
    BY <1>6 DEF RemoveOwnFiles
  <2>3. SweepTypes'
    BY <1>0, <2>1, <2>2 DEF SweepTypes, Homes, Sweepers, Cleaners
  <2>4. SweepSoFar'
    BY <2>1, <2>2 DEF SweepSoFar, Steps, Stilled, Emptied, Removed
  <2> QED
    BY <1>c, <2>3, <2>4
<1>7. CASE SweeperKilled
  <2>1. /\ UNCHANGED <<proc, home, ipc, tmp>>
        /\ sweeper' \in Sweepers /\ sweeper'.at = "exited" /\ sweeper'.code = "killed"
    BY <1>7 DEF SweeperKilled, slotState, Sweepers
  <2>2. SweepTypes'
    BY <1>0, <2>1 DEF SweepTypes, Homes, Sweepers, Cleaners
  <2>3. SweepSoFar'
    BY <2>1 DEF SweepSoFar, Steps
  <2> QED
    BY <1>c, <2>2, <2>3
<1> QED
  BY <1>2, <1>3, <1>4, <1>5, <1>6, <1>7, SMTT(40)

\* The slot's thread.
LEMMA CleanerKeeps ==
    ASSUME SweepInv, StartSweep \/ CollectSweep \/ CountProcesses \/ JudgeSlot \/ SweepAgain
    PROVE  SweepInv'
<1> USE SweepFacts
<1>1. CASE StartSweep
  <2>1. /\ cleaner' \in Cleaners /\ cleaner'.at = "wait" /\ ours' = TRUE
        /\ UNCHANGED <<proc, home, ipc, tmp>>
    BY <1>1 DEF StartSweep, slotState, Cleaner, Cleaners
  <2>2. sweeper' \in Sweepers /\ sweeper'.at = "kill" /\ sweeper'.rounds = 0 /\ sweeper'.code = "none"
    BY <1>1 DEF StartSweep, NoSweeper, Sweepers, Steps
  <2>3. SweepTypes'
    BY <2>1, <2>2 DEF SweepTypes, Homes, Sweepers, Cleaners
  <2> QED
    BY <2>1, <2>2, <2>3 DEF SweepInv, SweepSoFar, ThreadKnows, SweptIsClean, Steps
<1>2. CASE CollectSweep
  <2>1. PICK replaced \in BOOLEAN :
         /\ replaced => sweeper.code = "homeNotClean"
         /\ home' = IF replaced THEN FreshHome ELSE home
         /\ cleaner' = [cleaner EXCEPT !.at = "processes", !.homeClean = replaced \/ sweeper.code = "clean"]
    BY <1>2 DEF CollectSweep
  <2>2. /\ sweeper.at = "exited" /\ sweeper' = NoSweeper /\ ours' = FALSE /\ UNCHANGED <<proc, ipc, tmp>>
    BY <1>2 DEF CollectSweep
  <2>3. cleaner' \in Cleaners /\ cleaner'.at = "processes"
        /\ (cleaner'.homeClean => replaced \/ sweeper.code = "clean")
    BY <2>1 DEF Cleaners
  <2>4. FreshHome \in Homes /\ home' \in Homes
    BY <2>1 DEF Homes, FreshHome
  <2>5. sweeper' \in Sweepers /\ sweeper'.at = "none"
    BY <2>2 DEF NoSweeper, Sweepers
  <2>6. SweepTypes'
    BY <2>2, <2>3, <2>4, <2>5 DEF SweepTypes, Homes, Sweepers, Cleaners
  <2>7. cleaner'.homeClean => Stilled /\ home' = FreshHome /\ Removed /\ tmp # "own"
    <3>1. SUFFICES ASSUME cleaner'.homeClean PROVE Stilled /\ home' = FreshHome /\ Removed /\ tmp # "own"
      OBVIOUS
    <3>2. sweeper.code # "killed"
      BY <2>1, <2>3, <3>1
    <3>3. Stilled /\ Emptied /\ Removed /\ tmp # "own" /\ (sweeper.code = "clean" => home.others = {})
      BY <2>2, <3>2 DEF SweepSoFar
    <3>4. sweeper.code = "clean" => home = FreshHome
      BY <3>3 DEF Emptied, Homes, FreshHome
    <3> QED
      BY <2>1, <2>3, <3>1, <3>3, <3>4
  <2> QED
    BY <2>2, <2>3, <2>5, <2>6, <2>7
       DEF SweepInv, SweepSoFar, ThreadKnows, SweptIsClean, Steps, Stilled, Removed
<1>3. CASE CountProcesses
  <2>1. /\ cleaner.at = "processes" /\ UNCHANGED <<proc, home, ipc, tmp, sweeper, ours>>
        /\ cleaner' = [cleaner EXCEPT !.at = "objects", !.left = \E p \in Procs : proc[p] \notin Absent]
    BY <1>3 DEF CountProcesses, slotState
  <2>2. /\ cleaner' \in Cleaners /\ cleaner'.at = "objects" /\ cleaner'.homeClean = cleaner.homeClean
        /\ ~cleaner'.left => \A p \in Procs : proc[p] \in Absent
    <3> DEFINE some == \E p \in Procs : proc[p] \notin Absent
    <3>1. some \in BOOLEAN /\ (~some => \A p \in Procs : proc[p] \in Absent)
      OBVIOUS
    <3>2. cleaner' = [cleaner EXCEPT !.at = "objects", !.left = some]
      BY <2>1
    <3> HIDE DEF some
    <3> QED
      BY <3>1, <3>2 DEF Cleaners
  <2>3. SweepTypes'
    BY <2>1, <2>2 DEF SweepTypes, Homes, Sweepers, Cleaners
  <2> QED
    BY <2>1, <2>2, <2>3 DEF SweepInv, SweepSoFar, ThreadKnows, SweptIsClean, Stilled, Removed, Emptied
<1>4. CASE JudgeSlot \/ SweepAgain
  <2>1. /\ cleaner.at \in {"objects", "dirty"} /\ UNCHANGED <<proc, home, ipc, tmp, sweeper, ours>>
        /\ \/ cleaner' = Cleaner("clean", 0) /\ cleaner.at = "objects"
              /\ ~cleaner.left /\ ipc = "none" /\ cleaner.homeClean
           \/ \E n \in 0..SweepAttempts : cleaner' = Cleaner("sweep", n)
           \/ cleaner' = Cleaner("dirty", 0)
    <3>1. cleaner.attempt \in 0..SweepAttempts
      BY DEF Cleaners
    <3> QED
      BY <1>4, <3>1 DEF JudgeSlot, SweepAgain, slotState
  <2>2. /\ cleaner' \in Cleaners /\ cleaner'.at \in {"clean", "sweep", "dirty"}
        /\ cleaner'.at = "clean" => /\ cleaner.at = "objects" /\ ~cleaner.left
                                    /\ ipc = "none" /\ cleaner.homeClean
    <3>1. \A at \in {"clean", "sweep", "dirty"}, n \in 0..SweepAttempts :
            Cleaner(at, n) \in Cleaners /\ Cleaner(at, n).at = at
      BY DEF Cleaner, Cleaners
    <3>2. 0 \in 0..SweepAttempts
      OBVIOUS
    <3> QED
      BY <2>1, <3>1, <3>2
  <2>3. SweepTypes'
    BY <2>1, <2>2 DEF SweepTypes, Homes, Sweepers, Cleaners
  <2>4. SweptIsClean'
    BY <2>1, <2>2 DEF ThreadKnows, SweptIsClean
  <2> QED
    BY <2>1, <2>2, <2>3, <2>4 DEF SweepInv, SweepSoFar, ThreadKnows, Stilled, Removed, Emptied
<1> QED
  BY <1>1, <1>2, <1>3, <1>4

LEMMA SweepKeeps == ASSUME SweepInv, [SweepNext]_sweepVars PROVE SweepInv'
<1>1. CASE UNCHANGED sweepVars
  BY <1>1 DEF sweepVars, SweepInv, SweepTypes, SweepSoFar, ThreadKnows, SweptIsClean,
              Stilled, Removed, Emptied
<1> QED
  BY <1>1, JobsKeep, SweeperKeeps, CleanerKeeps DEF SweepNext

\* For any number of processes, kill rounds and attempts, whatever the job left running,
\* its neighbours hold on to and kills the sweep: what sweep() calls clean is clean.
THEOREM SweptSlotsAreClean == SweepSpec => []SweptIsClean
<1>1. SweepInv => SweptIsClean
  BY DEF SweepInv
<1> QED
  BY <1>1, SweepStart, SweepKeeps, PTL DEF SweepSpec

-----------------------------------------------------------------------------
(* Host keys.  The id an admin confirms names one learned key: a row's key *)
(* changes only by being trusted, and an id is used once, so what the page *)
(* shows under an unconfirmed id is what is stored (PageIsCurrent).  What  *)
(* a strict run was given was confirmed, and stays vouched for.            *)

HostKeyRows == [id : 0..MaxRows, key : Keys \union {"none"}, confirmed : BOOLEAN]
Lines == [Hosts -> Keys \union {"none"}]
KeyRunRows == [at : {"queued", "claimed", "working", "over"}, mode : Modes, known : Lines, talked : Lines]
ScanRows == [status : {"none", "queued", "running", "failed", "success"}, results : Lines]

HostKeyShape ==
    /\ known \in [Hosts -> HostKeyRows] /\ page \in [Hosts -> HostKeyRows] /\ ids \in 0..MaxRows
    /\ mode \in Modes /\ presents \in [Hosts -> Keys] /\ vouched \subseteq Hosts \X Keys
    /\ keyRun \in [KeyRuns -> KeyRunRows] /\ hostScan \in ScanRows

PageIsCurrent ==
    \A n \in Hosts :
      /\ known[n].id <= ids /\ page[n].id <= ids
      /\ known[n].id = 0 => known[n].key = "none" /\ ~known[n].confirmed
      /\ known[n].id # 0 => known[n].key \in Keys
      /\ page[n].id # 0 => page[n].key \in Keys
      /\ page[n].id = known[n].id /\ ~known[n].confirmed => page[n].key = known[n].key

GivenIsVouched ==
    \A r \in KeyRuns, n \in Hosts :
      /\ keyRun[r].at \in {"queued", "claimed"} =>
           keyRun[r].known[n] = "none" /\ keyRun[r].talked[n] = "none"
      /\ keyRun[r].mode = "strict" =>
           /\ keyRun[r].known[n] # "none" => <<n, keyRun[r].known[n]>> \in vouched
           /\ keyRun[r].talked[n] # "none" => <<n, keyRun[r].talked[n]>> \in vouched

HostKeyInv == HostKeyShape /\ PageIsCurrent /\ GivenIsVouched /\ ConfirmedWasSeen

LEMMA HostKeyFacts ==
    ASSUME HostKeyInv
    PROVE  /\ known \in [Hosts -> HostKeyRows] /\ page \in [Hosts -> HostKeyRows] /\ ids \in 0..MaxRows
           /\ mode \in Modes /\ presents \in [Hosts -> Keys] /\ vouched \subseteq Hosts \X Keys
           /\ keyRun \in [KeyRuns -> KeyRunRows] /\ hostScan \in ScanRows
           /\ PageIsCurrent /\ GivenIsVouched /\ ConfirmedWasSeen /\ MaxRows \in Nat
BY HostKeyAssumption DEF HostKeyInv, HostKeyShape

LEMMA HostKeyStart == HostKeyInit => HostKeyInv
<1> SUFFICES ASSUME HostKeyInit PROVE HostKeyInv
  OBVIOUS
<1>1. NoKey \in HostKeyRows /\ NoKey.id = 0 /\ NoKey.key = "none" /\ ~NoKey.confirmed
  BY HostKeyAssumption DEF NoKey, HostKeyRows
<1>2. NoLines \in Lines /\ \A n \in Hosts : NoLines[n] = "none"
  BY DEF NoLines, Lines
<1>3. NoScan \in ScanRows
  BY <1>2 DEF NoScan, ScanRows
<1>4. /\ keyRun \in [KeyRuns -> KeyRunRows]
      /\ \A r \in KeyRuns : keyRun[r].mode = "off" /\ keyRun[r].known = NoLines /\ keyRun[r].talked = NoLines
  BY <1>2 DEF HostKeyInit, KeyRunRows, Modes
<1>5. /\ known \in [Hosts -> HostKeyRows] /\ page \in [Hosts -> HostKeyRows] /\ ids = 0 /\ page = known
      /\ \A n \in Hosts : known[n] = NoKey
  BY <1>1 DEF HostKeyInit
<1>6. HostKeyShape
  BY <1>3, <1>4, <1>5, HostKeyAssumption DEF HostKeyShape, HostKeyInit, Modes
<1>7. PageIsCurrent
  BY <1>1, <1>5 DEF PageIsCurrent
<1>8. GivenIsVouched
  BY <1>2, <1>4 DEF GivenIsVouched
<1>9. ConfirmedWasSeen
  BY <1>1, <1>5 DEF ConfirmedWasSeen, Rows
<1> QED
  BY <1>6, <1>7, <1>8, <1>9 DEF HostKeyInv

\* A row of known_hosts set to k; vouched for, or learned under a new id.
LEMMA RowIsSet ==
    ASSUME HostKeyInv, NEW n \in Hosts, NEW row \in HostKeyRows, row.id \in 1..ids', row.key \in Keys,
           ids' \in 0..MaxRows, ids <= ids',
           known' = [known EXCEPT ![n] = row], vouched \subseteq vouched', vouched' \subseteq Hosts \X Keys,
           \/ row.confirmed /\ <<n, row.key>> \in vouched'
           \/ ~row.confirmed /\ row.id > ids,
           UNCHANGED <<mode, presents, page, hostScan>>, keyRun' \in [KeyRuns -> KeyRunRows],
           \A r \in KeyRuns : /\ keyRun'[r].mode = keyRun[r].mode /\ keyRun'[r].known = keyRun[r].known
                              /\ keyRun'[r].talked = keyRun[r].talked
                              /\ keyRun'[r].at \in {"queued", "claimed"} => keyRun[r].at \in {"queued", "claimed"}
    PROVE  HostKeyInv'
<1> USE HostKeyFacts
<1>1. known' \in [Hosts -> HostKeyRows] /\ known'[n] = row /\ \A h \in Hosts \ {n} : known'[h] = known[h]
  OBVIOUS
<1>2. HostKeyShape'
  BY <1>1 DEF HostKeyShape
<1>3. \A h \in Hosts : known[h].id \in 0..MaxRows /\ page[h].id \in 0..MaxRows
  BY DEF HostKeyRows
<1>4. PageIsCurrent'
  BY <1>1, <1>3 DEF PageIsCurrent
<1>5. GivenIsVouched'
  BY DEF GivenIsVouched
<1>6. ConfirmedWasSeen'
  <2> SUFFICES ASSUME NEW h \in Hosts, known'[h].id # 0, known'[h].confirmed
               PROVE  <<h, known'[h].key>> \in vouched'
    BY DEF ConfirmedWasSeen, Rows
  <2>1. CASE h = n
    BY <1>1, <2>1
  <2>2. CASE h # n
    BY <1>1, <2>2 DEF ConfirmedWasSeen, Rows
  <2> QED
    BY <2>1, <2>2
<1> QED
  BY <1>2, <1>4, <1>5, <1>6 DEF HostKeyInv

LEMMA TrustKeeps ==
    ASSUME HostKeyInv, NEW n \in Hosts, NEW k \in Keys, Trust(n, k), UNCHANGED hostScan
    PROVE  HostKeyInv'
<1> USE HostKeyFacts
<1> DEFINE row == [id |-> IF known[n].id = 0 THEN ids + 1 ELSE known[n].id, key |-> k, confirmed |-> TRUE]
<1>1. known[n].id \in 0..MaxRows /\ known[n].id <= ids
  BY DEF HostKeyRows, PageIsCurrent
<1>2. /\ known' = [known EXCEPT ![n] = row] /\ ids' = (IF known[n].id = 0 THEN ids + 1 ELSE ids)
      /\ known[n].id # 0 \/ ids < MaxRows
      /\ vouched' = vouched \union {<<n, k>>} /\ UNCHANGED <<mode, presents, page, keyRun>>
  BY DEF Trust
<1>3. ids' \in 0..MaxRows /\ ids <= ids' /\ row.id \in 1..ids' /\ row.id \in 0..MaxRows
  BY <1>1, <1>2
<1>4. row \in HostKeyRows /\ row.key = k /\ row.confirmed
  BY <1>3 DEF HostKeyRows
<1>5. vouched' \subseteq Hosts \X Keys /\ <<n, k>> \in vouched' /\ vouched \subseteq vouched'
  BY <1>2
<1> HIDE DEF row
<1> QED
  BY <1>2, <1>3, <1>4, <1>5, RowIsSet

\* What admins do to the keys.
LEMMA HostAdminsKeep ==
    ASSUME HostKeyInv,
           \/ ListHostKeys \/ \E m \in Modes : SetMode(m)
           \/ \E n \in Hosts : \/ ConfirmKey(n) \/ ForgetHostKey(n) \/ TrustScannedKey(n)
                               \/ \E k \in Keys : PasteKey(n, k)
    PROVE  HostKeyInv'
<1> USE HostKeyFacts
<1>1. CASE ListHostKeys
  <2>1. page' = known /\ UNCHANGED <<known, ids, mode, presents, vouched, keyRun, hostScan>>
    BY <1>1 DEF ListHostKeys
  <2>2. HostKeyShape' /\ PageIsCurrent'
    BY <2>1 DEF HostKeyShape, PageIsCurrent
  <2> QED
    BY <2>1, <2>2 DEF HostKeyInv, GivenIsVouched, ConfirmedWasSeen, Rows
<1>2. ASSUME NEW m \in Modes, SetMode(m) PROVE HostKeyInv'
  BY <1>2 DEF SetMode, HostKeyInv, HostKeyShape, PageIsCurrent, GivenIsVouched, ConfirmedWasSeen, Rows
<1>3. ASSUME NEW n \in Hosts, ConfirmKey(n) PROVE HostKeyInv'
  <2> DEFINE row == [known[n] EXCEPT !.confirmed = TRUE]
  <2>1. /\ page[n].id # 0 /\ known[n].id = page[n].id /\ ~known[n].confirmed
        /\ known' = [known EXCEPT ![n] = row]
        /\ vouched' = vouched \union {<<n, page[n].key>>}
        /\ UNCHANGED <<ids, mode, presents, page, keyRun, hostScan>>
    BY <1>3 DEF ConfirmKey
  <2>2. known[n].id \in 0..MaxRows /\ known[n].id <= ids /\ page[n].key \in Keys /\ page[n].key = known[n].key
    BY <2>1 DEF HostKeyRows, PageIsCurrent
  <2>3. row \in HostKeyRows /\ row.id = known[n].id /\ row.key = page[n].key /\ row.confirmed
    BY <2>2 DEF HostKeyRows
  <2>4. row.id \in 1..ids'
    BY <2>1, <2>2, <2>3
  <2> HIDE DEF row
  <2>5. vouched' \subseteq Hosts \X Keys /\ <<n, row.key>> \in vouched' /\ vouched \subseteq vouched'
    BY <2>1, <2>2, <2>3
  <2>6. ids' \in 0..MaxRows /\ ids <= ids' /\ row.key \in Keys /\ keyRun' \in [KeyRuns -> KeyRunRows]
    BY <2>1, <2>2, <2>3
  <2> QED
    BY <2>1, <2>3, <2>4, <2>5, <2>6, RowIsSet
<1>4. ASSUME NEW n \in Hosts, ForgetHostKey(n) PROVE HostKeyInv'
  <2>1. NoKey \in HostKeyRows /\ NoKey.id = 0 /\ NoKey.key = "none" /\ ~NoKey.confirmed
    BY DEF NoKey, HostKeyRows
  <2>2. /\ known' = [known EXCEPT ![n] = NoKey] /\ page[n].id # 0
        /\ UNCHANGED <<ids, mode, presents, page, vouched, keyRun, hostScan>>
    BY <1>4 DEF ForgetHostKey
  <2>3. known' \in [Hosts -> HostKeyRows] /\ known'[n] = NoKey /\ \A h \in Hosts \ {n} : known'[h] = known[h]
    BY <2>1, <2>2
  <2>4. HostKeyShape'
    BY <2>2, <2>3 DEF HostKeyShape
  <2>5. PageIsCurrent'
    BY <2>1, <2>2, <2>3 DEF PageIsCurrent
  <2>6. GivenIsVouched' /\ ConfirmedWasSeen'
    BY <2>1, <2>2, <2>3 DEF GivenIsVouched, ConfirmedWasSeen, Rows
  <2> QED
    BY <2>4, <2>5, <2>6 DEF HostKeyInv
<1>5. ASSUME NEW n \in Hosts, TrustScannedKey(n) PROVE HostKeyInv'
  <2>1. hostScan.results[n] \in Keys /\ Trust(n, hostScan.results[n]) /\ UNCHANGED hostScan
    BY <1>5 DEF TrustScannedKey, ScanRows, Lines
  <2> QED
    BY <2>1, TrustKeeps
<1>6. ASSUME NEW n \in Hosts, NEW k \in Keys, PasteKey(n, k) PROVE HostKeyInv'
  BY <1>6, TrustKeeps DEF PasteKey
<1> QED
  BY <1>1, <1>2, <1>3, <1>4, <1>5, <1>6

\* Scans, and the hosts themselves.
LEMMA ScansKeep ==
    ASSUME HostKeyInv,
           \/ StartScan \/ ClaimScan \/ ReapScan \/ PruneScan
           \/ \E answering \in SUBSET Hosts : ScanComplete(answering)
           \/ \E n \in Hosts, k \in Keys : Presents(n, k)
           \/ UNCHANGED hostKeyVars
    PROVE  HostKeyInv'
<1> USE HostKeyFacts
<1>1. UNCHANGED <<known, ids, mode, page, vouched, keyRun>>
  BY DEF StartScan, ClaimScan, ReapScan, PruneScan, ScanComplete, Presents, hostKeyVars
<1>2. presents' \in [Hosts -> Keys]
  BY DEF StartScan, ClaimScan, ReapScan, PruneScan, ScanComplete, Presents, hostKeyVars
<1>3. hostScan' \in ScanRows
  <2>1. NoLines \in Lines
    BY DEF NoLines, Lines
  <2>2. NoScan \in ScanRows /\ [NoScan EXCEPT !.status = "queued"] \in ScanRows
    BY <2>1 DEF NoScan, ScanRows
  <2>3. CASE StartScan \/ ClaimScan \/ ReapScan \/ PruneScan
    BY <2>2, <2>3 DEF StartScan, ClaimScan, ReapScan, PruneScan, ScanRows
  <2>4. ASSUME NEW answering \in SUBSET Hosts, ScanComplete(answering) PROVE hostScan' \in ScanRows
    <3>1. [n \in Hosts |-> IF n \in answering THEN presents[n] ELSE "none"] \in Lines
      BY DEF Lines
    <3> QED
      BY <2>4, <3>1 DEF ScanComplete, ScanRows
  <2> QED
    BY <2>3, <2>4 DEF Presents, hostKeyVars
<1>4. HostKeyShape'
  BY <1>1, <1>2, <1>3 DEF HostKeyShape
<1> QED
  BY <1>1, <1>4 DEF HostKeyInv, PageIsCurrent, GivenIsVouched, ConfirmedWasSeen, Rows

LEMMA KeyRunsKeep ==
    ASSUME HostKeyInv, NEW r \in KeyRuns,
           \/ NextKeyRun(r) \/ ClaimKeyRun(r) \/ FetchKeyJob(r)
           \/ \E n \in Hosts : Connect(r, n)
           \/ \E n \in Hosts, k \in Keys : CompleteKeyRun(r, n, k)
    PROVE  HostKeyInv'
<1> USE HostKeyFacts
<1>0. /\ keyRun[r] \in KeyRunRows /\ keyRun[r].mode \in Modes
      /\ keyRun[r].known \in Lines /\ keyRun[r].talked \in Lines
  BY DEF KeyRunRows
<1>r. ASSUME NEW run \in KeyRunRows, keyRun' = [keyRun EXCEPT ![r] = run],
             UNCHANGED <<known, ids, mode, presents, page, vouched, hostScan>>,
             run.at \in {"queued", "claimed"} =>
               \A n \in Hosts : run.known[n] = "none" /\ run.talked[n] = "none",
             run.mode = "strict" =>
               \A n \in Hosts : /\ run.known[n] # "none" => <<n, run.known[n]>> \in vouched
                                /\ run.talked[n] # "none" => <<n, run.talked[n]>> \in vouched
      PROVE  HostKeyInv'
  <2>1. keyRun' \in [KeyRuns -> KeyRunRows] /\ keyRun'[r] = run
        /\ \A x \in KeyRuns \ {r} : keyRun'[x] = keyRun[x]
    BY <1>r
  <2>2. HostKeyShape'
    BY <1>r, <2>1 DEF HostKeyShape
  <2>3. GivenIsVouched'
    BY <1>r, <2>1 DEF GivenIsVouched
  <2> QED
    BY <1>r, <2>2, <2>3 DEF HostKeyInv, PageIsCurrent, ConfirmedWasSeen, Rows
<1>1. CASE NextKeyRun(r)
  <2> DEFINE run == [at |-> "queued", mode |-> "off", known |-> NoLines, talked |-> NoLines]
  <2>1. NoLines \in Lines /\ \A n \in Hosts : NoLines[n] = "none"
    BY DEF NoLines, Lines
  <2>2. run \in KeyRunRows /\ run.mode = "off" /\ run.known = NoLines /\ run.talked = NoLines
    BY <2>1 DEF KeyRunRows, Modes
  <2>3. keyRun' = [keyRun EXCEPT ![r] = run] /\ UNCHANGED <<known, ids, mode, presents, page, vouched, hostScan>>
    BY <1>1 DEF NextKeyRun
  <2> HIDE DEF run
  <2> QED
    BY <1>r, <2>1, <2>2, <2>3
<1>2. CASE ClaimKeyRun(r)
  <2> DEFINE run == [keyRun[r] EXCEPT !.at = "claimed", !.mode = mode]
  <2>1. /\ run \in KeyRunRows /\ run.known = keyRun[r].known /\ run.talked = keyRun[r].talked
        /\ keyRun[r].at = "queued"
    BY <1>0, <1>2 DEF ClaimKeyRun, KeyRunRows
  <2>2. keyRun' = [keyRun EXCEPT ![r] = run] /\ UNCHANGED <<known, ids, mode, presents, page, vouched, hostScan>>
    BY <1>0, <1>2 DEF ClaimKeyRun, KeyRunRows
  <2> HIDE DEF run
  <2>3. \A n \in Hosts : run.known[n] = "none" /\ run.talked[n] = "none"
    BY <2>1, ZenonT(60) DEF GivenIsVouched
  <2> QED
    BY <1>r, <2>1, <2>2, <2>3
<1>3. CASE FetchKeyJob(r)
  <2> DEFINE given == KnownHostsText(keyRun[r].mode)
             run == [keyRun[r] EXCEPT !.at = "working", !.known = given]
  <2>1. given \in Lines
    BY DEF KnownHostsText, Lines, HostKeyRows
  <2>2. /\ run \in KeyRunRows /\ run.known = given /\ run.talked = keyRun[r].talked
        /\ run.at = "working" /\ run.mode = keyRun[r].mode /\ keyRun[r].at = "claimed"
    BY <1>0, <1>3, <2>1 DEF FetchKeyJob, KeyRunRows
  <2>3. keyRun' = [keyRun EXCEPT ![r] = run] /\ UNCHANGED <<known, ids, mode, presents, page, vouched, hostScan>>
    BY <1>0, <1>3 DEF FetchKeyJob, KeyRunRows
  <2>4. ASSUME keyRun[r].mode = "strict", NEW n \in Hosts, given[n] # "none"
        PROVE  <<n, given[n]>> \in vouched
    <3>1. given[n] = known[n].key /\ known[n].confirmed
      BY <2>4 DEF KnownHostsText
    <3>2. known[n].id # 0
      BY <2>4, <3>1 DEF PageIsCurrent
    <3> QED
      BY <3>1, <3>2 DEF ConfirmedWasSeen, Rows
  <2>5. \A n \in Hosts : keyRun[r].talked[n] = "none"
    BY <2>2 DEF GivenIsVouched
  <2> HIDE DEF run, given
  <2> QED
    BY <1>r, <2>2, <2>3, <2>4, <2>5
<1>4. ASSUME NEW n \in Hosts, Connect(r, n) PROVE HostKeyInv'
  <2> DEFINE spoke == [keyRun[r].talked EXCEPT ![n] = presents[n]]
             run == [keyRun[r] EXCEPT !.talked = spoke]
  <2>1. spoke \in Lines /\ spoke[n] = presents[n] /\ \A h \in Hosts \ {n} : spoke[h] = keyRun[r].talked[h]
    BY <1>0 DEF Lines
  <2>2. /\ run \in KeyRunRows /\ run.known = keyRun[r].known /\ run.talked = spoke
        /\ run.at = "working" /\ run.mode = keyRun[r].mode
    BY <1>0, <1>4, <2>1 DEF Connect, KeyRunRows
  <2>3. keyRun' = [keyRun EXCEPT ![r] = run] /\ UNCHANGED <<known, ids, mode, presents, page, vouched, hostScan>>
    BY <1>0, <1>4 DEF Connect, KeyRunRows
  <2>4. keyRun[r].mode = "strict" => keyRun[r].known[n] = presents[n]
    BY <1>4 DEF Connect, SshAccepts
  <2> HIDE DEF run, spoke
  <2>5. ASSUME keyRun[r].mode = "strict", NEW h \in Hosts, spoke[h] # "none"
        PROVE  <<h, spoke[h]>> \in vouched
    BY <2>1, <2>4, <2>5 DEF GivenIsVouched
  <2>6. ASSUME keyRun[r].mode = "strict", NEW h \in Hosts, keyRun[r].known[h] # "none"
        PROVE  <<h, keyRun[r].known[h]>> \in vouched
    BY <2>6 DEF GivenIsVouched
  <2> QED
    BY <1>r, <2>2, <2>3, <2>5, <2>6
<1>5. ASSUME NEW n \in Hosts, NEW k \in Keys, CompleteKeyRun(r, n, k) PROVE HostKeyInv'
  <2> DEFINE run == [keyRun[r] EXCEPT !.at = "over"]
             row == [id |-> ids + 1, key |-> k, confirmed |-> FALSE]
  <2>1. /\ keyRun' = [keyRun EXCEPT ![r] = run] /\ keyRun[r].at = "working"
        /\ UNCHANGED <<mode, presents, page, vouched, hostScan>>
        /\ \/ UNCHANGED <<known, ids>>
           \/ known' = [known EXCEPT ![n] = row] /\ ids' = ids + 1 /\ ids < MaxRows
    BY <1>5 DEF CompleteKeyRun, Learnable
  <2>2. /\ run \in KeyRunRows /\ run.at = "over" /\ run.mode = keyRun[r].mode
        /\ run.known = keyRun[r].known /\ run.talked = keyRun[r].talked
    BY <1>0 DEF KeyRunRows
  <2> HIDE DEF run
  <2>3. CASE UNCHANGED <<known, ids>>
    BY <1>r, <2>1, <2>2, <2>3, ZenonT(60) DEF GivenIsVouched
  <2>4. CASE known' = [known EXCEPT ![n] = row] /\ ids' = ids + 1 /\ ids < MaxRows
    <3>1. row.id \in 1..ids' /\ ids' \in 0..MaxRows /\ ids <= ids' /\ row.id > ids /\ row.id \in 0..MaxRows
      BY <2>4
    <3>2. row \in HostKeyRows /\ row.key = k /\ ~row.confirmed
      BY <3>1 DEF HostKeyRows
    <3>3. keyRun' \in [KeyRuns -> KeyRunRows]
      BY <2>1, <2>2
    <3>4. \A x \in KeyRuns : /\ keyRun'[x].mode = keyRun[x].mode /\ keyRun'[x].known = keyRun[x].known
                             /\ keyRun'[x].talked = keyRun[x].talked
                             /\ keyRun'[x].at \in {"queued", "claimed"} => keyRun[x].at \in {"queued", "claimed"}
      BY <2>1, <2>2
    <3> HIDE DEF row
    <3> QED
      BY <2>1, <2>4, <3>1, <3>2, <3>3, <3>4, RowIsSet
  <2> QED
    BY <2>1, <2>3, <2>4
<1> QED
  BY <1>1, <1>2, <1>3, <1>4, <1>5

LEMMA HostKeysKeep == ASSUME HostKeyInv, [HostKeyNext]_hostKeyVars PROVE HostKeyInv'
BY HostAdminsKeep, ScansKeep, KeyRunsKeep DEF HostKeyNext

LEMMA HostKeysTyped == ASSUME HostKeyInv PROVE HostKeyTypes
<1>1. /\ known \in [Hosts -> HostKeyRows] /\ page \in [Hosts -> HostKeyRows]
      /\ mode \in Modes /\ presents \in [Hosts -> Keys] /\ vouched \subseteq Hosts \X Keys
  BY HostKeyFacts
<1>2. \A r \in KeyRuns : keyRun[r].at \in {"queued", "claimed", "working", "over"}
  BY HostKeyFacts DEF KeyRunRows
<1>3. hostScan.status \in {"none", "queued", "running", "failed", "success"}
  BY HostKeyFacts DEF ScanRows
<1> QED
  BY <1>1, <1>2, <1>3 DEF HostKeyTypes, HostKeyRows

\* For any hosts, keys and runs: however old the page is, whatever runs report and hosts
\* present, a confirmed key and the host of a strict run go back to an admin who saw it.
THEOREM TrustStaysVouched == HostKeySpec => []TrustIsVouched
<1>1. HostKeyInv => TrustIsVouched
  BY DEF HostKeyInv, GivenIsVouched, TrustIsVouched, StrictIsVouched
<1> QED
  BY <1>1, HostKeyStart, HostKeysKeep, PTL DEF HostKeySpec

-----------------------------------------------------------------------------
(* Moves to the secret store.  A path that a row refers to, or that a      *)
(* request is about to refer to, has a version, so check-and-set keeps     *)
(* every move away from it; what a move saves is what it read back.        *)

GoneRow == [at |-> "gone", path |-> "none", epoch |-> 0]
SecretRows == {Here(e) : e \in 0..MaxRotations} \union {InStore(p) : p \in Paths} \union {GoneRow}
KvRows == [value : Values, version : Nat]
MoveRows == [at : {"idle", "reading", "creating", "comparing", "saving"}, kind : {"none", "move", "edit"},
             row : Secrets \union {"none"}, path : Paths \union {"none"},
             before : SecretRows \union {"none"}, version : Nat]

MoveShape ==
    /\ secretRow \in [Secrets -> SecretRows] /\ kv \in [Paths -> KvRows]
    /\ move \in [Requests -> MoveRows] /\ meant \in [Secrets -> Values]

RowMeans(r) ==
    /\ secretRow[r].at = "here" => meant[r] = r
    /\ secretRow[r].at = "store" =>
         kv[secretRow[r].path].value = meant[r] /\ kv[secretRow[r].path].version > 0

MoveOk(c) ==
    /\ c.at # "idle" => c.row \in Secrets /\ c.path \in Paths
    /\ c.at # "idle" /\ c.kind # "edit" => c.before.at = "here"
    /\ c.at \in {"creating", "comparing"} => c.kind # "edit"
    /\ c.at = "comparing" => c.version > 0
    /\ c.at = "saving" =>
         kv[c.path].version > 0 /\ (c.kind # "edit" => kv[c.path].value = c.row)

MoveInv ==
    /\ MoveShape
    /\ \A p \in Paths : kv[p].value # "deleted" => kv[p].version > 0
    /\ \A r \in Secrets : RowMeans(r)
    /\ \A m \in Requests : MoveOk(move[m])

LEMMA MoveFacts ==
    ASSUME MoveInv
    PROVE  /\ secretRow \in [Secrets -> SecretRows] /\ kv \in [Paths -> KvRows]
           /\ move \in [Requests -> MoveRows] /\ meant \in [Secrets -> Values]
           /\ \A p \in Paths : kv[p].value # "deleted" => kv[p].version > 0
           /\ \A p \in Paths : kv[p] \in KvRows /\ kv[p].value \in Values /\ kv[p].version \in Nat
           /\ \A r \in Secrets : RowMeans(r) /\ secretRow[r] \in SecretRows
           /\ \A m \in Requests : MoveOk(move[m]) /\ move[m] \in MoveRows
           /\ MaxRotations \in Nat /\ Secrets \intersect {"other", "deleted"} = {}
BY StoreMovesAssumption DEF MoveInv, MoveShape, KvRows

LEMMA SecretRowKinds ==
    ASSUME NEW row \in SecretRows
    PROVE  /\ row.at \in {"here", "store", "gone"}
           /\ row.at = "here" => row.epoch \in 0..MaxRotations /\ row = Here(row.epoch)
           /\ row.at = "store" => row.path \in Paths /\ row = InStore(row.path)
<1>1. CASE \E e \in 0..MaxRotations : row = Here(e)
  BY <1>1 DEF Here
<1>2. CASE \E p \in Paths : row = InStore(p)
  BY <1>2 DEF InStore
<1>3. CASE row = GoneRow
  BY <1>3 DEF GoneRow
<1> QED
  BY <1>1, <1>2, <1>3 DEF SecretRows

LEMMA NoMoveIsOk == NoMove \in MoveRows /\ NoMove.at = "idle"
BY DEF NoMove, MoveRows

LEMMA MoveStart == MoveInit => MoveInv
<1> SUFFICES ASSUME MoveInit PROVE MoveInv
  OBVIOUS
<1>1. Here(0) \in SecretRows /\ Here(0).at = "here"
  BY StoreMovesAssumption DEF SecretRows, Here
<1>2. /\ secretRow \in [Secrets -> SecretRows] /\ meant \in [Secrets -> Values]
      /\ \A r \in Secrets : secretRow[r].at = "here" /\ meant[r] = r
  BY <1>1 DEF MoveInit, Values
<1>3. move \in [Requests -> MoveRows] /\ \A m \in Requests : move[m].at = "idle"
  BY NoMoveIsOk DEF MoveInit
<1>4. kv \in [Paths -> KvRows] /\ \A p \in Paths : kv[p].value # "deleted" => kv[p].version > 0
  BY DEF MoveInit, KvRows, Values
<1> QED
  BY <1>2, <1>3, <1>4 DEF MoveInv, MoveShape, RowMeans, MoveOk

\* One request goes on; rows and store as they were.
LEMMA OneMoves ==
    ASSUME MoveInv, NEW m \in Requests, NEW c \in MoveRows, MoveOk(c),
           move' = [move EXCEPT ![m] = c], UNCHANGED <<secretRow, kv, meant>>
    PROVE  MoveInv'
<1> USE MoveFacts
<1>1. move' \in [Requests -> MoveRows] /\ \A n \in Requests : MoveOk(move'[n])
  OBVIOUS
<1>2. \A n \in Requests : MoveOk(move[n])'
  BY <1>1 DEF MoveOk
<1>3. \A r \in Secrets : RowMeans(r)'
  BY DEF RowMeans
<1> QED
  BY <1>1, <1>2, <1>3 DEF MoveInv, MoveShape

LEMMA MoveStepsKeep ==
    ASSUME MoveInv, NEW m \in Requests,
           \/ \E r \in Secrets, p \in Paths : StartMove(m, r, p)
           \/ ReadWorks(m) \/ ReadFindsNothing(m) \/ CreateRefused(m)
           \/ ReadBack(m) \/ StoreFails(m) \/ RowChanged(m)
    PROVE  MoveInv'
<1> USE MoveFacts
<1>0. move[m] \in MoveRows /\ MoveOk(move[m]) /\ MoveOk(NoMove)
  BY NoMoveIsOk DEF MoveOk
<1>e. ASSUME MoveEnds(m), UNCHANGED <<secretRow, kv, meant>> PROVE MoveInv'
  BY <1>0, <1>e, NoMoveIsOk, OneMoves DEF MoveEnds
<1>g. ASSUME NEW at \in {"creating", "saving"}, GoesOn(m, at), UNCHANGED <<secretRow, kv, meant>>,
             move[m].at # "idle", at = "creating" => move[m].kind # "edit",
             at = "saving" => /\ kv[move[m].path].version > 0
                              /\ move[m].kind # "edit" => kv[move[m].path].value = move[m].row
      PROVE  MoveInv'
  <2> DEFINE c == [move[m] EXCEPT !.at = at]
  <2>1. /\ c \in MoveRows /\ c.at = at /\ c.kind = move[m].kind /\ c.row = move[m].row
        /\ c.path = move[m].path /\ c.before = move[m].before
    BY <1>0 DEF MoveRows
  <2>2. move' = [move EXCEPT ![m] = c]
    BY <1>0, <1>g DEF GoesOn
  <2> HIDE DEF c
  <2>3. MoveOk(c)
    BY <1>0, <1>g, <2>1 DEF MoveOk
  <2> QED
    BY <1>g, <2>1, <2>2, <2>3, OneMoves
<1>1. ASSUME NEW r \in Secrets, NEW p \in Paths, StartMove(m, r, p) PROVE MoveInv'
  <2> DEFINE c == [at |-> "reading", row |-> r, path |-> p, before |-> secretRow[r], version |-> 0,
                   kind |-> IF secretRow[r].at = "here" THEN "move" ELSE "edit"]
  <2>1. move' = [move EXCEPT ![m] = c] /\ UNCHANGED <<secretRow, kv, meant>>
    BY <1>1 DEF StartMove
  <2>2. c \in MoveRows /\ c.at = "reading" /\ c.row = r /\ c.path = p /\ c.before = secretRow[r]
        /\ (c.kind # "edit" => secretRow[r].at = "here")
    BY DEF MoveRows
  <2> HIDE DEF c
  <2>3. MoveOk(c)
    BY <2>2 DEF MoveOk
  <2> QED
    BY <2>1, <2>2, <2>3, OneMoves
<1>2. CASE ReadWorks(m)
  <2>1. /\ move[m].at = "reading" /\ kv[move[m].path].value # "deleted" /\ UNCHANGED <<secretRow, kv, meant>>
        /\ (move[m].kind = "edit" /\ GoesOn(m, "saving")) \/ MoveEnds(m)
    BY <1>2 DEF ReadWorks
  <2>2. kv[move[m].path].version > 0
    BY <1>0, <2>1 DEF MoveOk
  <2> QED
    BY <1>e, <1>g, <2>1, <2>2
<1>3. CASE ReadFindsNothing(m)
  BY <1>3, <1>e, <1>g DEF ReadFindsNothing
<1>4. CASE ReadBack(m)
  <2>1. /\ move[m].at = "comparing" /\ UNCHANGED <<secretRow, kv, meant>>
        /\ (Matches(m) /\ GoesOn(m, "saving")) \/ MoveEnds(m)
    BY <1>4 DEF ReadBack
  <2>2. Matches(m) => kv[move[m].path].value = move[m].row /\ kv[move[m].path].version = move[m].version
    BY DEF Matches
  <2>3. move[m].version > 0
    BY <1>0, <2>1 DEF MoveOk
  <2> QED
    BY <1>e, <1>g, <2>1, <2>2, <2>3
<1>5. CASE CreateRefused(m) \/ StoreFails(m) \/ RowChanged(m)
  BY <1>5, <1>e DEF CreateRefused, StoreFails, RowChanged
<1> QED
  BY <1>1, <1>2, <1>3, <1>4, <1>5

\* The store changes at a path that no row refers to and no request is about to.
LEMMA StoreChanges ==
    ASSUME MoveInv, NEW p \in Paths, NEW v \in KvRows, v.value # "deleted" => v.version > 0,
           kv' = [kv EXCEPT ![p] = v], UNCHANGED <<secretRow, meant>>,
           \A r \in Secrets : secretRow[r].at = "store" => secretRow[r].path # p,
           \A n \in Requests : move[n].at = "saving" => move[n].path # p,
           move' \in [Requests -> MoveRows],
           \A n \in Requests : move'[n] = move[n] \/ MoveOk(move[n])',
           \A n \in Requests : move'[n] = move[n] \/ move'[n].at # "saving"
    PROVE  MoveInv'
<1> USE MoveFacts
<1>1. kv' \in [Paths -> KvRows] /\ kv'[p] = v /\ \A q \in Paths \ {p} : kv'[q] = kv[q]
  OBVIOUS
<1>2. \A r \in Secrets : RowMeans(r)'
  <2>1. \A r \in Secrets : secretRow[r].at = "store" => secretRow[r].path \in Paths \ {p}
    BY SecretRowKinds
  <2> QED
    BY <1>1, <2>1 DEF RowMeans
<1>3. \A n \in Requests : MoveOk(move[n])'
  <2> SUFFICES ASSUME NEW n \in Requests, move'[n] = move[n] PROVE MoveOk(move[n])'
    OBVIOUS
  <2>1. MoveOk(move[n]) /\ (move[n].at = "saving" => move[n].path \in Paths \ {p})
    BY DEF MoveOk
  <2> QED
    BY <1>1, <2>1 DEF MoveOk
<1>4. \A q \in Paths : kv'[q].value # "deleted" => kv'[q].version > 0
  BY <1>1
<1> QED
  BY <1>1, <1>2, <1>3, <1>4 DEF MoveInv, MoveShape

LEMMA CreateKeeps == ASSUME MoveInv, NEW m \in Requests, NEW heard \in BOOLEAN, CreateSecret(m, heard) PROVE MoveInv'
<1> USE MoveFacts
<1> DEFINE p == move[m].path
           v == [value |-> move[m].row, version |-> kv[p].version + 1]
           c == IF heard THEN [move[m] EXCEPT !.at = "comparing", !.version = 1] ELSE NoMove
<1>0. /\ move[m] \in MoveRows /\ MoveOk(move[m]) /\ move[m].at = "creating" /\ kv[p].version = 0
      /\ UNCHANGED <<secretRow, meant>> /\ kv' = [kv EXCEPT ![p] = v]
  BY DEF CreateSecret, MayCreate
<1>1. p \in Paths /\ move[m].row \in Secrets /\ move[m].kind # "edit" /\ move[m].before.at = "here"
  BY <1>0 DEF MoveOk
<1>2. v \in KvRows /\ v.version = 1 /\ kv'[p].version = 1
  BY <1>0, <1>1 DEF KvRows, Values
<1>3. move' = [move EXCEPT ![m] = c]
  BY <1>0, <1>2 DEF CreateSecret, MoveEnds
<1>4. /\ c \in MoveRows /\ c.at \in {"comparing", "idle"}
      /\ c.at = "comparing" => /\ c.row = move[m].row /\ c.path = p /\ c.kind = move[m].kind
                               /\ c.before = move[m].before /\ c.version = 1
  <2>1. CASE heard
    BY <1>0, <2>1 DEF MoveRows
  <2>2. CASE ~heard
    BY <2>2, NoMoveIsOk
  <2> QED
    BY <2>1, <2>2
<1> HIDE DEF c
<1>5. move' \in [Requests -> MoveRows] /\ move'[m] = c /\ \A n \in Requests \ {m} : move'[n] = move[n]
  BY <1>3, <1>4
<1>6. MoveOk(move[m])' /\ move'[m].at # "saving"
  BY <1>1, <1>4, <1>5 DEF MoveOk
<1>7. \A r \in Secrets : secretRow[r].at = "store" => secretRow[r].path # p
  BY <1>0 DEF RowMeans
<1>8. \A n \in Requests : move[n].at = "saving" => move[n].path # p
  BY <1>0 DEF MoveOk
<1>9. /\ \A n \in Requests : move'[n] = move[n] \/ MoveOk(move[n])'
      /\ \A n \in Requests : move'[n] = move[n] \/ move'[n].at # "saving"
  BY <1>5, <1>6
<1> HIDE DEF v, p
<1>10. v.value # "deleted" => v.version > 0
  BY <1>2
<1> QED
  BY <1>0, <1>1, <1>2, <1>5, <1>7, <1>8, <1>9, <1>10, StoreChanges

LEMMA OperatorKeeps ==
    ASSUME MoveInv, NEW p \in Paths, NEW value \in {"other", "deleted"}, Operator(p, value)
    PROVE  MoveInv'
<1> USE MoveFacts
<1> DEFINE v == [value |-> value, version |-> kv[p].version + (IF value = "other" THEN 1 ELSE 0)]
<1>1. /\ kv' = [kv EXCEPT ![p] = v] /\ UNCHANGED <<secretRow, move, meant>>
      /\ \A r \in Secrets : secretRow[r] # InStore(p)
      /\ \A n \in Requests : move[n].at = "saving" => move[n].path # p
  BY DEF Operator
<1>2. v \in KvRows /\ (v.value # "deleted" => v.version > 0)
  BY DEF KvRows, Values
<1>3. \A r \in Secrets : secretRow[r].at = "store" => secretRow[r].path # p
  BY <1>1, SecretRowKinds
<1> HIDE DEF v
<1> QED
  BY <1>1, <1>2, <1>3, StoreChanges

\* A row changes: its reference is saved, it is encrypted anew or deleted.
LEMMA RowChanges ==
    ASSUME MoveInv, NEW r \in Secrets, NEW row \in SecretRows, NEW w \in Values,
           secretRow' = [secretRow EXCEPT ![r] = row], meant' = [meant EXCEPT ![r] = w],
           UNCHANGED kv, row.at = "here" => w = r,
           row.at = "store" => kv[row.path].value = w /\ kv[row.path].version > 0,
           move' \in [Requests -> MoveRows], \A n \in Requests : MoveOk(move'[n])
    PROVE  MoveInv'
<1> USE MoveFacts
<1>1. /\ secretRow' \in [Secrets -> SecretRows] /\ meant' \in [Secrets -> Values]
      /\ secretRow'[r] = row /\ meant'[r] = w
      /\ \A s \in Secrets \ {r} : secretRow'[s] = secretRow[s] /\ meant'[s] = meant[s]
  OBVIOUS
<1>2. \A s \in Secrets : RowMeans(s)'
  BY <1>1 DEF RowMeans
<1>3. \A n \in Requests : MoveOk(move[n])'
  BY DEF MoveOk
<1> QED
  BY <1>1, <1>2, <1>3 DEF MoveInv, MoveShape

LEMMA SaveKeeps == ASSUME MoveInv, NEW m \in Requests, SaveReference(m) PROVE MoveInv'
<1> USE MoveFacts
<1> DEFINE r == move[m].row
           p == move[m].path
           w == IF move[m].kind = "edit" THEN kv[p].value ELSE meant[r]
<1>0. /\ move[m].at = "saving" /\ secretRow[r] = move[m].before /\ MoveOk(move[m])
      /\ secretRow' = [secretRow EXCEPT ![r] = InStore(p)] /\ UNCHANGED kv
      /\ move' = [move EXCEPT ![m] = NoMove]
  BY DEF SaveReference, Unchanged, MoveEnds
<1>1. /\ r \in Secrets /\ p \in Paths /\ kv[p].version > 0
      /\ move[m].kind # "edit" => kv[p].value = r /\ secretRow[r].at = "here"
  BY <1>0 DEF MoveOk
<1>2. meant' = [meant EXCEPT ![r] = w]
  <2>1. meant = [meant EXCEPT ![r] = meant[r]]
    OBVIOUS
  <2> QED
    BY <2>1 DEF SaveReference
<1>3. w \in Values /\ w = kv[p].value
  BY <1>1 DEF RowMeans
<1>4. InStore(p) \in SecretRows /\ InStore(p).at = "store" /\ InStore(p).path = p
  BY <1>1 DEF SecretRows, InStore
<1>5. move' \in [Requests -> MoveRows] /\ \A n \in Requests : MoveOk(move'[n])
  BY <1>0, NoMoveIsOk DEF MoveOk
<1> HIDE DEF r, p, w
<1> QED
  BY <1>0, <1>1, <1>2, <1>3, <1>4, <1>5, RowChanges

LEMMA SecretsKeep == ASSUME MoveInv, NEW r \in Secrets, Reencrypt(r) \/ DeleteSecret(r) PROVE MoveInv'
<1> USE MoveFacts
<1>0. meant' = [meant EXCEPT ![r] = meant[r]] /\ meant[r] \in Values /\ UNCHANGED <<kv, move>>
  BY DEF Reencrypt, DeleteSecret
<1>1. CASE Reencrypt(r)
  <2> DEFINE e == secretRow[r].epoch
  <2>1. secretRow[r].at = "here" /\ e < MaxRotations
    BY <1>1 DEF Reencrypt
  <2>2. e \in 0..MaxRotations /\ secretRow[r] = Here(e)
    BY <2>1, SecretRowKinds
  <2> HIDE DEF e
  <2>3. [Here(e) EXCEPT !.epoch = e + 1] = Here(e + 1) /\ Here(e).epoch = e
    BY DEF Here
  <2>4. secretRow' = [secretRow EXCEPT ![r] = Here(e + 1)]
    BY <1>1, <2>2, <2>3 DEF Reencrypt
  <2>5. e + 1 \in 0..MaxRotations
    BY <2>1, <2>2
  <2>6. Here(e + 1) \in SecretRows /\ Here(e + 1).at = "here"
    BY <2>5 DEF SecretRows, Here
  <2>7. meant[r] = r
    BY <2>1 DEF RowMeans
  <2> QED
    BY <1>0, <2>4, <2>6, <2>7, RowChanges
<1>2. CASE DeleteSecret(r)
  <2>1. secretRow' = [secretRow EXCEPT ![r] = GoneRow]
    BY <1>2 DEF DeleteSecret, GoneRow
  <2>2. GoneRow \in SecretRows /\ GoneRow.at = "gone"
    BY DEF SecretRows, GoneRow
  <2> QED
    BY <1>0, <2>1, <2>2, RowChanges
<1> QED
  BY <1>1, <1>2

LEMMA MovesKeep == ASSUME MoveInv, [MoveNext]_moveVars PROVE MoveInv'
<1>1. CASE UNCHANGED moveVars
  BY <1>1 DEF moveVars, MoveInv, MoveShape, RowMeans, MoveOk
<1> QED
  BY <1>1, MoveStepsKeep, CreateKeeps, SaveKeeps, SecretsKeep, OperatorKeeps DEF MoveNext

LEMMA MovesTyped == ASSUME MoveInv PROVE MoveTypes
<1> USE MoveFacts
<1>1. \A r \in Secrets : \/ secretRow[r] \in {Here(e) : e \in 0..MaxRotations}
                         \/ secretRow[r] \in {InStore(p) : p \in Paths}
                         \/ secretRow[r].at = "gone"
  BY SecretRowKinds
<1>2. \A m \in Requests : /\ move[m].at \in {"idle", "reading", "creating", "comparing", "saving"}
                          /\ move[m].at # "idle" => move[m].row \in Secrets /\ move[m].path \in Paths
  BY DEF MoveRows, MoveOk
<1> QED
  BY <1>1, <1>2 DEF MoveTypes, KvRows

LEMMA NoStepOverwrites ==
    ASSUME MoveInv, [MoveNext]_moveVars, NEW p \in Paths, kv'[p] # kv[p], kv'[p].value \in Secrets
    PROVE  kv[p].version = 0
<1> USE MoveFacts
<1>1. ASSUME NEW m \in Requests, NEW heard \in BOOLEAN, CreateSecret(m, heard) PROVE kv[p].version = 0
  BY <1>1 DEF CreateSecret, MayCreate
<1>2. ASSUME NEW q \in Paths, NEW v \in {"other", "deleted"}, Operator(q, v) PROVE kv[p].version = 0
  <2>1. kv'[q].value = v
    BY <1>2 DEF Operator
  <2>2. p = q
    BY <1>2 DEF Operator
  <2> QED
    BY <2>1, <2>2
<1> QED
  BY <1>1, <1>2 DEF MoveNext, moveVars, StartMove, ReadWorks, ReadFindsNothing, CreateRefused, ReadBack,
                    StoreFails, SaveReference, RowChanged, Reencrypt, DeleteSecret

LEMMA NothingIsLost == ASSUME MoveInv PROVE NothingLost
BY DEF MoveInv, RowMeans, NothingLost

-----------------------------------------------------------------------------
(* The composition: no component shares a variable with another, so a step *)
(* of the whole is a step or a stutter of each, and the invariants hold    *)
(* together.                                                               *)

guardVars == <<component, signInVars, accessVars, hostKeyVars, moveVars, certVars, fenceVars,
               sweepVars, plan, artifactVars, ssoVars>>

GuardInv ==
    /\ SignInInv /\ AccessInv /\ SsoInv
    /\ HostKeyInv /\ MoveInv /\ CertInv
    /\ FenceInv /\ SweepInv /\ ArtifactInv /\ PlanInv

\* A step of the composition is a step or a stutter of each component.
LEMMA EachGuardSteps ==
    ASSUME [MCNext]_guardVars
    PROVE  /\ [SignInNext]_signInVars /\ [AccessNext]_accessVars /\ [SsoNext]_ssoVars
           /\ [HostKeyNext]_hostKeyVars /\ [MoveNext]_moveVars /\ [CertNext]_certVars
           /\ [FenceNext]_fenceVars /\ [SweepNext]_sweepVars /\ [ArtifactNext]_artifactVars
           /\ [PlanNext]_plan
BY DEF MCNext, guardVars

\* The inductive invariants of the components hold together in every behaviour.
LEMMA GuardInvariant == GuardSpec => []GuardInv
<1>1. MCInit => GuardInv
  BY SignInStart, AccessStart, SsoStart, HostKeyStart, MoveStart, CertStart, FenceStart, SweepStart,
     ArtifactStart, PlanStart, GivenStart DEF MCInit, GuardInv, PlanInv
<1>2. GuardInv /\ [MCNext]_guardVars => GuardInv'
  BY EachGuardSteps, SignInKeeps, AccessKeeps, SsoKeeps, HostKeysKeep, MovesKeep, CertKeeps,
     FenceKeeps, SweepKeeps, ArtifactKeeps, PlanKeeps, GivenKeeps DEF GuardInv, PlanInv
<1> QED
  BY <1>1, <1>2, PTL DEF GuardSpec, guardVars

\* Every state of every component has the types its module gives it, for any number of
\* browsers, accounts, hosts, paths, requests and jobs.
THEOREM GuardsAreTyped == GuardSpec => []GuardTypes
<1>1. GuardInv => GuardTypes
  BY SignInTyped, AccessTyped, SsoTyped, HostKeysTyped, MovesTyped, ArtifactsTyped
     DEF GuardInv, CertInv, FenceInv, SweepInv, GuardTypes
<1> QED
  BY <1>1, GuardInvariant, PTL

\* Every way to sign in gives a browser only what was proved (routers/auth.py, passkeys.py
\* and sso.py together): the second factor counts, however browsers overlap, and an
\* identity at a provider stands for one account.
THEOREM AccountsStaySound == GuardSpec => []AccountsSound
<1>1. GuardInv => AccountsSound
  BY SignInIsSound, SsoIsSound DEF GuardInv, AccountsSound
<1> QED
  BY <1>1, GuardInvariant, PTL

\* A move into the secret store (secret_store.py) takes nothing from the rows and nothing
\* from the store: a version is written only where there was none, and a row that gave
\* up its copy names the version that holds it, for any number of concurrent moves.
THEOREM MovesStaySafe == GuardSpec => MovesSafe
<1> DEFINE Fresh == \A p \in Paths : kv'[p] # kv[p] /\ kv'[p].value \in Secrets => kv[p].version = 0
<1>1. GuardInv => NothingLost
  BY NothingIsLost DEF GuardInv
<1>2. GuardInv /\ [MCNext]_guardVars => [Fresh]_moveVars
  BY EachGuardSteps, NoStepOverwrites DEF GuardInv
<1>3. [Fresh]_moveVars <=> [\A p \in Paths : kv'[p] # kv[p] /\ kv'[p].value \in Secrets
                                                => kv[p].version = 0]_moveVars
  OBVIOUS
<1> QED
  BY <1>1, <1>2, <1>3, GuardInvariant, PTL DEF MovesSafe, NeverOverwrites, GuardSpec, guardVars

\* The table a restricted run gets (worker/egress.py: _merge, _disjoint, slot_ruleset) has
\* elements that do not overlap and accepts exactly what the plan says; and the plan
\* (job_egress, resolve_allowlist) reaches every host the run connects to and the jump
\* host of every other, and nothing but those and the extra entries: for every set of
\* names, every number of addresses and ports, and every number of overlapping entries.
THEOREM AllowlistStaysExact == GuardSpec => []AllowlistExact
<1>1. GuardInv => AllowlistExact
  BY PlanIsSound DEF GuardInv
<1> QED
  BY <1>1, GuardInvariant, PTL
=============================================================================
