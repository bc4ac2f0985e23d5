----------------------------- MODULE Artifacts -----------------------------
(***************************************************************************)
(* A run's artifacts: its process hands the worker a tar, the worker posts *)
(* it in chunks at their offsets, the API keeps them in a .part file which *)
(* /complete makes the run's artifacts if it is the tar the worker means.  *)
(* A post the worker gave up on may still arrive, the API may die between  *)
(* the file and the commit, the reaper may end the run, and retention      *)
(* deletes the file.  Refresh outputs go up the same way.                  *)
(***************************************************************************)
EXTENDS Integers, Sequences

CONSTANTS
    Chunks,         \* how many chunks the tar has
    MaxLatePosts,   \* bound: posts the worker gives up on
    MaxApiDeaths    \* bound: API deaths between a file and its commit

ASSUME ArtifactsAssumption ==
    Chunks \in Nat \ {0} /\ {MaxLatePosts, MaxApiDeaths} \subseteq Nat

VARIABLES
    upload,     \* the worker: where it is, its offset, what it will report
    latePosts,  \* posts it gave up on, on their way: offsets, Chunks for /complete
    posts,      \* how many it gave up on
    part,       \* the .part file's chunks
    kept,       \* the artifacts file's chunks
    runRow,     \* the run: whether it runs, its listing, whether that says deleted
    apiDeaths

artifactVars == <<upload, latePosts, posts, part, kept, runRow, apiDeaths>>

Whole == [i \in 1..Chunks |-> i]
Torn == 0   \* a chunk whose write was cut short

\* The worker, posts on their way, the two files and the run's row.
ArtifactTypes ==
    /\ upload.at \in {"running", "uploading", "completing", "done"}
    /\ upload.offset \in 0..Chunks /\ upload.report \in {"none", "whole", "error"}
    /\ latePosts \subseteq 0..Chunks /\ posts \in 0..MaxLatePosts
    /\ {part, kept} \subseteq Seq(0..Chunks) /\ Len(part) <= Chunks
    /\ runRow \in [running : BOOLEAN, listing : {"none", "files", "error"}, deleted : BOOLEAN]
    /\ apiDeaths \in 0..MaxApiDeaths

ArtifactInit ==
    /\ upload = [at |-> "running", offset |-> 0, report |-> "none"]
    /\ latePosts = {} /\ posts = 0 /\ part = <<>> /\ kept = <<>>
    /\ runRow = [running |-> TRUE, listing |-> "none", deleted |-> FALSE]
    /\ apiDeaths = 0

\* The process ends: a tar with its listing, an error (over a limit, not what was hashed on
\* its way), or nothing (no files, or the process died first).
CollectingEnds(report) ==
    /\ upload.at = "running"
    /\ upload' = [upload EXCEPT !.report = report,
                                !.at = IF report = "whole" THEN "uploading" ELSE "completing"]
    /\ UNCHANGED <<latePosts, posts, part, kept, runRow, apiDeaths>>

\* Written at its offset; what followed it is cut off.
WriteAt(file, offset, chunk) == Append(SubSeq(file, 1, offset), chunk)

\* The API takes a chunk (_append_artifacts): the run must be this claim's and running, and
\* the offset no further than the file goes.
Takes(offset) == runRow.running /\ offset <= Len(part)

PostChunk ==
    /\ upload.at = "uploading" /\ upload.offset < Chunks
    /\ IF Takes(upload.offset)
       THEN /\ part' = WriteAt(part, upload.offset, upload.offset + 1)
            /\ upload' = [upload EXCEPT !.offset = @ + 1]
       ELSE /\ UNCHANGED part
            /\ upload' = IF runRow.running THEN [upload EXCEPT !.offset = Len(part)]
                         ELSE [upload EXCEPT !.report = "error", !.at = "completing"]
    /\ UNCHANGED <<latePosts, posts, kept, runRow, apiDeaths>>

\* No answer: the worker tries again, and the post may yet arrive.
PostLate ==
    /\ upload.at \in {"uploading", "completing"} /\ posts < MaxLatePosts /\ posts' = posts + 1
    /\ upload.at = "uploading" => upload.offset < Chunks
    /\ latePosts' = latePosts \union {IF upload.at = "uploading" THEN upload.offset ELSE Chunks}
    /\ UNCHANGED <<upload, part, kept, runRow, apiDeaths>>

LateChunk(offset) ==
    /\ offset \in latePosts \ {Chunks} /\ latePosts' = latePosts \ {offset}
    /\ part' = IF Takes(offset) THEN WriteAt(part, offset, offset + 1) ELSE part
    /\ UNCHANGED <<upload, posts, kept, runRow, apiDeaths>>

\* The API dies while it writes a chunk, on time or late.
ApiDiesWriting(offset) ==
    /\ \/ upload.at = "uploading" /\ offset = upload.offset /\ UNCHANGED latePosts
       \/ offset \in latePosts /\ latePosts' = latePosts \ {offset}
    /\ offset < Chunks /\ Takes(offset)
    /\ apiDeaths < MaxApiDeaths /\ apiDeaths' = apiDeaths + 1
    /\ part' = WriteAt(part, offset, Torn)
    /\ UNCHANGED <<upload, posts, kept, runRow>>

\* All of it is there, or the upload's time is over.
UploadEnds ==
    /\ upload.at = "uploading"
    /\ \/ upload.offset = Chunks /\ upload' = [upload EXCEPT !.at = "completing"]
       \/ upload.offset < Chunks
          /\ upload' = [upload EXCEPT !.at = "completing", !.report = "error"]
    /\ UNCHANGED <<latePosts, posts, part, kept, runRow, apiDeaths>>

\* Mutant: the size is enough.
SameSize == Len(part) = Chunks

\* The size and the hash are those of the worker's tar.
Intact == part = Whole

\* /complete with _keep_artifacts: the .part file becomes the artifacts file, or goes.
Keep ==
    /\ runRow.running
    /\ runRow' = [runRow EXCEPT !.running = FALSE,
                    !.listing = IF upload.report = "none" THEN "none"
                                ELSE IF upload.report = "whole" /\ Intact THEN "files" ELSE "error"]
    /\ kept' = IF upload.report = "whole" /\ Intact THEN part ELSE kept
    /\ part' = IF upload.report = "none" THEN part ELSE <<>>

PostComplete ==
    /\ upload.at = "completing" /\ upload' = [upload EXCEPT !.at = "done"]
    /\ Keep \/ (~runRow.running /\ UNCHANGED <<part, kept, runRow>>)
    /\ UNCHANGED <<latePosts, posts, apiDeaths>>

LateComplete ==
    /\ Chunks \in latePosts /\ latePosts' = latePosts \ {Chunks}
    /\ Keep \/ (~runRow.running /\ UNCHANGED <<part, kept, runRow>>)
    /\ UNCHANGED <<upload, posts, apiDeaths>>

\* The API dies after the files changed and before the commit; the worker tries again.
ApiDiesKeeping ==
    /\ upload.at = "completing" /\ runRow.running /\ upload.report # "none"
    /\ apiDeaths < MaxApiDeaths /\ apiDeaths' = apiDeaths + 1
    /\ kept' = IF upload.report = "whole" /\ Intact THEN part ELSE kept
    /\ part' = <<>>
    /\ UNCHANGED <<upload, latePosts, posts, runRow>>

\* The reaper ends the run: its lease ran out, or it was cancelled.
ReapRun ==
    /\ runRow.running /\ runRow' = [runRow EXCEPT !.running = FALSE]
    /\ UNCHANGED <<upload, latePosts, posts, part, kept, apiDeaths>>

\* The worker gives up reporting, or dies.
WorkerGivesUp ==
    /\ upload.at # "done" /\ upload' = [upload EXCEPT !.at = "done"]
    /\ UNCHANGED <<latePosts, posts, part, kept, runRow, apiDeaths>>

\* Ended with a listing, not yet deleted (and past its retention).
Prunable == ~runRow.running /\ runRow.listing = "files" /\ ~runRow.deleted

\* prune_artifacts: the file, then the row; the API may die in between.
PruneArtifacts(committed) ==
    /\ Prunable /\ kept' = <<>>
    /\ committed \/ apiDeaths < MaxApiDeaths
    /\ apiDeaths' = IF committed THEN apiDeaths ELSE apiDeaths + 1
    /\ runRow' = [runRow EXCEPT !.deleted = committed]
    /\ UNCHANGED <<upload, latePosts, posts, part>>

ArtifactNext ==
    \/ \E report \in {"none", "whole", "error"} : CollectingEnds(report)
    \/ PostChunk \/ PostLate \/ UploadEnds \/ PostComplete
    \/ LateComplete \/ ApiDiesKeeping \/ ReapRun \/ WorkerGivesUp
    \/ \E offset \in 0..Chunks : LateChunk(offset) \/ ApiDiesWriting(offset)
    \/ \E committed \in BOOLEAN : PruneArtifacts(committed)

ArtifactSpec == ArtifactInit /\ [][ArtifactNext]_artifactVars

-----------------------------------------------------------------------------
\* What a run offers for download is the worker's tar, never one that posts out of order
\* or a torn write put together; it is gone when the listing says so, or when the API
\* died while deleting it.
OfferedIsTheTar ==
    runRow.listing = "files" =>
        \/ kept = Whole /\ ~runRow.deleted
        \/ kept = <<>> /\ (runRow.deleted \/ apiDeaths > 0)

\* _keep_artifacts's docstring: the tar is kept if it is what the worker says it is, else
\* the run records why not; so a run with that record has no tar.
RefusedIsNotKept == runRow.listing = "error" => kept = <<>>
=============================================================================
