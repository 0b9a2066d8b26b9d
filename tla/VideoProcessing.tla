-------------------------- MODULE VideoProcessing --------------------------
(***************************************************************************)
(* The life of a video across PostgreSQL, MinIO and the upload queue: the  *)
(* upload request of catalog_service/videos.py, handle_job of              *)
(* catalog_service/processing.py and the permanent delete of               *)
(* catalog_service/admin.py, running on top of UploadQueue.                *)
(*                                                                         *)
(* Every action that touches Redis is an action of UploadQueue together    *)
(* with what the caller does around it.  A step is one SQL statement or    *)
(* commit, one object put, fetched or removed, or one Redis command.       *)
(* Videos are named by their upload.  Publishing of events is best effort  *)
(* and changes nothing here, and is_deleted is read by no action here.     *)
(***************************************************************************)
EXTENDS Naturals, Sequences

CONSTANTS Worker, Upload, None, MAX_ATTEMPTS, MaxLapses, MaxRedisFaults, MaxResends

VARIABLES
    queue, processing, heartbeat, jobs, indexed, life, pc, held, copy, goal,
    watch, target, enqueued, forgetting, taken, begun, faults,
    rows,     \* the row of a video: none yet, its status, or gone
    files,    \* VIDEO_BUCKET
    thumbs,   \* THUMBNAIL_BUCKET
    step,     \* inside handle_job: the next database or storage call of a worker
    verdict,  \* inside handle_job: the outcome of process_video, none before
    seen,     \* inside _update_video: the status that db.get loaded
    up,       \* where the upload request of a video is
    adm       \* where the permanent delete of a video is

\* Those of UploadQueue, which runs on the same constants.
ASSUME NoneAssumption == None \notin Worker \cup Upload
ASSUME AttemptsAssumption == MAX_ATTEMPTS \in Nat \ {0}
ASSUME BoundsAssumption == {MaxLapses, MaxRedisFaults, MaxResends} \subseteq Nat

Q == INSTANCE UploadQueue

queueVars == <<queue, processing, heartbeat, jobs, indexed, life, pc, held, copy, goal,
               watch, target, enqueued, forgetting, taken, begun, faults>>
handler == <<step, verdict, seen>>
vars == <<queueVars, rows, files, thumbs, handler, up, adm>>

Exists(v) == rows[v] \notin {"none", "gone"}

Init ==
    /\ Q!Init
    /\ rows = [v \in Upload |-> "none"]
    /\ files = {}
    /\ thumbs = {}
    /\ step = [w \in Worker |-> "select"]
    /\ verdict = [w \in Worker |-> "none"]
    /\ seen = [w \in Worker |-> "none"]
    /\ up = [v \in Upload |-> "no"]
    /\ adm = [v \in Upload |-> "no"]

-----------------------------------------------------------------------------
(* handle_job. *)

\* The status _update_video is called with.
Wanted(w) == IF verdict[w] = "none" THEN goal[w] ELSE verdict[w]

At(w, s) == pc[w] = "handle" /\ step[w] = s

Move(w, s) ==
    /\ step' = [step EXCEPT ![w] = s]
    /\ UNCHANGED queueVars

ResetHandler(w) ==
    /\ step' = [step EXCEPT ![w] = "select"]
    /\ verdict' = [verdict EXCEPT ![w] = "none"]
    /\ seen' = [seen EXCEPT ![w] = "none"]

\* Mutant: no set_status after the row.
RowDoneSilent(w) ==
    IF Wanted(w) = "processing"
    THEN Move(w, "fetch") /\ UNCHANGED <<verdict, seen>>
    ELSE Q!ConcludeGone(w) /\ ResetHandler(w)

\* handle_job is through with the row: the first time it goes on to process_video,
\* then to the set_status of its verdict.
RowDone(w) ==
    IF Wanted(w) = "processing"
    THEN Move(w, "fetch") /\ UNCHANGED <<verdict, seen>>
    ELSE Q!Conclude(w, Wanted(w)) /\ ResetHandler(w)

\* Mutant: the session is closed without a commit.
SelectRowOnly(w) ==
    /\ At(w, "select")
    /\ Exists(held[w])
    /\ RowDone(w)
    /\ UNCHANGED <<rows, files, thumbs, up, adm>>

SelectRow(w) ==
    /\ At(w, "select")
    /\ Exists(held[w])
    /\ Move(w, "commit")
    /\ seen' = [seen EXCEPT ![w] = rows[held[w]]]
    /\ UNCHANGED <<verdict, rows, files, thumbs, up, adm>>

\* Mutant: a row that is missing raises.
SelectMissingRaises(w) ==
    /\ At(w, "select")
    /\ ~Exists(held[w])
    /\ Q!Raise(w)
    /\ ResetHandler(w)
    /\ UNCHANGED <<rows, files, thumbs, up, adm>>

\* _update_video returns False.  Only the last of its calls has the result looked at.
SelectMissing(w) ==
    /\ At(w, "select")
    /\ ~Exists(held[w])
    /\ IF Wanted(w) = "completed"
       THEN Move(w, "remove_file") /\ UNCHANGED <<verdict, seen>>
       ELSE RowDone(w)
    /\ UNCHANGED <<rows, files, thumbs, up, adm>>

\* An unchanged attribute makes no UPDATE.
Unchanged(w) == seen[w] = Wanted(w)

UpdateRow(w) ==
    rows' = IF Unchanged(w) THEN rows ELSE [rows EXCEPT ![held[w]] = Wanted(w)]

CommitRow(w) ==
    /\ At(w, "commit")
    /\ Exists(held[w]) \/ Unchanged(w)
    /\ UpdateRow(w)
    /\ RowDone(w)
    /\ UNCHANGED <<files, thumbs, up, adm>>

\* The UPDATE matched no row: SQLAlchemy raises StaleDataError.
CommitStale(w) ==
    /\ At(w, "commit")
    /\ ~Exists(held[w]) /\ ~Unchanged(w)
    /\ Q!Raise(w)
    /\ ResetHandler(w)
    /\ UNCHANGED <<rows, files, thumbs, up, adm>>

\* Mutant: the thumbnail is left for later.
FetchSourceOnly(w) ==
    /\ At(w, "fetch")
    /\ held[w] \in files
    /\ Move(w, "select")
    /\ verdict' = [verdict EXCEPT ![w] = "completed"]
    /\ UNCHANGED <<seen, rows, files, thumbs, up, adm>>

\* fget_object, ffprobe and ffmpeg.
FetchSource(w) ==
    /\ At(w, "fetch")
    /\ held[w] \in files
    /\ Move(w, "put_thumbnail")
    /\ UNCHANGED <<verdict, seen, rows, files, thumbs, up, adm>>

\* CalledProcessError, or S3Error with code NoSuchKey.
SourceUnusable(w) ==
    /\ At(w, "fetch")
    /\ Move(w, "select")
    /\ verdict' = [verdict EXCEPT ![w] = "failed"]
    /\ UNCHANGED <<seen, rows, files, thumbs, up, adm>>

PutThumbnail(w) ==
    /\ At(w, "put_thumbnail")
    /\ thumbs' = thumbs \cup {held[w]}
    /\ Move(w, "select")
    /\ verdict' = [verdict EXCEPT ![w] = "completed"]
    /\ UNCHANGED <<seen, rows, files, up, adm>>

\* remove_video_files, for a video deleted in the meantime.
RemoveFile(w) ==
    /\ At(w, "remove_file")
    /\ files' = files \ {held[w]}
    /\ Move(w, "remove_thumbnail")
    /\ UNCHANGED <<verdict, seen, rows, thumbs, up, adm>>

RemoveThumbnail(w) ==
    /\ At(w, "remove_thumbnail")
    /\ thumbs' = thumbs \ {held[w]}
    /\ Q!ConcludeGone(w)
    /\ ResetHandler(w)
    /\ UNCHANGED <<rows, files, up, adm>>

\* Mutant: _run acknowledges the job all the same.
OutageAcks(w) ==
    /\ Q!ConcludeGone(w)
    /\ ResetHandler(w)
    /\ UNCHANGED <<rows, files, thumbs, up, adm>>

\* Database or storage raises, its effect done or not: _run gives the job back.
Outage(w) ==
    /\ Q!Raise(w)
    /\ ResetHandler(w)
    /\ \/ UNCHANGED <<rows, files, thumbs>>
       \/ At(w, "commit") /\ Exists(held[w]) /\ UpdateRow(w) /\ UNCHANGED <<files, thumbs>>
       \/ At(w, "put_thumbnail") /\ thumbs' = thumbs \cup {held[w]} /\ UNCHANGED <<rows, files>>
       \/ At(w, "remove_file") /\ files' = files \ {held[w]} /\ UNCHANGED <<rows, thumbs>>
       \/ At(w, "remove_thumbnail") /\ thumbs' = thumbs \ {held[w]} /\ UNCHANGED <<rows, files>>
    /\ UNCHANGED <<up, adm>>

-----------------------------------------------------------------------------
(* Steps of the queue alone. *)

QueueWork(w) ==
    \/ Q!LoopTop(w) \/ Q!Heartbeat(w) \/ Q!Claim(w) \/ Q!ClaimTimeout(w)
    \/ Q!Load(w) \/ Q!LoadMissing(w) \/ Q!Drop(w) \/ Q!Count(w)
    \/ Q!Tell(w) \/ Q!Save(w) \/ Q!Ack(w) \/ Q!Release(w)

QueueOther(w) ==
    \/ Q!WatchStep(w) \/ Q!FaultStep(w)
    \/ Q!Start(w) \/ Q!Stop(w) \/ Q!Retire(w) \/ Q!RetireFails(w)
    \/ Q!Expire(w) \/ Q!Lapse(w)

QueueOnly(w) ==
    /\ QueueWork(w) \/ QueueOther(w)
    /\ UNCHANGED <<rows, files, thumbs, handler, up, adm>>

\* A process that ends takes its handle_job along.
ProcessEnds(w) ==
    /\ Q!Exit(w) \/ Q!Crash(w)
    /\ ResetHandler(w)
    /\ UNCHANGED <<rows, files, thumbs, up, adm>>

StatusExpires(v) ==
    /\ Q!ExpireStatus(v)
    /\ UNCHANGED <<rows, files, thumbs, handler, up, adm>>

-----------------------------------------------------------------------------
(* upload_video. *)

UploadAt(v, from, to) ==
    /\ up[v] = from
    /\ up' = [up EXCEPT ![v] = to]
    /\ UNCHANGED <<handler, adm>>

CreateRow(v) ==
    /\ UploadAt(v, "no", "created")
    /\ rows' = [rows EXCEPT ![v] = "pending"]
    /\ UNCHANGED <<queueVars, files, thumbs>>

\* The commit expired the object, so video.id reads the row again.
ReloadRow(v) ==
    /\ UploadAt(v, "created", IF Exists(v) THEN "storing" ELSE "lost")
    /\ UNCHANGED <<queueVars, rows, files, thumbs>>

StoreFile(v) ==
    /\ UploadAt(v, "storing", "stored")
    /\ files' = files \cup {v}
    /\ UNCHANGED <<queueVars, rows, thumbs>>

StoreFails(v) ==
    /\ UploadAt(v, "storing", "failing")
    /\ files' \in {files, files \cup {v}}
    /\ UNCHANGED <<queueVars, rows, thumbs>>

EnqueueJob(v) ==
    /\ Q!Enqueue(v)
    /\ UploadAt(v, "stored", "accepted")
    /\ UNCHANGED <<rows, files, thumbs>>

EnqueueTwice(v) ==
    /\ Q!EnqueueResend(v)
    /\ UploadAt(v, "stored", "stored")
    /\ UNCHANGED <<rows, files, thumbs>>

\* Mutant: the RedisError is swallowed.
EnqueueIgnored(v) ==
    /\ Q!EnqueueFails(v)
    /\ UploadAt(v, "stored", "accepted")
    /\ UNCHANGED <<rows, files, thumbs>>

EnqueueRaises(v) ==
    /\ Q!EnqueueFails(v)
    /\ UploadAt(v, "stored", "failing")
    /\ UNCHANGED <<rows, files, thumbs>>

\* Mutant: a status the other parts do not know.
RejectAsError(v) ==
    /\ UploadAt(v, "failing", "rejected")
    /\ rows' = IF Exists(v) THEN [rows EXCEPT ![v] = "error"] ELSE rows
    /\ UNCHANGED <<queueVars, files, thumbs>>

\* The except branch: status = "failed", and a 502 (or a 500 when the row is gone).
RejectUpload(v) ==
    /\ UploadAt(v, "failing", "rejected")
    /\ rows' = IF Exists(v) THEN [rows EXCEPT ![v] = "failed"] ELSE rows
    /\ UNCHANGED <<queueVars, files, thumbs>>

\* The process dies under the request, or the except branch cannot reach the database.
UploadDies(v) ==
    /\ up[v] \in {"created", "storing", "stored", "failing"}
    /\ UploadAt(v, up[v], "lost")
    /\ UNCHANGED <<queueVars, rows, files, thumbs>>

-----------------------------------------------------------------------------
(* delete_video with permanent = true. *)

PurgeAt(v, from, to) ==
    /\ adm[v] \in from
    /\ adm' = [adm EXCEPT ![v] = to]
    /\ UNCHANGED <<handler, up>>

PurgeBegin(v) ==
    /\ Exists(v)
    /\ PurgeAt(v, {"no", "aborted"}, "file")
    /\ UNCHANGED <<queueVars, rows, files, thumbs>>

PurgeFile(v) ==
    /\ PurgeAt(v, {"file"}, "thumbnail")
    /\ files' = files \ {v}
    /\ UNCHANGED <<queueVars, rows, thumbs>>

PurgeThumbnail(v) ==
    /\ PurgeAt(v, {"thumbnail"}, "forget")
    /\ thumbs' = thumbs \ {v}
    /\ UNCHANGED <<queueVars, rows, files>>

\* Mutant: the row is marked failed, as in upload_video.
PurgeAbortsFailed(v) ==
    /\ PurgeAt(v, {"file", "thumbnail"}, "aborted")
    /\ rows' = [rows EXCEPT ![v] = "failed"]
    /\ UNCHANGED <<queueVars, files, thumbs>>

\* S3Error: a 502, and the row stays.  The object may be gone all the same.
PurgeAborts(v) ==
    /\ PurgeAt(v, {"file", "thumbnail"}, "aborted")
    /\ \/ UNCHANGED <<files, thumbs>>
       \/ adm[v] = "file" /\ files' = files \ {v} /\ UNCHANGED thumbs
       \/ adm[v] = "thumbnail" /\ thumbs' = thumbs \ {v} /\ UNCHANGED files
    /\ UNCHANGED <<queueVars, rows>>

PurgeForgetRead(v) ==
    /\ PurgeAt(v, {"forget"}, "forgetting")
    /\ Q!ForgetRead(v)
    /\ UNCHANGED <<rows, files, thumbs>>

PurgeForgetDelete(v) ==
    /\ PurgeAt(v, {"forgetting"}, "commit")
    /\ Q!ForgetDelete(v)
    /\ UNCHANGED <<rows, files, thumbs>>

PurgeForgetFails(v) ==
    /\ PurgeAt(v, {"forget", "forgetting"}, "commit")
    /\ Q!ForgetFails(v)
    /\ UNCHANGED <<rows, files, thumbs>>

PurgeCommit(v) ==
    /\ PurgeAt(v, {"commit"}, "done")
    /\ rows' = [rows EXCEPT ![v] = "gone"]
    /\ UNCHANGED <<queueVars, files, thumbs>>

\* The process dies under the request, or the commit cannot reach the database.
PurgeDies(v) ==
    /\ PurgeAt(v, {"file", "thumbnail", "forget", "forgetting", "commit"}, "aborted")
    /\ IF adm[v] = "forgetting" THEN Q!ForgetAbandoned(v) ELSE UNCHANGED queueVars
    /\ UNCHANGED <<rows, files, thumbs>>

-----------------------------------------------------------------------------
HandlerWork(w) ==
    \/ SelectRow(w) \/ SelectMissing(w) \/ CommitRow(w) \/ CommitStale(w)
    \/ FetchSource(w) \/ SourceUnusable(w) \/ PutThumbnail(w)
    \/ RemoveFile(w) \/ RemoveThumbnail(w)
HandlerStep(w) == HandlerWork(w) \/ Outage(w)

UploadStep(v) ==
    \/ CreateRow(v) \/ ReloadRow(v) \/ StoreFile(v) \/ StoreFails(v)
    \/ EnqueueJob(v) \/ EnqueueTwice(v) \/ EnqueueRaises(v)
    \/ RejectUpload(v) \/ UploadDies(v)

PurgeStep(v) ==
    \/ PurgeBegin(v) \/ PurgeFile(v) \/ PurgeThumbnail(v) \/ PurgeAborts(v)
    \/ PurgeForgetRead(v) \/ PurgeForgetDelete(v) \/ PurgeForgetFails(v)
    \/ PurgeCommit(v) \/ PurgeDies(v)

Next ==
    \/ \E w \in Worker : HandlerStep(w) \/ QueueOnly(w) \/ ProcessEnds(w)
    \/ \E v \in Upload : UploadStep(v) \/ PurgeStep(v) \/ StatusExpires(v)

Spec == Init /\ [][Next]_vars

\* As in UploadQueue, with the steps of handle_job for its verdict: ffmpeg ends, and an
\* outage of the database or the storage does too.  What raises by itself, an UPDATE that
\* matches no row, may do so for ever.
WorkThread(w) ==
    \/ QueueWork(w) /\ UNCHANGED <<rows, files, thumbs, handler, up, adm>>
    \/ HandlerStep(w)
WatchThread(w) == Q!WatchStep(w) /\ UNCHANGED <<rows, files, thumbs, handler, up, adm>>
Sweeping(w, d) == Q!SweepBegin(w, d) /\ UNCHANGED <<rows, files, thumbs, handler, up, adm>>
Expiring(w) == Q!Expire(w) /\ UNCHANGED <<rows, files, thumbs, handler, up, adm>>
Process(w) ==
    \/ (Q!Start(w) \/ Q!Retire(w)) /\ UNCHANGED <<rows, files, thumbs, handler, up, adm>>
    \/ Q!Exit(w) /\ ResetHandler(w) /\ UNCHANGED <<rows, files, thumbs, up, adm>>

Fairness ==
    /\ \A w \in Worker :
        /\ WF_vars(WorkThread(w))
        /\ WF_vars(WatchThread(w))
        /\ WF_vars(Process(w))
        /\ WF_vars(Expiring(w))
        /\ \A d \in Worker \ {w} : SF_vars(Sweeping(w, d))
    /\ <>[][\A w \in Worker : Outage(w) => HandlerWork(w)]_vars

FairSpec == Spec /\ Fairness

-----------------------------------------------------------------------------
(* Properties. *)

RowStates == {"none", "pending", "processing", "completed", "failed", "gone"}

TypeOK ==
    /\ Q!TypeOK
    /\ rows \in [Upload -> RowStates]
    /\ files \subseteq Upload
    /\ thumbs \subseteq Upload
    /\ step \in [Worker -> {"select", "commit", "fetch", "put_thumbnail",
                            "remove_file", "remove_thumbnail"}]
    /\ verdict \in [Worker -> {"none", "completed", "failed"}]
    /\ seen \in [Worker -> RowStates]
    /\ up \in [Upload -> {"no", "created", "storing", "stored", "accepted", "failing",
                          "rejected", "lost"}]
    /\ adm \in [Upload -> {"no", "file", "thumbnail", "forget", "forgetting", "commit",
                           "aborted", "done"}]

\* A video that is listed as ready can be watched: unless its permanent delete has begun,
\* a completed row has its source file and its thumbnail.
CompletedHasFiles ==
    \A v \in Upload : rows[v] = "completed" /\ adm[v] = "no" => v \in files \cap thumbs

\* A video that is not finished is on its way: as long as its row is pending or processing
\* and nobody deletes it, its job is in the queue or with a worker, whatever crashes; also
\* when its upload was rejected because the enqueue failed after its effect.  (A live worker
\* taken for dead, or a command sent twice, may have two workers at one job, and then each
\* sets the row and the status by its own result.)
UnfinishedIsTracked ==
    Q!NoFalseSuspicion => \A v \in Upload :
        up[v] \in {"accepted", "rejected"} /\ adm[v] = "no" /\ rows[v] \in {"pending", "processing"}
            => Q!Tracked(v)

\* The status that upload polls see does not run ahead of the row: the client reloads the
\* list on "completed" and finds the video there.  The exception is a job that came back
\* after its last attempt.
StatusFollowsRow ==
    Q!NoFalseSuspicion => \A v \in Upload :
        /\ up[v] = "accepted" /\ Exists(v)
        /\ jobs[v].status \in {"completed", "failed"} /\ jobs[v].attempts <= MAX_ATTEMPTS
        => rows[v] = jobs[v].status

\* A poll does not wait for nothing: a status that says pending or processing is that of a job
\* under way, or of a video deleted for good, whose worker returns without another set_status.
LiveStatusIsTracked ==
    Q!NoFalseSuspicion => \A v \in Upload :
        jobs[v].status \in {"pending", "processing"} => Q!Tracked(v) \/ rows[v] = "gone"

\* Every accepted upload becomes ready or failed, unless an administrator deletes it:
\* crashes, restarts and outages only delay it.
AcceptedSettles ==
    \A v \in Upload :
        up[v] = "accepted" ~> rows[v] \in {"completed", "failed"} \/ adm[v] # "no"

\* The job of a video that was deleted for good comes to an end: whether the delete caught it
\* in the queue, before a read of the row, or between a read and the UPDATE that then raises
\* (StaleDataError), or the upload request enqueued it after the delete, it is dropped or
\* acknowledged and not handed from worker to worker for ever.
GoneJobsEnd ==
    \A v \in Upload : rows[v] = "gone" /\ Q!Tracked(v) ~> ~Q!Tracked(v)

\* "`?permanent=true` also removes the files and upload status" (README.md): when the delete
\* is through and neither the upload request nor a job is under way, no file is left, no
\* thumbnail, and no status but one that "will expire on its own" (admin.py).
Settled(v) == up[v] \in {"accepted", "rejected", "lost"} /\ ~Q!Tracked(v)
PurgeLeavesNothing ==
    \A v \in Upload : rows[v] = "gone" /\ Settled(v) =>
        v \notin files \cup thumbs /\ jobs[v].status \notin {"pending", "processing"}

\* A video at rest is left alone: once its upload request and its job are through, nobody
\* takes the job up again, its row changes by a delete only, and no file, thumbnail or status
\* of it comes back.  What goes wrong around a permanent delete is over by then.
LeftAtRest ==
    [][Q!NoFalseSuspicion' => \A v \in Upload : Settled(v) =>
           /\ Settled(v)'
           /\ rows'[v] \in {rows[v], "gone"}
           /\ v \in files' => v \in files
           /\ v \in thumbs' => v \in thumbs
           /\ jobs'[v] \in {jobs[v], Q!NoJob}]_vars

\* "Reprocessing is safe because every step overwrites the same objects and row"
\* (README.md): a video that was ready does not end up failed.
CompletedNeverFails ==
    [][\A v \in Upload : ~(rows[v] = "completed" /\ rows'[v] = "failed")]_vars

\* How far it is: a ready video is touched only by its delete, by the request that answers 502
\* for it, and by a worker that has its job after another claim: a second start, or the give-up.
\* The worker that made it ready does not unmake it.
ReadyStaysReady ==
    [][Q!NoFalseSuspicion' => \A v \in Upload :
           rows[v] = "completed" /\ rows'[v] \notin {"completed", "gone"} =>
               \/ up[v] = "failing"
               \/ \E w \in Worker : held[w] = v /\ (goal[w] = "failed" \/ begun[v] > 1)]_vars
=============================================================================
