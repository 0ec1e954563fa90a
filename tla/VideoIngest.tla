---------------------------- MODULE VideoIngest ------------------------------
(***************************************************************************)
(* VideoUploadService: how a submitted video, or the retry of a job that   *)
(* ended, becomes a pending job.  Each call reserves its Idempotency-Key   *)
(* in a first transaction, does its work in MinIO, and creates the job and *)
(* completes the key in a second one; whatever raises between them is      *)
(* written down by a third.  Calls run concurrently, may use one key, and  *)
(* may be cut off: a task that is cancelled, or a process that dies.       *)
(*                                                                         *)
(* A call makes at most one process record, video and job, all under fresh *)
(* UUIDs: they are named by the call.  What the file holds is its content; *)
(* a retry's is the job it retries.  Temporary files are left out.         *)
(***************************************************************************)
CONSTANTS
  Calls,
  SubmitKeys,  \* values of the Idempotency-Key header of submits
  RetryKeys,   \* and of retries; a key of one scope is none of the other
  Contents,    \* files with their sampling parameters: what request_hash tells apart
  None

ASSUME NullAssumption == None \notin Calls \cup Contents

VARIABLES
  keys,      \* idempotency_record, by scope and key
  process,   \* status of each process_record
  asset,     \* state of each video_asset
  job,       \* state and video of each video_job
  staging,   \* the videos whose upload is in the staging prefix
  source,    \* the videos whose canonical object is in the source prefix
  outbox,    \* pending outbox events: the videos to clean up, by what
  call       \* what each call is doing

vars == <<keys, process, asset, job, staging, source, outbox, call>>

Scopes == {"video_recognize", "video_retry"}
Keys == SubmitKeys \cup RetryKeys
Requests == Contents \cup Calls
KeyRows == [state : {"none", "in_progress", "completed", "failed"},
            request : Requests \cup {None}, job : Calls \cup {None}]
NoKey == [state |-> "none", request |-> None, job |-> None]

ProcessStates == {"none", "processing", "completed", "failed", "cancelled"}
AssetStates == {"none", "uploading", "ready", "rejected"}
JobRows == [state : {"none", "pending", "completed", "failed", "cancelled"},
            video : Calls \cup {None}]
NoJob == [state |-> "none", video |-> None]

Ends == {"done", "raised", "gone"}
Points == Ends \cup {"new", "claim", "upload", "copy", "verify", "create",
                     "dropStaging", "failLoad", "failSave", "failClean"}
CallStates == [at : Points, scope : Scopes \cup {None}, key : Keys \cup {None},
               request : Requests \cup {None}, seen : ProcessStates,
               answer : Calls \cup {None}, spoiled : BOOLEAN]
NewCall == [at |-> "new", scope |-> None, key |-> None, request |-> None,
            seen |-> "none", answer |-> None, spoiled |-> FALSE]

TypeOK ==
  /\ keys \in [Scopes \X Keys -> KeyRows]
  /\ process \in [Calls -> ProcessStates]
  /\ asset \in [Calls -> AssetStates]
  /\ job \in [Calls -> JobRows]
  /\ staging \subseteq Calls
  /\ source \subseteq Calls
  /\ outbox \subseteq {"cleanup_staging", "cleanup_canonical"} \X Calls
  /\ call \in [Calls -> CallStates]

Init ==
  /\ keys = [k \in Scopes \X Keys |-> NoKey]
  /\ process = [c \in Calls |-> "none"]
  /\ asset = [c \in Calls |-> "none"]
  /\ job = [c \in Calls |-> NoJob]
  /\ staging = {}
  /\ source = {}
  /\ outbox = {}
  /\ call = [c \in Calls |-> NewCall]

-----------------------------------------------------------------------------
At(c, point) == call[c].at = point
Submits(c) == call[c].scope = "video_recognize"
KeyOf(c) == <<call[c].scope, call[c].key>>

Goto(c, point) == call' = [call EXCEPT ![c].at = point]

\* The step did what it should, and raised all the same; or an exception was
\* swallowed.  The history of the call, for the properties.
Spoil(c, point) == call' = [call EXCEPT ![c].at = point, ![c].spoiled = TRUE]

Exists(d) == job[d].state # "none"

Arrive(c, scope, k, request) ==
  /\ At(c, "new")
  /\ call' = [call EXCEPT ![c] = [NewCall EXCEPT !.at = "claim", !.scope = scope,
                                     !.key = k, !.request = request]]
  /\ UNCHANGED <<keys, process, asset, job, staging, source, outbox>>

-----------------------------------------------------------------------------
(* The first transaction.                                                  *)

\* retry_job looks at the job and its video in the same transaction.
Retryable(d) ==
  /\ job[d].state \in {"failed", "cancelled"}
  /\ asset[job[d].video] = "ready"

\* Fault: "Allow retry with the same idempotency key".
ReclaimingReservable(k) == keys[k].state \in {"none", "failed"}

\* INSERT ... ON CONFLICT DO NOTHING.
Reservable(k) == keys[k].state = "none"

\* What claim inserts, and set_in_progress of retry_job writes once more.
InProgress(c) ==
  [state |-> "in_progress", request |-> call[c].request, job |-> None]

\* The reservation of submit_video_recognition, with a new video, and that of
\* retry_job, with the video of the job it retries.
ReserveUpload(c) ==
  /\ Submits(c)
  /\ asset' = [asset EXCEPT ![c] = "uploading"]
  /\ Goto(c, "upload") \/ Spoil(c, "raised")

ReserveRetry(c) ==
  /\ ~Submits(c)
  /\ Retryable(call[c].request)
  /\ UNCHANGED asset
  /\ Goto(c, "create") \/ Spoil(c, "raised")

Reserve(c) ==
  /\ At(c, "claim")
  /\ Reservable(KeyOf(c))
  /\ keys' = [keys EXCEPT ![KeyOf(c)] = InProgress(c)]
  /\ process' = [process EXCEPT ![c] = "processing"]
  /\ ReserveUpload(c) \/ ReserveRetry(c)
  /\ UNCHANGED <<job, staging, source, outbox>>

\* A job that may not be retried, or a database that fails: all rolled back.
ReserveRefused(c) ==
  /\ At(c, "claim")
  /\ Reservable(KeyOf(c))
  /\ Goto(c, "raised")
  /\ UNCHANGED <<keys, process, asset, job, staging, source, outbox>>

\* Fault: the hash of the request is not compared.
HashlessReplayable(c) == keys[KeyOf(c)].state = "completed"

Replayable(c) ==
  /\ keys[KeyOf(c)].state = "completed"
  /\ keys[KeyOf(c)].request = call[c].request

\* _handle_existing_idempotency: the response of a completed key is given
\* again.  Another request, a request in progress and a failed one are all
\* refused; of the failed one the service returns None, which the route cannot
\* turn into a response.
Replay(c) ==
  /\ At(c, "claim")
  /\ ~Reservable(KeyOf(c))
  /\ IF Replayable(c)
     THEN call' = [call EXCEPT ![c].at = "done", ![c].answer = keys[KeyOf(c)].job]
     ELSE Goto(c, "raised")
  /\ UNCHANGED <<keys, process, asset, job, staging, source, outbox>>

-----------------------------------------------------------------------------
(* MinIO.                                                                  *)

\* The probe runs first, and may refuse the file.
Upload(c) ==
  /\ At(c, "upload")
  /\ \/ staging' = staging \cup {c} /\ Goto(c, "copy")
     \/ UNCHANGED staging /\ Goto(c, "failLoad")
     \/ staging' = staging \cup {c} /\ Spoil(c, "failLoad")
  /\ UNCHANGED <<keys, process, asset, job, source, outbox>>

Copy(c) ==
  /\ At(c, "copy")
  /\ \/ source' = source \cup {c} /\ Goto(c, "verify")
     \/ UNCHANGED source /\ Goto(c, "failLoad")
     \/ source' = source \cup {c} /\ Spoil(c, "failLoad")
  /\ UNCHANGED <<keys, process, asset, job, staging, outbox>>

\* Fault: the key is completed before there is a job.
EagerVerify(c) ==
  /\ At(c, "verify")
  /\ \/ /\ c \in source
        /\ keys' = [keys EXCEPT ![KeyOf(c)].state = "completed"]
        /\ Goto(c, "create")
     \/ Goto(c, "failLoad") /\ UNCHANGED keys
  /\ UNCHANGED <<process, asset, job, staging, source, outbox>>

\* The size and the hash of the copy are compared with the file's.
Verify(c) ==
  /\ At(c, "verify")
  /\ \/ c \in source /\ Goto(c, "create")
     \/ Goto(c, "failLoad")
  /\ UNCHANGED <<keys, process, asset, job, staging, source, outbox>>

-----------------------------------------------------------------------------
(* The second transaction.                                                 *)

VideoOf(c) == IF Submits(c) THEN c ELSE job[call[c].request].video

\* _create_job: a new job of the call's own, for the retry's video.
NewJob(c) == [state |-> "pending", video |-> VideoOf(c)]

\* mark_ready, of an asset whose probe filled in what the table asks for.
Ready(a, c) == [a EXCEPT ![c] = "ready"]

\* finalize: the last word on a key, whatever its state was.
Finalized(c, state, made) ==
  [keys EXCEPT ![KeyOf(c)].state = state, ![KeyOf(c)].job = made]

Answer(c, point) == call' = [call EXCEPT ![c].at = point, ![c].answer = c]

\* The job of an upload, its video and the clean-up of its staging object ...
CreateFirst(c) ==
  /\ Submits(c)
  /\ asset' = Ready(asset, c)
  /\ outbox' = outbox \cup {<<"cleanup_staging", c>>}
  /\ Answer(c, "dropStaging") \/ Spoil(c, "failLoad")

\* ... and the job of a retry.
CreateRetry(c) ==
  /\ ~Submits(c)
  /\ UNCHANGED <<asset, outbox>>
  /\ Answer(c, "done") \/ Spoil(c, "failLoad")

CreateJob(c) ==
  /\ At(c, "create")
  /\ job' = [job EXCEPT ![c] = NewJob(c)]
  /\ keys' = Finalized(c, "completed", c)
  /\ CreateFirst(c) \/ CreateRetry(c)
  /\ UNCHANGED <<process, staging, source>>

CreateFails(c) ==
  /\ At(c, "create")
  /\ Goto(c, "failLoad")
  /\ UNCHANGED <<keys, process, asset, job, staging, source, outbox>>

\* _delete_best_effort, before the answer or after a failure.
RemoveStaging(c) ==
  /\ \/ At(c, "dropStaging") \/ At(c, "failClean")
  /\ LET end == IF At(c, "dropStaging") THEN "done" ELSE "raised"
     IN  \/ staging' = staging \ {c} /\ Goto(c, end)
         \/ UNCHANGED staging /\ Spoil(c, end)
  /\ UNCHANGED <<keys, process, asset, job, source, outbox>>

-----------------------------------------------------------------------------
(* _fail_ingest, and the handler of retry_job.                             *)

FailLoad(c) ==
  /\ At(c, "failLoad")
  /\ call' = [call EXCEPT ![c].at = "failSave", ![c].seen = process[c]]
  /\ UNCHANGED <<keys, process, asset, job, staging, source, outbox>>

\* mark_rejected, of an asset still being uploaded.
Rejected(state) == IF state = "uploading" THEN "rejected" ELSE state

AfterFailSave(c) == IF Submits(c) THEN "failClean" ELSE "raised"

\* Fault: the process record is left open.
OpenFailSave(c) ==
  /\ At(c, "failSave")
  /\ asset' = [asset EXCEPT ![c] = Rejected(@)]
  /\ outbox' = IF asset[c] = "ready" THEN outbox \cup {<<"cleanup_canonical", c>>}
               ELSE outbox
  /\ keys' = [keys EXCEPT ![KeyOf(c)].state = "failed", ![KeyOf(c)].job = None]
  /\ Goto(c, AfterFailSave(c))
  /\ UNCHANGED <<process, job, staging, source>>

\* Fault: the canonical object goes too.
EagerFailSave(c) ==
  /\ At(c, "failSave")
  /\ process' = IF call[c].seen = "processing" THEN [process EXCEPT ![c] = "failed"]
                ELSE process
  /\ asset' = [asset EXCEPT ![c] = Rejected(@)]
  /\ keys' = [keys EXCEPT ![KeyOf(c)].state = "failed", ![KeyOf(c)].job = None]
  /\ source' = source \ {c}
  /\ Goto(c, AfterFailSave(c))
  /\ UNCHANGED <<job, staging, outbox>>

\* _fail_ingest: the object key is there to be cleaned up only once the asset
\* is ready.
FailUpload(c) ==
  /\ Submits(c)
  /\ asset' = [asset EXCEPT ![c] = Rejected(@)]
  /\ outbox' = IF asset[c] = "ready" THEN outbox \cup {<<"cleanup_canonical", c>>}
               ELSE outbox

\* The handler of retry_job: the video is not its own.
FailRetry(c) == ~Submits(c) /\ UNCHANGED <<asset, outbox>>

\* A key that has been completed after all becomes failed.
FailSave(c) ==
  /\ At(c, "failSave")
  /\ process' = IF call[c].seen = "processing" THEN [process EXCEPT ![c] = "failed"]
                ELSE process
  /\ FailUpload(c) \/ FailRetry(c)
  /\ keys' = Finalized(c, "failed", None)
  /\ Goto(c, AfterFailSave(c))
  /\ UNCHANGED <<job, staging, source>>

\* The database fails, or refuses a process record closed in between.
FailSaveFails(c) ==
  /\ At(c, "failSave")
  /\ Spoil(c, AfterFailSave(c))
  /\ UNCHANGED <<keys, process, asset, job, staging, source, outbox>>

\* except Exception catches neither the cancellation of the request's task nor
\* the end of the process.
CutOff(c) ==
  /\ call[c].at \notin Ends \cup {"new"}
  /\ Spoil(c, "gone")
  /\ UNCHANGED <<keys, process, asset, job, staging, source, outbox>>

-----------------------------------------------------------------------------
\* What the worker and cancel_job make of a job: see VideoJobPipeline.
JobEnds(c) ==
  /\ job[c].state = "pending"
  /\ \E outcome \in {"completed", "failed", "cancelled"} :
       /\ job' = [job EXCEPT ![c].state = outcome]
       /\ \/ process[c] = "processing" /\ process' = [process EXCEPT ![c] = outcome]
          \/ outcome # "completed" /\ UNCHANGED process
  /\ UNCHANGED <<keys, asset, staging, source, outbox, call>>

Arrivals(c) ==
  \/ \E k \in SubmitKeys, x \in Contents : Arrive(c, "video_recognize", k, x)
  \/ \E k \in RetryKeys, d \in {e \in Calls : Exists(e)} : Arrive(c, "video_retry", k, d)

Ingest(c) ==
  \/ Reserve(c)
  \/ ReserveRefused(c)
  \/ Replay(c)
  \/ Upload(c)
  \/ Copy(c)
  \/ Verify(c)
  \/ CreateJob(c)
  \/ CreateFails(c)
  \/ RemoveStaging(c)

Fail(c) ==
  \/ FailLoad(c)
  \/ FailSave(c)
  \/ FailSaveFails(c)
  \/ CutOff(c)

Next == \E c \in Calls : Arrivals(c) \/ Ingest(c) \/ Fail(c) \/ JobEnds(c)

Spec == Init /\ [][Next]_vars

-----------------------------------------------------------------------------
(* Properties.                                                             *)

\* However often, and however concurrently, a key is used, it makes one job;
\* also when the transaction that made it was committed and reported failed,
\* so that its key says failed.
OneJobPerKey ==
  \A c, d \in Calls :
    Exists(c) /\ Exists(d) /\ KeyOf(c) = KeyOf(d) => c = d

\* A call is only ever answered with a job made under its key for its request.
AnswersMatch ==
  \A c \in Calls :
    LET d == call[c].answer
    IN  d # None => Exists(d) /\ KeyOf(d) = KeyOf(c) /\ call[d].request = call[c].request

\* Every job, a retry's too, has a video that is ready and whose source is in
\* MinIO, whatever the failure handling of the call that made it does later.
JobHasSource ==
  \A c \in Calls : Exists(c) => asset[job[c].video] = "ready" /\ job[c].video \in source

\* A call that reserved its key and raised has left no trace of success: its
\* process, video and key say failed, there is no job, and no upload in the
\* staging prefix.  The call itself must not have been cut off, misinformed by
\* a store, or unable to clean up.  A key that says completed names a job there
\* is; one that says failed has none unless its call was told of a failure that
\* was none.
FailureSettled ==
  /\ \A c \in Calls :
       At(c, "raised") /\ process[c] # "none" /\ ~call[c].spoiled =>
         /\ process[c] = "failed" /\ ~Exists(c) /\ c \notin staging
         /\ keys[KeyOf(c)].state = "failed"
         /\ Submits(c) => asset[c] = "rejected"
  /\ \A k \in Scopes \X Keys :
       /\ keys[k].state = "completed" => keys[k].job # None /\ Exists(keys[k].job)
       /\ keys[k].state = "failed" =>
            \A c \in Calls : KeyOf(c) = k /\ Exists(c) => call[c].spoiled
=============================================================================
