--------------------------- MODULE VideoJobPipeline --------------------------
(***************************************************************************)
(* The deployed life of a video job: the GPU worker's loop                 *)
(* (_process_one_job), VideoProcessingService.process, and the API's       *)
(* cancel_job.  Only claim_next, mark_cancelled, mark_failed and           *)
(* release_for_retry of the queue are called; everything else writes the   *)
(* row through SqlAlchemyVideoJobRepository.update, a read-modify-write    *)
(* with no lock, no lease and no version in its WHERE.                     *)
(*                                                                         *)
(* update is three steps.  The service loads a copy and changes it; update *)
(* selects the row again; the commit writes the columns in which the copy  *)
(* differs from that second read, over whatever the row then holds.        *)
(* ProcessRecord is written the same way; there the CHECK constraints on   *)
(* the timestamps refuse a commit if the record was closed in between.     *)
(***************************************************************************)
EXTENDS VideoJobRow

CONSTANTS
  Jobs,
  Workers,   \* worker processes
  NameOf,    \* the WORKER_ID each was started with
  Requests,  \* calls of the cancel endpoint, each made at most once
  Expiring   \* state-space bound: the jobs whose leases run out; without the
             \* sweep nothing looks at the expiry

ASSUME NameAssumption == NameOf \in [Workers -> Names]
ASSUME NoJobAssumption == None \notin Jobs

VARIABLES
  rows,      \* video_job
  process,   \* status of the job's process_record
  tracks,    \* whose tracks, tracklets and intervals the job's rows are
  chunk,     \* whose overlay the video_timeline_chunk row describes
  overlay,   \* whose overlay object is in MinIO under the job's key
  manifest,  \* whose manifest object is in MinIO under the job's key
  minted,    \* lease tokens generated so far; a token names an attempt
  worker,    \* the worker processes
  request    \* the cancel calls

store == <<tracks, chunk, overlay, manifest>>
vars == <<rows, process, store, minted, worker, request>>

ProcessStates == {"processing", "completed", "failed", "cancelled"}
Attempts == Tokens \cup {None}

\* Where a worker is in _process_one_job and process().
TryPoints == {"start", "cancel", "open", "openMerge", "openCommit", "resolve",
              "resolveSave", "persist", "overlay", "chunk", "manifest", "final",
              "finalMerge", "complete", "completeSave", "finalCommit"}
WorkerPoints == TryPoints \cup {"idle", "except", "fail", "release"}

WorkerStates == [at : WorkerPoints, job : Jobs \cup {None}, token : Attempts,
                 copy : Rows \cup {None}, base : Rows \cup {None},
                 seen : ProcessStates \cup {None}]
Idle == [at |-> "idle", job |-> None, token |-> None, copy |-> None,
         base |-> None, seen |-> None]

RequestStates == [at : {"new", "merge", "commit", "process", "done"}, job : Jobs \cup {None},
                  wasPending : BOOLEAN,
                  copy : Rows \cup {None}, base : Rows \cup {None}]
NewRequest == [at |-> "new", job |-> None, wasPending |-> FALSE,
               copy |-> None, base |-> None]

TypeOK ==
  /\ rows \in [Jobs -> Rows]
  /\ process \in [Jobs -> ProcessStates]
  /\ tracks \in [Jobs -> Attempts]
  /\ chunk \in [Jobs -> Attempts]
  /\ overlay \in [Jobs -> Attempts]
  /\ manifest \in [Jobs -> Attempts]
  /\ minted \subseteq Tokens
  /\ worker \in [Workers -> WorkerStates]
  /\ request \in [Requests -> RequestStates]

Init ==
  /\ rows = [j \in Jobs |-> NewRow]
  /\ process = [j \in Jobs |-> "processing"]
  /\ tracks = [j \in Jobs |-> None]
  /\ chunk = [j \in Jobs |-> None]
  /\ overlay = [j \in Jobs |-> None]
  /\ manifest = [j \in Jobs |-> None]
  /\ minted = {}
  /\ worker = [w \in Workers |-> Idle]
  /\ request = [c \in Requests |-> NewRequest]

-----------------------------------------------------------------------------
(* The repository's update.                                                *)

\* The copy's value of a column if the copy changed it, else the row's.
Flushed(now, old, mine) == IF mine # old THEN mine ELSE now

\* The columns update() assigns; available_at is not one of them.  The lease's
\* expiry goes with its token.
Merged(row, base, copy) ==
  [state       |-> Flushed(row.state, base.state, copy.state),
   stage       |-> Flushed(row.stage, base.stage, copy.stage),
   due         |-> row.due,
   owner       |-> Flushed(row.owner, base.owner, copy.owner),
   token       |-> Flushed(row.token, base.token, copy.token),
   expired     |-> IF copy.token # base.token THEN copy.expired ELSE row.expired,
   attempts    |-> Flushed(row.attempts, base.attempts, copy.attempts),
   cancelReq   |-> Flushed(row.cancelReq, base.cancelReq, copy.cancelReq),
   error       |-> Flushed(row.error, base.error, copy.error),
   completedAt |-> Flushed(row.completedAt, base.completedAt, copy.completedAt),
   failedAt    |-> Flushed(row.failedAt, base.failedAt, copy.failedAt),
   cancelledAt |-> Flushed(row.cancelledAt, base.cancelledAt, copy.cancelledAt),
   manifest    |-> Flushed(row.manifest, base.manifest, copy.manifest),
   version     |-> Flushed(row.version, base.version, copy.version)]

JobOf(w) == worker[w].job
RowOf(w) == rows[JobOf(w)]
TokenOf(w) == worker[w].token
At(w, point) == worker[w].at = point

Goto(w, point) == worker' = [worker EXCEPT ![w].at = point]
GoIdle(w) == worker' = [worker EXCEPT ![w] = Idle]

\* A row a cancel call has written and not committed: writers wait for it.
Unlocked(j) == \A c \in Requests : request[c].at = "process" => request[c].job # j

\* The commit of a unit of work that called update: refused by the table's
\* CHECK constraints, or written.
CommitUpdate(w, next) ==
  /\ Unlocked(JobOf(w))
  /\ LET r == Merged(RowOf(w), worker[w].base, worker[w].copy)
     IN  IF ChecksOK(r)
         THEN /\ rows' = [rows EXCEPT ![JobOf(w)] = r]
              /\ IF next = "idle" THEN GoIdle(w) ELSE Goto(w, next)
         ELSE /\ Goto(w, "except")
              /\ UNCHANGED rows

-----------------------------------------------------------------------------
(* _process_one_job                                                        *)

Claim(w, j, t) ==
  /\ At(w, "idle")
  /\ Claimable(rows[j]) /\ Unlocked(j)
  /\ t \notin minted
  /\ rows' = [rows EXCEPT ![j] = Claimed(@, NameOf[w], t)]
  /\ minted' = minted \cup {t}
  /\ worker' = [worker EXCEPT ![w] = [Idle EXCEPT !.at = "start", !.job = j, !.token = t]]
  /\ UNCHANGED <<process, store, request>>

CheckCancelled(w) ==
  /\ At(w, "start")
  /\ Goto(w, IF RowOf(w).cancelReq THEN "cancel" ELSE "open")
  /\ UNCHANGED <<rows, process, store, minted, request>>

CancelBeforeStart(w) ==
  /\ At(w, "cancel")
  /\ Unlocked(JobOf(w))
  /\ rows' = IF MayMarkCancelled(RowOf(w), NameOf[w], TokenOf(w))
             THEN [rows EXCEPT ![JobOf(w)] = MarkedCancelled(@)]
             ELSE rows
  /\ GoIdle(w)
  /\ UNCHANGED <<process, store, minted, request>>

\* Fault: one attempt short.
EarlyHandleException(w) ==
  /\ At(w, "except")
  /\ Goto(w, IF RowOf(w).attempts + 1 >= MaxAttempts THEN "fail" ELSE "release")
  /\ UNCHANGED <<rows, process, store, minted, request>>

\* The handler of any exception: the attempts are read first, the queue is
\* called after.
HandleException(w) ==
  /\ At(w, "except")
  /\ Goto(w, IF RowOf(w).attempts >= MaxAttempts THEN "fail" ELSE "release")
  /\ UNCHANGED <<rows, process, store, minted, request>>

GiveUp(w) ==
  /\ At(w, "fail")
  /\ Unlocked(JobOf(w))
  /\ rows' = IF HeldBy(RowOf(w), NameOf[w], TokenOf(w))
             THEN [rows EXCEPT ![JobOf(w)] =
                     MarkedFailed(@, "WORKER_EXECUTION_FAILED")]
             ELSE rows
  /\ GoIdle(w)
  /\ UNCHANGED <<process, store, minted, request>>

HandBack(w) ==
  /\ At(w, "release")
  /\ Unlocked(JobOf(w))
  /\ rows' = IF MayRelease(RowOf(w), NameOf[w], TokenOf(w))
             THEN [rows EXCEPT ![JobOf(w)] = Released(@)]
             ELSE rows
  /\ GoIdle(w)
  /\ UNCHANGED <<process, store, minted, request>>

\* Any call inside the try block may raise: the download, the native worker,
\* the database, MinIO.
Raise(w) ==
  /\ worker[w].at \in TryPoints
  /\ Goto(w, "except")
  /\ UNCHANGED <<rows, process, store, minted, request>>

\* The process dies, or the handler itself raises; the loop starts over.
Crash(w) ==
  /\ ~At(w, "idle")
  /\ GoIdle(w)
  /\ UNCHANGED <<rows, process, store, minted, request>>

-----------------------------------------------------------------------------
(* VideoProcessingService.process                                          *)

\* The copy process() cancels, moves on, or completes.
CancelledOpening(r) == [ClearLease(r) EXCEPT !.state = "cancelled", !.stage = "cleanup",
                                             !.cancelledAt = TRUE]
Opened(r) == [r EXCEPT !.stage = "track_reconcile"]
Completed(r, t) == [ClearLease(r) EXCEPT !.state = "completed", !.stage = "finalize",
                                         !.completedAt = TRUE, !.manifest = t]

\* The first unit of work loads the job after the native run: it either
\* cancels the copy or moves its stage on.
OpenJob(w) ==
  /\ At(w, "open")
  /\ worker' = [worker EXCEPT ![w].at = "openMerge",
                   ![w].copy = IF RowOf(w).cancelReq /\ Leased(RowOf(w))
                               THEN CancelledOpening(RowOf(w)) ELSE Opened(RowOf(w))]
  /\ UNCHANGED <<rows, process, store, minted, request>>

Reselect(w, point, next) ==
  /\ At(w, point)
  /\ worker' = [worker EXCEPT ![w].at = next, ![w].base = RowOf(w)]
  /\ UNCHANGED <<rows, process, store, minted, request>>

CommitOpen(w) ==
  /\ At(w, "openCommit")
  /\ CommitUpdate(w, IF worker[w].copy.stage = "cleanup" THEN "idle" ELSE "resolve")
  /\ UNCHANGED <<process, store, minted, request>>

\* Tracking, reconciliation, and the identities of the tracks.  Each track's
\* transaction loads the process record and saves it as it was; one stands for
\* all, and a video without tracks has none.
ResolveIdentities(w) ==
  /\ At(w, "resolve")
  /\ \/ Goto(w, "persist")
     \/ worker' = [worker EXCEPT ![w].at = "resolveSave", ![w].seen = process[JobOf(w)]]
  /\ UNCHANGED <<rows, process, store, minted, request>>

IdentityResolved(w) ==
  /\ At(w, "resolveSave")
  /\ process' = [process EXCEPT ![JobOf(w)] = worker[w].seen]
  /\ worker' = [worker EXCEPT ![w].at = "persist", ![w].seen = None]
  /\ UNCHANGED <<rows, store, minted, request>>

\* A new identity could not be stored: _persist_resolution_failure fails the
\* whole process record, or raises because it is already closed.
ResolutionFails(w) ==
  /\ At(w, "resolveSave")
  /\ process' = IF worker[w].seen = "processing"
                THEN [process EXCEPT ![JobOf(w)] = "failed"]
                ELSE process
  /\ worker' = [worker EXCEPT ![w].at = "except", ![w].seen = None]
  /\ UNCHANGED <<rows, store, minted, request>>

\* persist_tracks: every row of an earlier attempt is deleted, this one's added.
PersistTracks(w) ==
  /\ At(w, "persist")
  /\ tracks' = [tracks EXCEPT ![JobOf(w)] = TokenOf(w)]
  /\ chunk' = [chunk EXCEPT ![JobOf(w)] = None]
  /\ Goto(w, "overlay")
  /\ UNCHANGED <<rows, process, overlay, manifest, minted, request>>

\* MinIOObjectStore.upload under a key another attempt has used is refused:
\* the content differs in the track ids and in the time it was written.
Uploadable(object, t) == object \in {None, t}

\* Fault: an object that is there is taken for an upload already done.
KeepingUploadOverlay(w) ==
  /\ At(w, "overlay")
  /\ overlay' = [overlay EXCEPT ![JobOf(w)] = IF @ = None THEN TokenOf(w) ELSE @]
  /\ Goto(w, "chunk") \/ Goto(w, "except")
  /\ UNCHANGED <<rows, process, tracks, chunk, manifest, minted, request>>

\* The put may be done and the answer lost.
UploadOverlay(w) ==
  /\ At(w, "overlay")
  /\ IF Uploadable(overlay[JobOf(w)], TokenOf(w))
     THEN /\ overlay' = [overlay EXCEPT ![JobOf(w)] = TokenOf(w)]
          /\ Goto(w, "chunk") \/ Goto(w, "except")
     ELSE Goto(w, "except") /\ UNCHANGED overlay
  /\ UNCHANGED <<rows, process, tracks, chunk, manifest, minted, request>>

\* (job_id, artifact_kind, sequence_no) is unique.
AddChunk(w) ==
  /\ At(w, "chunk")
  /\ IF chunk[JobOf(w)] = None
     THEN chunk' = [chunk EXCEPT ![JobOf(w)] = TokenOf(w)] /\ Goto(w, "manifest")
     ELSE Goto(w, "except") /\ UNCHANGED chunk
  /\ UNCHANGED <<rows, process, tracks, overlay, manifest, minted, request>>

UploadManifest(w) ==
  /\ At(w, "manifest")
  /\ IF Uploadable(manifest[JobOf(w)], TokenOf(w))
     THEN /\ manifest' = [manifest EXCEPT ![JobOf(w)] = TokenOf(w)]
          /\ Goto(w, "final") \/ Goto(w, "except")
     ELSE Goto(w, "except") /\ UNCHANGED manifest
  /\ UNCHANGED <<rows, process, tracks, chunk, overlay, minted, request>>

\* The last unit of work completes whatever it loads.
FinishJob(w) ==
  /\ At(w, "final")
  /\ worker' = [worker EXCEPT ![w].at = "finalMerge",
                  ![w].copy = Completed(RowOf(w), TokenOf(w))]
  /\ UNCHANGED <<rows, process, store, minted, request>>

\* Fault: a process record that is closed already is left as it is.
LenientLoadProcess(w) ==
  /\ At(w, "complete")
  /\ Goto(w, IF process[JobOf(w)] = "processing" THEN "completeSave" ELSE "finalCommit")
  /\ UNCHANGED <<rows, process, store, minted, request>>

\* complete_process runs in a unit of work of its own and commits first.
LoadProcess(w) ==
  /\ At(w, "complete")
  /\ Goto(w, IF process[JobOf(w)] = "processing" THEN "completeSave" ELSE "except")
  /\ UNCHANGED <<rows, process, store, minted, request>>

CompleteProcess(w) ==
  /\ At(w, "completeSave")
  /\ process' = [process EXCEPT ![JobOf(w)] = "completed"]
  /\ Goto(w, "finalCommit")
  /\ UNCHANGED <<rows, store, minted, request>>

CommitFinal(w) ==
  /\ At(w, "finalCommit")
  /\ CommitUpdate(w, "idle")
  /\ UNCHANGED <<process, store, minted, request>>

-----------------------------------------------------------------------------
(* VideoUploadService.cancel_job                                           *)

\* VideoJob.request_cancellation on the copy: the version moves in any state.
CancelledCopy(r) ==
  CASE r.state = "pending" ->
         [r EXCEPT !.state = "cancelled", !.cancelledAt = TRUE, !.version = @ + 1]
    [] r.state = "processing" ->
         [r EXCEPT !.state = "cancelling", !.cancelReq = TRUE, !.version = @ + 1]
    [] OTHER -> [r EXCEPT !.version = @ + 1]

CancelLoad(c, j) ==
  /\ request[c].at = "new"
  /\ request' = [request EXCEPT ![c] =
                   [at |-> "merge", job |-> j,
                    wasPending |-> rows[j].state = "pending",
                    copy |-> CancelledCopy(rows[j]), base |-> None]]
  /\ UNCHANGED <<rows, process, store, minted, worker>>

CancelReselect(c) ==
  /\ request[c].at = "merge"
  /\ request' = [request EXCEPT ![c].at = "commit", ![c].base = rows[request[c].job]]
  /\ UNCHANGED <<rows, process, store, minted, worker>>

\* The session flushes the row before it selects the process record, and holds
\* the row's lock from there.  cancel() raises unless the record is open.
CancelFlush(c) ==
  /\ request[c].at = "commit" /\ request[c].wasPending
  /\ LET j == request[c].job
     IN  /\ Unlocked(j)
         /\ IF /\ ChecksOK(Merged(rows[j], request[c].base, request[c].copy))
               /\ process[j] = "processing"
            THEN request' = [request EXCEPT ![c].at = "process"]
            ELSE request' = [request EXCEPT ![c] = [NewRequest EXCEPT !.at = "done"]]
  /\ UNCHANGED <<rows, process, store, minted, worker>>

\* One commit for both, refused as a whole.
CancelCommit(c) ==
  /\ \/ request[c].at = "commit" /\ ~request[c].wasPending /\ Unlocked(request[c].job)
     \/ request[c].at = "process"
  /\ LET j == request[c].job
         r == Merged(rows[j], request[c].base, request[c].copy)
         ends == request[c].wasPending
     IN  \/ /\ ChecksOK(r)
            /\ rows' = [rows EXCEPT ![j] = r]
            /\ process' = IF ends THEN [process EXCEPT ![j] = "cancelled"] ELSE process
         \/ /\ ~ChecksOK(r) \/ (ends /\ process[j] # "processing")
            /\ UNCHANGED <<rows, process>>
  /\ request' = [request EXCEPT ![c] = [NewRequest EXCEPT !.at = "done"]]
  /\ UNCHANGED <<store, minted, worker>>

-----------------------------------------------------------------------------
LeaseExpires(j) ==
  /\ j \in Expiring
  /\ Leased(rows[j])
  /\ ~rows[j].expired
  /\ rows' = [rows EXCEPT ![j].expired = TRUE]
  /\ UNCHANGED <<process, store, minted, worker, request>>

BackoffElapses(j) ==
  /\ rows[j].state = "pending"
  /\ ~rows[j].due
  /\ rows' = [rows EXCEPT ![j].due = TRUE]
  /\ UNCHANGED <<process, store, minted, worker, request>>

\* What a worker does when nothing goes wrong around it.
Advance(w) ==
  \/ CheckCancelled(w)
  \/ CancelBeforeStart(w)
  \/ HandleException(w)
  \/ GiveUp(w)
  \/ HandBack(w)
  \/ OpenJob(w)
  \/ Reselect(w, "openMerge", "openCommit")
  \/ CommitOpen(w)
  \/ ResolveIdentities(w)
  \/ IdentityResolved(w)
  \/ ResolutionFails(w)
  \/ PersistTracks(w)
  \/ UploadOverlay(w)
  \/ AddChunk(w)
  \/ UploadManifest(w)
  \/ FinishJob(w)
  \/ Reselect(w, "finalMerge", "complete")
  \/ LoadProcess(w)
  \/ CompleteProcess(w)
  \/ CommitFinal(w)

WorkerNext(w) ==
  \/ \E j \in Jobs, t \in Tokens : Claim(w, j, t)
  \/ Advance(w)
  \/ Raise(w)

TimeNext(j) == LeaseExpires(j) \/ BackoffElapses(j)

CancelNext(c) ==
  \/ \E j \in Jobs : CancelLoad(c, j)
  \/ CancelReselect(c)
  \/ CancelFlush(c)
  \/ CancelCommit(c)

\* The deployment: workers that may crash, cancel calls, and time.
Next ==
  \/ \E w \in Workers : WorkerNext(w) \/ Crash(w)
  \/ \E c \in Requests : CancelNext(c)
  \/ \E j \in Jobs : TimeNext(j)

Spec == Init /\ [][Next]_vars

-----------------------------------------------------------------------------
(* Specifications with fairness.                                           *)

\* The worker loop goes on for ever, leases run out and backoffs pass.
Fairness ==
  /\ \A w \in Workers : /\ WF_vars(\E j \in Jobs, t \in Tokens : Claim(w, j, t))
                        /\ WF_vars(Advance(w))
  /\ \A j \in Jobs : WF_vars(TimeNext(j))

\* No worker dies and nobody cancels; any call may still raise.
SteadyNext ==
  \/ \E w \in Workers : WorkerNext(w)
  \/ \E j \in Jobs : TimeNext(j)

SteadySpec == Init /\ [][SteadyNext]_vars /\ Fairness

-----------------------------------------------------------------------------
(* Properties of the deployment.                                           *)

\* Nothing but the claim keeps two workers off one job, and the API writes old
\* copies of the row back: even so, no old copy ever makes a job claimable
\* while a worker is at it.
JobExclusive ==
  \A v, w \in Workers : JobOf(v) = JobOf(w) /\ JobOf(v) # None => v = w

\* A completed job shows the results of one attempt: its tracks, its overlay
\* and the row that describes it, and its manifest are never a mixture.
OneAttemptResult ==
  \A j \in Jobs :
    rows[j].state = "completed" =>
      LET t == rows[j].manifest
      IN  tracks[j] = t /\ chunk[j] = t /\ overlay[j] = t /\ manifest[j] = t

\* An old copy of the row that a cancel call writes back can break the next.
NoCancelCall == \A c \in Requests : request[c].at = "new"

\* Job and process record are committed apart; until somebody cancels, a
\* completed job never has a process record that is open, failed or cancelled,
\* and a job is failed only when its attempts are used up, although the handler
\* decides that on a row it read before it calls the queue.
EndsAgree ==
  NoCancelCall =>
    \A j \in Jobs :
      /\ rows[j].state = "completed" => process[j] = "completed"
      /\ rows[j].state = "failed" => rows[j].attempts >= MaxAttempts

\* As long as no worker dies, every job ends, whatever raises.
JobsEnd == \A j \in Jobs : <>Terminal(rows[j])

=============================================================================
