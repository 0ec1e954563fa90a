----------------------- MODULE VideoJobPipeline_proofs -----------------------
(***************************************************************************)
(* Proofs about VideoJobPipeline for every set of jobs, workers, cancel    *)
(* calls and tokens, with crashes, cancellations and exceptions anywhere.  *)
(***************************************************************************)
EXTENDS VideoJobPipeline, TLAPS

-----------------------------------------------------------------------------
(* What the transactions on a row write, column by column.                 *)

LEMMA RowConstants ==
  /\ {"pending", "processing", "cancelling", "completed", "failed", "cancelled"}
       \subseteq States
  /\ "queued" \in Stages /\ "download" \in Stages
  /\ Errors = {"lease_expired", "max_retry_exceeded", "WORKER_EXECUTION_FAILED"}
  BY DEF States, Stages, Errors

LEMMA Counters ==
  ASSUME NEW r \in Rows
  PROVE  r.attempts + 1 \in Nat /\ r.version + 1 \in Nat /\ r.version \in Nat
  BY DEF Rows

LEMMA ClaimedRow ==
  ASSUME NEW r \in Rows, NEW n \in Names, NEW t \in Tokens
  PROVE  LET s == Claimed(r, n, t)
         IN  /\ s \in Rows
             /\ s.state = "processing" /\ s.owner = n /\ s.token = t
             /\ s.cancelReq = r.cancelReq /\ s.version = r.version + 1
             /\ s.completedAt = r.completedAt /\ s.manifest = r.manifest
             /\ s.attempts = r.attempts + 1
  BY RowConstants, Counters DEF Claimed, Rows

LEMMA MarkedCancelledRow ==
  ASSUME NEW r \in Rows
  PROVE  LET s == MarkedCancelled(r)
         IN  /\ s \in Rows
             /\ s.state = "cancelled" /\ s.owner = None /\ s.token = None
             /\ ~s.expired /\ s.cancelledAt
             /\ s.cancelReq = r.cancelReq /\ s.version = r.version + 1
             /\ s.manifest = r.manifest /\ s.attempts = r.attempts
  BY RowConstants, Counters DEF MarkedCancelled, ClearLease, Rows

LEMMA MarkedFailedRow ==
  ASSUME NEW r \in Rows, NEW e \in Errors
  PROVE  LET s == MarkedFailed(r, e)
         IN  /\ s \in Rows
             /\ s.state = "failed" /\ s.owner = None /\ s.token = None
             /\ ~s.expired /\ s.failedAt /\ s.error = e
             /\ s.cancelReq = r.cancelReq /\ s.version = r.version + 1
             /\ s.manifest = r.manifest /\ s.attempts = r.attempts
  BY RowConstants, Counters DEF MarkedFailed, ClearLease, Rows

LEMMA RequeuedRow ==
  ASSUME NEW r \in Rows, NEW e \in Errors, NEW due \in BOOLEAN
  PROVE  LET s == Requeued(r, e, due)
         IN  /\ s \in Rows
             /\ s.state = "pending" /\ s.owner = None /\ s.token = None
             /\ ~s.expired
             /\ s.cancelReq = r.cancelReq /\ s.version = r.version + 1
             /\ s.manifest = r.manifest /\ s.attempts = r.attempts
  BY RowConstants, Counters DEF Requeued, ClearLease, Rows

-----------------------------------------------------------------------------
(* The inductive invariant.                                                *)

Working(w) == ~At(w, "idle")
Unattended(j) == \A w \in Workers : JobOf(w) # j

\* The results of job j are those of attempt t, and nobody will change them:
\* no worker is at the job and none can claim it.
Published(j, t) ==
  /\ tracks[j] = t /\ chunk[j] = t /\ overlay[j] = t /\ manifest[j] = t
  /\ Unattended(j)
  /\ rows[j].state # "pending"

\* A job's row is one the table accepts; a manifest it names is published.
JobInv(j) ==
  /\ ChecksOK(rows[j])
  /\ rows[j].manifest # None => Published(j, rows[j].manifest)

OpenPoints == {"openMerge", "openCommit"}
FinalPoints == {"finalMerge", "complete", "completeSave", "finalCommit"}
BasePoints == {"openCommit", "complete", "completeSave", "finalCommit"}
AfterManifest == {"final"} \cup FinalPoints
AfterChunk == {"manifest"} \cup AfterManifest
AfterOverlay == {"chunk"} \cup AfterChunk
AfterTracks == {"overlay"} \cup AfterOverlay

\* The copies a worker will write back, or none.
CopiesInv(w) ==
  /\ worker[w].at \in OpenPoints \cup FinalPoints =>
       worker[w].copy \in Rows /\ worker[w].copy.state # "pending"
  /\ worker[w].at \in OpenPoints => worker[w].copy.manifest = None
  /\ worker[w].at \in FinalPoints => worker[w].copy.manifest = TokenOf(w)
  /\ worker[w].at \in BasePoints => worker[w].base \in Rows
  /\ At(w, "resolveSave") => worker[w].seen \in ProcessStates

\* What a worker has stored when it is at a point is still its own.
ProgressInv(w) ==
  /\ worker[w].at \in AfterTracks => tracks[JobOf(w)] = TokenOf(w)
  /\ worker[w].at \in AfterOverlay => overlay[JobOf(w)] = TokenOf(w)
  /\ worker[w].at \in AfterChunk => chunk[JobOf(w)] = TokenOf(w)
  /\ worker[w].at \in AfterManifest => manifest[JobOf(w)] = TokenOf(w)

\* A worker at a job: nobody can claim it and nothing of it is published.
WorkerInv(w) ==
  IF Working(w)
  THEN /\ JobOf(w) \in Jobs /\ TokenOf(w) \in Tokens
       /\ RowOf(w).state # "pending" /\ RowOf(w).manifest = None
       /\ CopiesInv(w)
       /\ ProgressInv(w)
  ELSE JobOf(w) = None

\* The copy a cancel call will write back cannot make a job claimable, and a
\* manifest it names is published.
RequestInv(c) ==
  /\ request[c].at \in {"merge", "commit", "process"} =>
       /\ request[c].job \in Jobs
       /\ request[c].copy \in Rows /\ request[c].copy.state # "pending"
       /\ request[c].copy.manifest # None =>
            Published(request[c].job, request[c].copy.manifest)
  /\ request[c].at \in {"commit", "process"} => request[c].base \in Rows

PipelineInv ==
  /\ TypeOK
  /\ JobExclusive
  /\ \A j \in Jobs : JobInv(j)
  /\ \A w \in Workers : WorkerInv(w)
  /\ \A c \in Requests : RequestInv(c)

-----------------------------------------------------------------------------
(* One row written back from a copy.                                       *)

\* A column of the merged row is the row's or the copy's.
LEMMA MergedRow ==
  ASSUME NEW row \in Rows, NEW base \in Rows, NEW copy \in Rows
  PROVE  LET m == Merged(row, base, copy)
         IN  /\ m \in Rows
             /\ m.state \in {row.state, copy.state}
             /\ m.manifest \in {row.manifest, copy.manifest}
             /\ m.attempts \in {row.attempts, copy.attempts}
  BY DEF Merged, Rows, Flushed

\* A row the table accepts names a manifest once it is completed.
LEMMA CompletedNamesManifest ==
  ASSUME NEW r, ChecksOK(r), r.state = "completed"
  PROVE  r.manifest # None
  BY DEF ChecksOK

LEMMA NewRowOK == NewRow \in Rows /\ ChecksOK(NewRow) /\ NewRow.manifest = None
  <1>1. NewRow \in Rows
    BY RowConstants DEF NewRow, Rows
  <1> QED BY <1>1 DEF NewRow, ChecksOK, Leased, LeasedStates

\* The queue's statements write rows the table accepts.
LEMMA QueueWritesOK ==
  ASSUME NEW r \in Rows, ChecksOK(r)
  PROVE  /\ \A n \in Names, t \in Tokens :
              Claimable(r) => ChecksOK(Claimed(r, n, t))
         /\ ChecksOK(MarkedCancelled(r))
         /\ ChecksOK(MarkedFailed(r, "WORKER_EXECUTION_FAILED"))
         /\ ChecksOK(Released(r))
  <1>1. \A n \in Names, t \in Tokens : Claimable(r) => ChecksOK(Claimed(r, n, t))
    BY ClaimedRow, NoneAssumption DEF ChecksOK, Leased, LeasedStates, Claimable
  <1>2. ChecksOK(MarkedCancelled(r))
    BY MarkedCancelledRow DEF ChecksOK, Leased, LeasedStates
  <1>3. ChecksOK(MarkedFailed(r, "WORKER_EXECUTION_FAILED"))
    BY RowConstants, MarkedFailedRow DEF ChecksOK, Leased, LeasedStates
  <1>4. ChecksOK(Released(r))
    BY RowConstants, RequeuedRow DEF ChecksOK, Leased, LeasedStates, Released
  <1> QED BY <1>1, <1>2, <1>3, <1>4

-----------------------------------------------------------------------------
(* What a step leaves of the others alone.                                 *)

LEMMA InvParts ==
  ASSUME PipelineInv
  PROVE  /\ rows \in [Jobs -> Rows] /\ worker \in [Workers -> WorkerStates]
         /\ request \in [Requests -> RequestStates]
         /\ process \in [Jobs -> ProcessStates]
         /\ tracks \in [Jobs -> Attempts] /\ chunk \in [Jobs -> Attempts]
         /\ overlay \in [Jobs -> Attempts] /\ manifest \in [Jobs -> Attempts]
         /\ minted \subseteq Tokens
         /\ \A w \in Workers : WorkerInv(w)
         /\ \A j \in Jobs : JobInv(j)
         /\ \A c \in Requests : RequestInv(c)
  BY DEF PipelineInv, TypeOK

\* While a worker is at a job, nothing of it is published anywhere.
LEMMA AttendedUnpublished ==
  ASSUME PipelineInv, NEW w \in Workers, Working(w)
  PROVE  /\ JobOf(w) \in Jobs
         /\ \A t : ~Published(JobOf(w), t)
         /\ RowOf(w).manifest = None
         /\ \A c \in Requests :
              request[c].at \in {"merge", "commit", "process"} /\ request[c].job = JobOf(w)
                => request[c].copy.manifest = None
         /\ \A v \in Workers : v # w => JobOf(v) # JobOf(w)
  <1>1. JobOf(w) \in Jobs /\ RowOf(w).manifest = None
    BY InvParts DEF WorkerInv
  <1>2. \A t : ~Published(JobOf(w), t)
    BY DEF Published, Unattended
  <1>3. \A c \in Requests :
          request[c].at \in {"merge", "commit", "process"} /\ request[c].job = JobOf(w)
            => request[c].copy.manifest = None
    BY <1>2, InvParts DEF RequestInv
  <1>4. \A v \in Workers : v # w => JobOf(v) # JobOf(w)
    BY <1>1, NoJobAssumption DEF PipelineInv, JobExclusive
  <1> QED BY <1>1, <1>2, <1>3, <1>4

\* A worker's step writes its own memory and the rows and objects of its own
\* job: the other workers, jobs and calls keep their invariants.
LEMMA WorkerFrame ==
  ASSUME PipelineInv, NEW w \in Workers, Working(w), NEW j \in Jobs, j = JobOf(w),
         NEW x \in WorkerStates, NEW r \in Rows,
         worker' = [worker EXCEPT ![w] = x], rows' = [rows EXCEPT ![j] = r],
         x.job \in {j, None},
         process' \in [Jobs -> ProcessStates],
         tracks' \in [Jobs -> Attempts], chunk' \in [Jobs -> Attempts],
         overlay' \in [Jobs -> Attempts], manifest' \in [Jobs -> Attempts],
         \A k \in Jobs \ {j} :
           /\ tracks'[k] = tracks[k] /\ chunk'[k] = chunk[k]
           /\ overlay'[k] = overlay[k] /\ manifest'[k] = manifest[k],
         UNCHANGED <<minted, request>>,
         WorkerInv(w)', JobInv(j)'
  PROVE  PipelineInv'
  <1>1. /\ \A t : ~Published(j, t)
        /\ \A v \in Workers : v # w => JobOf(v) # j
    BY AttendedUnpublished
  <1>2. /\ \A v \in Workers \ {w} : worker'[v] = worker[v] /\ JobOf(v)' = JobOf(v)
        /\ JobOf(w)' \in {j, None}
        /\ \A k \in Jobs \ {j} : rows'[k] = rows[k]
    BY InvParts DEF JobOf
  <1>3. TypeOK'
    BY InvParts, <1>1 DEF TypeOK
  <1>4. JobExclusive'
    BY <1>1, <1>2 DEF JobExclusive, PipelineInv
  <1>5. ASSUME NEW k \in Jobs, k # j, NEW t, Published(k, t)
        PROVE  Published(k, t)'
    BY <1>1, <1>2, <1>5, NoJobAssumption DEF Published, Unattended
  <1>6. ASSUME NEW k \in Jobs
        PROVE  JobInv(k)'
    <2>1. CASE k = j
      BY <2>1
    <2>2. CASE k # j
      BY <2>2, <1>2, <1>5, InvParts DEF JobInv
    <2> QED BY <2>1, <2>2
  <1>7. ASSUME NEW v \in Workers
        PROVE  WorkerInv(v)'
    <2>1. CASE v = w
      BY <2>1
    <2>2. CASE v # w
      <3>1. WorkerInv(v) /\ worker'[v] = worker[v] /\ JobOf(v) # j
        BY <1>1, <1>2, <2>2, InvParts
      <3>2. CASE At(v, "idle")
        BY <3>1, <3>2 DEF WorkerInv, Working, At, JobOf
      <3>3. CASE ~At(v, "idle")
        <4>1. JobOf(v) \in Jobs /\ rows'[JobOf(v)] = rows[JobOf(v)]
          BY <3>1, <3>3, <1>2 DEF WorkerInv, Working
        <4> QED BY <3>1, <3>3, <4>1
            DEF WorkerInv, Working, At, JobOf, RowOf, TokenOf, CopiesInv, ProgressInv
      <3> QED BY <3>2, <3>3
    <2> QED BY <2>1, <2>2
  <1>8. ASSUME NEW c \in Requests
        PROVE  RequestInv(c)'
    BY <1>1, <1>5, InvParts DEF RequestInv
  <1> QED BY <1>3, <1>4, <1>6, <1>7, <1>8 DEF PipelineInv

\* A row written by a cancel call or by time: it queues no job and names no
\* manifest that is not published.
LEMMA RowFrame ==
  ASSUME PipelineInv, NEW j \in Jobs, NEW r \in Rows, ChecksOK(r),
         rows' = [rows EXCEPT ![j] = r],
         r.state = "pending" => rows[j].state = "pending",
         r.manifest \notin {None, rows[j].manifest} => Published(j, r.manifest),
         process' \in [Jobs -> ProcessStates],
         request' \in [Requests -> RequestStates],
         \A c \in Requests :
            request'[c] = request[c] \/ request'[c].at = "done",
         UNCHANGED <<store, minted, worker>>
  PROVE  PipelineInv'
  <1>1. /\ UNCHANGED <<tracks, chunk, overlay, manifest, minted, worker>>
        /\ rows'[j] = r /\ \A k \in Jobs \ {j} : rows'[k] = rows[k]
    BY InvParts DEF store
  <1>2. TypeOK'
    BY <1>1, InvParts DEF TypeOK
  <1>3. JobExclusive'
    BY <1>1 DEF JobExclusive, PipelineInv, JobOf
  <1>4. ASSUME NEW k \in Jobs, NEW t, Published(k, t)
        PROVE  Published(k, t)'
    BY <1>1, <1>4 DEF Published, Unattended, JobOf
  <1>5. ASSUME NEW k \in Jobs
        PROVE  JobInv(k)'
    <2>1. CASE k = j
      BY <2>1, <1>1, <1>4, InvParts DEF JobInv
    <2>2. CASE k # j
      BY <2>2, <1>1, <1>4, InvParts DEF JobInv
    <2> QED BY <2>1, <2>2
  <1>6. ASSUME NEW v \in Workers
        PROVE  WorkerInv(v)'
    <2>1. WorkerInv(v) /\ worker'[v] = worker[v]
      BY <1>1, InvParts
    <2>2. CASE At(v, "idle")
      BY <2>1, <2>2 DEF WorkerInv, Working, At, JobOf
    <2>3. CASE ~At(v, "idle")
      <3>1. /\ JobOf(v) \in Jobs /\ RowOf(v).manifest = None
            /\ \A t : ~Published(JobOf(v), t)
        BY <2>3, AttendedUnpublished DEF Working
      <3>2. /\ rows'[JobOf(v)].state # "pending"
            /\ rows'[JobOf(v)].manifest = None
        BY <2>1, <2>3, <3>1, <1>1 DEF WorkerInv, Working, RowOf
      <3> QED BY <2>1, <2>3, <3>1, <3>2, <1>1
          DEF WorkerInv, Working, At, JobOf, RowOf, TokenOf, CopiesInv, ProgressInv
    <2> QED BY <2>2, <2>3
  <1>7. ASSUME NEW c \in Requests
        PROVE  RequestInv(c)'
    BY <1>4, InvParts DEF RequestInv
  <1> QED BY <1>2, <1>3, <1>5, <1>6, <1>7 DEF PipelineInv

-----------------------------------------------------------------------------
(* The steps of a worker.                                                  *)

\* A step that stays at the job and writes nothing but what is stored of it.
LEMMA StoreStep ==
  ASSUME PipelineInv, NEW w \in Workers, Working(w), NEW x \in WorkerStates,
         NEW j \in Jobs, j = JobOf(w),
         worker' = [worker EXCEPT ![w] = x],
         x.at # "idle", x.job = j, x.token = TokenOf(w),
         UNCHANGED <<rows, minted, request>>,
         process' \in [Jobs -> ProcessStates],
         tracks' \in [Jobs -> Attempts], chunk' \in [Jobs -> Attempts],
         overlay' \in [Jobs -> Attempts], manifest' \in [Jobs -> Attempts],
         \A k \in Jobs \ {j} :
           /\ tracks'[k] = tracks[k] /\ chunk'[k] = chunk[k]
           /\ overlay'[k] = overlay[k] /\ manifest'[k] = manifest[k],
         CopiesInv(w)', ProgressInv(w)'
  PROVE  PipelineInv'
  <1>1. /\ rows[j] \in Rows /\ rows' = [rows EXCEPT ![j] = rows[j]]
        /\ worker'[w] = x
    BY InvParts
  <1>2. WorkerInv(w)'
    BY <1>1, InvParts DEF WorkerInv, Working, At, JobOf, RowOf, TokenOf
  <1>3. JobInv(j)'
    <2>1. rows[j].manifest = None /\ ChecksOK(rows[j])
      BY AttendedUnpublished, InvParts DEF RowOf, JobInv
    <2> QED BY <1>1, <2>1 DEF JobInv
  <1> QED BY <1>1, <1>2, <1>3, InvParts, WorkerFrame

\* A step that leaves all tables and objects alone and stays at the job.
LEMMA LocalStep ==
  ASSUME PipelineInv, NEW w \in Workers, Working(w), NEW x \in WorkerStates,
         worker' = [worker EXCEPT ![w] = x],
         UNCHANGED <<rows, process, store, minted, request>>,
         x.at # "idle", x.job = JobOf(w), x.token = TokenOf(w),
         CopiesInv(w)', ProgressInv(w)'
  PROVE  PipelineInv'
  <1> PICK j \in Jobs : j = JobOf(w)
    BY AttendedUnpublished
  <1> QED BY InvParts, StoreStep DEF store

\* Going to a point before or after the ones a copy or a result is needed at.
LEMMA GotoStep ==
  ASSUME PipelineInv, NEW w \in Workers, Working(w),
         NEW p \in {"cancel", "open", "resolve", "persist", "except", "fail", "release"},
         Goto(w, p), UNCHANGED <<rows, process, store, minted, request>>
  PROVE  PipelineInv'
  <1> DEFINE x == [worker[w] EXCEPT !.at = p]
  <1>1. /\ x \in WorkerStates /\ worker' = [worker EXCEPT ![w] = x]
        /\ x.at = p /\ x.job = JobOf(w) /\ x.token = TokenOf(w)
    BY InvParts DEF Goto, WorkerStates, WorkerPoints, TryPoints, JobOf, TokenOf
  <1>2. CopiesInv(w)' /\ ProgressInv(w)'
    BY <1>1, InvParts DEF CopiesInv, ProgressInv, At, OpenPoints, FinalPoints, BasePoints,
       AfterTracks, AfterOverlay, AfterChunk, AfterManifest
  <1> QED BY <1>1, <1>2, LocalStep

\* A worker that lets go of its job and writes its row: as one without a
\* manifest, or with that of the results it has just stored.
LEMMA LeaveStep ==
  ASSUME PipelineInv, NEW w \in Workers, Working(w), GoIdle(w),
         NEW j \in Jobs, j = JobOf(w),
         NEW r \in Rows, ChecksOK(r), rows' = [rows EXCEPT ![j] = r],
         \/ r.manifest = None
         \/ /\ r.manifest = TokenOf(w) /\ r.state # "pending"
            /\ worker[w].at \in AfterManifest,
         UNCHANGED <<process, store, minted, request>>
  PROVE  PipelineInv'
  <1>1. /\ Idle \in WorkerStates /\ Idle.job = None /\ Idle.at = "idle"
    BY DEF Idle, WorkerStates, WorkerPoints, Attempts
  <1>2. /\ worker' = [worker EXCEPT ![w] = Idle] /\ worker'[w] = Idle
        /\ UNCHANGED <<tracks, chunk, overlay, manifest, request, process>>
        /\ rows'[j] = r
    BY InvParts DEF GoIdle, store
  <1>3. WorkerInv(w)'
    BY <1>1, <1>2 DEF WorkerInv, Working, At, JobOf
  <1>4. JobInv(j)'
    <2>1. CASE r.manifest = None
      BY <1>2, <2>1 DEF JobInv
    <2>2. CASE /\ r.manifest = TokenOf(w) /\ r.state # "pending"
               /\ worker[w].at \in AfterManifest
      <3>1. Unattended(j)'
        BY <1>1, <1>2, AttendedUnpublished, NoJobAssumption, InvParts DEF Unattended, JobOf
      <3>2. /\ tracks[j] = TokenOf(w) /\ overlay[j] = TokenOf(w)
            /\ chunk[j] = TokenOf(w) /\ manifest[j] = TokenOf(w)
        BY <2>2, InvParts
        DEF WorkerInv, ProgressInv, AfterTracks, AfterOverlay, AfterChunk, AfterManifest
      <3> QED BY <1>2, <2>2, <3>1, <3>2 DEF JobInv, Published
    <2> QED BY <2>1, <2>2
  <1> QED BY <1>1, <1>2, <1>3, <1>4, InvParts, WorkerFrame

\* What a worker knows of the row and of its own name at its job.
LEMMA AtWork ==
  ASSUME PipelineInv, NEW w \in Workers, Working(w)
  PROVE  /\ RowOf(w) \in Rows /\ ChecksOK(RowOf(w)) /\ RowOf(w).manifest = None
         /\ RowOf(w).state # "pending"
         /\ TokenOf(w) \in Tokens /\ TokenOf(w) # None /\ CopiesInv(w) /\ ProgressInv(w)
         /\ worker[w] \in WorkerStates
  BY AttendedUnpublished, InvParts, NoneAssumption DEF WorkerInv, JobInv, RowOf

\* The ends of an attempt: cancelled before it starts, given up, handed back.
LEMMA EndStep ==
  ASSUME PipelineInv, NEW w \in Workers,
         CancelBeforeStart(w) \/ GiveUp(w) \/ HandBack(w) \/ Crash(w)
  PROVE  PipelineInv'
  <1>1. Working(w) /\ GoIdle(w) /\ UNCHANGED <<process, store, minted, request>>
    BY DEF CancelBeforeStart, GiveUp, HandBack, Crash, Working, At
  <1> PICK j \in Jobs : j = JobOf(w)
    BY <1>1, AttendedUnpublished
  <1>2. /\ rows[j] \in Rows /\ ChecksOK(rows[j]) /\ rows[j].manifest = None
        /\ rows = [rows EXCEPT ![j] = rows[j]]
    BY <1>1, AtWork, InvParts DEF RowOf
  <1>3. ASSUME NEW s \in {MarkedCancelled(rows[j]), Released(rows[j]), rows[j],
                          MarkedFailed(rows[j], "WORKER_EXECUTION_FAILED")}
        PROVE  s \in Rows /\ ChecksOK(s) /\ s.manifest = None
    <2>1. CASE s = MarkedCancelled(rows[j])
      BY <1>2, <2>1, QueueWritesOK, MarkedCancelledRow
    <2>2. CASE s = Released(rows[j])
      BY <1>2, <2>2, QueueWritesOK, RequeuedRow, RowConstants DEF Released
    <2>3. CASE s = MarkedFailed(rows[j], "WORKER_EXECUTION_FAILED")
      BY <1>2, <2>3, QueueWritesOK, MarkedFailedRow, RowConstants
    <2> QED BY <1>2, <2>1, <2>2, <2>3
  <1>4. PICK s \in {MarkedCancelled(rows[j]), Released(rows[j]), rows[j],
                    MarkedFailed(rows[j], "WORKER_EXECUTION_FAILED")} :
          rows' = [rows EXCEPT ![j] = s]
    BY <1>2 DEF CancelBeforeStart, GiveUp, HandBack, Crash, RowOf
  <1> QED BY <1>1, <1>3, <1>4, LeaveStep

\* A unit of work that writes its copy back: the row is merged and the worker
\* goes on, or the table refuses it.
LEMMA CommitOpenStep ==
  ASSUME PipelineInv, NEW w \in Workers, CommitOpen(w)
  PROVE  PipelineInv'
  <1>1. /\ Working(w) /\ worker[w].at = "openCommit"
        /\ UNCHANGED <<process, store, minted, request>>
    BY DEF CommitOpen, Working, At
  <1> PICK j \in Jobs : j = JobOf(w)
    BY <1>1, AttendedUnpublished
  <1> DEFINE r == Merged(rows[j], worker[w].base, worker[w].copy)
  <1>2. /\ worker[w].copy \in Rows /\ worker[w].base \in Rows
        /\ worker[w].copy.manifest = None /\ worker[w].copy.state # "pending"
        /\ rows[j] \in Rows /\ rows[j].manifest = None /\ rows[j].state # "pending"
    BY <1>1, AtWork DEF CopiesInv, OpenPoints, BasePoints, RowOf
  <1>3. r \in Rows /\ r.manifest = None /\ r.state # "pending"
    BY <1>2, MergedRow
  <1>4. CASE ~ChecksOK(r)
    BY <1>1, <1>4, GotoStep DEF CommitOpen, CommitUpdate, RowOf
  <1>5. CASE ChecksOK(r) /\ GoIdle(w) /\ rows' = [rows EXCEPT ![j] = r]
    BY <1>1, <1>3, <1>5, LeaveStep
  <1>6. CASE ChecksOK(r) /\ Goto(w, "resolve") /\ rows' = [rows EXCEPT ![j] = r]
    <2> DEFINE x == [worker[w] EXCEPT !.at = "resolve"]
    <2>1. /\ x \in WorkerStates /\ worker' = [worker EXCEPT ![w] = x]
          /\ worker'[w] = x
          /\ x.at = "resolve" /\ x.job = j /\ x.token = TokenOf(w)
          /\ rows'[j] = r
          /\ UNCHANGED <<tracks, chunk, overlay, manifest, request, process>>
      BY <1>1, <1>6, InvParts
      DEF Goto, WorkerStates, WorkerPoints, TryPoints, JobOf, TokenOf, store
    <2>2. WorkerInv(w)'
      BY <1>1, <1>3, <2>1, AtWork
      DEF WorkerInv, Working, At, JobOf, RowOf, TokenOf, CopiesInv, ProgressInv,
          OpenPoints, FinalPoints, BasePoints, AfterTracks, AfterOverlay, AfterChunk, AfterManifest
    <2>3. JobInv(j)'
      BY <1>3, <1>6, <2>1 DEF JobInv
    <2> QED BY <1>1, <1>3, <1>6, <2>1, <2>2, <2>3, InvParts, WorkerFrame
  <1> QED BY <1>1, <1>4, <1>5, <1>6 DEF CommitOpen, CommitUpdate, RowOf

LEMMA CommitFinalStep ==
  ASSUME PipelineInv, NEW w \in Workers, CommitFinal(w)
  PROVE  PipelineInv'
  <1>1. /\ Working(w) /\ worker[w].at = "finalCommit"
        /\ UNCHANGED <<process, store, minted, request>>
    BY DEF CommitFinal, Working, At
  <1> PICK j \in Jobs : j = JobOf(w)
    BY <1>1, AttendedUnpublished
  <1> DEFINE r == Merged(rows[j], worker[w].base, worker[w].copy)
  <1>2. /\ worker[w].copy \in Rows /\ worker[w].base \in Rows
        /\ worker[w].copy.manifest = TokenOf(w) /\ worker[w].copy.state # "pending"
        /\ rows[j] \in Rows /\ rows[j].manifest = None /\ rows[j].state # "pending"
    BY <1>1, AtWork DEF CopiesInv, FinalPoints, BasePoints, RowOf
  <1>3. r \in Rows /\ r.manifest \in {None, TokenOf(w)} /\ r.state # "pending"
    BY <1>2, MergedRow
  <1>4. CASE ~ChecksOK(r)
    BY <1>1, <1>4, GotoStep DEF CommitFinal, CommitUpdate, RowOf
  <1>5. CASE ChecksOK(r)
    <2>1. GoIdle(w) /\ rows' = [rows EXCEPT ![j] = r]
      BY <1>5 DEF CommitFinal, CommitUpdate, RowOf
    <2> QED BY <1>1, <1>3, <1>5, <2>1, LeaveStep DEF AfterManifest, FinalPoints
  <1> QED BY <1>4, <1>5

\* The copies process() makes: cancelled, moved on, and completed.
LEMMA CopiedRow ==
  ASSUME NEW r \in Rows, NEW t \in Tokens
  PROVE  /\ CancelledOpening(r) \in Rows /\ Opened(r) \in Rows /\ Completed(r, t) \in Rows
         /\ CancelledOpening(r).state = "cancelled" /\ CancelledOpening(r).stage = "cleanup"
         /\ Opened(r).state = r.state
         /\ Completed(r, t).state = "completed"
         /\ CancelledOpening(r).manifest = r.manifest /\ Opened(r).manifest = r.manifest
         /\ Completed(r, t).manifest = t
         /\ CancelledOpening(r).attempts = r.attempts /\ Opened(r).attempts = r.attempts
         /\ Completed(r, t).attempts = r.attempts
  <1>1. {"cancelled", "completed"} \subseteq States
        /\ {"cleanup", "track_reconcile", "finalize"} \subseteq Stages
    BY DEF States, Stages
  <1>2. CancelledOpening(r) \in Rows
    BY <1>1 DEF Rows, ClearLease, CancelledOpening
  <1>3. Opened(r) \in Rows
    BY <1>1 DEF Rows, Opened
  <1>4. Completed(r, t) \in Rows
    BY <1>1 DEF Rows, ClearLease, Completed
  <1> QED BY <1>2, <1>3, <1>4 DEF Rows, ClearLease, CancelledOpening, Opened, Completed

\* The units of work that read the row into a copy, and the second reads.
LEMMA ReadStep ==
  ASSUME PipelineInv, NEW w \in Workers,
         \/ OpenJob(w) \/ FinishJob(w)
         \/ Reselect(w, "openMerge", "openCommit") \/ Reselect(w, "finalMerge", "complete")
  PROVE  PipelineInv'
  <1>1. Working(w) /\ UNCHANGED <<rows, process, store, minted, request>>
    BY DEF OpenJob, FinishJob, Reselect, Working, At
  <1>2. /\ RowOf(w) \in Rows /\ RowOf(w).manifest = None /\ RowOf(w).state # "pending"
        /\ TokenOf(w) \in Tokens /\ CopiesInv(w) /\ ProgressInv(w)
        /\ worker[w] \in WorkerStates
    BY <1>1, AtWork
  <1> DEFINE r == RowOf(w)
  <1>3. \A s \in {CancelledOpening(r), Opened(r)} :
          s \in Rows /\ s.state # "pending" /\ s.manifest = None
    BY <1>2, CopiedRow
  <1>4. ASSUME OpenJob(w)
        PROVE  PipelineInv'
    <2> DEFINE c == IF r.cancelReq /\ Leased(r) THEN CancelledOpening(r) ELSE Opened(r)
               x == [worker[w] EXCEPT !.at = "openMerge", !.copy = c]
    <2>1. c \in Rows /\ c.state # "pending" /\ c.manifest = None
      BY <1>3
    <2>2. worker' = [worker EXCEPT ![w] = x]
      BY <1>4, InvParts DEF OpenJob
    <2> HIDE DEF c
    <2>3. /\ x \in WorkerStates
          /\ x.at = "openMerge" /\ x.job = JobOf(w) /\ x.token = TokenOf(w) /\ x.copy = c
      BY <1>2, <2>1 DEF WorkerStates, WorkerPoints, TryPoints, JobOf, TokenOf
    <2>5. worker'[w] = x
      BY <2>2, InvParts
    <2>4. CopiesInv(w)' /\ ProgressInv(w)'
      BY <2>1, <2>3, <2>5 DEF CopiesInv, ProgressInv, At, OpenPoints, FinalPoints, BasePoints,
         AfterTracks, AfterOverlay, AfterChunk, AfterManifest
    <2> QED BY <1>1, <2>2, <2>3, <2>4, LocalStep
  <1>5. ASSUME FinishJob(w)
        PROVE  PipelineInv'
    <2> DEFINE c == Completed(r, TokenOf(w))
               x == [worker[w] EXCEPT !.at = "finalMerge", !.copy = c]
    <2>1. c \in Rows /\ c.state # "pending" /\ c.manifest = TokenOf(w)
      BY <1>2, CopiedRow
    <2>2. worker' = [worker EXCEPT ![w] = x] /\ worker[w].at = "final"
      BY <1>5, InvParts DEF FinishJob, At
    <2> HIDE DEF c
    <2>3. /\ x \in WorkerStates /\ worker'[w] = x
          /\ x.at = "finalMerge" /\ x.job = JobOf(w) /\ x.token = TokenOf(w) /\ x.copy = c
      BY <2>1, <2>2, InvParts DEF WorkerStates, WorkerPoints, TryPoints, JobOf, TokenOf
    <2>4. CopiesInv(w)' /\ ProgressInv(w)'
      BY <1>1, <1>2, <2>1, <2>2, <2>3 DEF CopiesInv, ProgressInv, At, OpenPoints, FinalPoints,
         BasePoints, AfterTracks, AfterOverlay, AfterChunk, AfterManifest, store, JobOf, TokenOf
    <2> QED BY <1>1, <2>2, <2>3, <2>4, LocalStep
  <1>6. ASSUME NEW p \in {"openMerge", "finalMerge"}, NEW q \in {"openCommit", "complete"},
               Reselect(w, p, q), p = "openMerge" <=> q = "openCommit"
        PROVE  PipelineInv'
    <2> DEFINE x == [worker[w] EXCEPT !.at = q, !.base = r]
    <2>2. worker' = [worker EXCEPT ![w] = x] /\ worker[w].at = p
      BY <1>6, InvParts DEF Reselect, At
    <2>3. /\ x \in WorkerStates /\ worker'[w] = x /\ x.copy = worker[w].copy
          /\ x.at = q /\ x.job = JobOf(w) /\ x.token = TokenOf(w) /\ x.base = r
      BY <1>2, <2>2, InvParts DEF WorkerStates, WorkerPoints, TryPoints, JobOf, TokenOf
    <2>4. CopiesInv(w)' /\ ProgressInv(w)'
      BY <1>1, <1>2, <1>6, <2>2, <2>3 DEF CopiesInv, ProgressInv, At, OpenPoints, FinalPoints,
         BasePoints, AfterTracks, AfterOverlay, AfterChunk, AfterManifest, store, JobOf, TokenOf
    <2> QED BY <1>1, <2>2, <2>3, <2>4, LocalStep
  <1> QED BY <1>4, <1>5, <1>6

\* The reads that only decide where to go, and exceptions.
LEMMA DecideStep ==
  ASSUME PipelineInv, NEW w \in Workers,
         CheckCancelled(w) \/ HandleException(w) \/ Raise(w)
  PROVE  PipelineInv'
  <1>1. Working(w) /\ UNCHANGED <<rows, process, store, minted, request>>
    BY DEF CheckCancelled, HandleException, Raise, Working, At, TryPoints
  <1>2. PICK p \in {"cancel", "open", "except", "fail", "release"} : Goto(w, p)
    BY DEF CheckCancelled, HandleException, Raise
  <1> QED BY <1>1, <1>2, GotoStep

\* The identities of the tracks: the process record is read and written.
LEMMA IdentitiesStep ==
  ASSUME PipelineInv, NEW w \in Workers,
         ResolveIdentities(w) \/ IdentityResolved(w) \/ ResolutionFails(w)
  PROVE  PipelineInv'
  <1>1. Working(w) /\ UNCHANGED <<rows, store, minted, request>>
    BY DEF ResolveIdentities, IdentityResolved, ResolutionFails, Working, At
  <1> PICK j \in Jobs : j = JobOf(w)
    BY <1>1, AttendedUnpublished
  <1> DEFINE x(p, seen) == [worker[w] EXCEPT !.at = p, !.seen = seen]
  <1>2. ASSUME NEW p \in {"resolveSave", "persist", "except"},
               NEW seen \in ProcessStates \cup {None}, p = "resolveSave" => seen \in ProcessStates,
               worker' = [worker EXCEPT ![w] = x(p, seen)], process' \in [Jobs -> ProcessStates]
        PROVE  PipelineInv'
    <2>1. /\ x(p, seen) \in WorkerStates /\ worker'[w] = x(p, seen)
          /\ x(p, seen).at = p /\ x(p, seen).job = j /\ x(p, seen).token = TokenOf(w)
          /\ x(p, seen).seen = seen
      BY <1>2, InvParts DEF WorkerStates, WorkerPoints, TryPoints, JobOf, TokenOf
    <2>2. CopiesInv(w)' /\ ProgressInv(w)'
      BY <1>2, <2>1 DEF CopiesInv, ProgressInv, At, OpenPoints, FinalPoints, BasePoints,
         AfterTracks, AfterOverlay, AfterChunk, AfterManifest
    <2>3. x(p, seen).at # "idle"
      BY <2>1
    <2> HIDE DEF x
    <2> QED BY <1>1, <1>2, <2>1, <2>2, <2>3, InvParts, StoreStep DEF store
  <1>3. CASE Goto(w, "persist") /\ UNCHANGED process
    BY <1>1, <1>3, GotoStep
  <1>4. CASE worker' = [worker EXCEPT ![w].at = "resolveSave", ![w].seen = process[JobOf(w)]]
             /\ UNCHANGED process
    <2>1. process[j] \in ProcessStates /\ worker' = [worker EXCEPT ![w] = x("resolveSave", process[j])]
      BY <1>4, InvParts
    <2> QED BY <1>2, <1>4, <2>1, InvParts
  <1>5. CASE IdentityResolved(w)
    <2>1. worker[w].seen \in ProcessStates
      BY <1>1, <1>5, AtWork DEF CopiesInv, IdentityResolved, At
    <2>2. worker' = [worker EXCEPT ![w] = x("persist", None)]
          /\ process' \in [Jobs -> ProcessStates]
      BY <1>5, <2>1, InvParts DEF IdentityResolved
    <2> QED BY <1>2, <2>2
  <1>6. CASE ResolutionFails(w)
    <2>1. worker' = [worker EXCEPT ![w] = x("except", None)]
          /\ process' \in [Jobs -> ProcessStates]
      BY <1>6, InvParts DEF ResolutionFails, ProcessStates
    <2> QED BY <1>2, <2>1
  <1> QED BY <1>3, <1>4, <1>5, <1>6 DEF ResolveIdentities

\* The writes of the results: each belongs to the attempt, in their order.
LEMMA ResultStep ==
  ASSUME PipelineInv, NEW w \in Workers,
         \/ PersistTracks(w) \/ UploadOverlay(w) \/ AddChunk(w) \/ UploadManifest(w)
         \/ LoadProcess(w) \/ CompleteProcess(w)
  PROVE  PipelineInv'
  <1>1. Working(w) /\ UNCHANGED <<rows, minted, request>>
    BY DEF PersistTracks, UploadOverlay, AddChunk, UploadManifest, LoadProcess,
       CompleteProcess, Working, At
  <1> PICK j \in Jobs : j = JobOf(w)
    BY <1>1, AttendedUnpublished
  <1> DEFINE t == TokenOf(w)
             x(p) == [worker[w] EXCEPT !.at = p]
  <1>2. t \in Attempts /\ None \in Attempts
    BY <1>1, AtWork DEF Attempts
  <1>3. ASSUME NEW p \in WorkerPoints
        PROVE  /\ x(p) \in WorkerStates /\ x(p).at = p
               /\ x(p).job = j /\ x(p).token = t
               /\ x(p).copy = worker[w].copy /\ x(p).base = worker[w].base
               /\ Goto(w, p) => worker' = [worker EXCEPT ![w] = x(p)] /\ worker'[w] = x(p)
    BY InvParts DEF WorkerStates, JobOf, TokenOf, Goto
  <1>4. /\ process' \in [Jobs -> ProcessStates]
        /\ tracks' \in [Jobs -> Attempts] /\ \A k \in Jobs \ {j} : tracks'[k] = tracks[k]
        /\ chunk' \in [Jobs -> Attempts] /\ \A k \in Jobs \ {j} : chunk'[k] = chunk[k]
        /\ overlay' \in [Jobs -> Attempts] /\ \A k \in Jobs \ {j} : overlay'[k] = overlay[k]
        /\ manifest' \in [Jobs -> Attempts] /\ \A k \in Jobs \ {j} : manifest'[k] = manifest[k]
    BY <1>2, InvParts DEF PersistTracks, UploadOverlay, AddChunk, UploadManifest, LoadProcess,
       CompleteProcess, ProcessStates, store
  <1>5. PICK p \in {"overlay", "chunk", "manifest", "final", "completeSave", "finalCommit", "except"} :
          /\ Goto(w, p)
          /\ p = "overlay" => tracks'[j] = t
          /\ p = "chunk" => tracks'[j] = t /\ overlay'[j] = t
          /\ p = "manifest" => tracks'[j] = t /\ overlay'[j] = t /\ chunk'[j] = t
          /\ p = "final" =>
               tracks'[j] = t /\ overlay'[j] = t /\ chunk'[j] = t /\ manifest'[j] = t
          /\ p = "completeSave" => worker[w].at = "complete" /\ UNCHANGED store
          /\ p = "finalCommit" => worker[w].at = "completeSave" /\ UNCHANGED store
    <2>1. ProgressInv(w)
      BY <1>1, AtWork
    <2>2. CASE PersistTracks(w)
      BY <2>2, InvParts DEF PersistTracks
    <2>3. CASE UploadOverlay(w)
      BY <2>1, <2>3, InvParts DEF UploadOverlay, ProgressInv, At, AfterTracks
    <2>4. CASE AddChunk(w)
      BY <2>1, <2>4, InvParts DEF AddChunk, ProgressInv, At, AfterTracks, AfterOverlay
    <2>5. CASE UploadManifest(w)
      BY <2>1, <2>5, InvParts
      DEF UploadManifest, ProgressInv, At, AfterTracks, AfterOverlay, AfterChunk
    <2>6. CASE LoadProcess(w)
      BY <2>6 DEF LoadProcess, At
    <2>7. CASE CompleteProcess(w)
      BY <2>7 DEF CompleteProcess, At
    <2> QED BY <2>2, <2>3, <2>4, <2>5, <2>6, <2>7
  <1>6. /\ x(p) \in WorkerStates /\ x(p).at = p /\ x(p).job = j /\ x(p).token = t
        /\ x(p).copy = worker[w].copy /\ x(p).base = worker[w].base
        /\ worker' = [worker EXCEPT ![w] = x(p)] /\ worker'[w] = x(p)
        /\ p # "idle"
    BY <1>3, <1>5 DEF WorkerPoints, TryPoints
  <1> HIDE DEF x
  <1>7. ProgressInv(w)'
    <2>1. ProgressInv(w)
      BY <1>1, AtWork
    <2> QED BY <1>5, <1>6, <2>1 DEF ProgressInv, AfterTracks, AfterOverlay, AfterChunk,
            AfterManifest, FinalPoints, JobOf, TokenOf, store
  <1>8. CopiesInv(w)'
    <2>1. CopiesInv(w)
      BY <1>1, AtWork
    <2> QED BY <1>5, <1>6, <2>1 DEF CopiesInv, OpenPoints, FinalPoints, BasePoints, At,
            TokenOf
  <1> QED BY <1>1, <1>4, <1>6, <1>7, <1>8, StoreStep

\* A claim: the job is queued, so that no worker is at it and nothing of it is
\* published; its token names the new attempt.
LEMMA ClaimStep ==
  ASSUME PipelineInv, NEW w \in Workers, NEW j \in Jobs, NEW t \in Tokens, Claim(w, j, t)
  PROVE  PipelineInv'
  <1> DEFINE r == Claimed(rows[j], NameOf[w], t)
             x == [Idle EXCEPT !.at = "start", !.job = j, !.token = t]
  <1>1. /\ At(w, "idle") /\ rows[j].state = "pending" /\ rows[j] \in Rows
        /\ ChecksOK(rows[j]) /\ NameOf[w] \in Names /\ Claimable(rows[j])
    BY InvParts, NameAssumption DEF Claim, Claimable, JobInv
  <1>2. r \in Rows /\ ChecksOK(r) /\ r.state = "processing" /\ r.manifest = rows[j].manifest
    BY <1>1, ClaimedRow, QueueWritesOK
  <1>3. /\ \A s : ~Published(j, s)
        /\ rows[j].manifest = None
        /\ \A v \in Workers : JobOf(v) # j
    <2>1. \A s : ~Published(j, s)
      BY <1>1 DEF Published
    <2>2. \A v \in Workers : JobOf(v) # j
      BY <1>1, InvParts, NoJobAssumption DEF WorkerInv, RowOf
    <2> QED BY <2>1, <2>2, InvParts DEF JobInv
  <1>4. /\ x \in WorkerStates /\ x.at = "start" /\ x.job = j /\ x.token = t
    BY DEF Idle, WorkerStates, WorkerPoints, TryPoints, Attempts
  <1>5. /\ worker' = [worker EXCEPT ![w] = x] /\ worker'[w] = x
        /\ \A v \in Workers \ {w} : worker'[v] = worker[v]
        /\ rows' = [rows EXCEPT ![j] = r] /\ rows'[j] = r
        /\ \A k \in Jobs \ {j} : rows'[k] = rows[k]
        /\ minted' \subseteq Tokens
        /\ UNCHANGED <<process, tracks, chunk, overlay, manifest, request>>
    BY InvParts DEF Claim, store
  <1> HIDE DEF x, r
  <1>6. TypeOK'
    BY <1>2, <1>4, <1>5, InvParts DEF TypeOK
  <1>7. JobExclusive'
    BY <1>3, <1>4, <1>5 DEF JobExclusive, PipelineInv, JobOf
  <1>8. ASSUME NEW k \in Jobs, NEW s, Published(k, s)
        PROVE  Published(k, s)'
    BY <1>3, <1>4, <1>5, <1>8 DEF Published, Unattended, JobOf
  <1>9. ASSUME NEW k \in Jobs
        PROVE  JobInv(k)'
    <2>1. CASE k = j
      BY <2>1, <1>2, <1>3, <1>5 DEF JobInv
    <2>2. CASE k # j
      BY <2>2, <1>5, <1>8, InvParts DEF JobInv
    <2> QED BY <2>1, <2>2
  <1>10. ASSUME NEW v \in Workers
         PROVE  WorkerInv(v)'
    <2>1. CASE v = w
      BY <2>1, <1>2, <1>3, <1>4, <1>5
      DEF WorkerInv, Working, At, JobOf, RowOf, TokenOf, CopiesInv, ProgressInv, OpenPoints,
          FinalPoints, BasePoints, AfterTracks, AfterOverlay, AfterChunk, AfterManifest
    <2>2. CASE v # w
      <3>1. WorkerInv(v) /\ worker'[v] = worker[v] /\ JobOf(v) # j
        BY <1>3, <1>5, <2>2, InvParts
      <3>2. CASE At(v, "idle")
        BY <3>1, <3>2 DEF WorkerInv, Working, At, JobOf
      <3>3. CASE ~At(v, "idle")
        <4>1. JobOf(v) \in Jobs /\ rows'[JobOf(v)] = rows[JobOf(v)]
          BY <3>1, <3>3, <1>5 DEF WorkerInv, Working
        <4> QED BY <3>1, <3>3, <4>1, <1>5
            DEF WorkerInv, Working, At, JobOf, RowOf, TokenOf, CopiesInv, ProgressInv
      <3> QED BY <3>2, <3>3
    <2> QED BY <2>1, <2>2
  <1>11. ASSUME NEW c \in Requests
         PROVE  RequestInv(c)'
    BY <1>5, <1>8, InvParts DEF RequestInv
  <1> QED BY <1>6, <1>7, <1>9, <1>10, <1>11 DEF PipelineInv

-----------------------------------------------------------------------------
(* The steps of the cancel calls, and of time.                             *)

\* A cancel call that only changes what it remembers.
LEMMA RequestFrame ==
  ASSUME PipelineInv, NEW c \in Requests, NEW q \in RequestStates,
         request' = [request EXCEPT ![c] = q],
         UNCHANGED <<rows, process, store, minted, worker>>,
         RequestInv(c)'
  PROVE  PipelineInv'
  <1>1. UNCHANGED <<rows, process, tracks, chunk, overlay, manifest, minted, worker>>
    BY DEF store
  <1>2. TypeOK'
    BY <1>1, InvParts DEF TypeOK
  <1>3. \A j \in Jobs : \A t : Published(j, t) => Published(j, t)'
    BY <1>1 DEF Published, Unattended, JobOf
  <1>4. JobExclusive' /\ (\A j \in Jobs : JobInv(j)') /\ (\A w \in Workers : WorkerInv(w)')
    BY <1>1, InvParts DEF PipelineInv, JobExclusive, JobInv, WorkerInv, Working, At, JobOf, RowOf,
       TokenOf, CopiesInv, ProgressInv, Published, Unattended
  <1>5. ASSUME NEW d \in Requests
        PROVE  RequestInv(d)'
    <2>1. CASE d = c
      BY <2>1
    <2>2. CASE d # c
      BY <2>2, <1>3, InvParts DEF RequestInv
    <2> QED BY <2>1, <2>2
  <1> QED BY <1>2, <1>4, <1>5 DEF PipelineInv

LEMMA CancelledCopyRow ==
  ASSUME NEW r \in Rows
  PROVE  /\ CancelledCopy(r) \in Rows /\ CancelledCopy(r).state # "pending"
         /\ CancelledCopy(r).manifest = r.manifest
  <1>1. r.version + 1 \in Nat /\ {"cancelled", "cancelling"} \subseteq States
    BY Counters, RowConstants
  <1>2. CASE r.state = "pending"
    BY <1>1, <1>2 DEF CancelledCopy, Rows
  <1>3. CASE r.state = "processing"
    BY <1>1, <1>3 DEF CancelledCopy, Rows
  <1>4. CASE r.state \notin {"pending", "processing"}
    BY <1>1, <1>4 DEF CancelledCopy, Rows
  <1> QED BY <1>2, <1>3, <1>4

LEMMA NewRequestDone ==
  [NewRequest EXCEPT !.at = "done"] \in RequestStates
  BY DEF NewRequest, RequestStates

LEMMA CancelLoadStep ==
  ASSUME PipelineInv, NEW c \in Requests, NEW j \in Jobs, CancelLoad(c, j)
  PROVE  PipelineInv'
  <1> DEFINE q == [at |-> "merge", job |-> j, wasPending |-> rows[j].state = "pending",
                   copy |-> CancelledCopy(rows[j]), base |-> None]
  <1>1. /\ CancelledCopy(rows[j]) \in Rows /\ CancelledCopy(rows[j]).state # "pending"
        /\ CancelledCopy(rows[j]).manifest = rows[j].manifest
    BY InvParts, CancelledCopyRow
  <1>2. /\ q \in RequestStates /\ request' = [request EXCEPT ![c] = q] /\ request'[c] = q
        /\ q.at = "merge" /\ q.job = j /\ q.copy = CancelledCopy(rows[j])
    BY <1>1, InvParts DEF CancelLoad, RequestStates
  <1>3. UNCHANGED <<rows, process, store, minted, worker>>
    BY DEF CancelLoad
  <1>4. /\ q.copy.manifest # None => Published(j, q.copy.manifest)
        /\ \A t : Published(j, t) => Published(j, t)'
    BY <1>1, <1>2, <1>3, InvParts DEF JobInv, Published, Unattended, JobOf, store
  <1> HIDE DEF q
  <1>5. RequestInv(c)'
    BY <1>1, <1>2, <1>4 DEF RequestInv
  <1> QED BY <1>2, <1>3, <1>5, RequestFrame

LEMMA CancelReselectStep ==
  ASSUME PipelineInv, NEW c \in Requests, CancelReselect(c)
  PROVE  PipelineInv'
  <1> PICK j \in Jobs : j = request[c].job
    BY InvParts DEF CancelReselect, RequestInv
  <1> DEFINE q == [request[c] EXCEPT !.at = "commit", !.base = rows[j]]
  <1>1. UNCHANGED <<rows, process, store, minted, worker>>
    BY DEF CancelReselect
  <1>2. /\ q \in RequestStates /\ request' = [request EXCEPT ![c] = q] /\ request'[c] = q
        /\ q.at = "commit" /\ q.job = j /\ q.copy = request[c].copy /\ q.base = rows[j]
        /\ rows[j] \in Rows
    BY InvParts DEF CancelReselect, RequestStates
  <1>3. RequestInv(c) /\ request[c].at = "merge"
    BY InvParts DEF CancelReselect
  <1>4. \A t : Published(j, t) => Published(j, t)'
    BY <1>1 DEF Published, Unattended, JobOf, store
  <1> HIDE DEF q
  <1>5. RequestInv(c)'
    BY <1>1, <1>2, <1>3, <1>4 DEF RequestInv
  <1> QED BY <1>1, <1>2, <1>5, RequestFrame

LEMMA CancelFlushStep ==
  ASSUME PipelineInv, NEW c \in Requests, CancelFlush(c)
  PROVE  PipelineInv'
  <1>1. request[c].at = "commit" /\ UNCHANGED <<rows, process, store, minted, worker>>
    BY DEF CancelFlush
  <1>2. CASE request' = [request EXCEPT ![c] = [NewRequest EXCEPT !.at = "done"]]
    <2>1. request'[c].at = "done"
      BY <1>2, InvParts DEF NewRequest
    <2>2. RequestInv(c)'
      BY <2>1 DEF RequestInv
    <2> QED BY <1>1, <1>2, <2>2, NewRequestDone, RequestFrame
  <1>3. CASE request' = [request EXCEPT ![c].at = "process"]
    <2> DEFINE q == [request[c] EXCEPT !.at = "process"]
    <2>1. /\ q \in RequestStates /\ request' = [request EXCEPT ![c] = q] /\ request'[c] = q
          /\ q.at = "process" /\ q.job = request[c].job /\ q.copy = request[c].copy
          /\ q.base = request[c].base
      BY <1>3, InvParts DEF RequestStates
    <2>2. RequestInv(c)
      BY InvParts
    <2>3. \A j, t : Published(j, t) => Published(j, t)'
      BY <1>1 DEF Published, Unattended, JobOf, store
    <2> HIDE DEF q
    <2>4. RequestInv(c)'
      BY <1>1, <2>1, <2>2, <2>3 DEF RequestInv
    <2> QED BY <1>1, <2>1, <2>4, RequestFrame
  <1> QED BY <1>2, <1>3 DEF CancelFlush

LEMMA CancelCommitStep ==
  ASSUME PipelineInv, NEW c \in Requests, CancelCommit(c)
  PROVE  PipelineInv'
  <1>1. /\ request[c].at \in {"commit", "process"}
        /\ request' = [request EXCEPT ![c] = [NewRequest EXCEPT !.at = "done"]]
        /\ UNCHANGED <<store, minted, worker>>
    BY DEF CancelCommit
  <1> PICK j \in Jobs : j = request[c].job
    BY <1>1, InvParts DEF RequestInv
  <1> DEFINE r == Merged(rows[j], request[c].base, request[c].copy)
  <1>2. /\ request' \in [Requests -> RequestStates]
        /\ \A d \in Requests : request'[d] = request[d] \/ request'[d].at = "done"
    BY <1>1, InvParts, NewRequestDone DEF NewRequest
  <1>3. /\ request[c].copy \in Rows
        /\ request[c].copy.state # "pending"
        /\ request[c].copy.manifest # None => Published(j, request[c].copy.manifest)
        /\ request[c].base \in Rows /\ rows[j] \in Rows /\ ChecksOK(rows[j])
    BY <1>1, InvParts DEF RequestInv, JobInv
  <1>4. /\ r \in Rows
        /\ r.state = "pending" => rows[j].state = "pending"
        /\ r.manifest \notin {None, rows[j].manifest} => Published(j, r.manifest)
    BY <1>3, MergedRow
  <1>5. CASE ChecksOK(r) /\ rows' = [rows EXCEPT ![j] = r]
             /\ process' \in [Jobs -> ProcessStates]
    <2> HIDE DEF r
    <2> QED BY <1>1, <1>2, <1>4, <1>5, RowFrame
  <1>6. CASE UNCHANGED <<rows, process>>
    <2>1. rows' = [rows EXCEPT ![j] = rows[j]]
      BY <1>6, InvParts
    <2> QED BY <1>1, <1>2, <1>3, <1>6, <2>1, InvParts, RowFrame
  <1>7. \/ ChecksOK(r) /\ rows' = [rows EXCEPT ![j] = r] /\ process' \in [Jobs -> ProcessStates]
        \/ UNCHANGED <<rows, process>>
    BY InvParts DEF CancelCommit, ProcessStates
  <1> QED BY <1>5, <1>6, <1>7

LEMMA TimeStep ==
  ASSUME PipelineInv, NEW j \in Jobs, TimeNext(j)
  PROVE  PipelineInv'
  <1>1. /\ rows[j] \in Rows /\ ChecksOK(rows[j])
        /\ UNCHANGED <<process, store, minted, worker, request>>
    BY InvParts DEF JobInv, TimeNext, LeaseExpires, BackoffElapses
  <1>2. CASE LeaseExpires(j)
    <2> DEFINE r == [rows[j] EXCEPT !.expired = TRUE]
    <2>1. /\ r \in Rows /\ ChecksOK(r)
          /\ r.state = rows[j].state /\ r.manifest = rows[j].manifest
      BY <1>1, <1>2 DEF Rows, ChecksOK, Leased, LeaseExpires
    <2>2. rows' = [rows EXCEPT ![j] = r]
      BY <1>2, InvParts DEF LeaseExpires
    <2> HIDE DEF r
    <2> QED BY <1>1, <2>1, <2>2, InvParts, RowFrame
  <1>3. CASE BackoffElapses(j)
    <2> DEFINE r == [rows[j] EXCEPT !.due = TRUE]
    <2>1. /\ r \in Rows /\ ChecksOK(r)
          /\ r.state = rows[j].state /\ r.manifest = rows[j].manifest
      BY <1>1 DEF Rows, ChecksOK, Leased
    <2>2. rows' = [rows EXCEPT ![j] = r]
      BY <1>3, InvParts DEF BackoffElapses
    <2> HIDE DEF r
    <2> QED BY <1>1, <2>1, <2>2, InvParts, RowFrame
  <1> QED BY <1>2, <1>3 DEF TimeNext

-----------------------------------------------------------------------------
(* The theorems.                                                           *)

LEMMA InitInv == Init => PipelineInv
  <1> SUFFICES ASSUME Init PROVE PipelineInv
    OBVIOUS
  <1>1. /\ Idle \in WorkerStates /\ Idle.job = None /\ Idle.at = "idle"
        /\ NewRequest \in RequestStates /\ NewRequest.at = "new" /\ None \in Attempts
    BY DEF Idle, WorkerStates, WorkerPoints, Attempts, NewRequest, RequestStates
  <1>2. TypeOK
    BY <1>1, NewRowOK DEF Init, TypeOK, ProcessStates
  <1>3. JobExclusive /\ \A w \in Workers : WorkerInv(w)
    BY <1>1 DEF Init, JobExclusive, WorkerInv, Working, At, JobOf
  <1>4. \A j \in Jobs : JobInv(j)
    BY NewRowOK DEF Init, JobInv
  <1>5. \A c \in Requests : RequestInv(c)
    BY <1>1 DEF Init, RequestInv
  <1> QED BY <1>2, <1>3, <1>4, <1>5 DEF PipelineInv

LEMMA AdvanceStep ==
  ASSUME PipelineInv, NEW w \in Workers, Advance(w)
  PROVE  PipelineInv'
  BY DecideStep, EndStep, ReadStep, CommitOpenStep, IdentitiesStep, ResultStep, CommitFinalStep
  DEF Advance

LEMMA NextInv == PipelineInv /\ [Next]_vars => PipelineInv'
  <1> SUFFICES ASSUME PipelineInv, [Next]_vars PROVE PipelineInv'
    OBVIOUS
  <1>1. ASSUME NEW w \in Workers, WorkerNext(w) \/ Crash(w)
        PROVE  PipelineInv'
    BY <1>1, AdvanceStep, ClaimStep, DecideStep, EndStep DEF WorkerNext
  <1>2. ASSUME NEW c \in Requests, CancelNext(c)
        PROVE  PipelineInv'
    BY <1>2, CancelLoadStep, CancelReselectStep, CancelFlushStep, CancelCommitStep DEF CancelNext
  <1>3. ASSUME NEW j \in Jobs, TimeNext(j)
        PROVE  PipelineInv'
    BY <1>3, TimeStep
  <1>4. CASE UNCHANGED vars
    BY <1>4 DEF vars, store, PipelineInv, TypeOK, JobExclusive, JobInv, WorkerInv, RequestInv,
       Published, Unattended, Working, At, JobOf, RowOf, TokenOf, CopiesInv, ProgressInv
  <1> QED BY <1>1, <1>2, <1>3, <1>4 DEF Next

THEOREM PipelineInvariant == Spec => []PipelineInv
  BY InitInv, NextInv, PTL DEF Spec

\* Rows, records, results and memories stay well formed, whatever copies the
\* workers and the cancel calls write back.
THEOREM PipelineTypeCorrect == Spec => []TypeOK
  <1>1. PipelineInv => TypeOK
    BY DEF PipelineInv
  <1> QED BY <1>1, PipelineInvariant, PTL

\* No two workers are ever at one job, although process() and cancel_job write
\* old copies of the row back without looking at lease, state or version.
THEOREM JobsAreExclusive == Spec => []JobExclusive
  <1>1. PipelineInv => JobExclusive
    BY DEF PipelineInv
  <1> QED BY <1>1, PipelineInvariant, PTL

\* The tracks, the overlay and its row, and the manifest of a completed job are
\* all of the attempt its row names, whatever attempts failed before.
THEOREM ResultsAreOneAttempts == Spec => []OneAttemptResult
  <1>1. PipelineInv => OneAttemptResult
    BY CompletedNamesManifest DEF PipelineInv, JobInv, Published, OneAttemptResult
  <1> QED BY <1>1, PipelineInvariant, PTL

-----------------------------------------------------------------------------
(* Job and process record.  Until somebody cancels, the only writer of a     *)
(* job's row, other than time, is the worker at the job.                     *)

WorkerEnds(w) ==
  Working(w) =>
    /\ RowOf(w).state = "processing"
    /\ worker[w].at \in OpenPoints =>
         \/ worker[w].copy.state = "processing"
         \/ worker[w].copy.state = "cancelled" /\ worker[w].copy.stage = "cleanup"
    /\ worker[w].at \in FinalPoints => worker[w].copy.state = "completed"
    /\ At(w, "finalCommit") => process[JobOf(w)] = "completed"
    /\ At(w, "fail") => RowOf(w).attempts >= MaxAttempts

JobEnds(j) ==
  /\ rows[j].state = "completed" => process[j] = "completed"
  /\ rows[j].state = "failed" => rows[j].attempts >= MaxAttempts

EndsInv ==
  NoCancelCall => (\A w \in Workers : WorkerEnds(w)) /\ (\A j \in Jobs : JobEnds(j))

\* A step of one worker at its job leaves the others and their jobs alone.
LEMMA EndsFrame ==
  ASSUME PipelineInv, NoCancelCall, EndsInv,
         NEW w \in Workers, NEW j \in Jobs,
         IF Working(w) THEN j = JobOf(w) ELSE rows[j].state = "pending",
         \A v \in Workers \ {w} : worker'[v] = worker[v],
         \A k \in Jobs \ {j} : rows'[k] = rows[k] /\ process'[k] = process[k],
         WorkerEnds(w)', JobEnds(j)'
  PROVE  EndsInv'
  <1>1. ASSUME NEW v \in Workers
        PROVE  WorkerEnds(v)'
    <2>1. CASE v # w /\ Working(v)
      <3>1. WorkerEnds(v) /\ worker'[v] = worker[v]
        BY <2>1 DEF EndsInv
      <3>2. JobOf(v) \in Jobs \ {j}
        BY <2>1, <3>1, AttendedUnpublished, NoJobAssumption
        DEF PipelineInv, JobExclusive, WorkerEnds, RowOf
      <3>3. rows'[JobOf(v)] = rows[JobOf(v)] /\ process'[JobOf(v)] = process[JobOf(v)]
        BY <3>2
      <3> QED BY <3>1, <3>3 DEF WorkerEnds, Working, At, RowOf, JobOf
    <2>2. CASE v # w /\ ~Working(v)
      BY <2>2 DEF WorkerEnds, Working, At
    <2>3. CASE v = w
      BY <2>3
    <2> QED BY <2>1, <2>2, <2>3
  <1>2. \A k \in Jobs : JobEnds(k)'
    BY DEF EndsInv, JobEnds
  <1> QED BY <1>1, <1>2 DEF EndsInv

\* A worker that goes on at its job, and leaves row and record as they are.
LEMMA EndsGoto ==
  ASSUME PipelineInv, NoCancelCall, EndsInv,
         NEW w \in Workers, Working(w), NEW p \in WorkerPoints,
         worker' = [worker EXCEPT ![w].at = p],
         UNCHANGED <<rows, process>>,
         p \in OpenPoints => worker[w].at \in OpenPoints,
         p \in FinalPoints => worker[w].at \in FinalPoints,
         p = "finalCommit" => process[JobOf(w)] = "completed",
         p = "fail" => RowOf(w).attempts >= MaxAttempts
  PROVE  EndsInv'
  <1> PICK j \in Jobs : j = JobOf(w)
    BY AttendedUnpublished
  <1>1. /\ worker'[w].at = p /\ worker'[w].job = j
        /\ worker'[w].copy = worker[w].copy
        /\ \A v \in Workers \ {w} : worker'[v] = worker[v]
    BY InvParts DEF WorkerStates, JobOf
  <1>2. WorkerEnds(w) /\ JobEnds(j)
    BY DEF EndsInv
  <1>3. WorkerEnds(w)' /\ JobEnds(j)'
    BY <1>1, <1>2 DEF WorkerEnds, JobEnds, Working, At, RowOf, JobOf
  <1> QED BY <1>1, <1>3, EndsFrame

\* A worker that lets go of its job.
LEMMA EndsIdle ==
  ASSUME PipelineInv, NoCancelCall, EndsInv,
         NEW w \in Workers, Working(w), GoIdle(w),
         NEW j \in Jobs, j = JobOf(w), NEW r \in Rows,
         rows' = [rows EXCEPT ![j] = r], UNCHANGED process,
         r.state = "completed" => process[j] = "completed",
         r.state = "failed" => r.attempts >= MaxAttempts
  PROVE  EndsInv'
  <1>1. /\ worker'[w].at = "idle" /\ rows'[j] = r
        /\ \A v \in Workers \ {w} : worker'[v] = worker[v]
        /\ \A k \in Jobs \ {j} : rows'[k] = rows[k]
    BY InvParts DEF GoIdle, Idle
  <1>2. WorkerEnds(w)' /\ JobEnds(j)'
    BY <1>1 DEF WorkerEnds, JobEnds, Working, At
  <1> QED BY <1>1, <1>2, EndsFrame

\* The steps that touch neither the row nor the process record nor a copy.
LEMMA EndsLocalStep ==
  ASSUME PipelineInv, NoCancelCall, EndsInv, NEW w \in Workers,
         \/ CheckCancelled(w) \/ HandleException(w) \/ Raise(w)
         \/ PersistTracks(w) \/ UploadOverlay(w) \/ AddChunk(w) \/ UploadManifest(w)
         \/ LoadProcess(w)
  PROVE  EndsInv'
  <1>1. Working(w) /\ UNCHANGED <<rows, process>>
    BY DEF CheckCancelled, HandleException, Raise, PersistTracks, UploadOverlay, AddChunk,
       UploadManifest, LoadProcess, Working, At, TryPoints
  <1>2. \/ \E p \in {"cancel", "open", "except", "release", "overlay", "chunk", "manifest",
                     "final"} : Goto(w, p)
        \/ Goto(w, "fail") /\ RowOf(w).attempts >= MaxAttempts
        \/ Goto(w, "completeSave") /\ worker[w].at = "complete"
    BY DEF CheckCancelled, HandleException, Raise, PersistTracks, UploadOverlay, AddChunk,
       UploadManifest, LoadProcess, At
  <1>3. CASE \E p \in {"cancel", "open", "except", "release", "overlay", "chunk", "manifest",
                       "final"} : Goto(w, p)
    BY <1>1, <1>3, EndsGoto DEF Goto, OpenPoints, FinalPoints, WorkerPoints, TryPoints
  <1>4. CASE Goto(w, "fail") /\ RowOf(w).attempts >= MaxAttempts
    BY <1>1, <1>4, EndsGoto DEF Goto, OpenPoints, FinalPoints, WorkerPoints, TryPoints
  <1>5. CASE Goto(w, "completeSave") /\ worker[w].at = "complete"
    <2>1. /\ "completeSave" \in WorkerPoints /\ "completeSave" \notin OpenPoints
          /\ worker[w].at \in FinalPoints
      BY <1>5 DEF OpenPoints, FinalPoints, WorkerPoints, TryPoints
    <2> QED BY <1>1, <1>5, <2>1, EndsGoto DEF Goto
  <1> QED BY <1>2, <1>3, <1>4, <1>5

\* The queue's calls that end an attempt, and a crash.
LEMMA EndsQueueStep ==
  ASSUME PipelineInv, NoCancelCall, EndsInv, NEW w \in Workers,
         CancelBeforeStart(w) \/ GiveUp(w) \/ HandBack(w) \/ Crash(w)
  PROVE  EndsInv'
  <1>1. Working(w) /\ GoIdle(w) /\ UNCHANGED process
    BY DEF CancelBeforeStart, GiveUp, HandBack, Crash, Working, At
  <1> PICK j \in Jobs : j = JobOf(w)
    BY <1>1, AttendedUnpublished
  <1>2. WorkerEnds(w) /\ rows[j] \in Rows /\ rows[j].state = "processing"
    BY <1>1, InvParts DEF EndsInv, WorkerEnds, RowOf
  <1>3. \/ rows' = [rows EXCEPT ![j] = rows[j]]
        \/ rows' = [rows EXCEPT ![j] = MarkedCancelled(rows[j])]
        \/ rows' = [rows EXCEPT ![j] = Released(rows[j])]
        \/ At(w, "fail") /\ rows' = [rows EXCEPT ![j] = MarkedFailed(rows[j], "WORKER_EXECUTION_FAILED")]
    BY InvParts DEF CancelBeforeStart, GiveUp, HandBack, Crash
  <1>4. CASE rows' = [rows EXCEPT ![j] = rows[j]]
    BY <1>1, <1>2, <1>4, EndsIdle
  <1>5. CASE rows' = [rows EXCEPT ![j] = MarkedCancelled(rows[j])]
    BY <1>1, <1>2, <1>5, EndsIdle, MarkedCancelledRow
  <1>6. CASE rows' = [rows EXCEPT ![j] = Released(rows[j])]
    <2>1. Released(rows[j]) \in Rows /\ Released(rows[j]).state = "pending"
      BY <1>2, RequeuedRow, RowConstants DEF Released
    <2> QED BY <1>1, <1>6, <2>1, EndsIdle
  <1>7. CASE At(w, "fail")
             /\ rows' = [rows EXCEPT ![j] = MarkedFailed(rows[j], "WORKER_EXECUTION_FAILED")]
    <2>1. rows[j].attempts >= MaxAttempts
      BY <1>1, <1>2, <1>7 DEF WorkerEnds, RowOf
    <2>2. LET s == MarkedFailed(rows[j], "WORKER_EXECUTION_FAILED")
          IN  s \in Rows /\ s.state = "failed" /\ s.attempts = rows[j].attempts
      BY <1>2, MarkedFailedRow, RowConstants
    <2> QED BY <1>1, <1>7, <2>1, <2>2, EndsIdle
  <1> QED BY <1>3, <1>4, <1>5, <1>6, <1>7

LEMMA EndsClaimStep ==
  ASSUME PipelineInv, NoCancelCall, EndsInv, NEW w \in Workers,
         NEW j \in Jobs, NEW t \in Tokens, Claim(w, j, t)
  PROVE  EndsInv'
  <1>1. /\ ~Working(w) /\ rows[j].state = "pending" /\ UNCHANGED process
        /\ worker'[w].at = "start" /\ worker'[w].job = j
        /\ \A v \in Workers \ {w} : worker'[v] = worker[v]
        /\ rows'[j] = Claimed(rows[j], NameOf[w], t)
        /\ \A k \in Jobs \ {j} : rows'[k] = rows[k]
    BY InvParts DEF Claim, Working, Idle, Claimable
  <1>2. rows'[j].state = "processing"
    BY <1>1, InvParts, NameAssumption, ClaimedRow
  <1>3. WorkerEnds(w)' /\ JobEnds(j)'
    BY <1>1, <1>2 DEF WorkerEnds, JobEnds, Working, At, RowOf, JobOf, OpenPoints, FinalPoints
  <1> QED BY <1>1, <1>3, EndsFrame

\* The copies process() makes, and the second reads.
LEMMA EndsReadStep ==
  ASSUME PipelineInv, NoCancelCall, EndsInv, NEW w \in Workers,
         \/ OpenJob(w) \/ FinishJob(w)
         \/ Reselect(w, "openMerge", "openCommit") \/ Reselect(w, "finalMerge", "complete")
  PROVE  EndsInv'
  <1>1. Working(w) /\ UNCHANGED <<rows, process>>
    BY DEF OpenJob, FinishJob, Reselect, Working, At
  <1> PICK j \in Jobs : j = JobOf(w)
    BY <1>1, AttendedUnpublished
  <1>2. /\ WorkerEnds(w) /\ JobEnds(j) /\ worker[w].token \in Tokens
        /\ RowOf(w).state = "processing" /\ RowOf(w) \in Rows
    BY <1>1, InvParts, AtWork DEF EndsInv, WorkerEnds, RowOf, TokenOf
  <1>3. \A v \in Workers \ {w} : worker'[v] = worker[v]
    BY InvParts DEF OpenJob, FinishJob, Reselect
  <1>4. CASE OpenJob(w)
    <2> DEFINE c == IF RowOf(w).cancelReq /\ Leased(RowOf(w))
                    THEN CancelledOpening(RowOf(w)) ELSE Opened(RowOf(w))
    <2>1. \/ c.state = "processing"
          \/ c.state = "cancelled" /\ c.stage = "cleanup"
      BY <1>2, CopiedRow
    <2>2. /\ worker'[w].at = "openMerge" /\ worker'[w].job = j /\ worker'[w].copy = c
      BY <1>4, InvParts DEF OpenJob, JobOf, WorkerStates
    <2> HIDE DEF c
    <2>3. WorkerEnds(w)' /\ JobEnds(j)'
      BY <1>1, <1>2, <2>1, <2>2 DEF WorkerEnds, JobEnds, Working, At, RowOf, JobOf, OpenPoints, FinalPoints
    <2> QED BY <1>1, <1>3, <2>3, EndsFrame
  <1>5. CASE FinishJob(w)
    <2>1. /\ worker'[w].at = "finalMerge" /\ worker'[w].job = j
          /\ worker'[w].copy = Completed(RowOf(w), TokenOf(w))
      BY <1>5, InvParts DEF FinishJob, JobOf, WorkerStates
    <2>2. worker'[w].copy.state = "completed"
      BY <1>2, <2>1, CopiedRow DEF TokenOf
    <2>3. WorkerEnds(w)' /\ JobEnds(j)'
      BY <1>1, <1>2, <2>1, <2>2 DEF WorkerEnds, JobEnds, Working, At, RowOf, JobOf, OpenPoints, FinalPoints
    <2> QED BY <1>1, <1>3, <2>3, EndsFrame
  <1>6. CASE \/ Reselect(w, "openMerge", "openCommit")
             \/ Reselect(w, "finalMerge", "complete")
    <2>1. /\ worker'[w].job = j /\ worker'[w].copy = worker[w].copy
          /\ \/ worker[w].at = "openMerge" /\ worker'[w].at = "openCommit"
             \/ worker[w].at = "finalMerge" /\ worker'[w].at = "complete"
      BY <1>6, InvParts DEF Reselect, At, JobOf, WorkerStates
    <2>2. WorkerEnds(w)' /\ JobEnds(j)'
      BY <1>1, <1>2, <2>1 DEF WorkerEnds, JobEnds, Working, At, RowOf, JobOf, OpenPoints, FinalPoints
    <2> QED BY <1>1, <1>3, <2>2, EndsFrame
  <1> QED BY <1>4, <1>5, <1>6

\* The commits of the copies.  Nobody else writes the state of the row.
LEMMA EndsCommitStep ==
  ASSUME PipelineInv, NoCancelCall, EndsInv, NEW w \in Workers,
         CommitOpen(w) \/ CommitFinal(w)
  PROVE  EndsInv'
  <1>1. Working(w) /\ UNCHANGED process /\ worker[w].at \in {"openCommit", "finalCommit"}
    BY DEF CommitOpen, CommitFinal, Working, At
  <1> PICK j \in Jobs : j = JobOf(w)
    BY <1>1, AttendedUnpublished
  <1> DEFINE c == worker[w].copy
             r == Merged(rows[j], worker[w].base, c)
  <1>2. /\ WorkerEnds(w) /\ JobEnds(j) /\ rows[j].state = "processing"
        /\ At(w, "openCommit") => \/ c.state = "processing"
                                  \/ c.state = "cancelled" /\ c.stage = "cleanup"
        /\ At(w, "finalCommit") => c.state = "completed" /\ process[j] = "completed"
    BY <1>1 DEF EndsInv, WorkerEnds, RowOf, At, OpenPoints, FinalPoints
  <1>3. /\ rows[j] \in Rows /\ c \in Rows /\ worker[w].base \in Rows
        /\ worker[w] \in WorkerStates
    BY <1>1, AtWork, InvParts DEF CopiesInv, OpenPoints, FinalPoints, BasePoints
  <1>4. r \in Rows /\ r.state \in {"processing", c.state}
    BY <1>2, <1>3, MergedRow
  <1>5. r.state # "failed" /\ (r.state = "completed" => process[j] = "completed")
    BY <1>1, <1>2, <1>4 DEF At
  <1>6. \/ Goto(w, "except") /\ UNCHANGED rows
        \/ GoIdle(w) /\ rows' = [rows EXCEPT ![j] = r]
        \/ Goto(w, "resolve") /\ rows' = [rows EXCEPT ![j] = r] /\ c.stage # "cleanup"
           /\ At(w, "openCommit")
    BY DEF CommitOpen, CommitFinal, CommitUpdate, RowOf, At
  <1> HIDE DEF r
  <1>7. CASE Goto(w, "except") /\ UNCHANGED rows
    <2>1. "except" \in WorkerPoints \ (OpenPoints \cup FinalPoints)
      BY DEF WorkerPoints, OpenPoints, FinalPoints
    <2> QED BY <1>1, <1>7, <2>1, EndsGoto DEF Goto
  <1>8. CASE GoIdle(w) /\ rows' = [rows EXCEPT ![j] = r]
    BY <1>1, <1>4, <1>5, <1>8, EndsIdle
  <1>9. CASE /\ Goto(w, "resolve") /\ rows' = [rows EXCEPT ![j] = r]
             /\ c.stage # "cleanup" /\ At(w, "openCommit")
    <2>1. /\ worker'[w].at = "resolve" /\ worker'[w].job = j /\ rows'[j] = r
          /\ \A v \in Workers \ {w} : worker'[v] = worker[v]
          /\ \A k \in Jobs \ {j} : rows'[k] = rows[k]
      BY <1>9, InvParts DEF Goto, JobOf, WorkerStates
    <2>2. r.state = "processing"
      BY <1>2, <1>4, <1>9
    <2>3. WorkerEnds(w)' /\ JobEnds(j)'
      BY <2>1, <2>2 DEF WorkerEnds, JobEnds, Working, At, RowOf, JobOf, OpenPoints, FinalPoints
    <2> QED BY <1>1, <2>1, <2>3, EndsFrame
  <1> QED BY <1>6, <1>7, <1>8, <1>9

\* The units of work that write the process record.
LEMMA EndsProcessStep ==
  ASSUME PipelineInv, NoCancelCall, EndsInv, NEW w \in Workers,
         ResolveIdentities(w) \/ IdentityResolved(w) \/ ResolutionFails(w) \/ CompleteProcess(w)
  PROVE  EndsInv'
  <1>1. Working(w) /\ UNCHANGED rows
    BY DEF ResolveIdentities, IdentityResolved, ResolutionFails, CompleteProcess, Working, At
  <1> PICK j \in Jobs : j = JobOf(w)
    BY <1>1, AttendedUnpublished
  <1>2. /\ WorkerEnds(w) /\ rows[j].state = "processing" /\ worker[w] \in WorkerStates
    BY <1>1, InvParts DEF EndsInv, WorkerEnds, RowOf
  <1>3. /\ \A v \in Workers \ {w} : worker'[v] = worker[v]
        /\ \A k \in Jobs \ {j} : process'[k] = process[k]
    BY InvParts DEF ResolveIdentities, IdentityResolved, ResolutionFails, CompleteProcess, Goto
  <1>4. /\ worker'[w].job = j /\ worker'[w].copy = worker[w].copy
        /\ \/ worker'[w].at \in {"persist", "resolveSave", "except"}
           \/ /\ worker[w].at = "completeSave" /\ worker'[w].at = "finalCommit"
              /\ process'[j] = "completed"
    BY <1>2, InvParts
    DEF ResolveIdentities, IdentityResolved, ResolutionFails, CompleteProcess, Goto, JobOf, At,
        WorkerStates
  <1>5. WorkerEnds(w)' /\ JobEnds(j)'
    BY <1>1, <1>2, <1>4 DEF WorkerEnds, JobEnds, Working, At, RowOf, JobOf, OpenPoints, FinalPoints
  <1> QED BY <1>1, <1>3, <1>5, EndsFrame

LEMMA EndsTimeStep ==
  ASSUME PipelineInv, NoCancelCall, EndsInv, NEW j \in Jobs, TimeNext(j)
  PROVE  EndsInv'
  <1>1. UNCHANGED <<process, worker>>
    BY DEF TimeNext, LeaseExpires, BackoffElapses
  <1>2. \A k \in Jobs : rows'[k].state = rows[k].state /\ rows'[k].attempts = rows[k].attempts
    BY InvParts DEF TimeNext, LeaseExpires, BackoffElapses, Rows
  <1>3. ASSUME NEW w \in Workers
        PROVE  WorkerEnds(w)'
    BY <1>1, <1>2, AttendedUnpublished DEF EndsInv, WorkerEnds, Working, At, RowOf, JobOf
  <1>4. \A k \in Jobs : JobEnds(k)'
    BY <1>1, <1>2 DEF EndsInv, JobEnds
  <1> QED BY <1>3, <1>4 DEF EndsInv

LEMMA EndsCancelStep ==
  ASSUME PipelineInv, NEW c \in Requests, CancelNext(c)
  PROVE  EndsInv'
  <1>1. request'[c].at # "new"
    BY InvParts DEF CancelNext, CancelLoad, CancelReselect, CancelFlush, CancelCommit, NewRequest,
       RequestStates
  <1> QED BY <1>1 DEF EndsInv, NoCancelCall

LEMMA EndsNext == PipelineInv /\ EndsInv /\ [Next]_vars => EndsInv'
  <1> SUFFICES ASSUME PipelineInv, EndsInv, [Next]_vars, NoCancelCall' PROVE EndsInv'
    BY DEF EndsInv
  <1>1. CASE \E c \in Requests : CancelNext(c)
    BY <1>1, EndsCancelStep
  <1>2. CASE \E w \in Workers : WorkerNext(w) \/ Crash(w)
    <2> PICK w \in Workers : WorkerNext(w) \/ Crash(w)
      BY <1>2
    <2>1. UNCHANGED request
      BY DEF WorkerNext, Advance, Claim, CheckCancelled, CancelBeforeStart, HandleException,
         GiveUp, HandBack, Raise, Crash, OpenJob, Reselect, CommitOpen, ResolveIdentities,
         IdentityResolved, ResolutionFails, PersistTracks, UploadOverlay, AddChunk,
         UploadManifest, FinishJob, LoadProcess, CompleteProcess, CommitFinal
    <2>2. NoCancelCall
      BY <2>1 DEF NoCancelCall
    <2> QED BY <2>2, EndsLocalStep, EndsQueueStep, EndsClaimStep, EndsReadStep, EndsCommitStep,
           EndsProcessStep DEF WorkerNext, Advance
  <1>3. CASE \E j \in Jobs : TimeNext(j)
    <2>1. NoCancelCall
      BY <1>3 DEF NoCancelCall, TimeNext, LeaseExpires, BackoffElapses
    <2> QED BY <1>3, <2>1, EndsTimeStep
  <1>4. CASE UNCHANGED vars
    BY <1>4 DEF vars, EndsInv, NoCancelCall, WorkerEnds, JobEnds, Working, At, RowOf, JobOf
  <1> QED BY <1>1, <1>2, <1>3, <1>4 DEF Next

LEMMA EndsInit == Init => EndsInv
  BY DEF Init, EndsInv, WorkerEnds, JobEnds, Working, At, Idle, NewRow

\* Job and process record are committed apart; even so, until a cancel call is
\* made, a completed job's record is completed, and a failed job has used up
\* its attempts.
THEOREM JobAndRecordEndAlike == Spec => []EndsAgree
  <1>1. EndsInv => EndsAgree
    BY DEF EndsInv, EndsAgree, JobEnds
  <1>2. Spec => []EndsInv
    BY PipelineInvariant, EndsInit, EndsNext, PTL DEF Spec
  <1> QED BY <1>1, <1>2, PTL
=============================================================================
