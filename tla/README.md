# MergenVision: specifications and proofs

TLA+ models of MergenVision, their TLC configurations, and TLAPS proofs.
MergenVision recognises faces in images and videos: an HTTP API takes uploads,
GPU workers process videos as leased jobs, native C++ programs decode, detect,
track and embed, and the faces they find are stored as identities with samples
over PostgreSQL, MinIO and Qdrant. Phase 1 (`src/phase1`) enrols faces in bulk
into the same stores; a research lab (`src/research`) tries other trackers on
frozen videos.

Contents: [the system](#the-system), [the models](#the-models),
[the runs](#the-runs), [fairness](#fairness), [the proofs](#the-proofs),
[where the code and its documents disagree](#where-the-code-and-its-documents-disagree),
[what is not modelled](#what-is-not-modelled), [the plan](#the-plan).

Below, `A/` is `src/backend/app/`, `N/` is `src/backend/native/`, `P1/` is
`src/phase1/gpu_bulk_enrollment/python/mv_phase1_bulk/` and `LAB/` is
`src/research/video_reference_lab/src/mergenvision_video_lab/`.

## The system

```
 browser ── HTTP API ──┬── VideoUploadService ── tx ─┐
              │        │     submit, cancel, retry   │        ┌── MinIO
              │        ├── ImageRecognitionService ──┤        │   staging, source,
              │        │      └ native image runtime ├────────┤   crops, overlays
              │        ├── identity lifecycle ───────┤        ├── Qdrant
              │        └── results API, playback ────┤        │   one point per sample
 GPU worker loop ── VideoJobQueue (leases) ──────────┤        └── PostgreSQL
     └── native video worker ── bundle               │            all rows
         └── sampling, tracking, reconciliation      │
             └── VideoProcessingService ─────────────┘
 bulk enrolment (Phase 1, offline) ── its own clients of the same three stores
 research lab (offline) ── a run directory on disk
```

The components share no memory. They meet in PostgreSQL rows, under READ
COMMITTED transactions without row locks except in the queue's claim, in objects
and vectors that no transaction covers, and in files. This is what makes the
system hard: a job row is written by a worker, by the API and (in the design) by
a sweep; an identity is one row here, an object there and a point elsewhere;
every reply of a store can be lost; and the native programs run threads of their
own between a queue, a lock and an interpreter that has one too.

### Inventory

| Component | State it keeps | Operations | What is hard | What makes it correct | Module |
|---|---|---|---|---|---|
| Video job queue, `A/.../sqlalchemy/video_job_queue.py` | `video_job` rows: state, stage, lease (owner, token, expiry), attempts, cancellation flag, version | claim_next, heartbeat, update_stage, request_cancellation, mark_cancelled, mark_failed, release_for_retry, recover_expired_leases | stale holders, one default WORKER_ID, expiry, cancellation at any time | a lease that runs is not taken away; a worker without its lease changes nothing; a cancellation is never forgotten; ended rows are not touched; no CHECK is violated | VideoJobRow, VideoJobQueue, JobLifecycle |
| GPU worker loop, `A/worker/video_worker_main.py` | a claimed job, a temporary directory | claim, check for cancellation, download, native run, read the bundle, sample, process, handle the exception | dies anywhere; no heartbeat; retry after 30 s; awaits a process without a timeout | one worker at a job; every job ends; what it takes from the native run is whole | VideoJobPipeline, VideoBundle, VideoTracks |
| Video processing, track persistence, overlay (`A/application/services/video_*`) | copies of the job row; tracks, timeline chunk, overlay and manifest objects; process record | process | six units of work and two uploads, each may fail; the row is written back from a copy | completed job and process agree; results of one attempt only | VideoJobPipeline, VideoResults |
| Cancellation, `VideoUploadService.cancel_job` | a copy of the job row | read, decide, flush, commit, close the process | two calls at once, and the worker | does not make a held job claimable | VideoJobPipeline |
| Ingest and retry, `VideoUploadService` | `idempotency_record`, `video_asset`, `process_record`, `outbox_event`, staging and source objects | reserve the key, probe, upload, copy, verify, create the job; or record the failure | concurrent calls under one key, lost commits, calls cut off | one job per key; answers match requests; every job has its source; a failure is recorded everywhere | VideoIngest |
| Identity lifecycle, image recognition, identity resolution | `face_identity`, `face_sample`, `recognition_result`; crops; vectors | recognise, add_sample, enroll, update, deactivate, delete_sample, resolve a track | a saga over three stores with compensations that may fail | an active sample has crop and vector; a deactivated face is not matched; failures leave nothing behind; one enrolment | IdentityStorage |
| Sampling, tracking, reconciliation, crops, resolution of tracks | tracklets, tracks, intervals (pure) | _subsample_frames, build_raw_tracklets, reconcile_tracklets, resolve, write and read the overlay | gaps, ties, order, float steps | every face in one tracklet; one face is not in two places; results tell what was seen | VideoTracks |
| Results API and playback, `video_result_service.py`, `videos.py` | none | job, result, people, appearances, timeline, frames, ranges of the video | statements of one read between two attempts | no answer is half an attempt's | VideoResults |
| Native image runtime, `N/image_runtime` | pool of execution slots; device buffers | infer: acquire a slot with a deadline, decode, detect, embed in chunks, release | the pool's mutex against the interpreter's lock; atomics in kernels; buffers that overflow | no slot is lost or shared; a result is its caller's; every call returns | FaceDetection, ImageRuntime |
| Native video worker, `N/video_worker` | work queue, batch assembler, tracks, templates, a bundle of files | probe, push, pop, infer, track, flush, finalize, publish | three threads, order of frames, end of stream, files written without a look at the stream | no frame is lost, twice or out of order; exit 0 means whole | NativeVideoWorker |
| Bundle readers, `A/infrastructure/serialization` | none | open the bundle, read templates, observations, crops | files cut short; messages told apart by parsing | a bundle that is taken is whole | VideoBundle, VideoTracks |
| Bulk enrolment, `P1/` | deterministic ids; a journal; the same rows, objects and points | enroll, persist_bundle, reconcile | repeated runs, partial failures, next to the online service | a rerun does not harm what was enrolled; vectors are their own picture's | BulkEnrollment |
| GPU extraction, `P1/pipeline.py`, `detector.py`, `recognizer.py`, `buffer_arena.py` | device memory and its allocation records; a CUDA stream | reserve, launch, copy back, wait, drop, close | the device works later than the host; memory is handed out again while work uses it; exceptions between two launches | a picture's vector is of its own face, whatever the device's pace | GpuPipeline |
| Research lab, `LAB/` | a run directory: raw files, checksums, a lock, derived files | extract, track, template, reconcile, aggregate, label, evaluate, visualise | stages in separate processes, killed halfway; trackers with two timeouts | what validates is one finished extraction; tracks never merge people seen together | LabTracks, LabRun |
| PostgreSQL schema and repositories, MinIO and Qdrant adapters | - | statements, uploads, queries | no versions in `update`; a key refuses other content | - | in the modules that call them |
| Readiness, configuration, frontend, scripts | - | - | - | - | not modelled |

`PROJECT.json` lists every component with its status, the map from definitions to
source lines, and the hazards of the code at the line where they bite, with the
properties that cover them.

## The models

### VideoJobRow, VideoJobQueue, JobLifecycle

`VideoJobRow` is one row of `video_job`: its columns, its CHECK constraints
(`ChecksOK`) and the effect of each queue statement as a function of the row.
It is used by the queue and by the pipeline.

`VideoJobQueue` has `rows` and, for each worker, `held`: what it remembers of
its last claim (job, token, version, whether it has seen a cancellation). Every
method of `SqlAlchemyVideoJobQueue` is one transaction and one action. A worker
may use its memory long after the lease is someone else's, which is what the
conditions in the WHERE clauses are for. Workers have names, and all of them
the same one, as with the default `WORKER_ID`. Time is two environment actions:
a lease runs out (`LeaseExpires`), a back-off ends (`BackoffElapses`).

`JobLifecycle` is what the queue promises: a job waits, runs for one holder, is
asked to stop, and ends. A running job goes back to waiting; a stopping one
never does. `VideoJobQueue!LifecycleSpec` reads phase and holder off state and
token.

### VideoJobPipeline

The queue as it is deployed: the loop of `video_worker_main`, every unit of work
of `VideoProcessingService.process`, and `cancel_job`, on the rows, the process
records and the stored results (`tracks`, `chunk`, `overlay`, `manifest`, each
naming the attempt that wrote it). A worker that raises goes to the exception
handler, one that crashes forgets everything. Copies matter here: `process` and
`cancel_job` read the row, change the copy and have the unit of work write the
columns that differ from what it last selected (`Merged`), with no version in
the WHERE, so that old values can come back. The worker does not heartbeat and
nothing sweeps, as in the code. The overlay's and the manifest's contents differ
from one attempt to the next (a gzip time stamp, `generatedAt`), and the object
store refuses other content under a key.

### IdentityStorage

`IdentityStorageLifecycleService` and its callers. `identity`, `sample`,
`process` and `results` are tables, `object` and `vector` the other two stores,
`call` what each request is doing. A step is one transaction or one call of a
store; a transaction that reads and later writes without a lock is two. Each
call of a store may raise, or, with `LostReplies`, do its work and raise. The
compensations are the code's, in its order, and may fail themselves. A search
returns any set of active points. `process.fail` of a closed process record
raises, which matters because the tracks of one video share a process. The failure
path of a recognition is one transaction in two steps: it reads the identity
(`FailLoad`), and writes what it made of it without expecting a version
(`FailSave`), over whatever was committed in between.

### VideoIngest

`submit_video_recognition`, `retry_job`, `_handle_existing_idempotency` and
`_fail_ingest`. `keys` is the idempotency table; process, video and job are
named by the call that makes them, since each has a fresh UUID. The first
transaction reserves the key by `INSERT ... ON CONFLICT DO NOTHING`; then come
upload, copy and verification; the second transaction makes the job and
completes the key; a failure is recorded by a third. Any step may fail, be
carried out and reported failed (`Spoil`), or be the last one before the call is
cut off. `JobEnds` stands for the pipeline: a job ends somehow.

### VideoBundle, NativeVideoWorker

`NativeVideoWorker` is the process `N/video_worker`: GStreamer's streaming thread
in the probe (`on_mux_src_buffer`), the processing thread that pops, batches
(`TemporalFrameBatchAssembler`), infers, tracks (`NaiveTracker`) and records, and
main, which waits for the bus, closes the queue, joins, and finalizes the bundle
file by file. A video is a sequence of mux buffers; a frame has a number, a time
stamp that may be unknown (-1) or go back, a color format and faces. Any file of
the bundle may be cut short unnoticed (`torn`), any step that throws ends the
process (`FinalizeFails`). The running mean of a template is the code's.

`VideoBundle` puts the Python worker around it: it downloads, awaits the process,
looks at the exit code, opens the manifest and the templates, reads the
observations, packs and opens again. It is the composition in which the parser's
behaviour matters: `FramesRead` says what `_iter_frames` returns for a whole file
and for one that is cut, and the footer is a frame there, as in the code.

### VideoTracks

The pure part of an attempt, from the frames read to the public overlay:
sampling (the float step compared as products, without its rounding), tracklets, canonical
tracks, crops, identities, intervals, overlay, windows of it. What the code sorts
and filters is said by `Ordering`, which has ranks and sorts as definitions without
recursion (`AtPlace`, `Picked`, `SortedBy`) for this module, the native worker,
`FaceDetection` and `LabTracks`. A box is an interval of a line, a vector a point of a line, a score a number of thousandths that falls
with the distance; the margin and both thresholds are the code's. The lifecycle
may refuse any candidate, and the vector store may order equal scores either way.

### VideoResults

One job while its attempts follow each other, a client that reads, and
identities that change. `persist_tracks` stages rows track by track and commits
them; a read of people or appearances is one statement for the tracks, one for
the identities and one per track. The check that refuses a row whose name does not
go with its status is `NameAgrees`. Playback parses the Range header as the code
does (`Playback`) and then yields chunk after chunk (`Yield`), with whatever else
happens between two of them.

### ImageRuntime, FaceDetection

`ImageRuntime` is `bindings.cpp` and `pipeline.cpp`: a call takes the
interpreter's lock, waits for a slot *while it holds it*, gives it up for the
inference, takes it again and then gives the slot back. `FaceDetection` is what
the GPU makes of one picture: kernel threads that append candidates with
`atomicAdd` in any order to a buffer that may overflow, a sort by score and place
(`AtPlace` of `Ordering`: the element that so many come before), suppression, and the
compaction of what it keeps. A slot's host buffers remember which
picture's which face they were computed from.

### BulkEnrollment

`enroll` over a manifest: admission, extraction of one face per picture in chunks
and slots, `persist_bundle` step by step with its compensations, the journal and
what `reconcile` looks at. Identifiers are deterministic, so every run meets what
earlier ones left; a run may be cut off between any two steps, and the online
service may deactivate a face between them.

### GpuPipeline

What `Extract` of `BulkEnrollment` stands for. A host program reserves device
memory, launches kernels on one CUDA stream, copies small results back, waits for
the stream and reads them (`HostReserve` ... `HostCheck`); the device takes the
work of the stream in order, at any later moment (`Device`). Memory that is dropped
is handed out again at once, while work that uses it may still be waiting, and what
a kernel reads is what the memory holds when it runs. The program is made up phase
by phase, as far as what came back decides it (`Decode`, `Detect`, `Select`,
`Accept`). An exception leaves its frame, its tensors are dropped, and what was
launched goes on. The copies back go to pageable memory, for which CUDA waits by
itself: here they are as late as anything else, and one of the host's waits
(`Picking`'s last) is then the only redundant one. The detector says a few boxes
with small integer corners; suppression is the kernel's, with its `+ 1`.

`BulkSpec` composes it with the command: extractions first, since the device and
the stores share nothing but the result, which `ExtractionHolds` compares with what
`Extract` says.

### LabTracks, LabRun

`LabTracks` is the lab's tracker with its two timeouts and scene cuts, the
template selection with its five ways out, the complete-link reconciliation and
the appearances; the assignment of the frame may match anything. Time stamps may
stand still (`video_reader.py:203` refuses only one that goes back), and a
canonical track is a list of tracklets, since detections of one time are left in
the order of that list. `LabRun` has
two processes that run the command line's stages, each a sequence of reads and
writes of files: extraction writes through temporary files under a lock and its
checksums last, the other stages write in place without the lock. The gallery is
there or not, and the run directory new or what an earlier full run left of it,
with labels or without: `stage_gallery` returns early when the gallery has nobody
in it (`pipeline.py:289`, `:306`), and `stage_visualize` reads the labels it finds
(`:503`) into the overlay (`:548`).

## The runs

Every run checks all reachable states within its bounds, with two workers of TLC.
`CHECK_DEADLOCK FALSE` appears where a finite set of calls, tokens or attempts is
simply used up; in `queue`, `tracks` and `results` deadlock is checked.

| Run | Bounds | States | Question |
|---|---|---|---|
| queue | 2 jobs, 2 workers of one name, 2 tokens, 2 attempts, 2 claims, version up to 4, sweep in batches of 1 | 439,708 | Are rows valid, leases never stolen, workers without their lease kept out, cancellations kept and seen; is JobLifecycle implemented? |
| pipeline_cancels | 1 job, 2 workers, 3 tokens, 2 attempts, 2 cancel calls | 493,857 | Do copies written back ever make a held job claimable, or mix the results of attempts? Do job and process record agree? |
| pipeline_steady | 1 job, 2 workers, 3 tokens, 2 attempts; no crash, no cancel call | 8,356 | Does every job end, whatever raises? |
| identity | 3 calls of any operation, 1 face and sample from before and 1 new of each, 1 face in an image, lost replies | 1,977,828 | Do the three stores agree; what does a failure leave; is one enrolment all there can be; is a deactivated face ever matched? |
| ingest | 3 calls, 1 submit key, 2 retry keys, 2 contents | 364,248 | Does a key make one job, has every job its source, do tables and prefixes agree after failures? |
| bulk | 2 invocations, 2 subjects, chunks of 2, recognizer batches of 3, 2 candidates, exceptions at a wait and at a check, 1 face deactivated | 2,689,426 | Are vectors their own picture's, active rows complete, journals true; and does the device give each picture its own face, whatever its pace? |
| runtime | 2 threads, 1 slot, 4 pictures, 2 faces per chunk, 3 candidates | 109,219 | Is a slot lost or shared, is an answer the caller's own, does every call return? |
| worker | 5 videos of 3 to 5 frames, limits none, 2 and 3, batches of 2 | 234,249 | Are the observations the frames in order, templates and pictures those of the faces, a bundle that is taken whole, and does the awaited process end? |
| tracks | every clip of 4 frames with up to 2 of 3 people, 2 clocks, 3 sampling modes, 3 galleries | 206,117 | Is every face tracked once, nobody in two places, and do intervals and overlay tell what was seen? |
| lab_tracks | videos of up to 4 frames with time stamps that stay or rise by 3, all cuts and all assignments, both timeouts | 656,661 | The same of the research lab's tracker, templates, reconciliation and appearances. |
| lab_run | 2 processes, 2 commands of 4 kinds, 3 extractions, a gallery with people or without, a new run directory or an earlier one with labels or without | 1,422,712 | Is what validates one finished extraction, and what does a full run renew? |
| results | 2 attempts, 2 tracks, 2 changes of identities, 1 client, videos of 1 and 4 bytes | 3,716,858 | Is an answer ever half an attempt's, what does a change cost, are ranges served? |

Why the bounds are enough to see what the properties are about:

- *Queue.* A stale holder needs two claims of one job, a confusion of tokens two
  jobs, exhaustion two attempts. The version bound lets a worker fall two versions
  behind.
- *Pipeline.* All interactions are about one job. Two workers and three tokens
  are a first attempt, a second one by another worker, and a third claim that
  should not happen. Two cancel calls interleave with each other and with both
  attempts. Leases do not run out in pipeline_cancels, since nothing in the
  deployment looks at the expiry; pipeline_steady lets them.
- *Identity.* A race needs two calls, a match after a deactivation three. One
  face is there from before, so that calls meet it and each other's.
- *Ingest.* Two calls race for a key and a third comes later; a retry follows a
  submit; two contents tell a repetition from a misuse of the key.
- *Bulk.* A subject of one picture and one of several, one of them without a face,
  need two chunks and a recognizer batch that is not full; a second invocation
  repeats everything the first one left behind. Of the pictures one has nothing the
  detector is sure of (x), one a face seen by two anchors (a), one two faces side by
  side (b), one three of which two fit the buffer (m), one cannot be decoded (y). Chunks
  of 2 never exceed the recognizer's 3, so that a chunk is not split here; the
  theorem about vectors has the same as a hypothesis (`FitsEngine`).
- *Runtime.* One slot makes two threads wait for each other. The pictures are one
  with two faces, one whose candidates overflow, one that is broken, an empty one.
- *Worker.* The videos are one with people who meet, one listed out of order with
  a surface that cannot be read, one whose time goes back, one without a face and
  one whose format changes within a batch. A limit falls on a buffer's end and
  inside one.
- *Tracks.* Four frames are a tracklet, a gap, its return and an overlap; the
  third frame comes after a gap in time, so that the sampling modes differ; the
  first is at time 0 or later, which decides what the extra frame of the footer
  does. Two of the three people look alike.
- *Lab.* Four frames have a loss, both timeouts, a cut and a return; two commands
  by two processes have every pair of stages overlap. With one sample enough for a
  template, two of the five ways out are taken.
- *Results.* The first track has two appearances, the second one; the second
  attempt replaces the first one's rows under a reader that is anywhere in its
  statements.

Properties with a premise: `EndsAgree` holds until a cancel call is made. With
cancel calls it can fail: one that spans a whole attempt closes the process of a
job that completes, and two that span the back-off put an old attempt count back.
`FailureCompensated`, `FailureSettled` and `RunsSettle` exclude calls that were
cut off or whose cleanup failed, as the code calls that cleanup best-effort;
`ActiveSampleStored` excludes lost replies, since a store that did what it
reported failed is beyond any compensation. `TakenMeansWhole` speaks of streams
that ended: a bus error alone does not change the exit code.

Each property has a mutant: a definition with a plausible bug (a dropped guard, a
reset left out, a swapped order) that makes TLC refute it in the same run. The
mutants stand before the definitions they change and say `Fault` or `Mutant` in
their comment.

## Fairness

- `VideoJobQueue` has safety properties only. That an abandoned lease ends would
  need someone to call `recover_expired_leases`, and nothing does.
- `VideoJobPipeline!Fairness`: a worker's loop runs for ever, so its steps are
  weakly fair, and back-offs and leases elapse. `SteadySpec` leaves out crashes
  and cancel calls. Each external call is taken to return or raise: the native
  process has no timeout, and that it ends is `WorkerEnds` of another module.
- `VideoBundle!BundleSpec`: the three threads of the native worker are scheduled
  (weakly fair), and GStreamer posts a message in the end or delivers another
  buffer; the coroutine that awaits goes on. `WorkerEnds` starts where the
  pipeline plays.
- `ImageRuntime!FairSpec`: strong fairness for taking the interpreter's lock, which
  is handed out by ticket and comes free again and again; weak fairness for
  everything else, the deadline of a wait included. Without the deadline
  `CallsReturn` would not hold: the waiter has the lock the owner needs.
- The other modules have safety properties only: their calls may be cut off
  anywhere and nothing resumes them.

## The proofs

The modules named `..._proofs` are checked by TLAPS for every value of the
constants, within the named assumptions of the modules they are about. Each has
an inductive invariant, `Init => Inv` and `Inv /\ [Next]_vars => Inv'`, and the
theorems that follow from it.

| Module | Inductive invariant | Proved of the specification |
|---|---|---|
| `VideoJobQueue_proofs` | `IInv` | `TypeOK`, `RowsValid`, `CancelSticks`, `CancelSeen`; the action properties `TerminalFrozen`, `LeaseNotStolen`, `StaleHolderFenced`; the refinement of `JobLifecycle` |
| `VideoJobPipeline_proofs` | `PipelineInv`, `EndsInv` | `TypeOK`, `JobExclusive`, `OneAttemptResult`, `EndsAgree` |
| `IdentityStorage_proofs` | `IInv`, in six layers | `TypeOK`, `ActiveSampleStored`, `FailureCompensated`, `EnrolledOnce`, `DeactivatedNotMatched` |
| `VideoIngest_proofs` | `IngestInv`, `SettledInv` | `TypeOK`, `OneJobPerKey`, `AnswersMatch`, `JobHasSource`, `FailureSettled` |
| `Video_proofs` | `TypeInv`, `OrderInv`, `TemplatesInv`, `FlagsInv`, `TakenInv`, `FilesInv`; `BundleInv`; `ResultsInv` | of `NativeVideoWorker`: `Recordings`, `ZeroMeansWhole`; of `VideoBundle`: `TakenMeansWhole`, and that `BundleSpec` implements `WorkerSpec`; of `VideoResults`: `TypeOK`, `ReadsWhole`, `ChangeCostsAnAttempt`, `RangeServed` |
| `BulkEnrollment_proofs` | `Core`, and one for each property; `DeviceCore` | `TypeOK`, `VectorIsOwn`, `RunsSettle`, `JournalHolds`; of `GpuPipeline`: `BuffersExclusive`, and that `BulkSpec` implements `BulkEnrollment`'s `Spec` |
| `Faces_proofs` | `RuntimeInv`; `TracksInv`, `FacesInv` | of `ImageRuntime`: `TypeOK`, `SlotsAccounted`, `ResultIsOwn`; of `VideoTracks`: `FacesTrackedOnce`, `OnePlaceAtOnce` |
| `Lab_proofs` | `RunInv`, `RenewInv`; `TracksInv`, `PersonsInv`, `ReportInv` | of `LabRun`: `ValidMeansFinished`, `RunRenewsAll`; of `LabTracks`: `TrackletsSound`, `PersonsApart`, `TracksTold` |

What each statement on a row writes, column by column, stands as lemmas in the
proofs of the queue and of the pipeline.

**Queue.** The inductive invariant is

    IInv == TypeOK /\ RowsValid /\ CancelSticks /\ TokensDistinct /\ VersionsSeen

Tokens are fresh when they are taken, so that no two rows and no two memories of
different claims have the same one (`TokensDistinct`). `StaleHolderFenced` is about
a worker whose token is not the row's any more, however its lease went and however
often it has read the version again: every statement it can still make names the
token in its WHERE (`StaleRefused`), so the row stays as it is. `LeaseNotStolen` is
the other side: while a lease runs, only its holder's own statements end it.
`CancelSeen` needs
`VersionsSeen`: a holder has never seen a later version than the row's, and if
it has seen this one it knows the flag, because every statement that changes the
flag moves the version on. The one assumption that is not about types is that
tokens are never used twice, as they are UUIDs.

**Pipeline.** `JobExclusive` says that no two workers are at a job. A claim needs
a pending row, so the question is who can write one under a worker. `PipelineInv`
has the answer: no copy that a worker or a cancel call still holds says pending,
so that writing it back, column by column over whatever the row has become
(`Merged`), makes nothing claimable; and a worker that hands its job back leaves
it. `OneAttemptResult` needs in addition what each worker has stored at its point
(`ProgressInv`) and that a manifest column, in a row or in a cancel call's copy,
only ever names results that are all of one attempt and that nobody can change
any more (`Published`). `EndsInv` follows the one worker of a job and its process
record, while no cancel call is made.

**Identities.** Three stores and up to eight steps per call, each of which may
fail, with compensations that may fail too. The layers are: what a call at a step
knows (`TypeInv`); versions, where version 1 means *as made* (`VersionInv`), which
is why a second enrolment fails; who works on which sample (`MakerInv`); where
its crop and its vector are at each step, given which losses have happened
(`StoreInv`); what a failing recognition has left (`RecognitionInv`); and what may
be found of a deactivated face (`GoneInv`). The last one is true only of faces
whose making never failed. The proof attempt found why: the failure path of a
recognition writes a version it read earlier (`failSave`), without expecting one.
An update that has read the same row can then write its copy, active again;
`add_sample` gives the face a sample; and a recognition that began between
deactivation and this matches it. That takes five calls and three samples, more
than the bounds of `identity`, so `DeactivatedNotMatched` now excludes such faces
by name (`MakingFailed`).

**Ingest.** A call has reserved its key when it has a process record; two calls
that have do not have one key (`DistinctInv`), since the insert finds no row only
for the first, and rows are never deleted. Every step behind the reservation,
every job and every video needs it (`ReservedInv`), so a job's key is its own. A
key that names a job names one made under it (`SnapshotInv`), for the request the
key was reserved for, which gives `AnswersMatch`; and a job is only made once its
source is there, after which no action takes it away (`SourceInv`). `SettledInv`
says for each point of a call what the tables and the prefixes have of it, which
is what `_fail_ingest` finds when the call fails there. Steps that change nothing
but the call and a prefix share one lemma (`QuietStep`).

**Native worker.** `Recordings` is about frames that pass through six places
between the probe and the tracker: held by the probe, queued, pending, in a
complete batch, found, recorded. `TypeInv` says that what is at each place is made of frames
of the video (`Sent`), and what recognition has added of vectors of the frame's own
faces (`Embedded`): the rows of a chunk and the offsets of a frame in its batch
are one numbering (`RowOfItem`, `RecognisedFrames`). `OrderInv` puts the places
in one line: what was recorded and everything in the processing thread's hands are
the expected frames one after the other (`LineInv`); and what it has
taken from the queue are whole buffers, so that the queue and the probe's hand go
on where it stopped (`QueueInv`), up to the last buffer emitted while nothing is
thrown away. Where a buffer starts in the expected order is a fact about
flattening, `Layout`, from well-founded recursion. A buffer skipped because it cannot be mapped breaks
the line, which is why `RecordedInOrder` excludes it (`fault`). `TemplatesInv` says of each
accumulator what the records under its key say; that a key names one face of a frame
at most comes from the assignment (`LinksGreedy`, `KeysNumber`), and that the best
picture is kept from `Better` being a strict order.

`ZeroMeansWhole` says what exit code 0 stands for, and four more layers follow it
from the stream to the files. `FlagsInv`: the stream ends after its last buffer, and
only main closes the queue, having seen the stop flag or a message, or a thread
that breaks off. `TakenInv`: how far the processing thread has got in the expected
frames, that no known time stamp went back on the way, and that a loop which left
its queue without a limit or a failure has seen all of them. `FilesInv`: what each
step of finalize has put down, file by file, so that at the end footer, templates,
pictures and manifest count the same, unless a file was torn. `BundleInv` adds what
the Python worker has opened and read, from which `TakenMeansWhole` follows. That
the readers leave the native process alone is `ReadersOnlyRead`, so that everything
proved of `WorkerSpec` holds under them.

**Results.** `ReadsWhole` looks at answers put together from statements that each
saw another moment. The invariant says that the committed rows are nothing or the
whole of one attempt (`RowsInv`), what the attempt under way has staged
(`WorkerInv`), that a completed job has its manifest's rows and no worker comes
back to it (`JobInv`), and what a client holds between two statements: the cast of
one attempt, no later than the rows', and counts that are full or zero
(`ReaderInv`). `ChangeInv` counts name conflicts against changes of identities:
each outcome that is out of date has been paid for by a change. For `RangeServed`
the invariant says what has been sent at each chunk (`Served`); the parser's
clamping (`Parsed`) makes it the announced range.

**Bulk enrolment.** `VectorIsOwn` needs that the counters of extraction and
recognition number the same pictures in the same order (`NthRank`) and that two
faces in the engine's hands have different rows (`EmbeddingType`, with the
assumption that a chunk fits the engine). `RunsSettle` rests on what a run still
owes to the rows and what it is undoing (`Settling`) and on what the stores have of
a bundle (`StoredInv`), while one run follows the other. `JournalHolds` needs
besides that a step leaves samples of other bundles alone (`Elsewhere`), and that
no picture is in the manifest twice under one face, since the two samples would be
one. Both preconditions are hypotheses of the theorems; the
instance of `bulk` satisfies them. The facts about ranks in finite sets that would be inductions
are proved by taking a smallest counterexample.

**GPU extraction.** `BuffersExclusive` says that two tensors that are alive never
share memory, for any program of the host: what is taken is a free record or a new
one (`DeviceCore`). It does not say that waiting work is safe from a new owner's;
that is the stream's order and is what `ExtractionHolds` looks at, in TLC.
`DeviceIsApart`: the command with its device implements the command
without, so that everything proved of `Spec` holds of `BulkSpec`.

**Image runtime.** Two arguments. The detector, for any picture and any order of
the kernel's threads: what the threads have appended is part of what they should
append, and all of it when the buffer did not overflow (`Gathered`); places by
rank sort any such list without repetition (`Places`, `Sorted`); what suppression
keeps is determined position by position (`Scan`); compacting keeps the order
(`Compacted`); so the result is one of good detections (`Detected`). The runtime:
each call point has what holds of the call and of its slot's host buffers there
(`Sound`). Another call's recognition would break it by overwriting the buffers,
and cannot, because a slot is in use by one call at most (`SlotInv`).

**Tracks of a video.** Every face of every frame read is in one tracklet once, and
no identity is in two places. `TracksInv` follows the stages. Tracklets go forward
in time, and all that is in them is `Behind` the frames to come; the greedy matching of
a frame exists and is one to one, so that a face is added `Once`, to a tracklet
that is active or new. Canonical tracks are put together from tracklets that are
`Apart` in time, and the intervals of a track cover its frames. An
identity is then made new, under a number nobody has used, or taken from the
gallery, unless a track that has it is in the same frame (`_blocked`); a track's
intervals covering its frames is what makes this enough. The theorems hold for any
gallery and any candidates the store may give. They assume that the numbers of a
video's frames rise (`TracksAssumption`), as the native worker counts them.

**Lab.** A process is the steps it has still to take, and both properties follow
from which step may stand before which. `ValidMeansFinished`: a step of an
extraction only ever stands behind the one before it (`Leads`, `Chain`), so that a
process at such a step holds the lock and has put down every file before it
(`Filled`); the checksums, written last, are then of one extraction that wrote
everything (`SumsFinished`). Every command keeps this, because each is put together
from whole stages. `RunRenewsAll` is about 70 steps of one process: a full run is
smooth (`Smooth`: a stage validates before it reads and reads before it writes),
and at each step every file it counts on, and every file it has to leave, is fresh
already or still made by a step ahead of it (`Feeds`). Reading files that are fresh
keeps what a stage writes fresh; the one file that is open is closed by the next
step (`Closes`), and nobody else has one open (`Alone`). Fresh is of the extraction
that is there, with one exception which the property names: without people in the
gallery the labels stay what they were (`Kept`), and the overlay is due from them as
well (`Due`).

`TrackletsSound` needs nothing of the assignment but that it matches one to one
(`Matchings`). The invariant keeps, besides the histories, that a tracklet which is
not given up was last seen since the last cut and within both timeouts of the
frame before (`OthersGivenUp`): the timeouts are looked at after the association,
so this is what a tracklet that returns can rely on. A frame is described twice:
what it does to each tracklet (`UpdateReads`, `UpdateLinks`: it waits, resumes in
an observation of the frame, or begins with one, and no observation is used
twice), and from that alone each part of the invariant.

`PersonsApart`: the lists of the reconciliation name each tracklet once, and two
tracklets of a list are alike and never in one frame (`Grouped`), which each merge
keeps (`MergeKeeps`) because the code looks at every pair of the two lists again. A
tracklet has one detection in a frame, so a track's detections are of different
frames (`MembersApart`); the sort puts their time stamps in order, and leaves those
of one time as the list has them (`DetectionsRise`). That there is a best edge and
a first list needs the orders to be strict.

`TracksTold` is about what is reported of a track. The appearances (`Told`): one
interval follows the other, each detection looked at so far is in one, and a gap is
within the limit inside an interval and above it between two. The templates: the centroid lies
between the vectors that are kept, which follows from its partial sums. Two
detections may have one time stamp; they are then in one interval, since the limit on
a gap is positive. The theorem has the hypothesis `MinSelected = 1`, which is the
default of the lab (`config.py:82`) and what every configuration says; for 2 and more the statement is
false (see below). The folds of the model are recursive functions; that they exist and
what they keep comes from `Recursion` and `Climb`, by well-founded recursion.

Only model-checked:

- liveness (`JobsEnd`, `CallsReturn`, `WorkerEnds`): TLAPS does not reason about fairness and ENABLED;
- what the device gives (`ExtractionHolds`): it follows the contents of memory through
  a program that the model makes up phase by phase;
- what results tell of a video (`ResultsTell`): the counts and sums of a track are
  folds over sequences of any length, and its statement compares two of them.

## Where the code and its documents disagree

Each of these is a behaviour of a model. No run is spent on them; the properties
say in their comments which histories they leave out because of them.

| Statement | What the code does |
|---|---|
| "`recover_expired_leases` resets the job; another worker claims it" (GPU video worker design, line 177) | Nothing calls it (`video_worker_main.py:276`). The job of a worker that died stays leased for ever. |
| "Cancellation requested: worker [...] sets `state = cancelled`" (line 178) | `process()` writes its copy of the row back (`video_processing_service.py:93`): a cancelling job is processing again, and completes. |
| the same | An attempt that raises while its job is cancelling leaves it there (`video_worker_main.py:262`): `release_for_retry` wants processing, and a claim wants pending. |
| "Make re-processing the same job idempotent" (`video_track_persistence_service.py:39`) | The rows are cleared, the overlay object is not, and the store refuses the next attempt's. |
| "This prevents an active identity with zero active samples" (IMPLEMENTATION_DETAILS, line 178) | With the process record closed by an earlier attempt, `process.fail` raises and the deactivation is rolled back with it (`identity_storage_lifecycle_service.py:692`). |
| "Validate that the chunk footer matches the read frame count and job id" (design, line 154) | The footer parses as a frame (`video_observation_reader.py:88`). The reader adds a frame without faces at the end, numbered and timed 0, and compares nothing: every_n_frames keeps it as well and numbers the others one higher, frames_per_second may drop the first real one, and a file cut between two frames is read as a shorter video. |
| "No observations emitted: valid completion with zero detections" (design, line 180) | A video without any face ends with exit code 1, and the attempt fails. |
| The interpreter's lock is released "so concurrent Python threads / asyncio executors are not serialized" (`bindings.cpp:76`) | For the inference, and not for the wait for a slot (`bindings.cpp:136`): no Python code runs until the deadline. |
| Quarantine "rejects images with more than one detected face" (`P1/pipeline.py:159`); overlap "matches official InsightFace SCRFD", and the suppression's output is "identical" "for typical face densities" (`nms.cu:7`, `:29`) | The overlap counts `+ 1` as for pixels, on boxes that are fractions of the picture: boxes that are apart overlap all the same, by more the nearer they are. Of two faces near each other one is suppressed, and the picture is accepted with the other. The image runtime's kernel has no `+ 1`. |
| `RunLock` is there "to prevent concurrent writes to a run directory" (`artifact_store.py:24`) | Only extraction takes the lock; later stages write in place beside each other. |

Also seen, and stated by no document:

- *Jobs.* A failed job's process record stays open when the worker ends it; a
  cancel call may write over a job that has ended meanwhile.
- *Ingest.* After a lost commit `_fail_ingest` fails the process and the key of a
  job that is alive and queues the removal of its source, which only the missing
  consumer of the outbox prevents; the key of a failed request answers with an
  error for ever, although a comment says it may be used again.
- *Identities.* A sample activated by a commit whose reply was lost loses crop
  and vector. The failure path writes an identity's version without expecting
  one, to a number an enrolment in between has used already.
- *Native video worker.* The running mean of a template forgets the first
  picture; frames dropped after `--max-frames` end the process with code 1; a time
  stamp of -1 resets the check against going back; a frame out of order loses the
  batches of its push; the bundle replaces the last one even after an error.
- *Tracks.* A crop is found by the raw key and may show another person of a merged
  track; the `cannot_link` identities are never filled; a missing crop fails the
  attempt; windows of the overlay miss records when time goes back.
- *Results.* An identity that changes between resolution and row fails the
  attempt; rows of unfinished jobs are served; `bytes=-n` is served from the start.
- *Lab.* A lost tracklet may associate before its timeouts are looked at; stages
  only look whether a file exists, so that an extraction done again leaves later
  files standing; with an emptied gallery a full run leaves the old labels, and
  draws them into its new overlay; two tracks of a frame may get one label. With
  `min_selected_samples` of 2 and more, a template that fails for too few samples
  reports those it had picked neither as kept nor as rejected.
- *GPU extraction.* The color matrix is dropped while its kernel may still be
  waiting; nothing else of its arena has the same key, so it is not handed out.
  `retinaface_pick_largest` leaks what it allocated on an early return. The flag for
  a vector of norm zero can never be set. Landmarks without an area fail their whole
  chunk.

## What is not modelled

- Of the buffers of Phase 1: `acquire` and `release`, which only tests use; the
  engines' own streams at warm-up, which are waited for; finalizers that run after
  `close()`, whose double free is undefined.
- Numerical code: decoding, resizing, TensorRT, the arithmetic of kernels,
  distances, and the rounding of the sampling step in floats, which may drop a
  frame. Detections, scores and likeness are abstract, the control around
  them is not.
- GStreamer, TensorRT and CUDA beyond the calls the code makes; the surfaces of
  decoded frames appear as readable or not. Buffers the native probe skips without
  a word, since they have no batch meta or a batch id out of range, do not occur.
- Contents: the fields of manifests, overlays and answers beyond what a property
  tells apart, WebP headers, wording of errors, HTTP status codes, response
  schemas and the routes that only convert them.
- Research lab: extraction's own steps, metrics, drawing and the annotator. Phase
  1: the benchmark.
- Readiness, configuration, migrations, the frontend and scripts: no state that
  the rest depends on.

MinIO, Qdrant and PostgreSQL are modelled by what the adapters rely on.

## The plan

Done: every component whose state others depend on, each with its hazards; the
inductive invariants of the queue, the pipeline, the ingest, the identities, the
results, bulk enrolment and its device memory, the image runtime, the native worker's
recordings and its bundle, the tracks of a video, the lab's run directory, its tracker, its persons and its reports. What is left:

1. `GpuPipeline`: `ExtractionHolds`, from what the memory of each tensor will hold
   when the stream gets there.
2. `VideoTracks`: `ResultsTell`, with the two folds it compares put into one.
3. The tables as the migrations make them, with the checks each revision adds.

## Running

    tlc -workers 2 -config MCQueue.cfg MCVideoJobQueue
    tlapm VideoJobPipeline_proofs.tla

The name of a run, its module, its configuration and its properties are in
`PROJECT.json`, with the map from definitions to source lines.
