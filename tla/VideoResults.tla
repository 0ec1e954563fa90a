----------------------------- MODULE VideoResults ----------------------------
(***************************************************************************)
(* What the API shows of a video job while workers produce it.             *)
(*                                                                         *)
(* The attempts of one job follow each other (JobExclusive of              *)
(* VideoJobPipeline).  An attempt resolves the identity of track after     *)
(* track, each in a transaction of its own; persist_tracks replaces the    *)
(* job's rows in one transaction, reading every identity again; then the   *)
(* overlay is uploaded, described in a row, the manifest uploaded and the  *)
(* job completed.  Meanwhile images and the API change the identities, and *)
(* a client reads: job, result, people, appearances, timeline, frames, in  *)
(* statements that each see what is committed (READ COMMITTED), and the    *)
(* video itself.                                                           *)
(***************************************************************************)
EXTENDS Integers, FiniteSets, Sequences, FiniteSetsExt, SequencesExt

CONSTANTS
  Faces,        \* identities, those there and those an attempt may create
  Parts,        \* Parts[n]: the appearances of the n-th canonical track
  MaxAttempts,
  MaxChanges,   \* state-space bound: enrolments and deactivations
  Headers,      \* Range headers a player may send
  Sizes,        \* sizes of the stored video
  ChunkSize,    \* bytes per streamed chunk
  None, Blank, Junk

ASSUME PartsAssumption == Parts \in Seq(Nat \ {0}) /\ Len(Parts) > 0
ASSUME SizeAssumption == Sizes \subseteq Nat \ {0} /\ ChunkSize \in Nat \ {0}
                          \* upload refuses an empty object
ASSUME AttemptAssumption == MaxAttempts \in Nat \ {0} /\ MaxChanges \in Nat
ASSUME NullAssumption == None \notin Nat
ASSUME HeaderAssumption ==
  /\ Headers \subseteq {None} \cup [unit : STRING, first : Int \cup {Blank, Junk},
                                    last : Int \cup {Blank, Junk}]
  /\ Blank \notin Int /\ Junk \notin Int /\ Blank # Junk

VARIABLES
  identity,  \* face_identity: none, or its status
  changes,   \* enrolments and deactivations so far
  job,       \* video_job
  attempt,   \* attempts claimed so far; the number names the attempt
  worker,    \* the attempt under way
  db,        \* the job's committed result rows
  objects,   \* whose overlay and whose manifest are under the job's keys
  misnamed,  \* attempts the name check of video_track ended
  reader     \* one client request

vars == <<identity, changes, job, attempt, worker, db, objects, misnamed, reader>>

Ordinals == 1..Len(Parts)
Attempts == 1..MaxAttempts
Statuses == {"known", "anonymous", "new_anonymous"}

-----------------------------------------------------------------------------
(* The tables; "by" is the attempt that wrote the row.                     *)

TrackRows == [by : Attempts, ord : Ordinals, face : Faces, status : Statuses,
              named : BOOLEAN]
TrackletRows == [by : Attempts, ord : Ordinals]
IntervalRows == [by : Attempts, ord : Ordinals, index : Nat]
ChunkRows == [by : Attempts]
SampleRows == [by : Attempts, ord : Ordinals, face : Faces]

Tables == [tracks : SUBSET TrackRows, tracklets : SUBSET TrackletRows,
           intervals : SUBSET IntervalRows, samples : SUBSET SampleRows,
           chunks : SUBSET ChunkRows]

\* ck_video_track_status_name_consistency
NameAgrees(row) == row.named = (row.status = "known")

NoRows == [tracks |-> {}, tracklets |-> {}, intervals |-> {}, samples |-> {}, chunks |-> {}]

WorkerPoints == {"idle", "resolve", "persist", "overlay", "chunk", "manifest", "final"}
Outcomes == [face : Faces, status : Statuses]
Idle == [at |-> "idle", outcomes |-> <<>>, staged |-> NoRows]

Kinds == {"result", "people", "appearances", "frames", "playback"}
ReaderPoints == {"idle", "polled", "identities", "count", "chunks", "streaming", "answered"}
NoReader == [at |-> "idle", kind |-> None, saw |-> FALSE, found |-> None,
             counts |-> <<>>, answer |-> None]

TypeOK ==
  /\ identity \in [Faces -> {"none", "anonymous", "known", "inactive"}]
  /\ job \in [state : {"pending", "processing", "completed", "failed"},
              manifest : Attempts \cup {None}, persons : Nat]
  /\ attempt \in 0..MaxAttempts
  /\ worker \in [at : WorkerPoints, outcomes : Seq(Outcomes), staged : Tables]
  /\ db \in Tables
  /\ objects \in [overlay : Attempts \cup {None}, manifest : Attempts \cup {None}]
  /\ changes \in Nat /\ misnamed \in Nat
  /\ DOMAIN reader = DOMAIN NoReader
  /\ reader.at \in ReaderPoints /\ reader.kind \in Kinds \cup {None}
  /\ reader.saw \in BOOLEAN

Init ==
  /\ identity \in [Faces -> {"none", "anonymous", "known", "inactive"}]
  /\ changes = 0
  /\ job = [state |-> "pending", manifest |-> None, persons |-> 0]
  /\ attempt = 0
  /\ worker = Idle
  /\ db = NoRows
  /\ objects = [overlay |-> None, manifest |-> None]
  /\ misnamed = 0
  /\ reader = NoReader

-----------------------------------------------------------------------------
(* The attempt.                                                            *)

\* Fault: a completed job is taken for one to be done again.
ReClaim ==
  /\ worker.at = "idle" /\ job.state \in {"pending", "completed"} /\ attempt < MaxAttempts
  /\ attempt' = attempt + 1
  /\ job' = [job EXCEPT !.state = "processing"]
  /\ worker' = [Idle EXCEPT !.at = "resolve"]
  /\ UNCHANGED <<identity, changes, db, objects, misnamed, reader>>

Claim ==
  /\ worker.at = "idle" /\ job.state = "pending" /\ attempt < MaxAttempts
  /\ attempt' = attempt + 1
  /\ job' = [job EXCEPT !.state = "processing"]
  /\ worker' = [Idle EXCEPT !.at = "resolve"]
  /\ UNCHANGED <<identity, changes, db, objects, misnamed, reader>>

\* Fault: the vector store's answer is believed.
BelievedCandidate(f) == identity[f] # "none"

\* What accept_candidate_for_process takes: an active identity, with the
\* status it has at that time.
Accepted(f) == identity[f] \in {"known", "anonymous"}

Resolved(o) == worker' = [worker EXCEPT !.outcomes = Append(@, o)]

AcceptCandidate(f) ==
  /\ worker.at = "resolve" /\ Len(worker.outcomes) < Len(Parts)
  /\ Accepted(f)
  /\ Resolved([face |-> f, status |-> IF identity[f] = "anonymous" THEN "anonymous"
                                      ELSE "known"])
  /\ UNCHANGED <<identity, changes, job, attempt, db, objects, misnamed, reader>>

CreateIdentity(f) ==
  /\ worker.at = "resolve" /\ Len(worker.outcomes) < Len(Parts)
  /\ identity[f] = "none"
  /\ identity' = [identity EXCEPT ![f] = "anonymous"]
  /\ Resolved([face |-> f, status |-> "new_anonymous"])
  /\ UNCHANGED <<changes, job, attempt, db, objects, misnamed, reader>>

\* persist_tracks opens: the rows of every attempt go, the flush leaves them
\* to the commit.
ClearRows ==
  /\ worker.at = "resolve" /\ Len(worker.outcomes) = Len(Parts)
  /\ worker' = [worker EXCEPT !.at = "persist", !.staged = NoRows]
  /\ UNCHANGED <<identity, changes, job, attempt, db, objects, misnamed, reader>>

\* The row of the next track: the status of its outcome, the name of now
\* (get_active_by_id).
TrackRow(n) ==
  LET o == worker.outcomes[n]
  IN  [by |-> attempt, ord |-> n, face |-> o.face, status |-> o.status,
       named |-> identity[o.face] = "known"]

TrackletsOf(n) == {[by |-> attempt, ord |-> n]}
IntervalsOf(n) == {[by |-> attempt, ord |-> n, index |-> i] : i \in 0..(Parts[n] - 1)}
SamplesOf(n) == {[by |-> attempt, ord |-> n, face |-> worker.outcomes[n].face]}

WithTrack(rows, n) ==
  [rows EXCEPT !.tracks = @ \cup {TrackRow(n)}, !.tracklets = @ \cup TrackletsOf(n),
               !.intervals = @ \cup IntervalsOf(n), !.samples = @ \cup SamplesOf(n)]

Staged == Cardinality(worker.staged.tracks)

\* The end of an attempt that raises: what it staged is rolled back, and the
\* job is handed back or failed.
GiveUp ==
  /\ worker' = Idle
  /\ job' = [job EXCEPT !.state = IF attempt < MaxAttempts THEN "pending" ELSE "failed"]

\* One track of the transaction; the flush after it runs the table's checks.
AddTrack ==
  /\ worker.at = "persist" /\ Staged < Len(Parts)
  /\ LET n == Staged + 1
     IN  IF NameAgrees(TrackRow(n))
         THEN /\ worker' = [worker EXCEPT !.staged = WithTrack(@, n)]
              /\ UNCHANGED <<job, misnamed>>
         ELSE GiveUp /\ misnamed' = misnamed + 1
  /\ UNCHANGED <<identity, changes, attempt, db, objects, reader>>

\* Fault: one transaction per track, the last one's answer moves on.
CommitEachTrack ==
  /\ worker.at = "persist" /\ Staged > 0
  /\ db' = worker.staged
  /\ worker' = IF Staged = Len(Parts) THEN [worker EXCEPT !.at = "overlay", !.staged = NoRows]
               ELSE worker
  /\ UNCHANGED <<identity, changes, job, attempt, objects, misnamed, reader>>

CommitTracks ==
  /\ worker.at = "persist" /\ Staged = Len(Parts)
  /\ db' = worker.staged
  /\ worker' = [worker EXCEPT !.at = "overlay", !.staged = NoRows]
  /\ UNCHANGED <<identity, changes, job, attempt, objects, misnamed, reader>>

\* MinIOObjectStore.upload: an object of another attempt is in the way (the
\* content differs in the track ids or in the time); the put may be done and
\* its answer lost.
Upload(point, object, next) ==
  /\ worker.at = point
  /\ \/ /\ objects[object] \in {None, attempt}
        /\ objects' = [objects EXCEPT ![object] = attempt]
        /\ \/ worker' = [worker EXCEPT !.at = next] /\ UNCHANGED job
           \/ GiveUp
     \/ objects[object] \notin {None, attempt} /\ GiveUp /\ UNCHANGED objects
  /\ UNCHANGED <<identity, changes, attempt, db, misnamed, reader>>

UploadOverlay == Upload("overlay", "overlay", "chunk")

AddChunk ==
  /\ worker.at = "chunk"
  /\ db' = [db EXCEPT !.chunks = {[by |-> attempt]}]
  /\ worker' = [worker EXCEPT !.at = "manifest"]
  /\ UNCHANGED <<identity, changes, job, attempt, objects, misnamed, reader>>

UploadManifest == Upload("manifest", "manifest", "final")

CompleteJob ==
  /\ worker.at = "final"
  /\ job' = [state |-> "completed", manifest |-> attempt, persons |-> Len(Parts)]
  /\ worker' = Idle
  /\ UNCHANGED <<identity, changes, attempt, db, objects, misnamed, reader>>

Raise ==
  /\ worker.at # "idle"
  /\ GiveUp
  /\ UNCHANGED <<identity, changes, attempt, db, objects, misnamed, reader>>

-----------------------------------------------------------------------------
(* The identities change under the attempt.                                *)

Changed(f, status) ==
  /\ changes < MaxChanges
  /\ identity' = [identity EXCEPT ![f] = status]
  /\ changes' = changes + 1
  /\ UNCHANGED <<job, attempt, worker, db, objects, misnamed, reader>>

Enroll(f) == identity[f] = "anonymous" /\ Changed(f, "known")
Deactivate(f) == identity[f] \in {"anonymous", "known"} /\ Changed(f, "inactive")

-----------------------------------------------------------------------------
(* The client.                                                             *)

UnchangedByReader == UNCHANGED <<identity, changes, job, attempt, worker, db, objects, misnamed>>

JobSnapshot == [state |-> job.state, persons |-> job.persons]

\* The client polls the job, then reads what it likes, completed or not.
GetJob ==
  /\ reader.at = "idle"
  /\ reader' = [NoReader EXCEPT !.at = "polled", !.saw = JobSnapshot.state = "completed",
                  !.answer = JobSnapshot.persons]
  /\ UnchangedByReader

Answers(a) == reader' = [reader EXCEPT !.at = "answered", !.answer = a]

\* 409 unless completed with a manifest.
ResultAvailable == job.state = "completed" /\ job.manifest # None

GetResult ==
  /\ reader.at = "polled"
  /\ reader' = [reader EXCEPT !.at = "answered", !.kind = "result",
                  !.answer = IF ResultAvailable THEN job.manifest ELSE None]
  /\ UnchangedByReader

\* The rows of the job in the order of their ordinals.
ByOrdinal(rows) ==
  [n \in 1..Cardinality(rows) |->
     CHOOSE r \in rows : Cardinality({q \in rows : q.ord < r.ord}) = n - 1]

\* list_people and list_appearances look the job up whatever its state, then
\* the tracks.
ListTracks(kind) ==
  /\ reader.at = "polled" /\ kind \in {"people", "appearances"}
  /\ reader' = [reader EXCEPT !.kind = kind, !.found = ByOrdinal(db.tracks),
                  !.at = IF kind = "people" THEN "identities" ELSE "count"]
  /\ UnchangedByReader

\* The identities of now, for the people.
ReadIdentities ==
  /\ reader.at = "identities"
  /\ reader' = [reader EXCEPT !.at = "count"]
  /\ UnchangedByReader

AppearancesOf(row) == {i \in db.intervals : i.by = row.by /\ i.ord = row.ord}

\* The appearances of one track, then of the next.
ReadAppearances ==
  /\ reader.at = "count" /\ Len(reader.counts) < Len(reader.found)
  /\ LET row == reader.found[Len(reader.counts) + 1]
     IN  reader' = [reader EXCEPT !.counts = Append(@, Cardinality(AppearancesOf(row)))]
  /\ UnchangedByReader

ListPeople ==
  /\ reader.at = "count" /\ reader.kind = "people"
  /\ Len(reader.counts) = Len(reader.found)
  /\ Answers(Len(reader.found))
  /\ UnchangedByReader

\* Appearances and timeline: as many entries as the tracks have.
ListAppearances ==
  /\ reader.at = "count" /\ reader.kind = "appearances"
  /\ Len(reader.counts) = Len(reader.found)
  /\ Answers(FoldLeft(LAMBDA s, c : s + c, 0, reader.counts))
  /\ UnchangedByReader

\* read_overlay_frames closes its unit of work before it asks the store.
ListChunks ==
  /\ reader.at = "polled"
  /\ reader' = [reader EXCEPT !.at = "chunks", !.kind = "frames", !.found = db.chunks]
  /\ UnchangedByReader

GetFrames ==
  /\ reader.at = "chunks"
  /\ Answers(IF reader.found = {} THEN None ELSE objects.overlay)
  /\ UnchangedByReader

-----------------------------------------------------------------------------
(* Playback.  A header is None or [unit, first, last]: a number, Blank where *)
(* nothing is written, Junk for what int() refuses.                        *)

Clamp(n, lo, hi) == Max({lo, Min({n, hi})})

\* Fault: the end of a range taken as exclusive.
ExclusiveRange(h, total) ==
  LET all == [start |-> 0, stop |-> total - 1]
      first == IF h.first = Blank THEN 0 ELSE h.first
      last == IF h.last = Blank THEN total - 1 ELSE h.last - 1
  IN  IF h = None \/ h.unit # "bytes" THEN all
      ELSE IF Junk \in {h.first, h.last} THEN all
      ELSE LET start == Clamp(first, 0, total - 1)
           IN  [start |-> start, stop |-> Max({start, Min({last, total - 1})})]

\* Both ends are inside the video; what cannot be read means all of it.
ParseByteRange(h, total) ==
  LET all == [start |-> 0, stop |-> total - 1]
      first == IF h.first = Blank THEN 0 ELSE h.first
      last == IF h.last = Blank THEN total - 1 ELSE h.last
  IN  IF h = None \/ h.unit # "bytes" THEN all
      ELSE IF Junk \in {h.first, h.last} THEN all
      ELSE LET start == Clamp(first, 0, total - 1)
           IN  [start |-> start, stop |-> Max({start, Min({last, total - 1})})]

\* 404: no such video, not stored yet, or its object gone.
NoVideo ==
  /\ reader.at = "idle"
  /\ reader' = [NoReader EXCEPT !.at = "answered", !.kind = "playback"]
  /\ UnchangedByReader

\* The whole video is in memory when the headers go out.
Playback(h, total) ==
  /\ reader.at = "idle"
  /\ \E r \in {ParseByteRange(h, total)} :
       reader' = [NoReader EXCEPT !.at = "streaming", !.kind = "playback", !.found = h,
                    !.answer = [total |-> total, sent |-> <<>>, next |-> r.start, stop |-> r.stop,
                                length |-> IF h = None THEN total ELSE r.stop - r.start + 1]]
  /\ UnchangedByReader

\* The bytes of the chunk at an offset.
Chunk(offset, stop) ==
  [i \in 1..(Min({offset + ChunkSize, stop + 1}) - offset) |-> offset + i - 1]

\* _stream yields the next chunk, and ends after the one that reaches the stop.
Yield ==
  /\ reader.at = "streaming"
  /\ LET a == reader.answer
     IN  reader' = [reader EXCEPT
           !.answer = [a EXCEPT !.sent = @ \o Chunk(a.next, a.stop), !.next = @ + ChunkSize],
           !.at = IF a.next + ChunkSize > a.stop THEN "answered" ELSE "streaming"]
  /\ UnchangedByReader

Leave ==
  /\ reader.at \in {"polled", "streaming", "answered"}
  /\ reader' = NoReader
  /\ UnchangedByReader

-----------------------------------------------------------------------------
Attempt ==
  \/ Claim
  \/ \E f \in Faces : AcceptCandidate(f) \/ CreateIdentity(f)
  \/ ClearRows \/ AddTrack \/ CommitTracks
  \/ UploadOverlay \/ AddChunk \/ UploadManifest \/ CompleteJob
  \/ Raise

Change == \E f \in Faces : Enroll(f) \/ Deactivate(f)

Read ==
  \/ GetJob \/ GetResult
  \/ \E kind \in Kinds : ListTracks(kind)
  \/ ReadIdentities \/ ReadAppearances \/ ListPeople \/ ListAppearances
  \/ ListChunks \/ GetFrames
  \/ \E h \in Headers, total \in Sizes : Playback(h, total)
  \/ NoVideo \/ Yield \/ Leave

Next == Attempt \/ Change \/ Read

Spec == Init /\ [][Next]_vars

-----------------------------------------------------------------------------
(* Properties *)

Answered(kind) == reader.at = "answered" /\ reader.kind = kind
FullCounts == [n \in Ordinals |-> Parts[n]]

\* A client that saw the job completed gets all of its result from every
\* endpoint, and all of it of the attempt the manifest is of: the people as
\* many as the job told, every appearance, the frames.  And whenever it is
\* asked, an answer is never half an attempt's: the tracks are the whole cast
\* of one attempt or none, a track's appearances are all there unless a later
\* attempt has cleared them away between two statements, and the overlay a row
\* describes is the one its attempt wrote (process, persist_tracks,
\* write_public_overlay, get_job, list_people, list_appearances).
ReadsWhole ==
  /\ reader.saw =>
       /\ Answered("result") => reader.answer = job.manifest
       /\ Answered("people") => reader.answer = job.persons
       /\ Answered("people") \/ Answered("appearances") =>
            /\ reader.counts = FullCounts
            /\ \A n \in Ordinals : reader.found[n].by = job.manifest
       /\ Answered("frames") => reader.answer = job.manifest
  /\ Answered("people") \/ Answered("appearances") =>
       /\ reader.found # <<>> =>
            /\ Len(reader.found) = Len(Parts)
            /\ \A n \in Ordinals : reader.found[n].by = reader.found[1].by
       /\ \A n \in 1..Len(reader.found) :
            \/ reader.counts[n] = Parts[n]
            \/ reader.counts[n] = 0 /\ \A t \in db.tracks : t.by > reader.found[n].by
  /\ Answered("frames") /\ reader.answer # None => [by |-> reader.answer] \in reader.found

\* The track table refuses a row whose name does not go with its status.  It
\* takes an identity changed between its resolution and persist_tracks for
\* that: no attempt is lost to the check without such a change, and a change
\* costs one attempt at most (accept_candidate_for_process, persist_tracks).
ChangeCostsAnAttempt == misnamed <= changes

\* The bytes sent are those announced, in order, each once; a range inside the
\* video is answered by exactly its bytes, one that runs past the end up to the
\* end (_parse_byte_range, playback_video).
RangeServed ==
  Answered("playback") /\ reader.answer # None =>
    LET h == reader.found
        a == reader.answer
        sent == a.sent
    IN  /\ Len(sent) = a.length
        /\ \A i \in 1..Len(sent) : sent[i] = sent[1] + i - 1 /\ sent[i] \in 0..(a.total - 1)
        /\ h = None => Len(sent) = a.total
        /\ h # None => (h.unit = "bytes" /\ h.first \in 0..(a.total - 1) =>
             /\ h.last = Blank =>
                  sent[1] = h.first /\ sent[Len(sent)] = a.total - 1
             /\ h.last \in Nat /\ h.last >= h.first =>
                  sent[1] = h.first /\ sent[Len(sent)] = Min({h.last, a.total - 1}))
=============================================================================
