--------------------------- MODULE BulkEnrollment ----------------------------
(***************************************************************************)
(* The bulk enrolment of Phase 1: the command `enroll' goes through the    *)
(* subjects of a manifest, extracts one face of each picture on the GPU    *)
(* (GpuFacePipeline) and persists a subject over PostgreSQL, MinIO and     *)
(* Qdrant (PersistenceOrchestrator), next to the online service, whose     *)
(* tables it writes.  Identifiers are deterministic, so that every run     *)
(* meets the rows, objects and points of the runs before it.               *)
(*                                                                         *)
(* Each step is one transaction, one gather of uploads or one call of      *)
(* Qdrant.  A run may end between any two of them: the process dies, or an *)
(* exception leaves persist_bundle, and then no journal is written.        *)
(***************************************************************************)
EXTENDS Naturals, Sequences, FiniteSets

CONSTANTS
  Runs,         \* invocations of the command
  Manifest,     \* the subjects: a sequence of [face, images]
  Kind,         \* what the detector finds in each picture
  BatchSize,    \* --batch-size
  EngineMax,    \* the largest batch of the recognizer's profile
  Overlapping,  \* two runs may be under way at once
  Deactivated   \* faces that may be deactivated through the online service

Faces == {Manifest[k].face : k \in DOMAIN Manifest}
Images == UNION {{Manifest[k].images[p] : p \in DOMAIN Manifest[k].images} : k \in DOMAIN Manifest}

ASSUME ManifestAssumption ==
  /\ Manifest \in Seq([face : Faces, images : Seq(Images)])
  /\ Len(Manifest) > 0
  /\ \A k \in DOMAIN Manifest : Len(Manifest[k].images) > 0
  /\ Kind \in [Images -> {"single", "many", "none", "broken"}]
  /\ "nothing" \notin Images
ASSUME SizeAssumption == BatchSize \in Nat \ {0} /\ EngineMax \in Nat \ {0}
ASSUME SwitchAssumption == Overlapping \in BOOLEAN /\ Deactivated \subseteq Faces

\* make_sample_id: the same bytes for the same face are the same sample.
SampleId(f, i) == <<f, i>>
Samples == UNION {{SampleId(Manifest[k].face, Manifest[k].images[p]) :
                     p \in DOMAIN Manifest[k].images} : k \in DOMAIN Manifest}

VARIABLES
  face,        \* face_identity
  sample,      \* face_sample: its state, and whether deactivated_at is set
  object,      \* the samples whose source bytes are in MinIO
  vector,      \* the points: the picture each was computed from, and its flag
  collection,  \* the Qdrant collection and its payload indexes
  run

vars == <<face, sample, object, vector, collection, run>>

States == {"none", "pending", "active", "failed", "inactive"}
SampleRows == [state : States, ended : BOOLEAN]
NoRow == [state |-> "none", ended |-> FALSE]
Points == [of : Images \cup {"nothing"}, active : BOOLEAN]
NoPoint == [of |-> "nothing", active |-> FALSE]

Ends == {"done", "blocked", "aborted"}
Steps == {"admit", "look", "create", "index", "extract", "reject", "prepare",
          "upload", "upsert", "activate", "dropObjects", "dropBoth", "failAll",
          "count", "hide", "settle", "journal"}
Positions == UNION {DOMAIN Manifest[k].images : k \in DOMAIN Manifest}

RunStates ==
  [at : Steps \cup Ends \cup {"new"},
   next : 1..(Len(Manifest) + 1),                     \* the bundle at hand
   validated : BOOLEAN,                               \* QdrantStore._validated
   embedding : [Positions -> Images \cup {"nothing"}],\* of the accepted pictures
   rejected : SUBSET Samples,
   uploaded : SUBSET Positions,
   failed : SUBSET Samples,
   outcomes : [DOMAIN Manifest -> SUBSET Samples]]    \* persisted_sample_ids
NewRun == [at |-> "new", next |-> 1, validated |-> FALSE,
           embedding |-> [p \in Positions |-> "nothing"], rejected |-> {},
           uploaded |-> {}, failed |-> {}, outcomes |-> [k \in DOMAIN Manifest |-> {}]]

TypeOK ==
  /\ face \in [Faces -> {"none", "active", "inactive"}]
  /\ sample \in [Samples -> SampleRows]
  /\ object \subseteq Samples
  /\ vector \in [Samples -> Points]
  /\ collection \in {"absent", "bare", "indexed"}
  /\ run \in [Runs -> RunStates]

Init ==
  /\ face = [f \in Faces |-> "none"]
  /\ sample = [s \in Samples |-> NoRow]
  /\ object = {}
  /\ vector = [s \in Samples |-> NoPoint]
  /\ collection = "absent"
  /\ run = [r \in Runs |-> NewRun]

At(r, point) == run[r].at = point
Goto(r, point) == run' = [run EXCEPT ![r].at = point]
FaceOf(r) == Manifest[run[r].next].face
ImagesOf(r) == Manifest[run[r].next].images
SampleAt(r, p) == SampleId(FaceOf(r), ImagesOf(r)[p])
SamplesAt(r, ps) == {SampleAt(r, p) : p \in ps}
Accepted(r) == {p \in DOMAIN ImagesOf(r) : run[r].embedding[p] # "nothing"}

-----------------------------------------------------------------------------
(* Admission, and the collection's contract.                               *)

Start(r) ==
  /\ At(r, "new")
  /\ Overlapping \/ \A q \in Runs : run[q].at \in Ends \cup {"new"}
  /\ Goto(r, "admit")
  /\ UNCHANGED <<face, sample, object, vector, collection>>

\* AdmissionGate.admit, or --skip-admission.  A blocked run has done nothing.
Admit(r) ==
  /\ At(r, "admit")
  /\ Goto(r, "look") \/ Goto(r, "blocked") \/ Goto(r, "extract")
  /\ UNCHANGED <<face, sample, object, vector, collection>>

\* ensure_collection is called by the gate, on a store of its own, and before
\* the upsert; what an exception means differs.
Uploaded(r) == run[r].uploaded # {}
Ensured(r) ==
  run' = IF Uploaded(r)
         THEN [run EXCEPT ![r].at = "upsert", ![r].validated = TRUE]
         ELSE [run EXCEPT ![r].at = "extract"]
Refused(r) ==
  run' = IF Uploaded(r)
         THEN [run EXCEPT ![r].at = "dropObjects",
                          ![r].failed = @ \cup SamplesAt(r, run[r].uploaded)]
         ELSE [run EXCEPT ![r].at = "blocked"]

LookUp(r) ==
  /\ At(r, "look")
  /\ \/ collection = "absent" /\ Goto(r, "create")
     \/ collection = "indexed" /\ Ensured(r)
     \/ Refused(r)  \* no index, or no answer
  /\ UNCHANGED <<face, sample, object, vector, collection>>

CreateCollection(r) ==
  /\ At(r, "create")
  /\ \/ collection = "absent" /\ collection' = "bare" /\ Goto(r, "index")
     \/ collection = "absent" /\ collection' = "bare" /\ Refused(r)
     \/ UNCHANGED collection /\ Refused(r)
  /\ UNCHANGED <<face, sample, object, vector>>

\* The payload indexes are made one by one: after an exception the collection
\* is there without one of them, and nothing makes it later.
CreateIndexes(r) ==
  /\ At(r, "index")
  /\ \/ collection' = "indexed" /\ Ensured(r)
     \/ UNCHANGED collection /\ Refused(r)
  /\ UNCHANGED <<face, sample, object, vector>>

-----------------------------------------------------------------------------
(* GpuFacePipeline.extract_batch                                           *)

\* The pictures are cut into chunks of equal size; an exception in one fails
\* the whole chunk.
ChunkSize(images) == IF Len(images) < BatchSize THEN Len(images) ELSE BatchSize
Chunk(images, p) == (p - 1) \div ChunkSize(images)
Chunks(images) == {Chunk(images, p) : p \in DOMAIN images}

Valid(images, c) == {p \in DOMAIN images : Chunk(images, p) = c /\ Kind[images[p]] # "broken"}

\* The n-th of a set of positions.
Nth(ps, n) == CHOOSE p \in ps : Cardinality({q \in ps : q <= p}) = n

\* Fault: the index stays behind at a picture without a face.
LaggingSlot(images, p) ==
  Cardinality({q \in Valid(images, Chunk(images, p)) :
                 q <= p /\ (q = p \/ Kind[images[q]] # "none")})

\* valid_idx, which runs over the decoded pictures as p runs over the chunk.
Slot(images, p) ==
  Cardinality({q \in Valid(images, Chunk(images, p)) : q <= p})

Selected(images, c) == {p \in Valid(images, c) : Kind[images[p]] = "single"}

\* The picture that lies in the n-th chip: the one decoded into the slot of the
\* n-th selected picture.
Chip(images, c, n) == images[Nth(Valid(images, c), Slot(images, Nth(Selected(images, c), n)))]

\* The recognizer splits the chips by its engine's largest batch.  The engine
\* has one output buffer, so that row n of the result is what was written to
\* that place of the buffer last.
Embedding(images, p) ==
  LET c == Chunk(images, p)
      m == Cardinality(Selected(images, c))
      n == Cardinality({q \in Selected(images, c) : q <= p})
      last == CHOOSE k \in 1..m : /\ k % EngineMax = n % EngineMax
                                  /\ k + EngineMax > m
  IN  Chip(images, c, last)

Extract(r) ==
  /\ At(r, "extract")
  /\ \E broken \in SUBSET Chunks(ImagesOf(r)) :
       LET images == ImagesOf(r)
           ok == {p \in DOMAIN images : /\ Chunk(images, p) \notin broken
                                        /\ Kind[images[p]] = "single"}
       IN  run' = [run EXCEPT
             ![r].at = IF ok = {} THEN "reject" ELSE "prepare",
             ![r].embedding = [p \in Positions |->
                                 IF p \in ok THEN Embedding(images, p) ELSE "nothing"],
             ![r].rejected = SamplesAt(r, DOMAIN images \ ok),
             ![r].uploaded = {}, ![r].failed = {}]
  /\ UNCHANGED <<face, sample, object, vector, collection>>

-----------------------------------------------------------------------------
(* PersistenceOrchestrator.persist_bundle                                  *)

\* fail_samples_tx: rows that are not there stay away, the others are failed
\* whatever they were.
FailRows(samples) ==
  sample' = [s \in Samples |->
               IF s \in samples /\ sample[s].state # "none"
               THEN [sample[s] EXCEPT !.state = "failed"] ELSE sample[s]]

\* The bundle is done; the next one, or the journal.
NextBundle(r, persisted) ==
  run' = [run EXCEPT
    ![r].at = IF run[r].next = Len(Manifest) THEN "journal" ELSE "extract",
    ![r].next = @ + 1,
    ![r].outcomes[run[r].next] = persisted]

Reject(r) ==
  /\ At(r, "reject")
  /\ FailRows(run[r].rejected)
  /\ NextBundle(r, {})
  /\ UNCHANGED <<face, object, vector, collection>>

\* prepare_enrollment: the face is active from now on whatever it was, the rows
\* that are there stay as they are.
Prepare(r) ==
  /\ At(r, "prepare")
  /\ face' = [face EXCEPT ![FaceOf(r)] = "active"]
  /\ sample' = [s \in Samples |->
                  IF s \in SamplesAt(r, Accepted(r)) /\ sample[s].state = "none"
                  THEN [NoRow EXCEPT !.state = "pending"] ELSE sample[s]]
  /\ Goto(r, "upload")
  /\ UNCHANGED <<object, vector, collection>>

\* Fault: an upload that raised is gone on with like the others.
CarelessUpload(r) ==
  /\ At(r, "upload")
  /\ \E good \in SUBSET Accepted(r) :
     \E put \in SUBSET SamplesAt(r, Accepted(r) \ good) :
       /\ object' = object \cup SamplesAt(r, good) \cup put
       /\ run' = [run EXCEPT
            ![r].uploaded = Accepted(r),
            ![r].at = IF run[r].validated THEN "upsert" ELSE "look"]
  /\ UNCHANGED <<face, sample, vector, collection>>

\* upload_many: each upload puts the object, finds it there with the same
\* bytes, or raises, and may have put it then.  With an upload that raises
\* outside the gather (the bucket's check) the run ends: Abort.
Upload(r) ==
  /\ At(r, "upload")
  /\ \E good \in SUBSET Accepted(r) :
     \E put \in SUBSET SamplesAt(r, Accepted(r) \ good) :
       /\ object' = object \cup SamplesAt(r, good) \cup put
       /\ run' = [run EXCEPT
            ![r].uploaded = good,
            ![r].failed = SamplesAt(r, Accepted(r) \ good),
            ![r].at = IF good = {} THEN "failAll"
                      ELSE IF run[r].validated THEN "upsert" ELSE "look"]
  /\ UNCHANGED <<face, sample, vector, collection>>

\* One upsert for all; of two pictures with one id the later stands.
Upserted(r) ==
  vector' = [s \in Samples |->
    IF s \in SamplesAt(r, run[r].uploaded)
    THEN LET ps == {p \in run[r].uploaded : SampleAt(r, p) = s}
             p == CHOOSE p \in ps : \A q \in ps : q <= p
         IN  [of |-> run[r].embedding[p], active |-> TRUE]
    ELSE vector[s]]

\* Fault: only the failed uploads are marked failed after an upsert that raised.
ForgetfulUpsert(r) ==
  /\ At(r, "upsert")
  /\ \/ Upserted(r) /\ Goto(r, "activate")
     \/ /\ Upserted(r) \/ UNCHANGED vector
        /\ Goto(r, "dropObjects")
  /\ UNCHANGED <<face, sample, object, collection>>

Upsert(r) ==
  /\ At(r, "upsert")
  /\ \/ Upserted(r) /\ Goto(r, "activate")
     \/ /\ Upserted(r) \/ UNCHANGED vector
        /\ Refused(r)
  /\ UNCHANGED <<face, sample, object, collection>>

\* ck_face_sample_lifecycle refuses an active row that has been deactivated
\* once, and with it the whole transaction.
Activatable(r) == \A s \in SamplesAt(r, run[r].uploaded) : ~sample[s].ended

Activated(r) ==
  sample' = [s \in Samples |->
               IF s \in SamplesAt(r, run[r].uploaded)
               THEN [sample[s] EXCEPT !.state = "active"] ELSE sample[s]]

Activate(r) ==
  /\ At(r, "activate")
  /\ \/ Activatable(r) /\ Activated(r) /\ Goto(r, "settle")
     \/ /\ (Activatable(r) /\ Activated(r)) \/ UNCHANGED sample
        /\ run' = [run EXCEPT ![r].at = "dropBoth",
                     ![r].failed = @ \cup SamplesAt(r, run[r].uploaded)]
  /\ UNCHANGED <<face, object, vector, collection>>

\* Best-effort deletions: any of them may fail.
DropObjects(r) ==
  /\ At(r, "dropObjects")
  /\ \E gone \in SUBSET SamplesAt(r, run[r].uploaded) : object' = object \ gone
  /\ Goto(r, "failAll")
  /\ UNCHANGED <<face, sample, vector, collection>>

DropBoth(r) ==
  /\ At(r, "dropBoth")
  /\ \E gone, lost \in SUBSET SamplesAt(r, run[r].uploaded) :
       /\ object' = object \ gone
       /\ vector' = [s \in Samples |-> IF s \in lost THEN NoPoint ELSE vector[s]]
  /\ Goto(r, "failAll")
  /\ UNCHANGED <<face, sample, collection>>

FailAll(r) ==
  /\ At(r, "failAll")
  /\ FailRows(run[r].failed)
  /\ Goto(r, "count")
  /\ UNCHANGED <<face, object, vector, collection>>

\* deactivate_face_if_no_active_samples_tx counts, then writes.
CountActive(r) ==
  /\ At(r, "count")
  /\ IF \E s \in Samples : s[1] = FaceOf(r) /\ sample[s].state = "active"
     THEN NextBundle(r, {}) ELSE Goto(r, "hide")
  /\ UNCHANGED <<face, sample, object, vector, collection>>

HideFace(r) ==
  /\ At(r, "hide")
  /\ face' = [face EXCEPT ![FaceOf(r)] = "inactive"]
  /\ NextBundle(r, {})
  /\ UNCHANGED <<sample, object, vector, collection>>

\* Fault: of a bundle that is persisted in part only the rejected are failed.
HalfSettle(r) ==
  /\ At(r, "settle")
  /\ FailRows(run[r].rejected)
  /\ NextBundle(r, SamplesAt(r, run[r].uploaded))
  /\ UNCHANGED <<face, object, vector, collection>>

Settle(r) ==
  /\ At(r, "settle")
  /\ FailRows(run[r].failed \cup run[r].rejected)
  /\ NextBundle(r, SamplesAt(r, run[r].uploaded))
  /\ UNCHANGED <<face, object, vector, collection>>

WriteJournal(r) ==
  /\ At(r, "journal")
  /\ Goto(r, "done")
  /\ UNCHANGED <<face, sample, object, vector, collection>>

\* The process dies, or an exception leaves persist_bundle: a transaction, the
\* bucket's check, a failure code longer than its column.
Abort(r) ==
  /\ run[r].at \in Steps
  /\ Goto(r, "aborted")
  /\ UNCHANGED <<face, sample, object, vector, collection>>

\* deactivate_identity of the online service; the points are hidden as far as
\* Qdrant answers.
Deactivate(f) ==
  /\ f \in Deactivated
  /\ face[f] = "active"
  /\ face' = [face EXCEPT ![f] = "inactive"]
  /\ LET own == {s \in Samples : s[1] = f /\ sample[s].state = "active"}
     IN  /\ sample' = [s \in Samples |->
                         IF s \in own THEN [state |-> "inactive", ended |-> TRUE]
                         ELSE sample[s]]
         /\ \E hidden \in SUBSET own :
              vector' = [s \in Samples |-> IF s \in hidden /\ vector[s] # NoPoint
                                           THEN [vector[s] EXCEPT !.active = FALSE]
                                           ELSE vector[s]]
  /\ UNCHANGED <<object, collection, run>>

RunNext(r) ==
  \/ Start(r) \/ Admit(r) \/ LookUp(r) \/ CreateCollection(r) \/ CreateIndexes(r)
  \/ Extract(r) \/ Reject(r) \/ Prepare(r) \/ Upload(r) \/ Upsert(r) \/ Activate(r)
  \/ DropObjects(r) \/ DropBoth(r) \/ FailAll(r) \/ CountActive(r) \/ HideFace(r)
  \/ Settle(r) \/ WriteJournal(r) \/ Abort(r)

Next ==
  \/ \E r \in Runs : RunNext(r)
  \/ \E f \in Faces : Deactivate(f)

Spec == Init /\ [][Next]_vars

-----------------------------------------------------------------------------
(* Properties.                                                             *)

\* Through the chunks, the decoded slots, the selection and the recognizer's
\* output buffer each embedding keeps to its picture: a point never holds the
\* face of another one.
VectorIsOwn == \A s \in Samples : vector[s] # NoPoint => vector[s].of = s[2]

\* Every run so far has got to its end.
Quiet == \A r \in Runs : run[r].at \in {"new", "done", "blocked"}

\* When nothing was cut off, an active row has its object and a point that is
\* found, whatever failed in a run over samples that were active before it; and
\* "they are marked failed so no row stays stuck in pending."
RunsSettle ==
  Quiet => \A s \in Samples :
             /\ sample[s].state = "active" => s \in object /\ vector[s].active
             /\ sample[s].state # "pending"

\* _run_reconcile of one persisted sample.
Reconciles(s) == sample[s].state = "active" /\ s \in object /\ vector[s] # NoPoint

\* A journal is true when it is written: what it says was persisted passes
\* reconcile, or has been deactivated since.  (One run at a time, and no picture
\* twice under one face.)
JournalHolds ==
  [][\A r \in Runs : run[r].at # "done" /\ run'[r].at = "done" =>
       \A k \in DOMAIN Manifest : \A s \in run[r].outcomes[k] :
         Reconciles(s)' \/ sample'[s].state = "inactive"]_vars
=============================================================================
