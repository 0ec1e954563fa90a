--------------------------- MODULE IdentityStorage ---------------------------
(***************************************************************************)
(* IdentityStorageLifecycleService and the image recognition that calls it *)
(* : faces and samples in PostgreSQL, crops in MinIO, vectors in Qdrant.   *)
(* No transaction spans the stores.  A new sample is a pending row, then   *)
(* an object, then a vector, then an active row; when a step raises, the   *)
(* ones before it are undone in separate calls that may raise themselves.  *)
(*                                                                         *)
(* A call is one request of the API, or the resolution of one track of a   *)
(* video job.  Each step is one transaction or one call of another store;  *)
(* a transaction that reads a row and writes it later without a lock is    *)
(* two.  What a vector search returns is any of the active points.         *)
(***************************************************************************)
EXTENDS Naturals, FiniteSets

CONSTANTS
  Calls,
  Faces,
  Samples,
  OldFaces,     \* the faces there from before
  OldSample,    \* and the sample each has
  Ops,          \* the operations that are called
  MaxFaces,     \* state-space bound: faces in one image
  LostReplies,  \* an upload, an upsert or the activating commit may be
                \* carried out and raise all the same
  Job,          \* the process record of the video job whose tracks are resolved
  None

Operations == {"recognize", "track", "addSample", "enroll", "update",
               "deactivate", "deleteSample"}

ASSUME OldAssumption == /\ OldFaces \subseteq Faces
                        /\ OldSample \in [OldFaces -> Samples]
                        /\ \A f, g \in OldFaces : OldSample[f] = OldSample[g] => f = g
ASSUME BoundAssumption == MaxFaces \in Nat \ {0} /\ LostReplies \in BOOLEAN
ASSUME NullAssumption == None \notin Faces \cup Samples \cup Operations /\ Job \notin Calls

VARIABLES
  identity,  \* face_identity
  sample,    \* face_sample
  object,    \* the samples whose crop is in MinIO
  vector,    \* the points of the Qdrant collection, with their active flag
  process,   \* status of each process_record
  results,   \* recognition_result
  call,      \* what each call is doing
  loss       \* what went wrong besides: "cleanup", a call was cut off or could
             \* not undo what it had done; "reply", a store did what it reported
             \* not to have done

vars == <<identity, sample, object, vector, process, results, call, loss>>

IdentityRows == [state : {"none", "active", "inactive"}, known : BOOLEAN, version : Nat]
NoIdentity == [state |-> "none", known |-> FALSE, version |-> 0]
NewIdentity == [state |-> "active", known |-> FALSE, version |-> 1]

SampleRows == [state : {"none", "pending", "active", "failed", "inactive"},
               face : Faces \cup {None}]

ProcessStates == {"none", "processing", "completed", "failed", "cancelled"}
Ends == {"done", "raised", "gone"}
Points == Ends \cup
  {"new", "next", "try", "accept", "create", "addLoad", "addRow", "upload", "upsert", "activate",
   "removeVector", "removeObject", "failLoad", "failSave", "failSample",
   "enrollLoad", "enrollSave", "updateSave", "deactivateLoad", "deactivateSave",
   "deactivateVectors", "deleteSave", "deleteVector", "deleteObject",
   "complete", "failProcess"}

CallStates == [op : Operations \cup {None}, at : Points, face : Faces \cup {None},
               sample : Samples \cup {None}, copy : IdentityRows,
               left : 0..MaxFaces, todo : SUBSET Samples, gone : SUBSET Faces]
NewCall == [op |-> None, at |-> "new", face |-> None, sample |-> None,
            copy |-> NoIdentity, left |-> 0, todo |-> {}, gone |-> {}]

Results == [call : Calls, face : Faces, sample : Samples]

TypeOK ==
  /\ identity \in [Faces -> IdentityRows]
  /\ sample \in [Samples -> SampleRows]
  /\ object \subseteq Samples
  /\ vector \in [Samples -> {"none", "active", "inactive"}]
  /\ process \in [Calls \cup {Job} -> ProcessStates]
  /\ results \subseteq Results
  /\ call \in [Calls -> CallStates]
  /\ loss \subseteq {"cleanup", "reply"}

Init ==
  LET owner(s) == {f \in OldFaces : OldSample[f] = s}
      old == {s \in Samples : owner(s) # {}}
  IN  /\ identity = [f \in Faces |-> IF f \in OldFaces THEN NewIdentity ELSE NoIdentity]
      /\ sample = [s \in Samples |->
                     IF s \in old
                     THEN [state |-> "active", face |-> CHOOSE f \in owner(s) : TRUE]
                     ELSE [state |-> "none", face |-> None]]
      /\ object = old
      /\ vector = [s \in Samples |-> IF s \in old THEN "active" ELSE "none"]
      /\ process = [p \in Calls \cup {Job} |-> IF p = Job THEN "processing" ELSE "none"]
      /\ results = {}
      /\ call = [c \in Calls |-> NewCall]
      /\ loss = {}

-----------------------------------------------------------------------------
At(c, point) == call[c].at = point
FaceOf(c) == call[c].face
SampleOf(c) == call[c].sample
ProcessOf(c) == IF call[c].op = "track" THEN Job ELSE c

Goto(c, point) == call' = [call EXCEPT ![c].at = point]
SetSample(c, state) == sample' = [sample EXCEPT ![SampleOf(c)].state = state]
SetProcess(c, status) == process' = [process EXCEPT ![ProcessOf(c)] = status]

\* An exception that reaches recognize_image, enroll_identity or
\* deactivate_identity fails the call's own process record on the way out.
Raise(c) == Goto(c, IF call[c].op \in {"recognize", "enroll", "deactivate"}
                    THEN "failProcess" ELSE "raised")

Active(f) == identity[f].state = "active"
ActiveSamples(f) == {s \in Samples : sample[s] = [state |-> "active", face |-> f]}

\* The Qdrant collection: what a query may return, an upsert, a delete, and
\* set_active(False), which changes a point that is there.
Search == {s \in Samples : vector[s] = "active"}
Upserted(s) == [vector EXCEPT ![s] = "active"]
Deleted(s) == [vector EXCEPT ![s] = "none"]
Hidden(s) == [vector EXCEPT ![s] = IF @ = "none" THEN @ ELSE "inactive"]

\* The bucket: an object is written under the key of its sample; removing one
\* that is not there is no error.
Stored(s) == object \cup {s}
Removed(s) == object \ {s}
Inactive == {f \in Faces : identity[f].state = "inactive"}

-----------------------------------------------------------------------------
(* The calls.                                                              *)

\* Several calls open a process record of their own first.
Start(c, op, point, entry) ==
  /\ At(c, "new")
  /\ op \in Ops
  /\ call' = [call EXCEPT ![c] = [entry EXCEPT !.op = op, !.at = point]]
  /\ process' = IF op \in {"recognize", "enroll", "deactivate"}
                THEN [process EXCEPT ![c] = "processing"] ELSE process
  /\ UNCHANGED <<identity, sample, object, vector, results, loss>>

StartRecognize(c, n) ==
  Start(c, "recognize", "next",
        [NewCall EXCEPT !.left = n, !.gone = Inactive])

\* A worker resolves the tracks of its job one after the other, and those of
\* a failed attempt again in the next.
StartTrack(c) ==
  /\ \A d \in Calls : call[d].op = "track" => call[d].at \in Ends
  /\ Start(c, "track", "next", [NewCall EXCEPT !.left = 1, !.gone = Inactive])

\* verify_identity_match: without a sample any picture will do, otherwise the
\* best of all points must be one of the face.
Verifiable(f) ==
  ActiveSamples(f) = {} \/ \E s \in Search : sample[s].face = f

\* add_face_sample: how near the vectors are is not known.
StartAddSample(c, f) ==
  \E point \in IF Verifiable(f) THEN {"addLoad", "raised"} ELSE {"raised"} :
    Start(c, "addSample", point, [NewCall EXCEPT !.face = f])

\* update_identity and delete_sample end at once unless the row they need is
\* there.

StartEnroll(c, f) == Start(c, "enroll", "enrollLoad", [NewCall EXCEPT !.face = f])

StartUpdate(c, f) ==
  Start(c, "update", IF Active(f) /\ identity[f].known THEN "updateSave" ELSE "raised",
        [NewCall EXCEPT !.face = f, !.copy = identity[f]])

StartDeactivate(c, f) ==
  Start(c, "deactivate", "deactivateLoad", [NewCall EXCEPT !.face = f])

StartDeleteSample(c, s) ==
  /\ sample[s].state # "none"
  /\ Start(c, "deleteSample", IF sample[s].state = "active" THEN "deleteSave" ELSE "done",
           [NewCall EXCEPT !.sample = s, !.face = sample[s].face])

-----------------------------------------------------------------------------
(* resolve_or_create_for_process, and the track's twin of it.              *)

\* The next detection: which points score above the threshold is not known.
Query(c) ==
  /\ At(c, "next")
  /\ \/ /\ call[c].left = 0
        /\ Goto(c, IF call[c].op = "track" THEN "done" ELSE "complete")
     \/ /\ call[c].left > 0
        /\ \E found \in SUBSET Search :
             call' = [call EXCEPT ![c].at = "try", ![c].todo = found]
     \/ Raise(c)
  /\ UNCHANGED <<identity, sample, object, vector, process, results, loss>>

\* Fault: only the sample's row is looked at.
SampleOnlyAcceptable(s) == sample[s].state = "active"

\* What PostgreSQL must say of a candidate.
Acceptable(s) == sample[s].state = "active" /\ Active(sample[s].face)

TryCandidate(c) ==
  /\ At(c, "try")
  /\ \/ /\ call[c].todo = {}
        /\ Goto(c, "create")
     \/ \E s \in call[c].todo :
          call' = [call EXCEPT ![c].todo = @ \ {s},
                     ![c].at = IF Acceptable(s) THEN "accept" ELSE "try",
                     ![c].face = IF Acceptable(s) THEN sample[s].face ELSE None,
                     ![c].sample = IF Acceptable(s) THEN s ELSE None]
  /\ UNCHANGED <<identity, sample, object, vector, process, results, loss>>

AddResult(c) ==
  results' = results \cup {[call |-> c, face |-> FaceOf(c), sample |-> SampleOf(c)]}
NextFace(c) == call' = [call EXCEPT ![c].at = "next", ![c].left = @ - 1,
                                    ![c].face = None, ![c].sample = None]

\* A candidate whose commit raises is passed over for a track, but ends the
\* recognition of an image.
Accept(c) ==
  /\ At(c, "accept")
  /\ \/ AddResult(c) /\ NextFace(c)
     \/ /\ IF call[c].op = "track" THEN Goto(c, "try") ELSE Raise(c)
        /\ UNCHANGED results
  /\ UNCHANGED <<identity, sample, object, vector, process, loss>>

CreateIdentity(c, f, s) ==
  /\ At(c, "create")
  /\ \/ /\ identity[f].state = "none" /\ sample[s].state = "none"
        /\ identity' = [identity EXCEPT ![f] = NewIdentity]
        /\ sample' = [sample EXCEPT ![s] = [state |-> "pending", face |-> f]]
        /\ call' = [call EXCEPT ![c].at = "upload", ![c].face = f, ![c].sample = s]
     \/ Raise(c) /\ UNCHANGED <<identity, sample>>
  /\ UNCHANGED <<object, vector, process, results, loss>>

\* add_sample looks at the identity again, and adds the row in a transaction
\* after that.
AddLoad(c) ==
  /\ At(c, "addLoad")
  /\ Goto(c, IF Active(FaceOf(c)) THEN "addRow" ELSE "raised")
  /\ UNCHANGED <<identity, sample, object, vector, process, results, loss>>

AddRow(c, s) ==
  /\ At(c, "addRow")
  /\ sample[s].state = "none"
  /\ sample' = [sample EXCEPT ![s] = [state |-> "pending", face |-> FaceOf(c)]]
  /\ call' = [call EXCEPT ![c].at = "upload", ![c].sample = s]
  /\ UNCHANGED <<identity, object, vector, process, results, loss>>

AfterFailure(c) == IF call[c].op = "addSample" THEN "failSample" ELSE "failLoad"

\* Fault: an upload that raises is not noticed.
HopefulUpload(c) ==
  /\ At(c, "upload")
  /\ object' = Stored(SampleOf(c)) \/ UNCHANGED object
  /\ Goto(c, "upsert")
  /\ UNCHANGED <<identity, sample, vector, process, results, loss>>

\* The reply of a store gets lost.
Lost == LostReplies /\ loss' = loss \cup {"reply"}

Upload(c) ==
  /\ At(c, "upload")
  /\ \/ object' = Stored(SampleOf(c)) /\ Goto(c, "upsert") /\ UNCHANGED loss
     \/ UNCHANGED <<object, loss>> /\ Goto(c, AfterFailure(c))
     \/ Lost /\ object' = Stored(SampleOf(c)) /\ Goto(c, AfterFailure(c))
  /\ UNCHANGED <<identity, sample, vector, process, results>>

Upsert(c) ==
  /\ At(c, "upsert")
  /\ \/ vector' = Upserted(SampleOf(c)) /\ Goto(c, "activate") /\ UNCHANGED loss
     \/ UNCHANGED <<vector, loss>> /\ Goto(c, "removeObject")
     \/ Lost /\ vector' = Upserted(SampleOf(c)) /\ Goto(c, "removeObject")
  /\ UNCHANGED <<identity, sample, object, process, results>>

\* The sample becomes active and, but for add_sample, its result is added.
Activate(c) ==
  /\ At(c, "activate")
  /\ \/ /\ SetSample(c, "active")
        /\ IF call[c].op = "addSample"
           THEN Goto(c, "done") /\ UNCHANGED results
           ELSE NextFace(c) /\ AddResult(c)
        /\ UNCHANGED loss
     \/ Goto(c, "removeVector") /\ UNCHANGED <<sample, results, loss>>
     \/ /\ Lost
        /\ SetSample(c, "active")
        /\ IF call[c].op = "addSample" THEN UNCHANGED results ELSE AddResult(c)
        /\ Goto(c, "removeVector")
  /\ UNCHANGED <<identity, object, vector, process>>

-----------------------------------------------------------------------------
(* Compensation.                                                           *)

\* Fault: the vector stays.
SkippedRemoveVector(c) ==
  /\ At(c, "removeVector")
  /\ Goto(c, "removeObject")
  /\ UNCHANGED <<identity, sample, object, vector, process, results, loss>>

\* The only cleanup whose own failure is not caught.
RemoveVector(c) ==
  /\ At(c, "removeVector")
  /\ \/ /\ vector' = Deleted(SampleOf(c))
        /\ Goto(c, "removeObject")
        /\ UNCHANGED loss
     \/ /\ Raise(c)
        /\ loss' = loss \cup {"cleanup"}
        /\ UNCHANGED vector
  /\ UNCHANGED <<identity, sample, object, process, results>>

\* _delete_object_best_effort
RemoveObject(c) ==
  /\ At(c, "removeObject")
  /\ \/ object' = Removed(SampleOf(c)) /\ UNCHANGED loss
     \/ UNCHANGED object /\ loss' = loss \cup {"cleanup"}
  /\ Goto(c, AfterFailure(c))
  /\ UNCHANGED <<identity, sample, vector, process, results>>

\* _fail_sample
FailSample(c) ==
  /\ At(c, "failSample")
  /\ sample' = [sample EXCEPT ![SampleOf(c)].state = IF @ = "pending" THEN "failed" ELSE @]
  /\ Goto(c, "raised")
  /\ UNCHANGED <<identity, object, vector, process, results, loss>>

\* _persist_resolution_failure: the identity is loaded first ...
FailLoad(c) ==
  /\ At(c, "failLoad")
  /\ call' = [call EXCEPT ![c].at = "failSave", ![c].copy = identity[FaceOf(c)]]
  /\ UNCHANGED <<identity, sample, object, vector, process, results, loss>>

\* Fault: the identity is left as it is.
IdentityKeptFailSave(c) ==
  /\ At(c, "failSave")
  /\ IF sample[SampleOf(c)].state \in {"pending", "active"} /\ process[ProcessOf(c)] = "processing"
     THEN SetSample(c, "failed") /\ SetProcess(c, "failed")
     ELSE UNCHANGED <<sample, process>>
  /\ Raise(c)
  /\ UNCHANGED <<identity, object, vector, results, loss>>

\* ... and what deactivate() made of it is written with no expected version:
\* update() reads the row once more, at version `seen', and writes every column
\* in which the two differ.  Whatever was written between its two reads is
\* overwritten; after the second, only what differed then.
Deactivated(row, copy, seen) ==
  [state |-> "inactive",
   known |-> IF seen = copy.version THEN row.known ELSE copy.known,
   version |-> IF seen = copy.version + 1 THEN row.version ELSE copy.version + 1]

\* A sample or a process that cannot fail any more undoes the transaction.
FailSave(c) ==
  /\ At(c, "failSave")
  /\ LET f == FaceOf(c)
         copy == call[c].copy
         p == ProcessOf(c)
     IN  IF sample[SampleOf(c)].state \in {"pending", "active"} /\ process[p] = "processing"
         THEN /\ IF copy.state = "active"
                 THEN \E seen \in copy.version..identity[f].version :
                        identity' = [identity EXCEPT ![f] = Deactivated(@, copy, seen)]
                 ELSE UNCHANGED identity
              /\ SetSample(c, "failed")
              /\ SetProcess(c, "failed")
         ELSE UNCHANGED <<identity, sample, process>>
  /\ Raise(c)
  /\ UNCHANGED <<object, vector, results, loss>>

\* fail_process
FailProcess(c) ==
  /\ At(c, "failProcess")
  /\ process' = [process EXCEPT ![c] = IF @ = "processing" THEN "failed" ELSE @]
  /\ Goto(c, "raised")
  /\ UNCHANGED <<identity, sample, object, vector, results, loss>>

\* complete_process, at the end of recognize_image.
CompleteProcess(c) ==
  /\ At(c, "complete")
  /\ process[c] = "processing"
  /\ SetProcess(c, "completed")
  /\ Goto(c, "done")
  /\ UNCHANGED <<identity, sample, object, vector, results, loss>>

-----------------------------------------------------------------------------
(* Enrolment, update and removal.                                          *)

EnrollLoad(c) ==
  /\ At(c, "enrollLoad")
  /\ IF Active(FaceOf(c)) /\ ~identity[FaceOf(c)].known
     THEN call' = [call EXCEPT ![c].at = "enrollSave", ![c].copy = identity[FaceOf(c)]]
     ELSE Raise(c)
  /\ UNCHANGED <<identity, sample, object, vector, process, results, loss>>

\* Fault: the version is not looked at.
UnversionedUpdate(c, row) ==
  identity' = [identity EXCEPT ![FaceOf(c)] = [row EXCEPT !.version = identity[FaceOf(c)].version + 1]]

\* update_with_expected_version
VersionedUpdate(c, row) ==
  /\ identity[FaceOf(c)].version = call[c].copy.version
  /\ identity' = [identity EXCEPT ![FaceOf(c)] = [row EXCEPT !.version = @ + 1]]

EnrollSave(c) ==
  /\ At(c, "enrollSave")
  /\ \/ /\ VersionedUpdate(c, [call[c].copy EXCEPT !.known = TRUE])
        /\ SetProcess(c, "completed")
        /\ Goto(c, "done")
     \/ Raise(c) /\ UNCHANGED <<identity, process>>
  /\ UNCHANGED <<sample, object, vector, results, loss>>

UpdateSave(c) ==
  /\ At(c, "updateSave")
  /\ \/ VersionedUpdate(c, call[c].copy) /\ Goto(c, "done")
     \/ Goto(c, "raised") /\ UNCHANGED identity
  /\ UNCHANGED <<sample, object, vector, process, results, loss>>

DeactivateLoad(c) ==
  /\ At(c, "deactivateLoad")
  /\ IF identity[FaceOf(c)].state # "none"
     THEN call' = [call EXCEPT ![c].at = "deactivateSave", ![c].copy = identity[FaceOf(c)]]
     ELSE Raise(c)
  /\ UNCHANGED <<identity, sample, object, vector, process, results, loss>>

\* One transaction for the identity, its active samples and the process.
DeactivateSave(c) ==
  /\ At(c, "deactivateSave")
  /\ LET ending == ActiveSamples(FaceOf(c))
     IN  \/ /\ VersionedUpdate(c, [call[c].copy EXCEPT !.state = "inactive"])
            /\ sample' = [s \in Samples |-> IF s \in ending
                                            THEN [sample[s] EXCEPT !.state = "inactive"]
                                            ELSE sample[s]]
            /\ SetProcess(c, "completed")
            /\ call' = [call EXCEPT ![c].at = "deactivateVectors", ![c].todo = ending]
         \/ Raise(c) /\ UNCHANGED <<identity, sample, process>>
  /\ UNCHANGED <<object, vector, results, loss>>

\* An exception of set_active(False) is only logged.
Hide(s) == vector' = Hidden(s) \/ UNCHANGED vector

DeactivateVectors(c) ==
  /\ At(c, "deactivateVectors")
  /\ \/ /\ call[c].todo = {}
        /\ Goto(c, "done")
        /\ UNCHANGED vector
     \/ \E s \in call[c].todo : /\ Hide(s)
                                /\ call' = [call EXCEPT ![c].todo = @ \ {s}]
  /\ UNCHANGED <<identity, sample, object, process, results, loss>>

DeleteSave(c) ==
  /\ At(c, "deleteSave")
  /\ SetSample(c, "inactive")
  /\ Goto(c, "deleteVector")
  /\ UNCHANGED <<identity, object, vector, process, results, loss>>

DeleteVector(c) ==
  /\ At(c, "deleteVector")
  /\ Hide(SampleOf(c))
  /\ Goto(c, "deleteObject")
  /\ UNCHANGED <<identity, sample, object, process, results, loss>>

DeleteObject(c) ==
  /\ At(c, "deleteObject")
  /\ object' = Removed(SampleOf(c)) \/ UNCHANGED object
  /\ Goto(c, "done")
  /\ UNCHANGED <<identity, sample, vector, process, results, loss>>

\* The process dies, or an exception nobody handles ends the call where it is.
CutOff(c) ==
  /\ call[c].at \notin Ends \cup {"new"}
  /\ Goto(c, "gone")
  /\ loss' = loss \cup {"cleanup"}
  /\ UNCHANGED <<identity, sample, object, vector, process, results>>

StartSome(c) ==
  \/ \E n \in 0..MaxFaces : StartRecognize(c, n)
  \/ StartTrack(c)
  \/ \E f \in {g \in Faces : identity[g].state # "none"} :
       \/ StartAddSample(c, f)
       \/ StartEnroll(c, f)
       \/ StartUpdate(c, f)
       \/ StartDeactivate(c, f)
  \/ \E s \in Samples : StartDeleteSample(c, s)

Resolve(c) ==
  \/ Query(c)
  \/ TryCandidate(c)
  \/ Accept(c)
  \/ \E f \in Faces, s \in Samples : CreateIdentity(c, f, s)
  \/ CompleteProcess(c)

Store(c) ==
  \/ AddLoad(c)
  \/ \E s \in Samples : AddRow(c, s)
  \/ Upload(c)
  \/ Upsert(c)
  \/ Activate(c)

Compensate(c) ==
  \/ RemoveVector(c)
  \/ RemoveObject(c)
  \/ FailSample(c)
  \/ FailLoad(c)
  \/ FailSave(c)
  \/ FailProcess(c)

Maintain(c) ==
  \/ EnrollLoad(c)
  \/ EnrollSave(c)
  \/ UpdateSave(c)
  \/ DeactivateLoad(c)
  \/ DeactivateSave(c)
  \/ DeactivateVectors(c)
  \/ DeleteSave(c)
  \/ DeleteVector(c)
  \/ DeleteObject(c)

Next == \E c \in Calls :
  StartSome(c) \/ Resolve(c) \/ Store(c) \/ Compensate(c) \/ Maintain(c) \/ CutOff(c)

Spec == Init /\ [][Next]_vars

-----------------------------------------------------------------------------
(* Properties.                                                             *)

\* A sample PostgreSQL calls active has its crop in MinIO and a live vector in
\* Qdrant, whichever call is where in its steps, its compensation or its end,
\* as long as the stores say what they did.
ActiveSampleStored ==
  "reply" \notin loss =>
    \A s \in Samples : sample[s].state = "active" => s \in object /\ vector[s] = "active"

\* Two enrolments of one face never both succeed; what the first was told
\* (this face is now this person) is not changed by the second.
EnrolledOnce ==
  \A c, d \in Calls :
    /\ call[c].op = "enroll" /\ At(c, "done")
    /\ call[d].op = "enroll" /\ At(d, "done")
    /\ FaceOf(c) = FaceOf(d)
    => c = d

\* The making of a face failed: the call that made it ended for that.
MakingFailed(f) ==
  \E c \in Calls : /\ call[c].op \in {"recognize", "track"}
                   /\ call[c].at \in {"failProcess", "raised", "gone"}
                   /\ FaceOf(c) = f
                   /\ SampleOf(c) # None
                   /\ sample[SampleOf(c)].state \in {"failed", "inactive"}

\* A recognition that starts when a face is deactivated already never finds
\* it, even if its vector could not be hidden, or one of its samples became
\* active only afterwards.  Not so a face whose making failed after somebody
\* enrolled it: the failure takes its version back to one an update may have
\* read, and that update, passing its check, makes the face active again.
DeactivatedNotMatched ==
  \A r \in results : r.face \in call[r.call].gone => MakingFailed(r.face)

\* What a failure leaves.  "The partial MinIO object or Qdrant point is removed
\* best-effort": when no cleanup fails, no call is cut off and no reply is
\* lost, a failed sample has neither.  "This prevents an active identity with
\* zero active samples": unless a cleanup fails or a call is cut off, the
\* recognition of an image that raised leaves no active identity of its making
\* without a sample, but one somebody enrolled meanwhile.  (The failure is
\* written with a version the enrolment may have used already: an update that
\* read the row in between passes its check and makes the identity active
\* again.  And the tracks of a video share one process record: once the first
\* failure closed it, the second cannot be written down and its identity
\* stays.)
FailureCompensated ==
  /\ \A s \in Samples :
       sample[s].state = "failed" /\ loss = {} => s \notin object /\ vector[s] = "none"
  /\ \A c \in Calls :
       /\ call[c].op = "recognize"
       /\ At(c, "raised")
       /\ SampleOf(c) # None
       /\ sample[SampleOf(c)].state \in {"pending", "failed"}
       /\ Active(FaceOf(c)) /\ ~identity[FaceOf(c)].known
       /\ "cleanup" \notin loss
       => ActiveSamples(FaceOf(c)) # {}
=============================================================================
