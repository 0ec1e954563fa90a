----------------------- MODULE IdentityStorage_proofs ------------------------
(***************************************************************************)
(* Proofs about IdentityStorage for every set of calls, faces and samples, *)
(* with lost replies, failing cleanups and calls cut off anywhere.         *)
(*                                                                         *)
(* The invariant is built in layers, each resting on those before:         *)
(*   TypeInv         which call is at which step, and what it then knows   *)
(*   VersionInv      the versions of face_identity and of copies of it     *)
(*   MakerInv        who works on which sample                             *)
(*   StoreInv        where the crop and the vector of a sample are         *)
(*   RecognitionInv  what the recognition of an image has to undo          *)
(*   GoneInv         what a recognition may find of deactivated faces      *)
(***************************************************************************)
EXTENDS IdentityStorage, TLAPS

-----------------------------------------------------------------------------
(* The invariant.                                                          *)

\* The steps of a sample in the making: the call has its row.
Making == {"upload", "upsert", "activate", "removeVector", "removeObject",
           "failLoad", "failSave", "failSample"}
\* The steps between a read of an identity and its write.
Saving == {"failSave", "enrollSave", "updateSave", "deactivateSave"}

\* Which call is at which step, and what it then knows.
OpAt(c) ==
  LET op == call[c].op
      at == call[c].at
  IN  /\ at \in {"next", "try", "accept", "create"} => op \in {"recognize", "track"}
      /\ at \in Making => op \in {"recognize", "track", "addSample"}
      /\ at \in {"failLoad", "failSave"} => op \in {"recognize", "track"}
      /\ at = "failSample" => op = "addSample"
      /\ at = "complete" => op = "recognize"
      /\ at \in {"addLoad", "addRow"} => op = "addSample"
      /\ at \in {"enrollLoad", "enrollSave"} => op = "enroll"
      /\ at = "updateSave" => op = "update"
      /\ at \in {"deactivateLoad", "deactivateSave", "deactivateVectors"} => op = "deactivate"
      /\ at \in {"deleteSave", "deleteVector", "deleteObject"} => op = "deleteSample"
      /\ at = "failProcess" => op \in {"recognize", "enroll", "deactivate"}
      /\ at = "new" => op = None

KnowsAt(c) ==
  LET at == call[c].at
      op == call[c].op
  IN  /\ at \in Making \cup Saving \cup
              {"accept", "addLoad", "addRow", "enrollLoad", "deactivateLoad", "deactivateVectors"}
           => FaceOf(c) \in Faces
      /\ op = "enroll" => FaceOf(c) \in Faces
      /\ at \in Making \cup {"accept", "deleteSave", "deleteVector", "deleteObject"}
           => SampleOf(c) \in Samples
      /\ at \in {"try", "accept", "create"} => call[c].left > 0
      /\ at \in Making /\ op # "addSample" => call[c].left > 0

\* The steps that write a row of face_sample that is there.
Rowed == Making \cup {"deleteSave"}

TypeInv ==
  /\ TypeOK
  /\ \A c \in Calls : OpAt(c) /\ KnowsAt(c)
  /\ \A c \in Calls : call[c].at \in Rowed => sample[SampleOf(c)].state # "none"
  /\ \A s \in Samples : sample[s].state # "none" => sample[s].face \in Faces

\* An identity row: version 1 is the row as it was made.
RowOK(row) ==
  /\ row.state = "none" <=> row.version = 0
  /\ row.version <= 1 => ~row.known
  /\ row.version = 1 => row.state = "active"
  /\ row.state = "active" /\ ~row.known => row.version = 1

\* What a call read of an identity: once past version 1, always past it.
CopyOK(c) ==
  LET copy == call[c].copy
      row == identity[FaceOf(c)]
  IN  /\ RowOK(copy)
      /\ copy.state # "none"
      /\ row.state # "none"
      /\ copy.version >= 2 => row.version >= 2
      /\ call[c].at = "enrollSave" => copy.version = 1
      /\ call[c].at = "updateSave" => copy.version >= 2 /\ copy.known /\ copy.state = "active"

VersionInv ==
  /\ \A f \in Faces : RowOK(identity[f])
  /\ \A c \in Calls : call[c].at \in Saving => CopyOK(c)
  /\ \A c \in Calls : call[c].at \in Making \cup {"addRow"} => identity[FaceOf(c)].state # "none"
  /\ \A c \in Calls : call[c].op = "enroll" /\ call[c].at = "done"
                        => identity[FaceOf(c)].version >= 2

\* Who works on which sample.
SampleAt(c) ==
  LET at == call[c].at
      row == sample[SampleOf(c)]
  IN  /\ at \in Making => /\ row.state \in {"pending", "active", "inactive"}
                          /\ row.face = FaceOf(c)
      /\ at \in {"upload", "upsert", "activate"} => row.state = "pending"
      /\ at = "accept" => /\ row.state \in {"active", "inactive", "failed"}
                          /\ row.face = FaceOf(c)
      /\ at = "deleteSave" => row.state \in {"active", "inactive", "failed"}
      /\ at \in {"deleteVector", "deleteObject"} => row.state = "inactive"
      /\ at = "deactivateVectors" => \A s \in call[c].todo : sample[s].state = "inactive"

MakerInv ==
  /\ \A s \in Samples : sample[s].state # "none" => identity[sample[s].face].state # "none"
  /\ \A c \in Calls : SampleAt(c)
  /\ \A c, d \in Calls : c # d /\ call[c].at \in Making /\ call[d].at \in Making
       => SampleOf(c) # SampleOf(d)

\* Where the crop and the vector of a sample are.
Clean(s) == s \notin object /\ vector[s] = "none"
StoredAt(c) ==
  LET at == call[c].at
      s == SampleOf(c)
  IN  /\ "reply" \notin loss =>
           /\ at \in Making => sample[s].state = "pending"
           /\ at \in {"upsert", "activate"} => s \in object
           /\ at = "activate" => vector[s] = "active"
           /\ at = "deleteSave" => sample[s].state \in {"active", "inactive"}
      /\ at = "upload" => Clean(s)
      /\ at = "upsert" => vector[s] = "none"
      /\ loss = {} =>
           /\ at \in {"failLoad", "failSave", "failSample"} => Clean(s)
           /\ at = "removeObject" => vector[s] = "none"

StoreInv ==
  /\ \A s \in Samples : sample[s].state = "none" => Clean(s)
  /\ \A s \in Samples : sample[s].state = "failed" /\ loss = {} => Clean(s)
  /\ ActiveSampleStored
  /\ \A c \in Calls : StoredAt(c)

\* What a recognition of an image that fails has to undo.
RecognitionAt(c) ==
  LET at == call[c].at
      s == SampleOf(c)
  IN  /\ at \notin {"new", "failProcess"} \cup Ends => process[c] = "processing"
      /\ at \in {"next", "try", "create", "complete"} => s = None
      /\ at \in {"accept", "failProcess", "raised"} /\ s # None /\ "cleanup" \notin loss
           => /\ sample[s].face = FaceOf(c)
              /\ \/ sample[s].state \in {"active", "inactive"}
                 \/ sample[s].state = "failed" /\ identity[FaceOf(c)].version >= 2

RecognitionInv == \A c \in Calls : call[c].op = "recognize" => RecognitionAt(c)

\* A face whose making did not fail keeps its versions apart, and once
\* inactive stays so.
Steady(f) == ~MakingFailed(f)
GoneAt(c) ==
  LET at == call[c].at
      f == FaceOf(c)
      copy == call[c].copy
  IN  /\ \A g \in call[c].gone : /\ identity[g].state # "none"
                                 /\ Steady(g) => identity[g].state = "inactive"
      /\ at \in Saving /\ Steady(f) => /\ copy.version <= identity[f].version
                                       /\ copy.version = identity[f].version => copy = identity[f]
      /\ at = "accept" /\ f \in call[c].gone => MakingFailed(f)
      /\ at \in Making /\ call[c].op # "addSample" => f \notin call[c].gone
      /\ at = "new" => call[c].gone = {}

GoneInv ==
  /\ \A c \in Calls : GoneAt(c)
  /\ \A r \in results : call[r.call].at # "new"
  /\ DeactivatedNotMatched

-----------------------------------------------------------------------------
(* The records of the calls.                                               *)

\* A step of a call leaves the records of the others.
Kept(c) == \A d \in Calls : d # c => call'[d] = call[d]

LEMMA AtCopyChanged ==
  ASSUME TypeOK, NEW c \in Calls, NEW p \in Points, NEW row \in IdentityRows,
         call' = [call EXCEPT ![c].at = p, ![c].copy = row]
  PROVE  call' \in [Calls -> CallStates]
<1> DEFINE call1 == [call EXCEPT ![c].at = p]
<1>1. call1 \in [Calls -> CallStates]  BY DEF TypeOK, CallStates
<1> HIDE DEF call1
<1>2. [call1 EXCEPT ![c].copy = row] \in [Calls -> CallStates]  BY <1>1 DEF CallStates
<1> QED  BY <1>2 DEF call1

LEMMA AtSampleChanged ==
  ASSUME TypeOK, NEW c \in Calls, NEW p \in Points, NEW s \in Samples \cup {None},
         call' = [call EXCEPT ![c].at = p, ![c].sample = s]
  PROVE  call' \in [Calls -> CallStates]
<1> DEFINE call1 == [call EXCEPT ![c].at = p]
<1>1. call1 \in [Calls -> CallStates]  BY DEF TypeOK, CallStates
<1> HIDE DEF call1
<1>2. [call1 EXCEPT ![c].sample = s] \in [Calls -> CallStates]  BY <1>1 DEF CallStates
<1> QED  BY <1>2 DEF call1

LEMMA TodoAtFaceSampleChanged ==
  ASSUME TypeOK, NEW c \in Calls, NEW S \in SUBSET Samples, NEW p \in Points,
         NEW f \in Faces \cup {None}, NEW s \in Samples \cup {None},
         call' = [call EXCEPT ![c].todo = S, ![c].at = p, ![c].face = f, ![c].sample = s]
  PROVE  call' \in [Calls -> CallStates]
<1> DEFINE call1 == [call EXCEPT ![c].todo = S]
<1> DEFINE call2 == [call1 EXCEPT ![c].at = p]
<1> DEFINE call3 == [call2 EXCEPT ![c].face = f]
<1>1. call1 \in [Calls -> CallStates]  BY DEF TypeOK, CallStates
<1> HIDE DEF call1
<1>2. call2 \in [Calls -> CallStates]  BY <1>1 DEF TypeOK, CallStates
<1> HIDE DEF call2
<1>3. call3 \in [Calls -> CallStates]  BY <1>2 DEF TypeOK, CallStates
<1> HIDE DEF call3
<1>4. [call3 EXCEPT ![c].sample = s] \in [Calls -> CallStates]  BY <1>3 DEF CallStates
<1> QED  BY <1>4 DEF call1, call2, call3

-----------------------------------------------------------------------------
(* Types, and which call is at which step.                                 *)

LEMMA TypeInit == Init => TypeInv
<1> SUFFICES ASSUME Init  PROVE TypeInv
  OBVIOUS
<1>1. NewCall \in CallStates
  BY BoundAssumption DEF NewCall, CallStates, NoIdentity, IdentityRows, Points
<1>2. call \in [Calls -> CallStates] /\ \A c \in Calls : call[c] = NewCall
  BY <1>1 DEF Init
<1>3. identity \in [Faces -> IdentityRows]
  BY DEF Init, IdentityRows, NewIdentity, NoIdentity
<1>4. sample \in [Samples -> SampleRows]
  <2> DEFINE owner(s) == {f \in OldFaces : OldSample[f] = s}
             row(s) == IF s \in {t \in Samples : owner(t) # {}}
                       THEN [state |-> "active", face |-> CHOOSE f \in owner(s) : TRUE]
                       ELSE [state |-> "none", face |-> None]
  <2>1. ASSUME NEW s \in Samples  PROVE row(s) \in SampleRows
    BY OldAssumption DEF SampleRows
  <2>2. sample = [s \in Samples |-> row(s)]  BY DEF Init
  <2> QED  BY <2>1, <2>2
<1>6. \A s \in Samples : sample[s].state # "none" => sample[s].face \in Faces
  BY OldAssumption DEF Init
<1>5. TypeOK
  BY <1>2, <1>3, <1>4 DEF TypeOK, Init, ProcessStates
<1> QED
  BY <1>2, <1>5, <1>6, NullAssumption DEF TypeInv, OpAt, KnowsAt, NewCall, Making, Saving, Rowed,
       Operations

\* Which steps write which variable.
Step(c) == StartSome(c) \/ Resolve(c) \/ Store(c) \/ Compensate(c) \/ Maintain(c) \/ CutOff(c)

LEMMA IdentityWriters ==
  ASSUME NEW c \in Calls, Step(c)
  PROVE  \/ UNCHANGED identity
         \/ \E f \in Faces, s \in Samples : CreateIdentity(c, f, s)
         \/ FailSave(c)
         \/ EnrollSave(c)
         \/ UpdateSave(c)
         \/ DeactivateSave(c)
BY DEF Step, StartSome, StartRecognize, StartTrack, StartAddSample,
       StartEnroll, StartUpdate, StartDeactivate, StartDeleteSample, Start,
       Resolve, Query, TryCandidate, Accept, CompleteProcess, Store, AddLoad,
       AddRow, Upload, Upsert, Activate, Compensate, RemoveVector,
       RemoveObject, FailSample, FailLoad, FailProcess, Maintain, EnrollLoad,
       DeactivateLoad, DeactivateVectors, DeleteSave, DeleteVector,
       DeleteObject, CutOff

LEMMA SampleWriters ==
  ASSUME NEW c \in Calls, Step(c)
  PROVE  \/ UNCHANGED sample
         \/ \E f \in Faces, s \in Samples : CreateIdentity(c, f, s)
         \/ \E s \in Samples : AddRow(c, s)
         \/ Activate(c)
         \/ FailSample(c)
         \/ FailSave(c)
         \/ DeactivateSave(c)
         \/ DeleteSave(c)
BY DEF Step, StartSome, StartRecognize, StartTrack, StartAddSample,
       StartEnroll, StartUpdate, StartDeactivate, StartDeleteSample, Start,
       Resolve, Query, TryCandidate, Accept, CompleteProcess, Store, AddLoad,
       Upload, Upsert, Compensate, RemoveVector, RemoveObject, FailLoad,
       FailProcess, Maintain, EnrollLoad, EnrollSave, UpdateSave,
       DeactivateLoad, DeactivateVectors, DeleteVector, DeleteObject, CutOff

LEMMA ObjectWriters ==
  ASSUME NEW c \in Calls, Step(c)
  PROVE  \/ UNCHANGED object
         \/ Upload(c)
         \/ RemoveObject(c)
         \/ DeleteObject(c)
BY DEF Step, StartSome, StartRecognize, StartTrack, StartAddSample,
       StartEnroll, StartUpdate, StartDeactivate, StartDeleteSample, Start,
       Resolve, Query, TryCandidate, Accept, CreateIdentity, CompleteProcess,
       Store, AddLoad, AddRow, Upsert, Activate, Compensate, RemoveVector,
       FailSample, FailLoad, FailSave, FailProcess, Maintain, EnrollLoad,
       EnrollSave, UpdateSave, DeactivateLoad, DeactivateSave,
       DeactivateVectors, DeleteSave, DeleteVector, CutOff

LEMMA VectorWriters ==
  ASSUME NEW c \in Calls, Step(c)
  PROVE  \/ UNCHANGED vector
         \/ Upsert(c)
         \/ RemoveVector(c)
         \/ DeactivateVectors(c)
         \/ DeleteVector(c)
BY DEF Step, StartSome, StartRecognize, StartTrack, StartAddSample,
       StartEnroll, StartUpdate, StartDeactivate, StartDeleteSample, Start,
       Resolve, Query, TryCandidate, Accept, CreateIdentity, CompleteProcess,
       Store, AddLoad, AddRow, Upload, Activate, Compensate, RemoveObject,
       FailSample, FailLoad, FailSave, FailProcess, Maintain, EnrollLoad,
       EnrollSave, UpdateSave, DeactivateLoad, DeactivateSave, DeleteSave,
       DeleteObject, CutOff

LEMMA ProcessWriters ==
  ASSUME NEW c \in Calls, Step(c)
  PROVE  \/ UNCHANGED process
         \/ StartSome(c)
         \/ CompleteProcess(c)
         \/ FailSave(c)
         \/ FailProcess(c)
         \/ EnrollSave(c)
         \/ DeactivateSave(c)
BY DEF Step, StartRecognize, StartTrack, StartAddSample, StartEnroll,
       StartUpdate, StartDeactivate, StartDeleteSample, Start, Resolve,
       Query, TryCandidate, Accept, CreateIdentity, Store, AddLoad, AddRow,
       Upload, Upsert, Activate, Compensate, RemoveVector, RemoveObject,
       FailSample, FailLoad, Maintain, EnrollLoad, UpdateSave,
       DeactivateLoad, DeactivateVectors, DeleteSave, DeleteVector,
       DeleteObject, CutOff

LEMMA ResultsWriters ==
  ASSUME NEW c \in Calls, Step(c)
  PROVE  \/ UNCHANGED results
         \/ Accept(c)
         \/ Activate(c)
BY DEF Step, StartSome, StartRecognize, StartTrack, StartAddSample,
       StartEnroll, StartUpdate, StartDeactivate, StartDeleteSample, Start,
       Resolve, Query, TryCandidate, CreateIdentity, CompleteProcess, Store,
       AddLoad, AddRow, Upload, Upsert, Compensate, RemoveVector,
       RemoveObject, FailSample, FailLoad, FailSave, FailProcess, Maintain,
       EnrollLoad, EnrollSave, UpdateSave, DeactivateLoad, DeactivateSave,
       DeactivateVectors, DeleteSave, DeleteVector, DeleteObject, CutOff

LEMMA LossWriters ==
  ASSUME NEW c \in Calls, Step(c)
  PROVE  \/ UNCHANGED loss
         \/ Upload(c)
         \/ Upsert(c)
         \/ Activate(c)
         \/ RemoveVector(c)
         \/ RemoveObject(c)
         \/ CutOff(c)
BY DEF Step, StartSome, StartRecognize, StartTrack, StartAddSample,
       StartEnroll, StartUpdate, StartDeactivate, StartDeleteSample, Start,
       Resolve, Query, TryCandidate, Accept, CreateIdentity, CompleteProcess,
       Store, AddLoad, AddRow, Compensate, FailSample, FailLoad, FailSave,
       FailProcess, Maintain, EnrollLoad, EnrollSave, UpdateSave,
       DeactivateLoad, DeactivateSave, DeactivateVectors, DeleteSave,
       DeleteVector, DeleteObject

LEMMA IdentityTyped ==
  ASSUME TypeInv, NEW c \in Calls, Step(c)
  PROVE  identity' \in [Faces -> IdentityRows]
<1>0. TypeOK  BY DEF TypeInv
<1>1. ASSUME NEW f \in Faces, NEW s \in Samples, CreateIdentity(c, f, s)
      PROVE  identity' \in [Faces -> IdentityRows]
  <2>1. NewIdentity \in IdentityRows  BY DEF NewIdentity, IdentityRows
  <2> QED  BY <1>0, <1>1, <2>1 DEF CreateIdentity, TypeOK
<1>2. CASE FailSave(c)
  <2>1. call[c].copy \in IdentityRows  BY <1>0 DEF TypeOK, CallStates
  <2>2. ASSUME NEW row \in IdentityRows, NEW seen \in Nat
        PROVE  Deactivated(row, call[c].copy, seen) \in IdentityRows
    BY <2>1 DEF Deactivated, IdentityRows
  <2>3. CASE UNCHANGED identity  BY <1>0, <2>3 DEF TypeOK
  <2>4. ASSUME NEW seen \in call[c].copy.version..identity[FaceOf(c)].version,
               identity' = [identity EXCEPT ![FaceOf(c)] = Deactivated(@, call[c].copy, seen)]
        PROVE  identity' \in [Faces -> IdentityRows]
    <3>1. FaceOf(c) \in Faces  BY <1>2 DEF TypeInv, KnowsAt, Making, FailSave, At
    <3>2. seen \in Nat  BY <1>0, <2>1, <3>1 DEF TypeOK, IdentityRows
    <3> QED  BY <1>0, <2>2, <2>4, <3>1, <3>2 DEF TypeOK
  <2> QED  BY <1>2, <2>3, <2>4 DEF FailSave
<1>3. CASE EnrollSave(c) \/ UpdateSave(c) \/ DeactivateSave(c)
  <2>1. ASSUME NEW row \in IdentityRows, VersionedUpdate(c, row)
        PROVE  identity' \in [Faces -> IdentityRows]
    <3> DEFINE new == [row EXCEPT !.version = row.version + 1]
    <3>1. new \in IdentityRows  BY DEF IdentityRows
    <3>2. identity' = [identity EXCEPT ![FaceOf(c)] = new]  BY <2>1 DEF VersionedUpdate
    <3> HIDE DEF new
    <3> QED  BY <1>0, <3>1, <3>2 DEF TypeOK
  <2>2. /\ call[c].copy \in IdentityRows
        /\ [call[c].copy EXCEPT !.known = TRUE] \in IdentityRows
        /\ [call[c].copy EXCEPT !.state = "inactive"] \in IdentityRows
    BY <1>0 DEF TypeOK, CallStates, IdentityRows
  <2> QED  BY <1>0, <1>3, <2>1, <2>2 DEF EnrollSave, UpdateSave, DeactivateSave, TypeOK
<1> QED  BY <1>0, <1>1, <1>2, <1>3, IdentityWriters DEF TypeOK

LEMMA SampleTyped ==
  ASSUME TypeInv, NEW c \in Calls, Step(c)
  PROVE  sample' \in [Samples -> SampleRows]
<1>0. TypeOK  BY DEF TypeInv
<1>1. ASSUME NEW f \in Faces, NEW s \in Samples, CreateIdentity(c, f, s)
      PROVE  sample' \in [Samples -> SampleRows]
  <2>1. [state |-> "pending", face |-> f] \in SampleRows  BY DEF SampleRows
  <2> QED  BY <1>0, <1>1, <2>1 DEF CreateIdentity, TypeOK
<1>2. ASSUME NEW s \in Samples, AddRow(c, s)  PROVE sample' \in [Samples -> SampleRows]
  <2>1. [state |-> "pending", face |-> FaceOf(c)] \in SampleRows
    BY <1>0 DEF SampleRows, TypeOK, CallStates, FaceOf
  <2> QED  BY <1>0, <1>2, <2>1 DEF AddRow, TypeOK
<1>3. ASSUME NEW p \in {"active", "failed", "inactive"}, SetSample(c, p)
      PROVE  sample' \in [Samples -> SampleRows]
  BY <1>0, <1>3 DEF SetSample, TypeOK, SampleRows
<1>4. CASE Activate(c) \/ FailSave(c) \/ DeleteSave(c)
  BY <1>0, <1>3, <1>4 DEF Activate, FailSave, DeleteSave, TypeOK
<1>5. CASE FailSample(c)
  BY <1>0, <1>5 DEF FailSample, TypeOK, SampleRows
<1>6. CASE DeactivateSave(c)
  BY <1>0, <1>6 DEF DeactivateSave, TypeOK, SampleRows
<1> QED  BY <1>0, <1>1, <1>2, <1>4, <1>5, <1>6, SampleWriters DEF TypeOK

LEMMA ProcessTyped ==
  ASSUME TypeInv, NEW c \in Calls, Step(c)
  PROVE  process' \in [Calls \cup {Job} -> ProcessStates]
<1>0. TypeOK  BY DEF TypeInv
<1>1. ASSUME NEW p \in {"completed", "failed"}, SetProcess(c, p)
      PROVE  process' \in [Calls \cup {Job} -> ProcessStates]
  BY <1>0, <1>1 DEF SetProcess, TypeOK, ProcessStates
<1>2. CASE StartSome(c)
  BY <1>0, <1>2 DEF StartSome, StartRecognize, StartTrack, StartAddSample, StartEnroll,
       StartUpdate,
       StartDeactivate, StartDeleteSample, Start, TypeOK, ProcessStates
<1>3. CASE FailProcess(c)
  BY <1>0, <1>3 DEF FailProcess, TypeOK, ProcessStates
<1> QED
  BY <1>0, <1>1, <1>2, <1>3, ProcessWriters DEF TypeOK, CompleteProcess, FailSave, EnrollSave,
       DeactivateSave

LEMMA StoresTyped ==
  ASSUME TypeInv, NEW c \in Calls, Step(c)
  PROVE  /\ object' \subseteq Samples
         /\ vector' \in [Samples -> {"none", "active", "inactive"}]
         /\ loss' \subseteq {"cleanup", "reply"}
         /\ results' \subseteq Results
<1>0. TypeOK  BY DEF TypeInv
<1>1. object' \subseteq Samples
  BY <1>0, ObjectWriters DEF TypeInv, TypeOK, KnowsAt, Making, At, SampleOf, Upload,
       RemoveObject, DeleteObject, Stored, Removed
<1>2. vector' \in [Samples -> {"none", "active", "inactive"}]
  BY <1>0, VectorWriters DEF TypeOK, Upsert, RemoveVector, DeactivateVectors, DeleteVector,
       Upserted, Deleted, Hide, Hidden
<1>3. loss' \subseteq {"cleanup", "reply"}
  BY <1>0, LossWriters DEF TypeOK, Upload, Upsert, Activate, RemoveVector, RemoveObject, CutOff,
       Lost
<1>4. ASSUME AddResult(c)  PROVE results' \subseteq Results
  <2> DEFINE entry == [call |-> c, face |-> FaceOf(c), sample |-> SampleOf(c)]
  <2>0. results' = results \cup {entry}  BY <1>4 DEF AddResult
  <2>1. At(c, "accept") \/ At(c, "activate") => entry \in Results
    BY DEF TypeInv, KnowsAt, Making, At, FaceOf, SampleOf, Results
  <2>2. At(c, "accept") \/ At(c, "activate") \/ UNCHANGED results
    BY ResultsWriters DEF Accept, Activate
  <2> HIDE DEF entry
  <2> QED  BY <1>0, <2>0, <2>1, <2>2 DEF TypeOK
<1>5. results' \subseteq Results
  BY <1>0, <1>4, ResultsWriters DEF TypeOK, Accept, Activate
<1> QED  BY <1>1, <1>2, <1>3, <1>5

\* A row of face_sample stays one, and is some face's.
LEMMA RowsStay ==
  ASSUME TypeInv, NEW c \in Calls, Step(c), NEW t \in Samples
  PROVE  /\ sample[t].state # "none" => sample'[t].state # "none"
         /\ sample'[t].state # "none" => sample'[t].face \in Faces
<1>0. TypeOK  BY DEF TypeInv
<1> DEFINE Stays == /\ sample[t].state # "none" => sample'[t].state # "none"
                    /\ sample'[t].state # "none" => sample'[t].face \in Faces
<1>1. ASSUME NEW f \in Faces, NEW s \in Samples, CreateIdentity(c, f, s)  PROVE Stays
  BY <1>0, <1>1 DEF CreateIdentity, TypeInv, TypeOK
<1>2. ASSUME NEW s \in Samples, AddRow(c, s)  PROVE Stays
  BY <1>0, <1>2 DEF AddRow, TypeInv, TypeOK, KnowsAt, At, FaceOf
<1>3. ASSUME NEW p \in {"active", "failed", "inactive"}, SetSample(c, p), call[c].at \in Rowed
      PROVE  Stays
  BY <1>0, <1>3 DEF SetSample, TypeInv, TypeOK, SampleRows, SampleOf
<1>4. CASE Activate(c) \/ FailSave(c) \/ DeleteSave(c)
  <2>1. call[c].at \in Rowed  BY <1>4 DEF Activate, FailSave, DeleteSave, At, Rowed, Making
  <2> QED  BY <1>0, <1>3, <1>4, <2>1 DEF Activate, FailSave, DeleteSave, TypeInv
<1>5. CASE FailSample(c)
  BY <1>0, <1>5 DEF FailSample, TypeInv, TypeOK, SampleRows, At, KnowsAt, Making, Rowed, SampleOf
<1>6. CASE DeactivateSave(c)
  BY <1>0, <1>6 DEF DeactivateSave, TypeInv, TypeOK, SampleRows, ActiveSamples
<1> QED  BY <1>0, <1>1, <1>2, <1>4, <1>5, <1>6, SampleWriters DEF TypeInv

\* A step of one call leaves the others at theirs, and a row stays a row.
Remade(c) == call'[c].at \in Rowed => \/ call[c].at \in Rowed /\ call'[c].sample = call[c].sample
                                      \/ sample'[call'[c].sample].state # "none"

LEMMA OthersTyped ==
  ASSUME TypeInv, NEW c \in Calls, Step(c), Kept(c), call' \in [Calls -> CallStates],
         OpAt(c)', KnowsAt(c)', Remade(c)
  PROVE  TypeInv'
<1>1. TypeOK'
  BY IdentityTyped, SampleTyped, ProcessTyped, StoresTyped DEF TypeOK
<1>2. ASSUME NEW d \in Calls  PROVE OpAt(d)' /\ KnowsAt(d)'
  BY DEF TypeInv, Kept, OpAt, KnowsAt, FaceOf, SampleOf
<1>3. ASSUME NEW d \in Calls, call'[d].at \in Rowed  PROVE sample'[call'[d].sample].state # "none"
  <2>1. call'[d].sample \in Samples
    BY <1>2, <1>3 DEF KnowsAt, Rowed, SampleOf
  <2>2. CASE d = c
    BY <1>3, <2>1, <2>2, RowsStay DEF Remade, TypeInv, SampleOf
  <2>3. CASE d # c
    BY <1>3, <2>1, <2>3, RowsStay DEF Kept, TypeInv, SampleOf
  <2> QED  BY <2>2, <2>3
<1> QED  BY <1>1, <1>2, <1>3, RowsStay DEF TypeInv, SampleOf

LEMMA StartTyped ==
  ASSUME TypeInv, NEW c \in Calls, NEW op \in Operations, NEW p \in Points, NEW e \in CallStates,
         Start(c, op, p, e)
  PROVE  /\ call' \in [Calls -> CallStates] /\ Kept(c)
         /\ call'[c].op = op /\ call'[c].at = p
         /\ call'[c].face = e.face /\ call'[c].sample = e.sample
         /\ call'[c].copy = e.copy /\ call'[c].left = e.left
         /\ call'[c].todo = e.todo /\ call'[c].gone = e.gone
<1> DEFINE e1 == [e EXCEPT !.op = op]
           e2 == [e1 EXCEPT !.at = p]
<1>1. e1 \in CallStates  BY DEF CallStates
<1> HIDE DEF e1
<1>2. e2 \in CallStates  BY <1>1 DEF CallStates
<1>3. call' = [call EXCEPT ![c] = [e EXCEPT !.op = op, !.at = p]]  BY DEF Start
<1>4. call' = [call EXCEPT ![c] = e2]  BY <1>3 DEF e1
<1> HIDE DEF e2
<1>5. call' \in [Calls -> CallStates] /\ Kept(c) /\ call'[c] = e2
  BY <1>2, <1>4 DEF TypeInv, TypeOK, Kept
<1>6. /\ e2.op = op /\ e2.at = p /\ e2.face = e.face /\ e2.sample = e.sample
      /\ e2.copy = e.copy /\ e2.left = e.left /\ e2.todo = e.todo /\ e2.gone = e.gone
  BY DEF e1, e2, CallStates
<1> QED  BY <1>5, <1>6

LEMMA NewCallTyped ==
  /\ NewCall \in CallStates
  /\ \A n \in 0..MaxFaces, S \in SUBSET Faces : [NewCall EXCEPT !.left = n, !.gone = S] \in CallStates
  /\ \A f \in Faces : [NewCall EXCEPT !.face = f] \in CallStates
  /\ \A f \in Faces, row \in IdentityRows : [NewCall EXCEPT !.face = f, !.copy = row] \in CallStates
  /\ \A s \in Samples, f \in Faces \cup {None} : [NewCall EXCEPT !.sample = s, !.face = f] \in CallStates
<1>1. NewCall \in CallStates
  BY BoundAssumption DEF NewCall, CallStates, NoIdentity, IdentityRows, Points
<1>2. ASSUME NEW n \in 0..MaxFaces, NEW S \in SUBSET Faces
      PROVE  [NewCall EXCEPT !.left = n, !.gone = S] \in CallStates
  BY <1>1 DEF CallStates
<1>3. ASSUME NEW f \in Faces  PROVE  [NewCall EXCEPT !.face = f] \in CallStates
  BY <1>1 DEF CallStates
<1>4. ASSUME NEW f \in Faces, NEW row \in IdentityRows
      PROVE  [NewCall EXCEPT !.face = f, !.copy = row] \in CallStates
  BY <1>1 DEF CallStates
<1>5. ASSUME NEW s \in Samples, NEW f \in Faces \cup {None}
      PROVE  [NewCall EXCEPT !.sample = s, !.face = f] \in CallStates
  BY <1>1 DEF CallStates
<1> QED  BY <1>1, <1>2, <1>3, <1>4, <1>5

\* What the start of a call makes of its record.
LEMMA Started ==
  ASSUME TypeInv, NEW c \in Calls, StartSome(c)
  PROVE  /\ call[c].at = "new" /\ Kept(c) /\ call' \in [Calls -> CallStates]
         /\ UNCHANGED <<identity, sample, object, vector, results, loss>>
         /\ \/ /\ call'[c].op \in {"recognize", "track"} /\ call'[c].at = "next"
               /\ call'[c].sample = None /\ call'[c].gone = Inactive
            \/ /\ call'[c].op = "addSample" /\ call'[c].at \in {"addLoad", "raised"}
               /\ call'[c].face \in Faces /\ call'[c].gone = {}
            \/ /\ call'[c].op = "enroll" /\ call'[c].at = "enrollLoad"
               /\ call'[c].face \in Faces /\ call'[c].gone = {}
            \/ /\ call'[c].op = "update" /\ call'[c].at = "raised" /\ call'[c].gone = {}
            \/ /\ call'[c].op = "update" /\ call'[c].at = "updateSave"
               /\ call'[c].face \in Faces /\ call'[c].copy = identity[call'[c].face]
               /\ Active(call'[c].face) /\ identity[call'[c].face].known
               /\ call'[c].gone = {}
            \/ /\ call'[c].op = "deactivate" /\ call'[c].at = "deactivateLoad"
               /\ call'[c].face \in Faces /\ call'[c].gone = {}
            \/ /\ call'[c].op = "deleteSample" /\ call'[c].at = "done" /\ call'[c].gone = {}
            \/ /\ call'[c].op = "deleteSample" /\ call'[c].at = "deleteSave"
               /\ call'[c].sample \in Samples /\ sample[call'[c].sample].state = "active"
               /\ call'[c].gone = {}
<1>1. ASSUME NEW op \in Operations, NEW p \in Points, NEW e \in CallStates, Start(c, op, p, e)
      PROVE  /\ call[c].at = "new" /\ Kept(c) /\ call' \in [Calls -> CallStates]
             /\ UNCHANGED <<identity, sample, object, vector, results, loss>>
             /\ call'[c].op = op /\ call'[c].at = p
             /\ call'[c].face = e.face /\ call'[c].sample = e.sample
             /\ call'[c].copy = e.copy /\ call'[c].gone = e.gone
  <2>1. call[c].at = "new" /\ UNCHANGED <<identity, sample, object, vector, results, loss>>
    BY <1>1 DEF Start, At
  <2> QED  BY <1>1, <2>1, StartTyped
<1>2. ASSUME NEW n \in 0..MaxFaces, NEW op \in {"recognize", "track"},
             Start(c, op, "next", [NewCall EXCEPT !.left = n, !.gone = Inactive])
      PROVE  /\ call[c].at = "new" /\ Kept(c) /\ call' \in [Calls -> CallStates]
             /\ UNCHANGED <<identity, sample, object, vector, results, loss>>
             /\ call'[c].op = op /\ call'[c].at = "next"
             /\ call'[c].sample = None /\ call'[c].gone = Inactive
  <2> DEFINE e == [NewCall EXCEPT !.left = n, !.gone = Inactive]
  <2>1. e \in CallStates /\ e.sample = None /\ e.gone = Inactive
    BY NewCallTyped DEF NewCall, Inactive
  <2> HIDE DEF e
  <2>2. Start(c, op, "next", e)  BY <1>2 DEF e
  <2>3. op \in Operations /\ "next" \in Points  BY DEF Operations, Points
  <2> QED  BY <1>1, <2>1, <2>2, <2>3
<1>3. ASSUME NEW f \in Faces, NEW op \in Operations, NEW p \in Points, Start(c, op, p, [NewCall EXCEPT !.face = f])
      PROVE  /\ call[c].at = "new" /\ Kept(c) /\ call' \in [Calls -> CallStates]
             /\ UNCHANGED <<identity, sample, object, vector, results, loss>>
             /\ call'[c].op = op /\ call'[c].at = p /\ call'[c].gone = {} /\ call'[c].face = f
  <2> DEFINE e == [NewCall EXCEPT !.face = f]
  <2>1. e \in CallStates /\ e.gone = {} /\ e.face = f  BY NewCallTyped DEF NewCall
  <2> HIDE DEF e
  <2> QED  BY <1>1, <1>3, <2>1 DEF e
<1>4. ASSUME NEW f \in Faces, NEW p \in Points, Start(c, "update", p, [NewCall EXCEPT !.face = f, !.copy = identity[f]])
      PROVE  /\ call[c].at = "new" /\ Kept(c) /\ call' \in [Calls -> CallStates]
             /\ UNCHANGED <<identity, sample, object, vector, results, loss>>
             /\ call'[c].op = "update" /\ call'[c].at = p /\ call'[c].gone = {}
             /\ call'[c].face = f /\ call'[c].copy = identity[f]
  <2> DEFINE e == [NewCall EXCEPT !.face = f, !.copy = identity[f]]
  <2>1. e \in CallStates /\ e.gone = {} /\ e.face = f /\ e.copy = identity[f]
    BY NewCallTyped DEF NewCall, TypeInv, TypeOK
  <2> HIDE DEF e
  <2> QED  BY <1>1, <1>4, <2>1 DEF e, Operations
<1>5. ASSUME NEW s \in Samples, NEW p \in Points,
             Start(c, "deleteSample", p, [NewCall EXCEPT !.sample = s, !.face = sample[s].face])
      PROVE  /\ call[c].at = "new" /\ Kept(c) /\ call' \in [Calls -> CallStates]
             /\ UNCHANGED <<identity, sample, object, vector, results, loss>>
             /\ call'[c].op = "deleteSample" /\ call'[c].at = p /\ call'[c].gone = {}
             /\ call'[c].sample = s
  <2> DEFINE e == [NewCall EXCEPT !.sample = s, !.face = sample[s].face]
  <2>1. e \in CallStates /\ e.gone = {} /\ e.sample = s
    BY NewCallTyped DEF NewCall, TypeInv, TypeOK, SampleRows
  <2> HIDE DEF e
  <2> QED  BY <1>1, <1>5, <2>1 DEF e, Operations
<1>0. 1 \in 0..MaxFaces  BY BoundAssumption
<1>6. CASE (\E n \in 0..MaxFaces : StartRecognize(c, n)) \/ StartTrack(c)
  BY <1>0, <1>2, <1>6 DEF StartRecognize, StartTrack
<1>7. CASE \E f \in Faces : StartAddSample(c, f) \/ StartEnroll(c, f) \/ StartDeactivate(c, f)
  BY <1>3, <1>7 DEF StartAddSample, StartEnroll, StartDeactivate, Operations, Points, Ends
<1>8. CASE \E f \in Faces : StartUpdate(c, f)
  BY <1>4, <1>8 DEF StartUpdate, Points, Ends
<1>9. CASE \E s \in Samples : StartDeleteSample(c, s)
  BY <1>5, <1>9 DEF StartDeleteSample, Points, Ends
<1> QED  BY <1>6, <1>7, <1>8, <1>9 DEF StartSome

LEMMA StartSomeTyped ==
  ASSUME TypeInv, NEW c \in Calls, StartSome(c)
  PROVE  TypeInv'
<1>1. OpAt(c)' /\ KnowsAt(c)' /\ Remade(c)
  BY Started DEF OpAt, KnowsAt, Making, Saving, FaceOf, SampleOf, Remade, Rowed
<1> QED  BY <1>1, Started, OthersTyped DEF Step

\* What looking at a candidate makes of a call.
LEMMA Tried ==
  ASSUME TypeInv, NEW c \in Calls, TryCandidate(c)
  PROVE  /\ call' \in [Calls -> CallStates] /\ Kept(c)
         /\ call'[c].op = call[c].op /\ call'[c].left = call[c].left /\ call'[c].gone = call[c].gone
         /\ call[c].at = "try"
         /\ \/ call'[c].at = "create" /\ call'[c].face = call[c].face /\ call'[c].sample = call[c].sample
            \/ \E s \in Samples : /\ Acceptable(s) /\ call'[c].at = "accept"
                                  /\ call'[c].face = sample[s].face /\ call'[c].sample = s
            \/ call'[c].at = "try" /\ call'[c].face = None /\ call'[c].sample = None
<1>0. TypeOK  BY DEF TypeInv
<1>1. CASE call[c].todo = {} /\ Goto(c, "create")
  BY <1>0, <1>1 DEF TryCandidate, At, Goto, TypeOK, CallStates, Points, Kept
<1>2. ASSUME NEW s \in call[c].todo,
             call' = [call EXCEPT ![c].todo = @ \ {s},
                        ![c].at = IF Acceptable(s) THEN "accept" ELSE "try",
                        ![c].face = IF Acceptable(s) THEN sample[s].face ELSE None,
                        ![c].sample = IF Acceptable(s) THEN s ELSE None]
      PROVE  /\ call' \in [Calls -> CallStates] /\ Kept(c)
             /\ call'[c].op = call[c].op /\ call'[c].left = call[c].left /\ call'[c].gone = call[c].gone
             /\ \/ /\ s \in Samples /\ Acceptable(s) /\ call'[c].at = "accept"
                   /\ call'[c].face = sample[s].face /\ call'[c].sample = s
                \/ call'[c].at = "try" /\ call'[c].face = None /\ call'[c].sample = None
  <2> DEFINE p == IF Acceptable(s) THEN "accept" ELSE "try"
             f == IF Acceptable(s) THEN sample[s].face ELSE None
             t == IF Acceptable(s) THEN s ELSE None
             S == call[c].todo \ {s}
  <2>1. /\ s \in Samples /\ S \in SUBSET Samples /\ p \in Points
        /\ f \in Faces \cup {None} /\ t \in Samples \cup {None}
    BY <1>0 DEF TypeOK, CallStates, SampleRows, Points
  <2>2. call' = [call EXCEPT ![c].todo = S, ![c].at = p, ![c].face = f, ![c].sample = t]
    BY <1>0, <1>2 DEF TypeOK
  <2>3. \/ Acceptable(s) /\ p = "accept" /\ f = sample[s].face /\ t = s
        \/ p = "try" /\ f = None /\ t = None
    OBVIOUS
  <2> HIDE DEF p, f, t, S
  <2>4. call' \in [Calls -> CallStates]
    BY <1>0, <2>1, <2>2, TodoAtFaceSampleChanged
  <2>5. /\ Kept(c)
        /\ call'[c].op = call[c].op /\ call'[c].at = p /\ call'[c].face = f
        /\ call'[c].sample = t /\ call'[c].left = call[c].left /\ call'[c].gone = call[c].gone
    BY <1>0, <2>2 DEF Kept, TypeOK, CallStates
  <2> QED  BY <2>1, <2>3, <2>4, <2>5
<1>3. call[c].at = "try"  BY DEF TryCandidate, At
<1> QED  BY <1>1, <1>2, <1>3 DEF TryCandidate, Goto

LEMMA ResolveTyped ==
  ASSUME TypeInv, NEW c \in Calls, Resolve(c)
  PROVE  TypeInv'
<1>0. TypeOK  BY DEF TypeInv
<1> USE DEF At, SampleOf, FaceOf
<1> DEFINE Typed == call' \in [Calls -> CallStates] /\ Kept(c) /\ OpAt(c)' /\ KnowsAt(c)' /\ Remade(c)
<1>1. ASSUME Query(c)  PROVE Typed
  BY <1>0, <1>1, NullAssumption DEF Query, Goto, Raise, AfterFailure, TypeInv, TypeOK,
       CallStates, Points, Ends, Kept,
     OpAt, KnowsAt, Remade, Rowed, Making, Saving, Search
<1>2. ASSUME TryCandidate(c)  PROVE Typed
  <2>1. UNCHANGED <<identity, sample>>  BY <1>2 DEF TryCandidate
  <2> QED
    BY <1>0, <1>2, <2>1, Tried DEF Acceptable, TypeInv, TypeOK, CallStates, OpAt, KnowsAt,
         Remade, Rowed, Making, Saving
<1>3. ASSUME Accept(c)  PROVE Typed
  BY <1>0, <1>3, NullAssumption DEF Accept, Goto, Raise, AfterFailure, TypeInv, TypeOK,
       CallStates, Points, Ends, Kept,
     OpAt, KnowsAt, Remade, Rowed, Making, Saving, NextFace
<1>4. ASSUME NEW f \in Faces, NEW s \in Samples, CreateIdentity(c, f, s)  PROVE Typed
  BY <1>0, <1>4, NullAssumption DEF CreateIdentity, Goto, Raise, AfterFailure, TypeInv, TypeOK,
       CallStates, Points, Ends, Kept,
     OpAt, KnowsAt, Remade, Rowed, Making, Saving
<1>5. ASSUME CompleteProcess(c)  PROVE Typed
  BY <1>0, <1>5, NullAssumption DEF CompleteProcess, Goto, Raise, AfterFailure, TypeInv, TypeOK,
       CallStates, Points, Ends, Kept,
     OpAt, KnowsAt, Remade, Rowed, Making, Saving
<1>6. Typed  BY <1>1, <1>2, <1>3, <1>4, <1>5 DEF Resolve
<1> QED  BY <1>6, OthersTyped DEF Step

LEMMA StoreTyped ==
  ASSUME TypeInv, NEW c \in Calls, Store(c)
  PROVE  TypeInv'
<1>0. TypeOK  BY DEF TypeInv
<1> USE DEF At, SampleOf, FaceOf
<1> DEFINE Typed == call' \in [Calls -> CallStates] /\ Kept(c) /\ OpAt(c)' /\ KnowsAt(c)' /\ Remade(c)
<1>1. ASSUME AddLoad(c)  PROVE Typed
  BY <1>0, <1>1, NullAssumption DEF AddLoad, Goto, Raise, AfterFailure, TypeInv, TypeOK,
       CallStates, Points, Ends, Kept,
     OpAt, KnowsAt, Remade, Rowed, Making, Saving
<1>2. ASSUME NEW s \in Samples, AddRow(c, s)  PROVE Typed
  <2>1. "upload" \in Points /\ s \in Samples \cup {None}  BY DEF Points
  <2>2. call' = [call EXCEPT ![c].at = "upload", ![c].sample = s]  BY <1>2 DEF AddRow
  <2>3. call' \in [Calls -> CallStates]  BY <1>0, <2>1, <2>2, AtSampleChanged
  <2>4. /\ Kept(c) /\ call'[c].op = call[c].op /\ call'[c].at = "upload"
        /\ call'[c].face = call[c].face /\ call'[c].sample = s
    BY <1>0, <2>2 DEF Kept, TypeOK, CallStates
  <2>5. sample'[s].state # "none"  BY <1>0, <1>2 DEF AddRow, TypeOK
  <2> QED
    BY <1>2, <2>3, <2>4, <2>5 DEF AddRow, TypeInv, OpAt, KnowsAt, Remade, Rowed, Making, Saving
<1>3. ASSUME Upload(c)  PROVE Typed
  BY <1>0, <1>3, NullAssumption DEF Upload, Goto, Raise, AfterFailure, TypeInv, TypeOK,
       CallStates, Points, Ends, Kept,
     OpAt, KnowsAt, Remade, Rowed, Making, Saving
<1>4. ASSUME Upsert(c)  PROVE Typed
  BY <1>0, <1>4, NullAssumption DEF Upsert, Goto, Raise, AfterFailure, TypeInv, TypeOK,
       CallStates, Points, Ends, Kept,
     OpAt, KnowsAt, Remade, Rowed, Making, Saving
<1>5. ASSUME Activate(c)  PROVE Typed
  BY <1>0, <1>5, NullAssumption DEF Activate, Goto, Raise, AfterFailure, TypeInv, TypeOK,
       CallStates, Points, Ends, Kept,
     OpAt, KnowsAt, Remade, Rowed, Making, Saving, NextFace
<1>6. Typed  BY <1>1, <1>2, <1>3, <1>4, <1>5 DEF Store
<1> QED  BY <1>6, OthersTyped DEF Step

LEMMA CompensateTyped ==
  ASSUME TypeInv, NEW c \in Calls, Compensate(c)
  PROVE  TypeInv'
<1>0. TypeOK  BY DEF TypeInv
<1> USE DEF At, SampleOf, FaceOf
<1> DEFINE Typed == call' \in [Calls -> CallStates] /\ Kept(c) /\ OpAt(c)' /\ KnowsAt(c)' /\ Remade(c)
<1>1. ASSUME RemoveVector(c)  PROVE Typed
  <2>1. call' \in [Calls -> CallStates] /\ Kept(c)
    BY <1>0, <1>1 DEF RemoveVector, Goto, Raise, TypeOK, CallStates, Points, Ends, Kept
  <2>2. OpAt(c)' /\ KnowsAt(c)' /\ Remade(c)
    BY <1>0, <1>1 DEF RemoveVector, Goto, Raise, TypeInv, TypeOK, CallStates, OpAt, KnowsAt,
         Remade, Rowed, Making, Saving
  <2> QED  BY <2>1, <2>2
<1>2. ASSUME RemoveObject(c)  PROVE Typed
  BY <1>0, <1>2, NullAssumption DEF RemoveObject, Goto, Raise, AfterFailure, TypeInv, TypeOK,
       CallStates, Points, Ends, Kept,
     OpAt, KnowsAt, Remade, Rowed, Making, Saving
<1>3. ASSUME FailSample(c)  PROVE Typed
  BY <1>0, <1>3, NullAssumption DEF FailSample, Goto, Raise, AfterFailure, TypeInv, TypeOK,
       CallStates, Points, Ends, Kept,
     OpAt, KnowsAt, Remade, Rowed, Making, Saving
<1>4. ASSUME FailLoad(c)  PROVE Typed
  <2>1. /\ FaceOf(c) \in Faces /\ "failSave" \in Points
        /\ call' = [call EXCEPT ![c].at = "failSave", ![c].copy = identity[FaceOf(c)]]
    BY <1>4 DEF FailLoad, TypeInv, KnowsAt, Making, Points
  <2>2. identity[FaceOf(c)] \in IdentityRows  BY <1>0, <2>1 DEF TypeOK
  <2>3. call' \in [Calls -> CallStates]
    BY <1>0, <2>1, <2>2, AtCopyChanged
  <2>4. /\ Kept(c) /\ call'[c].op = call[c].op
        /\ call'[c].at = "failSave" /\ call'[c].face = call[c].face
        /\ call'[c].sample = call[c].sample /\ call'[c].left = call[c].left
    BY <1>0, <2>1 DEF Kept, TypeOK, CallStates
  <2> QED  BY <1>4, <2>3, <2>4 DEF FailLoad, TypeInv, OpAt, KnowsAt, Remade, Rowed, Making, Saving
<1>5. ASSUME FailSave(c)  PROVE Typed
  BY <1>0, <1>5, NullAssumption DEF FailSave, Goto, Raise, AfterFailure, TypeInv, TypeOK,
       CallStates, Points, Ends, Kept,
     OpAt, KnowsAt, Remade, Rowed, Making, Saving
<1>6. ASSUME FailProcess(c)  PROVE Typed
  BY <1>0, <1>6, NullAssumption DEF FailProcess, Goto, Raise, AfterFailure, TypeInv, TypeOK,
       CallStates, Points, Ends, Kept,
     OpAt, KnowsAt, Remade, Rowed, Making, Saving
<1>7. Typed  BY <1>1, <1>2, <1>3, <1>4, <1>5, <1>6 DEF Compensate
<1> QED  BY <1>7, OthersTyped DEF Step

LEMMA MaintainTyped ==
  ASSUME TypeInv, NEW c \in Calls, Maintain(c)
  PROVE  TypeInv'
<1>0. TypeOK  BY DEF TypeInv
<1> USE DEF At, SampleOf, FaceOf
<1> DEFINE Typed == call' \in [Calls -> CallStates] /\ Kept(c) /\ OpAt(c)' /\ KnowsAt(c)' /\ Remade(c)
<1>1. ASSUME EnrollLoad(c)  PROVE Typed
  BY <1>0, <1>1, NullAssumption DEF EnrollLoad, Goto, Raise, AfterFailure, TypeInv, TypeOK,
       CallStates, Points, Ends, Kept,
     OpAt, KnowsAt, Remade, Rowed, Making, Saving
<1>2. ASSUME EnrollSave(c)  PROVE Typed
  <2>0. \E p \in {"done", "failProcess", "raised"} : Goto(c, p)
    BY <1>2 DEF EnrollSave, Raise
  <2>1. call' \in [Calls -> CallStates] /\ Kept(c)
    BY <1>0, <2>0 DEF Goto, TypeOK, CallStates, Points, Ends, Kept
  <2>2. OpAt(c)' /\ KnowsAt(c)' /\ Remade(c)
    BY <1>0, <1>2 DEF EnrollSave, Goto, Raise, TypeInv, TypeOK, CallStates, OpAt, KnowsAt,
         Remade, Rowed, Making, Saving
  <2> QED  BY <2>1, <2>2
<1>3. ASSUME UpdateSave(c)  PROVE Typed
  BY <1>0, <1>3, NullAssumption DEF UpdateSave, Goto, Raise, AfterFailure, TypeInv, TypeOK,
       CallStates, Points, Ends, Kept,
     OpAt, KnowsAt, Remade, Rowed, Making, Saving
<1>4. ASSUME DeactivateLoad(c)  PROVE Typed
  BY <1>0, <1>4, NullAssumption DEF DeactivateLoad, Goto, Raise, AfterFailure, TypeInv, TypeOK,
       CallStates, Points, Ends, Kept,
     OpAt, KnowsAt, Remade, Rowed, Making, Saving
<1>5. ASSUME DeactivateSave(c)  PROVE Typed
  BY <1>0, <1>5, NullAssumption DEF DeactivateSave, Goto, Raise, AfterFailure, TypeInv, TypeOK,
       CallStates, Points, Ends, Kept,
     OpAt, KnowsAt, Remade, Rowed, Making, Saving, ActiveSamples
<1>6. ASSUME DeactivateVectors(c)  PROVE Typed
  BY <1>0, <1>6, NullAssumption DEF DeactivateVectors, Goto, Raise, AfterFailure, TypeInv,
       TypeOK, CallStates, Points, Ends, Kept,
     OpAt, KnowsAt, Remade, Rowed, Making, Saving
<1>7. ASSUME DeleteSave(c)  PROVE Typed
  BY <1>0, <1>7, NullAssumption DEF DeleteSave, Goto, Raise, AfterFailure, TypeInv, TypeOK,
       CallStates, Points, Ends, Kept,
     OpAt, KnowsAt, Remade, Rowed, Making, Saving
<1>8. ASSUME DeleteVector(c)  PROVE Typed
  BY <1>0, <1>8, NullAssumption DEF DeleteVector, Goto, Raise, AfterFailure, TypeInv, TypeOK,
       CallStates, Points, Ends, Kept,
     OpAt, KnowsAt, Remade, Rowed, Making, Saving
<1>9. ASSUME DeleteObject(c)  PROVE Typed
  BY <1>0, <1>9, NullAssumption DEF DeleteObject, Goto, Raise, AfterFailure, TypeInv, TypeOK,
       CallStates, Points, Ends, Kept,
     OpAt, KnowsAt, Remade, Rowed, Making, Saving
<1>10. Typed  BY <1>1, <1>2, <1>3, <1>4, <1>5, <1>6, <1>7, <1>8, <1>9 DEF Maintain
<1> QED  BY <1>10, OthersTyped DEF Step

LEMMA CutOffTyped ==
  ASSUME TypeInv, NEW c \in Calls, CutOff(c)
  PROVE  TypeInv'
<1>1. call' \in [Calls -> CallStates] /\ Kept(c) /\ OpAt(c)' /\ KnowsAt(c)' /\ Remade(c)
  BY DEF CutOff, Goto, TypeInv, TypeOK, CallStates, Points, Ends, Kept, OpAt, KnowsAt, Remade,
       Rowed, Making, Saving, SampleOf, FaceOf
<1> QED  BY <1>1, OthersTyped DEF Step

LEMMA TypeStep == TypeInv /\ [Next]_vars => TypeInv'
<1> SUFFICES ASSUME TypeInv, [Next]_vars  PROVE TypeInv'
  OBVIOUS
<1>1. CASE UNCHANGED vars
  BY <1>1 DEF vars, TypeInv, TypeOK, OpAt, KnowsAt, FaceOf, SampleOf, Rowed
<1>2. CASE Next
  BY <1>2, StartSomeTyped, ResolveTyped, StoreTyped, CompensateTyped, MaintainTyped,
       CutOffTyped DEF Next
<1> QED  BY <1>1, <1>2

-----------------------------------------------------------------------------
(* Versions.                                                               *)

\* A face that is there stays there, and one that was changed stays changed.
Later(f) == /\ RowOK(identity'[f])
            /\ identity[f].state # "none" => identity'[f].state # "none"
            /\ identity[f].version >= 2 => identity'[f].version >= 2

LEMMA RowsLater ==
  ASSUME TypeInv, VersionInv, NEW c \in Calls, Step(c), NEW g \in Faces
  PROVE  Later(g)
<1>0. TypeOK /\ \A f \in Faces : identity[f] \in IdentityRows  BY DEF TypeInv, TypeOK
<1>1. CASE UNCHANGED identity
  BY <1>1 DEF VersionInv, Later
<1>2. ASSUME NEW f \in Faces, NEW s \in Samples, CreateIdentity(c, f, s)  PROVE Later(g)
  BY <1>0, <1>2 DEF CreateIdentity, VersionInv, Later, TypeOK, RowOK, NewIdentity, IdentityRows
<1>3. ASSUME call[c].at \in Saving, NEW row \in IdentityRows, RowOK(row), row.version >= 2,
             identity' = [identity EXCEPT ![FaceOf(c)] = row]
      PROVE  Later(g)
  <2>1. FaceOf(c) \in Faces  BY <1>3 DEF TypeInv, KnowsAt
  <2> QED  BY <1>0, <1>3, <2>1 DEF VersionInv, Later, TypeOK, RowOK, IdentityRows
<1>4. call[c].at \in Saving => /\ FaceOf(c) \in Faces /\ call[c].copy \in IdentityRows /\ CopyOK(c)
                               /\ identity[FaceOf(c)] \in IdentityRows
  BY <1>0 DEF TypeInv, TypeOK, KnowsAt, CallStates, VersionInv
<1>5. CASE FailSave(c) /\ ~UNCHANGED identity
  <2>1. PICK seen \in call[c].copy.version..identity[FaceOf(c)].version :
               identity' = [identity EXCEPT ![FaceOf(c)] = Deactivated(@, call[c].copy, seen)]
    BY <1>5 DEF FailSave
  <2>2. call[c].at \in Saving  BY <1>5 DEF FailSave, At, Saving
  <2> DEFINE row == Deactivated(identity[FaceOf(c)], call[c].copy, seen)
  <2>3. row \in IdentityRows /\ row.state = "inactive" /\ row.version >= 2
    BY <1>4, <2>2 DEF Deactivated, IdentityRows, CopyOK, RowOK
  <2>4. identity' = [identity EXCEPT ![FaceOf(c)] = row]  BY <1>0, <1>4, <2>1, <2>2 DEF TypeOK
  <2> HIDE DEF row
  <2>5. RowOK(row)  BY <2>3 DEF RowOK, IdentityRows
  <2> QED  BY <1>3, <2>2, <2>3, <2>4, <2>5
<1>6. ASSUME NEW row \in IdentityRows, row.state \in {"active", "inactive"},
             row.state = "active" => row.known, row.version >= 1, VersionedUpdate(c, row), call[c].at \in Saving
      PROVE  Later(g)
  <2> DEFINE new == [row EXCEPT !.version = row.version + 1]
  <2>1. new \in IdentityRows /\ new.version >= 2 /\ new.state = row.state /\ new.known = row.known
    BY <1>6 DEF IdentityRows
  <2>2. identity' = [identity EXCEPT ![FaceOf(c)] = new]  BY <1>6 DEF VersionedUpdate
  <2> HIDE DEF new
  <2>3. RowOK(new)  BY <1>6, <2>1 DEF RowOK, IdentityRows
  <2> QED  BY <1>3, <1>6, <2>1, <2>2, <2>3
<1>7. CASE EnrollSave(c) /\ ~UNCHANGED identity
  <2>1. call[c].at = "enrollSave" /\ VersionedUpdate(c, [call[c].copy EXCEPT !.known = TRUE])
    BY <1>7 DEF EnrollSave, At
  <2> DEFINE row == [call[c].copy EXCEPT !.known = TRUE]
  <2>2. call[c].copy.state = "active" /\ call[c].copy.version = 1 /\ call[c].copy \in IdentityRows
    BY <1>4, <2>1 DEF CopyOK, RowOK, Saving
  <2>3. row \in IdentityRows /\ row.state = "active" /\ row.known /\ row.version = 1
    BY <2>2 DEF IdentityRows
  <2>4. VersionedUpdate(c, row) /\ call[c].at \in Saving  BY <2>1 DEF Saving
  <2> HIDE DEF row
  <2> QED  BY <1>6, <2>3, <2>4
<1>8. CASE UpdateSave(c) /\ ~UNCHANGED identity
  <2>1. call[c].at = "updateSave" /\ VersionedUpdate(c, call[c].copy)
    BY <1>8 DEF UpdateSave, At
  <2> QED  BY <1>4, <1>6, <2>1 DEF IdentityRows, CopyOK, RowOK, Saving
<1>9. CASE DeactivateSave(c) /\ ~UNCHANGED identity
  <2>1. call[c].at = "deactivateSave" /\ VersionedUpdate(c, [call[c].copy EXCEPT !.state = "inactive"])
    BY <1>9 DEF DeactivateSave, At
  <2> DEFINE row == [call[c].copy EXCEPT !.state = "inactive"]
  <2>2. row \in IdentityRows /\ row.state = "inactive" /\ row.version >= 1
    BY <1>4, <2>1 DEF IdentityRows, CopyOK, RowOK, Saving
  <2> HIDE DEF row
  <2> QED  BY <1>6, <2>1, <2>2 DEF row, Saving
<1> QED  BY <1>1, <1>2, <1>5, <1>7, <1>8, <1>9, IdentityWriters

\* Where a copy is read, a sample begun, an enrolment done.
Arrived(c) ==
  /\ call'[c].at \in Saving =>
       \/ StartSome(c) \/ FailLoad(c) \/ EnrollLoad(c) \/ DeactivateLoad(c)
  /\ call'[c].at \in Making \cup {"addRow"} =>
       \/ \E f \in Faces, s \in Samples : CreateIdentity(c, f, s)
       \/ AddLoad(c)
       \/ call[c].at \in Making \cup {"addRow"} /\ call'[c].face = call[c].face
  /\ call'[c].at = "done" /\ call'[c].op = "enroll" => EnrollSave(c)

LEMMA Arrivals ==
  ASSUME TypeInv, NEW c \in Calls, Step(c)
  PROVE  Kept(c) /\ Arrived(c)
<1>0. TypeOK  BY DEF TypeInv
<1> USE <1>0 DEF Arrived
<1> USE DEF At, Making, Saving, Goto, Raise, AfterFailure, Kept, OpAt, TypeInv, TypeOK, CallStates
<1>1. CASE StartSome(c)
  BY <1>1, Started
<1>2. CASE Resolve(c)
  <2>1. CASE Query(c)  BY <2>1 DEF Query
  <2>2. CASE TryCandidate(c)  BY <2>2, Tried
  <2>3. CASE Accept(c)  BY <2>3 DEF Accept, NextFace
  <2>4. ASSUME NEW f \in Faces, NEW s \in Samples, CreateIdentity(c, f, s)
        PROVE  Kept(c) /\ Arrived(c)
    <3>1. Kept(c)  BY <2>4 DEF CreateIdentity
    <3>2. call'[c].at \in {"upload", "raised", "failProcess"}  BY <2>4 DEF CreateIdentity
    <3> QED  BY <2>4, <3>1, <3>2
  <2>5. CASE CompleteProcess(c)  BY <2>5 DEF CompleteProcess
  <2> QED  BY <1>2, <2>1, <2>2, <2>3, <2>4, <2>5 DEF Resolve
<1>3. CASE Store(c)
  BY <1>3 DEF Store, AddLoad, AddRow, Upload, Upsert, Activate, NextFace
<1>4. CASE Compensate(c)
  BY <1>4 DEF Compensate, RemoveVector, RemoveObject, FailSample, FailLoad, FailSave, FailProcess
<1>5. CASE Maintain(c)
  BY <1>5 DEF Maintain, EnrollLoad, EnrollSave, UpdateSave, DeactivateLoad, DeactivateSave,
       DeactivateVectors, DeleteSave, DeleteVector, DeleteObject
<1>6. CASE CutOff(c)
  BY <1>6 DEF CutOff
<1> QED  BY <1>1, <1>2, <1>3, <1>4, <1>5, <1>6 DEF Step

LEMMA VersionStep ==
  ASSUME TypeInv, TypeInv', VersionInv, NEW c \in Calls, Step(c)
  PROVE  VersionInv'
<1>0. TypeOK /\ TypeOK' /\ \A f \in Faces : identity[f] \in IdentityRows /\ identity'[f] \in IdentityRows
  BY DEF TypeInv, TypeOK
<1>1. \A f \in Faces : Later(f)  BY RowsLater
<1>2. ASSUME NEW d \in Calls, call'[d].at \in Saving  PROVE CopyOK(d)'
  <2>0. call'[d].face \in Faces  BY <1>2 DEF TypeInv, KnowsAt, FaceOf
  <2>1. CASE call'[d] = call[d]
    BY <1>0, <1>1, <1>2, <2>0, <2>1 DEF VersionInv, CopyOK, Later, FaceOf, IdentityRows
  <2>2. CASE d = c /\ (FailLoad(c) \/ EnrollLoad(c) \/ DeactivateLoad(c))
    <3>1. /\ call'[c].copy = identity[FaceOf(c)] /\ UNCHANGED identity /\ call'[c].face = FaceOf(c)
          /\ call'[c].at # "updateSave"
          /\ call'[c].at = "enrollSave" => Active(FaceOf(c)) /\ ~identity[FaceOf(c)].known
          /\ FailLoad(c) \/ identity[FaceOf(c)].state # "none"
      BY <1>0, <1>2, <2>2 DEF FailLoad, EnrollLoad, DeactivateLoad, Raise, Goto, TypeOK,
           CallStates, Saving, FaceOf, Active
    <3>2. FailLoad(c) => identity[FaceOf(c)].state # "none"
      BY DEF FailLoad, At, Making, VersionInv
    <3> QED
      BY <1>0, <1>1, <2>0, <2>2, <3>1, <3>2 DEF CopyOK, Later, RowOK, FaceOf, Active, IdentityRows
  <2>3. CASE d = c /\ StartSome(c)
    BY <1>0, <1>1, <1>2, <2>0, <2>3, Started DEF CopyOK, Later, RowOK, FaceOf, Active, Saving,
         IdentityRows
  <2> QED  BY <1>2, <2>1, <2>2, <2>3, Arrivals DEF Kept, Arrived
<1>3. ASSUME NEW d \in Calls, call'[d].at \in Making \cup {"addRow"}
      PROVE  identity'[call'[d].face].state # "none"
  <2>0. call'[d].face \in Faces  BY <1>3 DEF TypeInv, KnowsAt, FaceOf
  <2>1. CASE call'[d].face = call[d].face /\ call[d].at \in Making \cup {"addRow"}
    BY <1>1, <2>0, <2>1 DEF VersionInv, Later, FaceOf
  <2>2. ASSUME d = c, NEW f \in Faces, NEW s \in Samples, CreateIdentity(c, f, s)
        PROVE  identity'[call'[d].face].state # "none"
    <3>1. call'[c].face = f \/ call'[c].at \in {"raised", "failProcess"}
      BY <1>0, <2>2 DEF CreateIdentity, Raise, Goto, TypeOK, CallStates
    <3>2. identity'[f].state = "active" \/ call'[c].at \in {"raised", "failProcess"}
      BY <1>0, <2>2 DEF CreateIdentity, Raise, Goto, TypeOK, CallStates, NewIdentity
    <3> QED  BY <1>3, <2>2, <3>1, <3>2 DEF Making
  <2>3. CASE d = c /\ AddLoad(c)
    <3>1. call'[c].face = FaceOf(c) /\ UNCHANGED identity /\ (call'[c].at = "raised" \/ Active(FaceOf(c)))
      BY <1>0, <2>3 DEF AddLoad, Goto, TypeOK, CallStates, FaceOf
    <3> QED  BY <1>3, <2>3, <3>1 DEF Active, Making
  <2> QED  BY <1>3, <2>1, <2>2, <2>3, Arrivals DEF Kept, Arrived
<1>4. ASSUME NEW d \in Calls, call'[d].op = "enroll", call'[d].at = "done"
      PROVE  identity'[call'[d].face].version >= 2
  <2>0. call'[d].face \in Faces  BY <1>4 DEF TypeInv, KnowsAt, FaceOf
  <2>1. CASE call'[d] = call[d]
    BY <1>1, <1>4, <2>0, <2>1 DEF VersionInv, Later, FaceOf
  <2>2. CASE d = c /\ EnrollSave(c)
    <3>1. /\ call'[c].face = FaceOf(c) /\ call[c].at = "enrollSave"
          /\ VersionedUpdate(c, [call[c].copy EXCEPT !.known = TRUE])
      BY <1>0, <1>4, <2>2 DEF EnrollSave, Raise, Goto, At, FaceOf, TypeOK, CallStates
    <3>2. call[c].copy.version = 1 /\ call[c].copy \in IdentityRows
      BY <1>0, <3>1 DEF VersionInv, CopyOK, Saving, TypeOK, CallStates
    <3>3. identity'[FaceOf(c)].version = 2
      BY <1>0, <2>0, <2>2, <3>1, <3>2 DEF VersionedUpdate, IdentityRows, TypeOK
    <3> QED  BY <2>2, <3>1, <3>3
  <2> QED  BY <1>4, <2>1, <2>2, Arrivals DEF Kept, Arrived
<1> QED  BY <1>1, <1>2, <1>3, <1>4 DEF VersionInv, Later, FaceOf

LEMMA VersionInit == Init => VersionInv
BY DEF Init, VersionInv, RowOK, NewIdentity, NoIdentity, NewCall, Saving, Making

\* Only the first enrolment of a face finds it at version 1.
LEMMA EnrolledOnceStep ==
  ASSUME TypeInv, TypeInv', VersionInv, EnrolledOnce, NEW c \in Calls, Step(c)
  PROVE  EnrolledOnce'
<1>1. SUFFICES ASSUME NEW a \in Calls, NEW b \in Calls, a # b, b # c,
                      call'[a].op = "enroll", call'[a].at = "done",
                      call'[b].op = "enroll", call'[b].at = "done", call'[a].face = call'[b].face
               PROVE  FALSE
  BY DEF EnrolledOnce, At, FaceOf
<1>2. call'[b] = call[b]  BY <1>1, Arrivals DEF Kept
<1>3. CASE call'[a] = call[a]
  BY <1>1, <1>2, <1>3 DEF EnrolledOnce, At, FaceOf
<1>4. CASE a = c /\ EnrollSave(c)
  <2>1. identity[FaceOf(b)].version >= 2  BY <1>1, <1>2 DEF VersionInv
  <2>2. call'[c].face = FaceOf(c) /\ call[c].at = "enrollSave" /\ identity[FaceOf(c)].version = call[c].copy.version
    BY <1>1, <1>4 DEF EnrollSave, VersionedUpdate, Raise, Goto, At, FaceOf, TypeInv, TypeOK,
         CallStates
  <2>3. call[c].copy.version = 1  BY <2>2 DEF VersionInv, CopyOK, Saving
  <2> QED  BY <1>1, <1>2, <1>4, <2>1, <2>2, <2>3 DEF FaceOf
<1> QED  BY <1>1, <1>3, <1>4, Arrivals DEF Kept, Arrived

-----------------------------------------------------------------------------
(* Who makes which sample.                                                 *)

\* What a step makes of a row of face_sample.
RowNext(c, t) ==
  \/ sample'[t] = sample[t]
  \/ /\ sample[t].state = "none"
     /\ sample'[t] = [state |-> "pending", face |-> call'[c].face]
     /\ call'[c].at = "upload" /\ call'[c].sample = t
  \/ /\ t = SampleOf(c) /\ sample'[t].face = sample[t].face
     /\ \/ call[c].at = "activate" /\ sample'[t].state = "active"
        \/ /\ call[c].at \in {"failSave", "failSample"}
           /\ sample[t].state \in {"pending", "active"} /\ sample'[t].state = "failed"
        \/ call[c].at = "deleteSave" /\ sample'[t].state = "inactive"
  \/ /\ sample'[t].face = sample[t].face
     /\ sample[t].state = "active" /\ sample'[t].state = "inactive"

LEMMA RowsNext ==
  ASSUME TypeInv, NEW c \in Calls, Step(c), NEW t \in Samples
  PROVE  RowNext(c, t)
<1>0. TypeOK  BY DEF TypeInv
<1>1. CASE UNCHANGED sample  BY <1>1 DEF RowNext
<1>2. ASSUME NEW f \in Faces, NEW s \in Samples, CreateIdentity(c, f, s)  PROVE RowNext(c, t)
  <2>1. CASE UNCHANGED sample  BY <2>1 DEF RowNext
  <2>2. CASE /\ sample[s].state = "none"
             /\ sample' = [sample EXCEPT ![s] = [state |-> "pending", face |-> f]]
             /\ call' = [call EXCEPT ![c].at = "upload", ![c].face = f, ![c].sample = s]
    <3>1. call'[c].at = "upload" /\ call'[c].face = f /\ call'[c].sample = s
      BY <1>0, <2>2 DEF TypeOK, CallStates
    <3> QED  BY <1>0, <2>2, <3>1 DEF RowNext, TypeOK
  <2> QED  BY <1>2, <2>1, <2>2 DEF CreateIdentity
<1>3. ASSUME NEW s \in Samples, AddRow(c, s)  PROVE RowNext(c, t)
  <2>1. call'[c].at = "upload" /\ call'[c].face = FaceOf(c) /\ call'[c].sample = s
    BY <1>0, <1>3 DEF AddRow, TypeOK, CallStates, FaceOf
  <2> QED  BY <1>0, <1>3, <2>1 DEF AddRow, RowNext, TypeOK
<1>4. CASE Activate(c)
  BY <1>0, <1>4 DEF Activate, SetSample, RowNext, TypeOK, SampleRows, At
<1>5. CASE FailSample(c) \/ FailSave(c)
  BY <1>0, <1>5 DEF FailSample, FailSave, SetSample, RowNext, TypeOK, SampleRows, At
<1>6. CASE DeactivateSave(c)
  BY <1>0, <1>6 DEF DeactivateSave, ActiveSamples, RowNext, TypeOK, SampleRows
<1>7. CASE DeleteSave(c)
  BY <1>0, <1>7 DEF DeleteSave, SetSample, RowNext, TypeOK, SampleRows, At
<1> QED  BY <1>1, <1>2, <1>3, <1>4, <1>5, <1>6, <1>7, SampleWriters

\* How a call comes to the steps that work on a sample.
SampleArrived(c) ==
  LET at == call[c].at
      next == call'[c].at
      s == call'[c].sample
  IN  /\ next \in Making =>
           \/ /\ next = "upload" /\ s \in Samples /\ sample[s].state = "none"
              /\ sample'[s] = [state |-> "pending", face |-> call'[c].face]
              /\ at \notin Making
           \/ /\ at \in Making /\ s = SampleOf(c) /\ call'[c].face = FaceOf(c)
              /\ next # "upload" /\ UNCHANGED identity
              /\ next = "upsert" => at = "upload" /\ UNCHANGED sample
              /\ next = "activate" => at = "upsert" /\ UNCHANGED sample
              /\ at \notin {"failSave", "failSample"}
      /\ next = "accept" => /\ UNCHANGED sample /\ s \in Samples /\ sample[s].state = "active"
                            /\ call'[c].face = sample[s].face
      /\ next = "deleteSave" => s \in Samples /\ sample[s].state = "active" /\ UNCHANGED sample
      /\ next = "deleteVector" => s = SampleOf(c) /\ DeleteSave(c)
      /\ next = "deleteObject" => s = SampleOf(c) /\ at = "deleteVector" /\ UNCHANGED sample
      /\ next = "deactivateVectors" =>
           \/ \A t \in call'[c].todo : t \in Samples /\ sample'[t].state = "inactive"
           \/ at = "deactivateVectors" /\ call'[c].todo \subseteq call[c].todo /\ UNCHANGED sample

LEMMA SampleArrivals ==
  ASSUME TypeInv, NEW c \in Calls, Step(c)
  PROVE  SampleArrived(c)
<1>0. TypeOK  BY DEF TypeInv
<1> USE <1>0 DEF SampleArrived, At, Making, Goto, Raise, AfterFailure, OpAt, TypeInv, TypeOK, CallStates, FaceOf, SampleOf
<1>1. CASE StartSome(c)  BY <1>1, Started
<1>2. CASE Resolve(c)
  <2>1. CASE Query(c)  BY <2>1 DEF Query
  <2>2. CASE TryCandidate(c)
    <3>1. UNCHANGED sample  BY <2>2 DEF TryCandidate
    <3>2. \/ call'[c].at \in {"create", "try"}
          \/ \E s \in Samples : /\ sample[s].state = "active" /\ call'[c].at = "accept"
                                /\ call'[c].face = sample[s].face /\ call'[c].sample = s
      BY <2>2, Tried DEF Acceptable
    <3> QED  BY <3>1, <3>2
  <2>3. CASE Accept(c)  BY <2>3 DEF Accept, NextFace
  <2>4. ASSUME NEW f \in Faces, NEW s \in Samples, CreateIdentity(c, f, s)  PROVE SampleArrived(c)
    <3>1. \/ call'[c].at \in {"raised", "failProcess"}
          \/ call'[c].at = "upload" /\ call'[c].face = f /\ call'[c].sample = s
      BY <2>4 DEF CreateIdentity
    <3>2. \/ call'[c].at \in {"raised", "failProcess"}
          \/ sample[s].state = "none" /\ sample'[s] = [state |-> "pending", face |-> f]
      BY <2>4 DEF CreateIdentity
    <3>3. call[c].at = "create"  BY <2>4 DEF CreateIdentity
    <3> QED  BY <3>1, <3>2, <3>3
  <2>5. CASE CompleteProcess(c)  BY <2>5 DEF CompleteProcess
  <2> QED  BY <1>2, <2>1, <2>2, <2>3, <2>4, <2>5 DEF Resolve
<1>3. CASE Store(c)
  <2>1. ASSUME NEW s \in Samples, AddRow(c, s)  PROVE SampleArrived(c)
    <3>1. call'[c].at = "upload" /\ call'[c].face = FaceOf(c) /\ call'[c].sample = s
      BY <2>1 DEF AddRow
    <3>2. sample[s].state = "none" /\ sample'[s] = [state |-> "pending", face |-> FaceOf(c)] /\ call[c].at = "addRow"
      BY <2>1 DEF AddRow
    <3> QED  BY <3>1, <3>2
  <2>2. CASE AddLoad(c)  BY <2>2 DEF AddLoad
  <2>3. CASE Upload(c)  BY <2>3 DEF Upload
  <2>4. CASE Upsert(c)  BY <2>4 DEF Upsert
  <2>5. CASE Activate(c)  BY <2>5 DEF Activate, NextFace
  <2> QED  BY <1>3, <2>1, <2>2, <2>3, <2>4, <2>5 DEF Store
<1>4. CASE Compensate(c)
  BY <1>4 DEF Compensate, RemoveVector, RemoveObject, FailSample, FailLoad, FailSave, FailProcess
<1>5. CASE Maintain(c)
  <2>1. CASE EnrollLoad(c) \/ EnrollSave(c) \/ UpdateSave(c) \/ DeactivateLoad(c)
    BY <2>1 DEF EnrollLoad, EnrollSave, UpdateSave, DeactivateLoad
  <2>2. CASE DeactivateSave(c)
    <3>1. \/ call'[c].at \in {"raised", "failProcess"}
          \/ call'[c].at = "deactivateVectors" /\ call'[c].todo = ActiveSamples(FaceOf(c))
      BY <2>2 DEF DeactivateSave, ActiveSamples
    <3>2. \/ call'[c].at \in {"raised", "failProcess"}
          \/ \A t \in ActiveSamples(FaceOf(c)) : t \in Samples /\ sample'[t].state = "inactive"
      BY <2>2 DEF DeactivateSave, ActiveSamples, SampleRows
    <3> QED  BY <3>1, <3>2
  <2>3. CASE DeactivateVectors(c)  BY <2>3 DEF DeactivateVectors
  <2>4. CASE DeleteSave(c) \/ DeleteVector(c) \/ DeleteObject(c)
    BY <2>4 DEF DeleteSave, DeleteVector, DeleteObject
  <2> QED  BY <1>5, <2>1, <2>2, <2>3, <2>4 DEF Maintain
<1>6. CASE CutOff(c)  BY <1>6 DEF CutOff
<1> QED  BY <1>1, <1>2, <1>3, <1>4, <1>5, <1>6 DEF Step

LEMMA MakerStep ==
  ASSUME TypeInv, TypeInv', VersionInv, VersionInv', MakerInv, NEW c \in Calls, Step(c)
  PROVE  MakerInv'
<1>0. TypeOK /\ TypeOK' /\ Kept(c) /\ SampleArrived(c) /\ (\A t \in Samples : RowNext(c, t))
      /\ (\A f \in Faces : Later(f))
  BY Arrivals, SampleArrivals, RowsNext, RowsLater DEF TypeInv
<1>1. ASSUME NEW s \in Samples, sample'[s].state # "none"
      PROVE  identity'[sample'[s].face].state # "none"
  <2>1. sample'[s].face \in Faces  BY <1>1 DEF TypeInv
  <2>2. CASE call'[c].at = "upload" /\ sample'[s].face = call'[c].face
    BY <2>1, <2>2 DEF VersionInv, Making, FaceOf
  <2>3. CASE sample'[s].face = sample[s].face /\ sample[s].state # "none"
    BY <1>0, <2>1, <2>3 DEF MakerInv, Later
  <2>4. RowNext(c, s)  BY <1>0
  <2>5. CASE s = SampleOf(c) /\ call[c].at \in Rowed
    BY <1>0, <2>1, <2>3, <2>4, <2>5 DEF RowNext, TypeInv, Rowed
  <2> QED  BY <1>1, <2>1, <2>2, <2>3, <2>4, <2>5 DEF RowNext, Rowed, Making
<1>2. ASSUME NEW d \in Calls, d # c  PROVE SampleAt(d)'
  <2>1. call'[d] = call[d]  BY <1>0, <1>2 DEF Kept
  <2>2. ASSUME NEW t \in Samples
        PROVE  /\ sample[t].state = "inactive" => sample'[t].state = "inactive"
               /\ sample[t].state \in {"active", "inactive", "failed"} =>
                    /\ sample'[t].state \in {"active", "inactive", "failed"}
                    /\ sample'[t].face = sample[t].face
    BY <1>0, <2>2 DEF RowNext, MakerInv, SampleAt
  <2>3. CASE call[d].at \in Making
    <3>1. SampleOf(d) \in Samples /\ SampleAt(d) /\ RowNext(c, SampleOf(d))
      BY <1>0, <2>3 DEF TypeInv, KnowsAt, MakerInv
    <3>2. call[c].at \in Making => SampleOf(c) # SampleOf(d)
      BY <1>2, <2>3 DEF MakerInv
    <3>3. call[c].at = "deleteSave" => sample[SampleOf(c)].state # "pending"
      BY DEF MakerInv, SampleAt
    <3>4. sample[SampleOf(d)].state # "none"  BY <2>3, <3>1 DEF SampleAt
    <3> QED
      BY <1>0, <2>1, <2>3, <3>1, <3>2, <3>3, <3>4 DEF SampleAt, RowNext, Making, FaceOf, SampleOf
  <2>4. CASE call[d].at \in {"accept", "deleteSave", "deleteVector", "deleteObject"}
    <3>1. SampleOf(d) \in Samples /\ SampleAt(d)
      BY <2>4 DEF TypeInv, KnowsAt, MakerInv
    <3> QED  BY <2>1, <2>2, <2>4, <3>1 DEF SampleAt, Making, FaceOf, SampleOf
  <2>5. CASE call[d].at = "deactivateVectors"
    <3>1. call[d].todo \subseteq Samples  BY <1>0 DEF TypeOK, CallStates
    <3> QED  BY <2>1, <2>2, <2>5, <3>1 DEF MakerInv, SampleAt, Making
  <2> QED  BY <2>1, <2>3, <2>4, <2>5 DEF SampleAt, Making
<1>3. SampleAt(c)'
  <2>1. CASE call'[c].at \in Making
    <3>1. CASE call'[c].at = "upload"
      BY <1>0, <2>1, <3>1 DEF SampleAt, SampleArrived, Making, FaceOf, SampleOf
    <3>2. CASE call'[c].at # "upload"
      <4>1. /\ call[c].at \in Making \ {"failSave", "failSample"} /\ call'[c].sample = SampleOf(c) /\ call'[c].face = FaceOf(c)
            /\ call'[c].at = "upsert" => call[c].at = "upload" /\ UNCHANGED sample
            /\ call'[c].at = "activate" => call[c].at = "upsert" /\ UNCHANGED sample
        BY <1>0, <2>1, <3>2 DEF SampleArrived, Making
      <4>2. SampleOf(c) \in Samples /\ SampleAt(c) /\ RowNext(c, SampleOf(c))
        BY <1>0, <4>1 DEF TypeInv, KnowsAt, MakerInv
      <4> QED  BY <2>1, <3>2, <4>1, <4>2 DEF SampleAt, RowNext, Making, FaceOf, SampleOf
    <3> QED  BY <3>1, <3>2
  <2>2. CASE call'[c].at \in {"accept", "deleteSave"}
    BY <1>0, <2>2 DEF SampleArrived, SampleAt, Making, FaceOf, SampleOf
  <2>3. CASE call'[c].at = "deleteVector"
    BY <1>0, <2>3 DEF SampleArrived, SampleAt, Making, FaceOf, SampleOf, DeleteSave, SetSample,
         TypeInv, TypeOK, KnowsAt, At, SampleRows
  <2>4. CASE call'[c].at = "deleteObject"
    BY <1>0, <2>4 DEF SampleArrived, SampleAt, Making, SampleOf, MakerInv
  <2>5. CASE call'[c].at = "deactivateVectors"
    BY <1>0, <2>5 DEF SampleArrived, SampleAt, Making, MakerInv
  <2> QED  BY <2>1, <2>2, <2>3, <2>4, <2>5 DEF SampleAt, Making
<1>4. ASSUME NEW d \in Calls, d # c, call'[c].at \in Making, call'[d].at \in Making
      PROVE  call'[c].sample # call'[d].sample
  <2>1. call'[d] = call[d]  BY <1>0, <1>4 DEF Kept
  <2>2. sample[SampleOf(d)].state # "none"  BY <1>4, <2>1 DEF TypeInv, Rowed
  <2> QED  BY <1>0, <1>4, <2>1, <2>2 DEF SampleArrived, MakerInv, SampleOf
<1>5. ASSUME NEW a \in Calls, NEW b \in Calls, a # b, call'[a].at \in Making, call'[b].at \in Making
      PROVE  call'[a].sample # call'[b].sample
  <2>1. CASE a = c \/ b = c  BY <1>4, <1>5, <2>1
  <2>2. CASE a # c /\ b # c
    BY <1>0, <1>5, <2>2 DEF Kept, MakerInv, SampleOf
  <2> QED  BY <2>1, <2>2
<1> QED  BY <1>1, <1>2, <1>3, <1>5 DEF MakerInv, SampleOf

LEMMA MakerInit == Init => MakerInv
<1> SUFFICES ASSUME Init  PROVE MakerInv
  OBVIOUS
<1>1. ASSUME NEW s \in Samples, sample[s].state # "none"  PROVE sample[s].face \in OldFaces
  BY <1>1 DEF Init
<1> QED  BY <1>1, OldAssumption DEF Init, MakerInv, SampleAt, Making, NewCall, NewIdentity

-----------------------------------------------------------------------------
(* Crops and vectors.                                                      *)

\* What a step makes of the crop and the vector of a sample.
StoreNext(c, t) ==
  /\ \/ (t \in object') = (t \in object)
     \/ t = SampleOf(c) /\ call[c].at = "upload"
     \/ t = SampleOf(c) /\ call[c].at \in {"removeObject", "deleteObject"} /\ t \notin object'
  /\ \/ vector'[t] = vector[t]
     \/ t = SampleOf(c) /\ call[c].at = "upsert"
     \/ t = SampleOf(c) /\ call[c].at = "removeVector" /\ vector'[t] = "none"
     \/ /\ vector[t] # "none" /\ vector'[t] = "inactive"
        /\ \/ t = SampleOf(c) /\ call[c].at = "deleteVector"
           \/ t \in call[c].todo /\ call[c].at = "deactivateVectors"
  /\ loss \subseteq loss'

LEMMA StoresNext ==
  ASSUME TypeInv, NEW c \in Calls, Step(c), NEW t \in Samples
  PROVE  StoreNext(c, t)
<1>0. TypeOK  BY DEF TypeInv
<1>1. \/ (t \in object') = (t \in object)
      \/ t = SampleOf(c) /\ call[c].at = "upload"
      \/ t = SampleOf(c) /\ call[c].at \in {"removeObject", "deleteObject"} /\ t \notin object'
  BY <1>0, ObjectWriters DEF Upload, RemoveObject, DeleteObject, At, Stored, Removed
<1>2. \/ vector'[t] = vector[t]
      \/ t = SampleOf(c) /\ call[c].at = "upsert"
      \/ t = SampleOf(c) /\ call[c].at = "removeVector" /\ vector'[t] = "none"
      \/ /\ vector[t] # "none" /\ vector'[t] = "inactive"
         /\ \/ t = SampleOf(c) /\ call[c].at = "deleteVector"
            \/ t \in call[c].todo /\ call[c].at = "deactivateVectors"
  <2>1. ASSUME NEW s \in Samples, Hide(s)
        PROVE  vector'[t] = vector[t] \/ (t = s /\ vector[t] # "none" /\ vector'[t] = "inactive")
    BY <1>0, <2>1 DEF Hide, Hidden, TypeOK
  <2>2. CASE DeactivateVectors(c)
    BY <1>0, <2>1, <2>2 DEF DeactivateVectors, At, TypeOK, CallStates
  <2>3. CASE DeleteVector(c)
    BY <1>0, <2>1, <2>3 DEF DeleteVector, At, TypeInv, KnowsAt
  <2>4. CASE Upsert(c) \/ RemoveVector(c)
    BY <1>0, <2>4 DEF Upsert, RemoveVector, Upserted, Deleted, At, TypeOK
  <2> QED  BY <2>2, <2>3, <2>4, VectorWriters
<1>3. loss \subseteq loss'
  BY LossWriters DEF Upload, Upsert, Activate, RemoveVector, RemoveObject, CutOff, Lost
<1> QED  BY <1>1, <1>2, <1>3 DEF StoreNext

\* How a call comes to the steps whose crop and vector matter.
StoreArrived(c) ==
  LET at == call[c].at
      next == call'[c].at
      s == call'[c].sample
      stores == UNCHANGED <<object, vector, loss>>
  IN  /\ next \in Making \ {"upload"} => at \in Making /\ s = SampleOf(c)
      /\ next = "upload" => stores
      /\ next = "upsert" => at = "upload" /\ s \in object' /\ UNCHANGED <<sample, vector, loss>>
      /\ next = "activate" => at = "upsert" /\ vector'[s] = "active" /\ UNCHANGED <<sample, object, loss>>
      /\ next = "removeVector" => at = "activate" /\ ("reply" \notin loss' => UNCHANGED sample)
      /\ next = "removeObject" =>
           /\ UNCHANGED sample
           /\ \/ at = "upsert" /\ ("reply" \notin loss' => UNCHANGED vector)
              \/ at = "removeVector" /\ vector'[s] = "none"
      /\ next \in {"failLoad", "failSample"} =>
           /\ UNCHANGED sample
           /\ \/ at = "upload" /\ UNCHANGED vector /\ ("reply" \notin loss' => UNCHANGED object)
              \/ at = "removeObject" /\ UNCHANGED vector /\ ("cleanup" \notin loss' => s \notin object')
      /\ next = "failSave" => at = "failLoad" /\ UNCHANGED sample /\ stores

LEMMA StoreArrivals ==
  ASSUME TypeInv, NEW c \in Calls, Step(c)
  PROVE  StoreArrived(c)
<1>0. TypeOK /\ (call[c].at \in Making => SampleOf(c) \in Samples)  BY DEF TypeInv, KnowsAt
<1> USE <1>0 DEF StoreArrived, At, Making, Goto, Raise, AfterFailure, OpAt, TypeInv, TypeOK, CallStates, SampleOf
<1>1. CASE StartSome(c)  BY <1>1, Started
<1>2. CASE Resolve(c)
  <2>1. CASE Query(c)  BY <2>1 DEF Query
  <2>2. CASE TryCandidate(c)
    <3>1. call'[c].at \in {"create", "try", "accept"}  BY <2>2, Tried
    <3> QED  BY <3>1
  <2>3. CASE Accept(c)  BY <2>3 DEF Accept, NextFace
  <2>4. ASSUME NEW f \in Faces, NEW s \in Samples, CreateIdentity(c, f, s)  PROVE StoreArrived(c)
    <3>1. call'[c].at \in {"raised", "failProcess", "upload"} /\ UNCHANGED <<object, vector, loss>>
      BY <2>4 DEF CreateIdentity
    <3> QED  BY <3>1
  <2>5. CASE CompleteProcess(c)  BY <2>5 DEF CompleteProcess
  <2> QED  BY <1>2, <2>1, <2>2, <2>3, <2>4, <2>5 DEF Resolve
<1>3. CASE Store(c)
  <2>1. ASSUME NEW s \in Samples, AddRow(c, s)  PROVE StoreArrived(c)
    <3>1. call'[c].at = "upload" /\ UNCHANGED <<object, vector, loss>>
      BY <2>1 DEF AddRow
    <3> QED  BY <3>1
  <2>2. CASE AddLoad(c)  BY <2>2 DEF AddLoad
  <2>3. CASE Upload(c)  BY <2>3 DEF Upload, Stored, Lost
  <2>4. CASE Upsert(c)  BY <2>4 DEF Upsert, Upserted, Lost
  <2>5. CASE Activate(c)  BY <2>5 DEF Activate, NextFace, Lost
  <2> QED  BY <1>3, <2>1, <2>2, <2>3, <2>4, <2>5 DEF Store
<1>4. CASE Compensate(c)
  <2>1. CASE RemoveVector(c)  BY <2>1 DEF RemoveVector, Deleted
  <2>2. CASE RemoveObject(c)  BY <2>2 DEF RemoveObject, Removed
  <2>3. CASE FailLoad(c)  BY <2>3 DEF FailLoad
  <2> QED  BY <1>4, <2>1, <2>2, <2>3 DEF Compensate, FailSample, FailSave, FailProcess
<1>5. CASE Maintain(c)
  BY <1>5 DEF Maintain, EnrollLoad, EnrollSave, UpdateSave, DeactivateLoad, DeactivateSave,
       DeactivateVectors, DeleteSave, DeleteVector, DeleteObject
<1>6. CASE CutOff(c)  BY <1>6 DEF CutOff
<1> QED  BY <1>1, <1>2, <1>3, <1>4, <1>5, <1>6 DEF Step

LEMMA StoreStep ==
  ASSUME TypeInv, TypeInv', MakerInv, MakerInv', StoreInv, NEW c \in Calls, Step(c)
  PROVE  StoreInv'
<1>0. /\ TypeOK /\ TypeOK' /\ Kept(c) /\ SampleArrived(c) /\ StoreArrived(c)
      /\ \A t \in Samples : RowNext(c, t) /\ StoreNext(c, t)
      /\ SampleAt(c) /\ StoredAt(c)
  BY Arrivals, SampleArrivals, StoreArrivals, RowsNext, StoresNext DEF TypeInv, MakerInv, StoreInv
<1>1. /\ call[c].at \in Making \cup {"deleteSave", "deleteVector", "deleteObject"} => SampleOf(c) \in Samples
      /\ call[c].at = "deactivateVectors" => call[c].todo \subseteq Samples
  BY <1>0 DEF TypeInv, KnowsAt, TypeOK, CallStates
<1>2. ASSUME NEW t \in Samples, sample'[t].state = "none"  PROVE Clean(t)'
  <2>1. sample[t].state = "none"  BY <1>2, RowsStay
  <2>2. Clean(t)  BY <2>1 DEF StoreInv
  <2>3. SampleOf(c) = t => call[c].at \notin Making \cup {"deleteSave", "deleteVector", "deleteObject"}
    BY <1>0, <2>1 DEF SampleAt
  <2> QED  BY <1>0, <2>1, <2>2, <2>3 DEF Clean, StoreNext, Making
<1>3. ASSUME NEW t \in Samples, sample'[t].state = "failed", loss' = {}  PROVE Clean(t)'
  <2>1. loss = {} /\ StoreNext(c, t) /\ RowNext(c, t)  BY <1>0, <1>3 DEF StoreNext
  <2>2. CASE sample[t].state = "failed"
    <3>1. Clean(t)  BY <2>1, <2>2 DEF StoreInv
    <3>2. SampleOf(c) = t => call[c].at \notin Making
      BY <1>0, <2>2 DEF SampleAt
    <3> QED  BY <2>1, <3>1, <3>2 DEF Clean, StoreNext, Making
  <2>3. CASE t = SampleOf(c) /\ call[c].at \in {"failSave", "failSample"}
    BY <1>0, <1>1, <2>1, <2>3 DEF Clean, StoreNext, StoredAt
  <2> QED  BY <1>3, <2>1, <2>2, <2>3 DEF RowNext
<1>4. ActiveSampleStored'
  <2> SUFFICES ASSUME "reply" \notin loss', NEW t \in Samples, sample'[t].state = "active"
               PROVE  t \in object' /\ vector'[t] = "active"
    BY DEF ActiveSampleStored
  <2>1. "reply" \notin loss /\ StoreNext(c, t) /\ RowNext(c, t)  BY <1>0 DEF StoreNext
  <2>2. CASE sample[t].state = "active"
    <3>1. t \in object /\ vector[t] = "active"  BY <2>1, <2>2 DEF StoreInv, ActiveSampleStored
    <3>2. SampleOf(c) = t => call[c].at \notin Making \cup {"deleteVector", "deleteObject"}
      BY <1>0, <2>1, <2>2 DEF SampleAt, StoredAt
    <3>3. call[c].at = "deactivateVectors" => t \notin call[c].todo
      BY <1>0, <2>2 DEF SampleAt
    <3> QED  BY <2>1, <3>1, <3>2, <3>3 DEF StoreNext, Making
  <2>3. CASE t = SampleOf(c) /\ call[c].at = "activate"
    BY <1>0, <1>1, <2>1, <2>3 DEF StoreNext, StoredAt
  <2> QED  BY <2>1, <2>2, <2>3 DEF RowNext
<1>5. ASSUME NEW d \in Calls, d # c  PROVE StoredAt(d)'
  <2>1. call'[d] = call[d] /\ SampleAt(d) /\ StoredAt(d)
    BY <1>0, <1>5 DEF Kept, MakerInv, StoreInv
  <2>2. CASE call[d].at \in Making
    <3>1. SampleOf(d) \in Samples /\ RowNext(c, SampleOf(d)) /\ StoreNext(c, SampleOf(d))
      BY <1>0, <2>2 DEF TypeInv, KnowsAt
    <3>2. call[c].at \in Making => SampleOf(c) # SampleOf(d)
      BY <1>5, <2>2 DEF MakerInv
    <3>3. /\ call[c].at \in {"deleteSave", "deleteVector", "deleteObject"} => sample[SampleOf(c)].state # "pending"
          /\ call[c].at = "deactivateVectors" => \A t \in call[c].todo : sample[t].state # "pending"
      BY <1>0 DEF SampleAt
    <3>4. sample[SampleOf(d)].state # "none"  BY <2>1, <2>2 DEF SampleAt
    <3>5. loss \subseteq loss'  BY <3>1 DEF StoreNext
    <3>6. "reply" \notin loss' =>
             /\ sample'[SampleOf(d)].state = "pending"
             /\ call[d].at \in {"upsert", "activate"} => SampleOf(d) \in object'
             /\ call[d].at = "activate" => vector'[SampleOf(d)] = "active"
      BY <2>1, <2>2, <3>1, <3>2, <3>3, <3>4, <3>5 DEF StoredAt, RowNext, StoreNext, Making
    <3>7. Clean(SampleOf(d)) => Clean(SampleOf(d))'
      BY <2>1, <3>1, <3>2, <3>3, <3>4 DEF Clean, StoreNext, Making, SampleOf
    <3>8. vector[SampleOf(d)] = "none" => vector'[SampleOf(d)] = "none"
      BY <3>1, <3>2 DEF StoreNext, Making
    <3> QED  BY <2>1, <2>2, <3>5, <3>6, <3>7, <3>8 DEF StoredAt, Making, SampleOf
  <2>3. CASE call[d].at = "deleteSave"
    <3>1. SampleOf(d) \in Samples /\ RowNext(c, SampleOf(d)) /\ StoreNext(c, SampleOf(d))
      BY <1>0, <2>3 DEF TypeInv, KnowsAt
    <3> QED  BY <1>0, <2>1, <2>3, <3>1 DEF StoredAt, RowNext, StoreNext, Making, SampleOf
  <2> QED  BY <2>1, <2>2, <2>3 DEF StoredAt, Making
<1>6. StoredAt(c)'
  <2>1. CASE call'[c].at = "upload"
    BY <1>0, <2>1 DEF SampleArrived, StoreArrived, StoredAt, StoreInv, Clean, Making, SampleOf
  <2>2. CASE call'[c].at \in Making \ {"upload"}
    <3>1. call[c].at \in Making /\ call'[c].sample = SampleOf(c) /\ SampleOf(c) \in Samples
      BY <1>0, <1>1, <2>2 DEF StoreArrived
    <3>2. loss \subseteq loss'  BY <1>0, <3>1 DEF StoreNext
    <3> QED  BY <1>0, <2>2, <3>1, <3>2 DEF StoreArrived, StoredAt, Clean, Making, SampleOf
  <2>3. CASE call'[c].at = "deleteSave"
    BY <1>0, <2>3 DEF SampleArrived, StoredAt, Making, SampleOf
  <2> QED  BY <2>1, <2>2, <2>3 DEF StoredAt, Making
<1> QED  BY <1>2, <1>3, <1>4, <1>5, <1>6 DEF StoreInv

LEMMA StoreInit == Init => StoreInv
BY DEF Init, StoreInv, Clean, ActiveSampleStored, StoredAt, NewCall, Making

-----------------------------------------------------------------------------
(* The recognition of an image that fails.                                 *)

\* A sample that fails by its maker's failing takes the identity past version 1.
LEMMA FailedLater ==
  ASSUME TypeInv, VersionInv, NEW c \in Calls, FailSave(c), sample' # sample
  PROVE  identity'[FaceOf(c)].version >= 2
<1>1. call[c].at = "failSave"  BY DEF FailSave, At
<1>2. /\ TypeOK /\ FaceOf(c) \in Faces /\ call[c].copy \in IdentityRows
      /\ CopyOK(c) /\ identity[FaceOf(c)] \in IdentityRows
  BY <1>1 DEF TypeInv, TypeOK, KnowsAt, Making, CallStates, VersionInv, Saving
<1>3. CASE call[c].copy.state = "active"
  <2>1. PICK seen \in call[c].copy.version..identity[FaceOf(c)].version :
               identity' = [identity EXCEPT ![FaceOf(c)] = Deactivated(@, call[c].copy, seen)]
    BY <1>3 DEF FailSave
  <2>2. Deactivated(identity[FaceOf(c)], call[c].copy, seen).version >= 2
    BY <1>2 DEF Deactivated, IdentityRows, CopyOK, RowOK
  <2> QED  BY <1>2, <2>1, <2>2 DEF TypeOK
<1>4. CASE call[c].copy.state # "active"
  <2>1. UNCHANGED identity  BY <1>4 DEF FailSave
  <2>2. call[c].copy.version >= 2  BY <1>2, <1>4 DEF CopyOK, RowOK, IdentityRows
  <2> QED  BY <1>2, <2>1, <2>2 DEF CopyOK
<1> QED  BY <1>3, <1>4

LEMMA FailedBy ==
  ASSUME TypeInv, NEW c \in Calls, Step(c), NEW t \in Samples,
         sample[t].state = "active", sample'[t].state = "failed"
  PROVE  FailSave(c) /\ t = SampleOf(c)
<1>0. TypeOK  BY DEF TypeInv
<1>1. CASE FailSave(c)
  BY <1>0, <1>1 DEF FailSave, SetSample, TypeOK
<1>2. ASSUME NEW f \in Faces, NEW s \in Samples, CreateIdentity(c, f, s)  PROVE FALSE
  BY <1>0, <1>2 DEF CreateIdentity, TypeOK
<1>3. ASSUME NEW s \in Samples, AddRow(c, s)  PROVE FALSE
  BY <1>0, <1>3 DEF AddRow, TypeOK
<1>4. CASE Activate(c) \/ FailSample(c) \/ DeleteSave(c)
  BY <1>0, <1>4 DEF Activate, FailSample, DeleteSave, SetSample, TypeOK, SampleRows
<1>5. CASE DeactivateSave(c)
  BY <1>0, <1>5 DEF DeactivateSave, ActiveSamples, TypeOK, SampleRows
<1> QED  BY <1>1, <1>2, <1>3, <1>4, <1>5, SampleWriters

\* A call that has started goes on as what it is.
LEMMA Continues ==
  ASSUME TypeInv, NEW c \in Calls, Step(c), ~StartSome(c)
  PROVE  /\ call'[c].op = call[c].op /\ call'[c].gone = call[c].gone
         /\ call[c].at \notin Ends \cup {"new"} /\ call'[c].at # "new"
         /\ call[c].at = "failProcess" => /\ call'[c].at \in {"raised", "gone"}
                                          /\ call'[c].face = call[c].face /\ call'[c].sample = call[c].sample
<1>0. TypeOK  BY DEF TypeInv
<1> DEFINE Goes == /\ call'[c].op = call[c].op /\ call'[c].gone = call[c].gone
                   /\ call[c].at \notin Ends \cup {"new"} /\ call'[c].at # "new"
                   /\ call[c].at = "failProcess" => /\ call'[c].at \in {"raised", "gone"}
                                                     /\ call'[c].face = call[c].face /\ call'[c].sample = call[c].sample
<1> USE <1>0 DEF Goto, Raise, AfterFailure, TypeOK, CallStates, At, Ends
<1>1. CASE Resolve(c)
  <2>1. CASE Query(c)  BY <2>1 DEF Query
  <2>2. CASE TryCandidate(c)
    <3>1. /\ call'[c].op = call[c].op /\ call'[c].gone = call[c].gone
          /\ call[c].at = "try" /\ call'[c].at \in {"create", "accept", "try"}
      BY <2>2, Tried
    <3> QED  BY <3>1
  <2>3. CASE Accept(c)  BY <2>3 DEF Accept, NextFace
  <2>4. ASSUME NEW f \in Faces, NEW s \in Samples, CreateIdentity(c, f, s)  PROVE Goes
    <3>1. CASE Raise(c)  BY <2>4, <3>1 DEF CreateIdentity
    <3>2. CASE call' = [call EXCEPT ![c].at = "upload", ![c].face = f, ![c].sample = s]
      BY <2>4, <3>2 DEF CreateIdentity
    <3> QED  BY <2>4, <3>1, <3>2 DEF CreateIdentity
  <2>5. CASE CompleteProcess(c)  BY <2>5 DEF CompleteProcess
  <2> QED  BY <1>1, <2>1, <2>2, <2>3, <2>4, <2>5 DEF Resolve
<1>2. CASE Store(c)
  BY <1>2 DEF Store, AddLoad, AddRow, Upload, Upsert, Activate, NextFace
<1>3. CASE Compensate(c)
  BY <1>3 DEF Compensate, RemoveVector, RemoveObject, FailSample, FailLoad, FailSave, FailProcess
<1>4. CASE Maintain(c)
  BY <1>4 DEF Maintain, EnrollLoad, EnrollSave, UpdateSave, DeactivateLoad, DeactivateSave,
       DeactivateVectors, DeleteSave, DeleteVector, DeleteObject
<1>5. CASE CutOff(c)
  BY <1>5 DEF CutOff
<1> QED  BY <1>1, <1>2, <1>3, <1>4, <1>5 DEF Step

\* The process record of a recognition is written by itself alone.
LEMMA OwnProcess ==
  ASSUME TypeInv, NEW c \in Calls, Step(c), NEW d \in Calls, call'[d].op = "recognize",
         call'[d].at \notin {"new", "failProcess"} \cup Ends
  PROVE  \/ d = c /\ StartSome(c) /\ process'[d] = "processing"
         \/ /\ process'[d] = process[d] /\ call[d].op = "recognize"
            /\ call[d].at \notin {"new", "failProcess"} \cup Ends
<1>0. TypeOK /\ Kept(c) /\ Job # d  BY Arrivals, NullAssumption DEF TypeInv
<1>1. CASE d # c
  <2>0. /\ \A op, p, e : Start(c, op, p, e) => process'[d] = process[d]
        /\ \A p : SetProcess(c, p) => process'[d] = process[d]
        /\ FailProcess(c) => process'[d] = process[d]
    BY <1>0, <1>1 DEF Start, SetProcess, ProcessOf, FailProcess, TypeOK
  <2>1. StartSome(c) => process'[d] = process[d]
    BY <2>0 DEF StartSome, StartRecognize, StartTrack, StartAddSample, StartEnroll,
         StartUpdate, StartDeactivate, StartDeleteSample
  <2>2. CompleteProcess(c) \/ FailSave(c) \/ EnrollSave(c) \/ DeactivateSave(c) => process'[d] = process[d]
    BY <2>0 DEF CompleteProcess, FailSave, EnrollSave, DeactivateSave
  <2>3. process'[d] = process[d]
    BY <2>0, <2>1, <2>2, ProcessWriters
  <2> QED  BY <1>0, <1>1, <2>3 DEF Kept
<1>2. CASE d = c /\ StartSome(c)
  <2>1. ASSUME NEW op \in Operations, NEW p \in Points, NEW e \in CallStates, Start(c, op, p, e), op # "recognize"
        PROVE  FALSE
    BY <1>2, <2>1, StartTyped
  <2>2. ASSUME NEW n \in 0..MaxFaces, StartRecognize(c, n)  PROVE process'[c] = "processing"
    BY <1>0, <2>2 DEF StartRecognize, Start, TypeOK
  <2>3. /\ \A f \in Faces : [NewCall EXCEPT !.face = f] \in CallStates
        /\ \A f \in Faces : [NewCall EXCEPT !.face = f, !.copy = identity[f]] \in CallStates
        /\ \A s \in Samples : [NewCall EXCEPT !.sample = s, !.face = sample[s].face] \in CallStates
        /\ [NewCall EXCEPT !.left = 1, !.gone = Inactive] \in CallStates
    <3>1. \A f \in Faces : identity[f] \in IdentityRows  BY <1>0 DEF TypeOK
    <3>2. \A s \in Samples : sample[s].face \in Faces \cup {None}  BY <1>0 DEF TypeOK, SampleRows
    <3>3. 1 \in 0..MaxFaces /\ Inactive \in SUBSET Faces  BY BoundAssumption DEF Inactive
    <3> QED  BY <3>1, <3>2, <3>3, NewCallTyped
  <2>4. ~StartTrack(c)
    BY <2>1, <2>3 DEF StartTrack, Operations, Points
  <2>5. ASSUME NEW f \in Faces
        PROVE  ~(StartAddSample(c, f) \/ StartEnroll(c, f) \/ StartUpdate(c, f) \/ StartDeactivate(c, f))
    BY <2>1, <2>3 DEF StartAddSample, StartEnroll, StartUpdate, StartDeactivate, Operations,
         Points, Ends
  <2>6. ASSUME NEW s \in Samples  PROVE ~StartDeleteSample(c, s)
    BY <2>1, <2>3 DEF StartDeleteSample, Operations, Points, Ends
  <2> QED  BY <1>2, <2>2, <2>4, <2>5, <2>6 DEF StartSome
<1>3. CASE d = c /\ ~StartSome(c)
  <2>1. /\ call'[c].op = call[c].op
        /\ call[c].at \notin {"new", "failProcess"} \cup Ends
    BY <1>3, Continues DEF Ends
  <2>2. process'[c] = process[c]
    <3> USE <1>0 DEF Goto, Raise, TypeOK, CallStates, At, Ends
    <3>1. ~CompleteProcess(c)  BY <1>3 DEF CompleteProcess
    <3>2. ~FailProcess(c)  BY <1>3 DEF FailProcess
    <3>3. ~FailSave(c)  BY <1>3, <2>1 DEF FailSave
    <3>4. ~EnrollSave(c) /\ ~DeactivateSave(c)
      BY <1>3, <2>1 DEF EnrollSave, DeactivateSave, TypeInv, OpAt
    <3> QED  BY <1>3, <3>1, <3>2, <3>3, <3>4, ProcessWriters
  <2> QED  BY <1>3, <2>1, <2>2
<1> QED  BY <1>1, <1>2, <1>3

\* How a recognition comes to where its sample matters.
RecognitionArrived(c) ==
  LET at == call[c].at
      next == call'[c].at
      s == SampleOf(c)
  IN  /\ next \in {"next", "try", "create", "complete"} =>
           call'[c].sample = None \/ (at \in {"next", "try", "create"} /\ call'[c].sample = s)
      /\ next = "accept" => /\ UNCHANGED sample /\ call'[c].sample \in Samples
                            /\ sample[call'[c].sample].state = "active"
                            /\ sample[call'[c].sample].face = call'[c].face
      /\ next \in {"failProcess", "raised"} =>
           /\ call'[c].sample = s /\ call'[c].face = FaceOf(c)
           /\ \/ at \in {"next", "create", "accept", "failProcess"} /\ UNCHANGED <<sample, identity>>
              \/ at = "removeVector" /\ "cleanup" \in loss'
              \/ at = "failSave" /\ FailSave(c)

LEMMA RecognitionArrivals ==
  ASSUME TypeInv, NEW c \in Calls, Step(c), call'[c].op = "recognize"
  PROVE  RecognitionArrived(c)
<1>0. TypeOK  BY DEF TypeInv
<1>1. CASE StartSome(c)
  <2>1. call'[c].at = "next" /\ call'[c].sample = None  BY <1>1, Started
  <2> QED  BY <2>1 DEF RecognitionArrived
<1>2. CASE TryCandidate(c)
  <2>1. UNCHANGED sample  BY <1>2 DEF TryCandidate
  <2>2. CASE call'[c].at = "create" /\ call'[c].sample = call[c].sample /\ call[c].at = "try"
    BY <2>2 DEF RecognitionArrived, SampleOf
  <2>3. CASE call'[c].at = "try" /\ call'[c].sample = None
    BY <2>3 DEF RecognitionArrived
  <2>4. ASSUME NEW s \in Samples, Acceptable(s), call'[c].at = "accept", call'[c].face = sample[s].face, call'[c].sample = s
        PROVE  RecognitionArrived(c)
    BY <2>1, <2>4 DEF RecognitionArrived, Acceptable
  <2> QED  BY <1>2, <2>2, <2>3, <2>4, Tried
<1> USE <1>0 DEF RecognitionArrived, At, Goto, Raise, AfterFailure, OpAt, TypeInv, TypeOK, CallStates, FaceOf, SampleOf
<1>7. CASE Resolve(c)
  <2>1. CASE Query(c)  BY <2>1 DEF Query
  <2>3. CASE Accept(c)  BY <2>3 DEF Accept, NextFace
  <2>4. ASSUME NEW f \in Faces, NEW s \in Samples, CreateIdentity(c, f, s)
        PROVE  RecognitionArrived(c)
    <3>1. CASE Raise(c) /\ UNCHANGED <<identity, sample>>  BY <2>4, <3>1 DEF CreateIdentity
    <3>2. CASE call' = [call EXCEPT ![c].at = "upload", ![c].face = f, ![c].sample = s]
      <4>1. call'[c].at = "upload"  BY <3>2
      <4> QED  BY <4>1
    <3> QED  BY <2>4, <3>1, <3>2 DEF CreateIdentity
  <2>5. CASE CompleteProcess(c)  BY <2>5 DEF CompleteProcess
  <2> QED  BY <1>2, <1>7, <2>1, <2>3, <2>4, <2>5 DEF Resolve
<1>3. CASE Store(c)
  <2>1. ASSUME NEW s \in Samples, AddRow(c, s)  PROVE RecognitionArrived(c)
    <3>1. call'[c].at = "upload"  BY <2>1 DEF AddRow
    <3> QED  BY <3>1
  <2> QED  BY <1>3, <2>1 DEF Store, AddLoad, Upload, Upsert, Activate, NextFace
<1>4. CASE Compensate(c)
  BY <1>4 DEF Compensate, RemoveVector, RemoveObject, FailSample, FailLoad, FailSave, FailProcess
<1>5. CASE Maintain(c)
  BY <1>5 DEF Maintain, EnrollLoad, EnrollSave, UpdateSave, DeactivateLoad, DeactivateSave,
       DeactivateVectors, DeleteSave, DeleteVector, DeleteObject
<1>6. CASE CutOff(c)  BY <1>6 DEF CutOff
<1> QED  BY <1>1, <1>3, <1>4, <1>5, <1>6, <1>7 DEF Step

\* What is known of a sample a recognition ended with.
Settled(s, f) == /\ sample[s].face = f
                 /\ \/ sample[s].state \in {"active", "inactive"}
                    \/ sample[s].state = "failed" /\ identity[f].version >= 2

LEMMA SettledStays ==
  ASSUME TypeInv, TypeInv', VersionInv, MakerInv, NEW c \in Calls, Step(c),
         NEW s \in Samples, NEW f \in Faces, Settled(s, f)
  PROVE  Settled(s, f)'
<1>0. RowNext(c, s) /\ Later(f)  BY RowsNext, RowsLater
<1>1. CASE sample[s].state = "active" /\ sample'[s].state = "failed"
  <2>1. FailSave(c) /\ s = SampleOf(c)  BY <1>1, FailedBy
  <2>2. call[c].at = "failSave" /\ sample' # sample  BY <1>1, <2>1 DEF FailSave, At
  <2>3. FaceOf(c) = f  BY <2>1, <2>2 DEF MakerInv, SampleAt, Making, Settled
  <2>4. identity'[f].version >= 2  BY <2>1, <2>2, <2>3, FailedLater
  <2> QED  BY <1>0, <1>1, <2>4 DEF Settled, RowNext
<1>2. CASE ~(sample[s].state = "active" /\ sample'[s].state = "failed")
  <2>1. s = SampleOf(c) /\ call[c].at = "activate" => sample[s].state = "pending"
    BY DEF MakerInv, SampleAt
  <2> QED  BY <1>0, <1>2, <2>1 DEF Settled, RowNext, Later
<1> QED  BY <1>1, <1>2

LEMMA RecognitionStep ==
  ASSUME TypeInv, TypeInv', VersionInv, MakerInv, MakerInv', RecognitionInv, NEW c \in Calls,
         Step(c)
  PROVE  RecognitionInv'
<1> SUFFICES ASSUME NEW d \in Calls, call'[d].op = "recognize"  PROVE RecognitionAt(d)'
  BY DEF RecognitionInv
<1>0. TypeOK /\ TypeOK' /\ Kept(c) /\ loss \subseteq loss'
  <2>1. loss \subseteq loss'
    BY LossWriters DEF Upload, Upsert, Activate, RemoveVector, RemoveObject, CutOff, Lost
  <2> QED  BY <2>1, Arrivals DEF TypeInv
<1>1. call'[d].at \notin {"new", "failProcess"} \cup Ends => process'[d] = "processing"
  BY OwnProcess DEF RecognitionInv, RecognitionAt
<1>2. CASE d # c
  <2>1. call'[d] = call[d] /\ RecognitionAt(d)  BY <1>0, <1>2 DEF Kept, RecognitionInv
  <2>2. ASSUME call[d].at \in {"accept", "failProcess", "raised"}, SampleOf(d) # None, "cleanup" \notin loss'
        PROVE  Settled(SampleOf(d), FaceOf(d))'
    <3>1. Settled(SampleOf(d), FaceOf(d)) /\ SampleOf(d) \in Samples
      BY <1>0, <2>1, <2>2 DEF RecognitionAt, Settled, TypeOK, CallStates, SampleOf
    <3>2. FaceOf(d) \in Faces
      BY <3>1 DEF TypeInv, Settled
    <3>3. PICK s \in Samples, f \in Faces : s = SampleOf(d) /\ f = FaceOf(d)  BY <3>1, <3>2
    <3>4. Settled(s, f)'  BY <3>1, <3>3, SettledStays
    <3>5. SampleOf(d)' = s /\ FaceOf(d)' = f  BY <2>1, <3>3 DEF SampleOf, FaceOf
    <3> QED  BY <3>4, <3>5 DEF Settled
  <2> QED  BY <1>1, <2>1, <2>2 DEF RecognitionAt, Settled, SampleOf, FaceOf
<1>3. CASE d = c
  <2>0. RecognitionArrived(c)  BY <1>3, RecognitionArrivals
  <2>1. call[c].op = "recognize" \/ StartSome(c)  BY <1>3, Continues
  <2>2. call[c].at # "new" => RecognitionAt(c)
    <3>1. StartSome(c) => call[c].at = "new"  BY Started
    <3> QED  BY <2>1, <3>1 DEF RecognitionInv
  <2>3. call'[c].at \in {"next", "try", "create", "complete"} => call'[c].sample = None
    BY <2>0, <2>2 DEF RecognitionArrived, RecognitionAt
  <2>4. ASSUME call'[c].at \in {"accept", "failProcess", "raised"}, call'[c].sample # None, "cleanup" \notin loss'
        PROVE  /\ sample'[call'[c].sample].face = call'[c].face
               /\ \/ sample'[call'[c].sample].state \in {"active", "inactive"}
                  \/ sample'[call'[c].sample].state = "failed" /\ identity'[call'[c].face].version >= 2
    <3>1. CASE call'[c].at = "accept"
      BY <2>0, <3>1 DEF RecognitionArrived
    <3>2. CASE call[c].at \in {"next", "create", "accept", "failProcess"} /\ UNCHANGED <<sample, identity>> /\ call'[c].at # "accept"
      BY <1>0, <2>0, <2>2, <2>4, <3>2 DEF RecognitionArrived, RecognitionAt
    <3>3. CASE call[c].at = "failSave" /\ FailSave(c) /\ call'[c].at # "accept"
      <4>0. /\ call'[c].sample = SampleOf(c) /\ call'[c].face = FaceOf(c) /\ SampleOf(c) \in Samples
            /\ SampleAt(c) /\ RowNext(c, SampleOf(c)) /\ process[c] = "processing"
        BY <2>0, <2>2, <2>4, <3>3, RowsNext DEF RecognitionArrived, RecognitionAt, TypeInv,
             KnowsAt, Making, MakerInv, Ends
      <4>1. call[c].op = "recognize"
        BY <2>1, <3>3, Started
      <4>2. CASE sample[SampleOf(c)].state \in {"pending", "active"}
        <5>1. sample'[SampleOf(c)] = [sample[SampleOf(c)] EXCEPT !.state = "failed"]
          BY <1>0, <3>3, <4>0, <4>1, <4>2 DEF FailSave, ProcessOf, SetSample, TypeOK
        <5>2. sample'[SampleOf(c)].state = "failed" /\ sample'[SampleOf(c)].face = sample[SampleOf(c)].face
          BY <1>0, <4>0, <5>1 DEF TypeOK, SampleRows
        <5>3. identity'[FaceOf(c)].version >= 2
          BY <3>3, <4>2, <5>2, FailedLater
        <5> QED  BY <3>3, <4>0, <5>2, <5>3 DEF SampleAt, Making
      <4>3. CASE sample[SampleOf(c)].state \notin {"pending", "active"}
        BY <3>3, <4>0, <4>3 DEF SampleAt, Making, FailSave
      <4> QED  BY <4>2, <4>3
    <3> QED  BY <2>0, <2>4, <3>1, <3>2, <3>3 DEF RecognitionArrived
  <2> QED  BY <1>1, <1>3, <2>3, <2>4 DEF RecognitionAt, SampleOf, FaceOf
<1> QED  BY <1>2, <1>3

\* What is asked of the recognition of an image follows.
LEMMA Compensated ==
  ASSUME TypeInv, VersionInv, StoreInv, RecognitionInv
  PROVE  FailureCompensated
<1>1. ASSUME NEW c \in Calls, call[c].op = "recognize", At(c, "raised"), SampleOf(c) # None,
             sample[SampleOf(c)].state \in {"pending", "failed"},
             Active(FaceOf(c)), ~identity[FaceOf(c)].known, "cleanup" \notin loss
      PROVE  FALSE
  <2>1. sample[SampleOf(c)].face = FaceOf(c) /\ identity[FaceOf(c)].version >= 2
    BY <1>1 DEF RecognitionInv, RecognitionAt, At
  <2>2. SampleOf(c) \in Samples  BY <1>1 DEF TypeInv, TypeOK, CallStates, SampleOf
  <2>3. FaceOf(c) \in Faces  BY <1>1, <2>1, <2>2 DEF TypeInv
  <2> QED  BY <1>1, <2>1, <2>3 DEF VersionInv, RowOK, Active
<1> QED  BY <1>1 DEF FailureCompensated, StoreInv, Clean

-----------------------------------------------------------------------------
(* Faces that were inactive when a recognition started.                    *)

\* What a step makes of a row of face_identity.
IdentityNext(c, g) ==
  \/ identity'[g] = identity[g]
  \/ identity[g].state = "none"
  \/ FailSave(c) /\ g = FaceOf(c) /\ sample' # sample /\ identity'[g].state = "inactive"
  \/ /\ call[c].at \in {"enrollSave", "updateSave", "deactivateSave"}
     /\ g = FaceOf(c) /\ identity[g].version = call[c].copy.version
     /\ identity'[g].version = identity[g].version + 1
     /\ identity'[g].state = "inactive" \/ call[c].at # "deactivateSave"

LEMMA IdentitiesNext ==
  ASSUME TypeInv, NEW c \in Calls, Step(c), NEW g \in Faces
  PROVE  IdentityNext(c, g)
<1>0. TypeOK  BY DEF TypeInv
<1>1. CASE UNCHANGED identity  BY <1>1 DEF IdentityNext
<1>2. ASSUME NEW f \in Faces, NEW s \in Samples, CreateIdentity(c, f, s)  PROVE IdentityNext(c, g)
  BY <1>0, <1>2 DEF CreateIdentity, IdentityNext, TypeOK
<1>3. CASE FailSave(c) /\ ~UNCHANGED identity
  <2>1. call[c].at = "failSave"  BY <1>3 DEF FailSave, At
  <2>2. FaceOf(c) \in Faces /\ SampleOf(c) \in Samples
    BY <2>1 DEF TypeInv, KnowsAt, Making
  <2>3. PICK seen \in call[c].copy.version..identity[FaceOf(c)].version :
               identity' = [identity EXCEPT ![FaceOf(c)] = Deactivated(@, call[c].copy, seen)]
    BY <1>3 DEF FailSave
  <2>4. SetSample(c, "failed") /\ sample[SampleOf(c)].state \in {"pending", "active"}
    BY <1>3 DEF FailSave
  <2>5. sample'[SampleOf(c)].state = "failed"
    BY <1>0, <2>2, <2>4 DEF SetSample, TypeOK, SampleRows
  <2>6. identity'[FaceOf(c)].state = "inactive" /\ (g # FaceOf(c) => identity'[g] = identity[g])
    BY <1>0, <2>2, <2>3 DEF Deactivated, TypeOK
  <2> QED  BY <1>3, <2>4, <2>5, <2>6 DEF IdentityNext
<1>4. ASSUME NEW row \in IdentityRows, VersionedUpdate(c, row), row.version = call[c].copy.version,
             call[c].at \in {"enrollSave", "updateSave", "deactivateSave"},
             row.state = "inactive" \/ call[c].at # "deactivateSave"
      PROVE  IdentityNext(c, g)
  <2> DEFINE new == [row EXCEPT !.version = row.version + 1]
  <2>1. new.version = row.version + 1 /\ new.state = row.state  BY DEF IdentityRows
  <2>2. /\ identity' = [identity EXCEPT ![FaceOf(c)] = new]
        /\ identity[FaceOf(c)].version = call[c].copy.version
    BY <1>4 DEF VersionedUpdate
  <2> HIDE DEF new
  <2> QED  BY <1>0, <1>4, <2>1, <2>2 DEF IdentityNext, TypeOK
<1>5. /\ call[c].copy \in IdentityRows
      /\ [call[c].copy EXCEPT !.known = TRUE] \in IdentityRows
      /\ [call[c].copy EXCEPT !.known = TRUE].version = call[c].copy.version
      /\ [call[c].copy EXCEPT !.state = "inactive"] \in IdentityRows
      /\ [call[c].copy EXCEPT !.state = "inactive"].version = call[c].copy.version
      /\ [call[c].copy EXCEPT !.state = "inactive"].state = "inactive"
  BY <1>0 DEF TypeOK, CallStates, IdentityRows
<1>6. CASE EnrollSave(c) /\ ~UNCHANGED identity
  BY <1>4, <1>5, <1>6 DEF EnrollSave, At
<1>7. CASE UpdateSave(c) /\ ~UNCHANGED identity
  BY <1>4, <1>5, <1>7 DEF UpdateSave, At
<1>8. CASE DeactivateSave(c) /\ ~UNCHANGED identity
  BY <1>4, <1>5, <1>8 DEF DeactivateSave, At
<1> QED  BY <1>1, <1>2, <1>3, <1>6, <1>7, <1>8, IdentityWriters

\* A failed making is not undone.
LEMMA MakingFailedStays ==
  ASSUME TypeInv, MakerInv, NEW c \in Calls, Step(c), NEW f \in Faces, MakingFailed(f)
  PROVE  MakingFailed(f)'
<1>1. PICK d \in Calls : /\ call[d].op \in {"recognize", "track"}
                         /\ call[d].at \in {"failProcess", "raised", "gone"}
                         /\ FaceOf(d) = f
                         /\ SampleOf(d) # None
                         /\ sample[SampleOf(d)].state \in {"failed", "inactive"}
  BY DEF MakingFailed
<1>2. /\ call'[d].op = call[d].op /\ call'[d].at \in {"failProcess", "raised", "gone"}
      /\ call'[d].face = call[d].face /\ call'[d].sample = call[d].sample
  <2>1. CASE d # c  BY <1>1, <2>1, Arrivals DEF Kept
  <2>2. CASE d = c
    <3>1. ~StartSome(c)  BY <1>1, <2>2, Started
    <3> QED  BY <1>1, <2>2, <3>1, Continues DEF Ends
  <2> QED  BY <2>1, <2>2
<1>3. sample'[SampleOf(d)].state \in {"failed", "inactive"}
  <2>1. SampleOf(d) \in Samples  BY <1>1 DEF TypeInv, TypeOK, CallStates, SampleOf
  <2>2. RowNext(c, SampleOf(d))  BY <2>1, RowsNext
  <2>3. call[c].at = "activate" => sample[SampleOf(c)].state = "pending"
    BY DEF MakerInv, SampleAt
  <2> QED  BY <1>1, <2>2, <2>3 DEF RowNext
<1> QED  BY <1>1, <1>2, <1>3 DEF MakingFailed, FaceOf, SampleOf

\* It is what a call's own failure leaves.
LEMMA FailureTold ==
  ASSUME TypeInv, NEW c \in Calls, FailSave(c), sample' # sample
  PROVE  MakingFailed(FaceOf(c))'
<1>1. /\ TypeOK /\ call[c].at = "failSave" /\ SampleOf(c) \in Samples
      /\ call[c].op \in {"recognize", "track"}
  BY DEF FailSave, At, TypeInv, KnowsAt, OpAt, Making
<1>2. SetSample(c, "failed") /\ Raise(c)  BY DEF FailSave
<1>3. sample'[SampleOf(c)].state = "failed"
  BY <1>1, <1>2 DEF SetSample, TypeOK, SampleRows
<1>4. /\ call'[c].op = call[c].op /\ call'[c].at \in {"failProcess", "raised"}
      /\ call'[c].face = FaceOf(c) /\ call'[c].sample = SampleOf(c)
  BY <1>1, <1>2 DEF Raise, Goto, TypeOK, CallStates, FaceOf, SampleOf
<1>5. SampleOf(c) # None  BY <1>1, NullAssumption
<1>6. FaceOf(c)' = FaceOf(c) /\ SampleOf(c)' = SampleOf(c)  BY <1>4 DEF FaceOf, SampleOf
<1>7. PICK f \in Faces : f = FaceOf(c)  BY <1>1 DEF TypeInv, KnowsAt, Making
<1>8. MakingFailed(f)'
  BY <1>1, <1>3, <1>4, <1>5, <1>6, <1>7 DEF MakingFailed
<1> QED  BY <1>6, <1>7, <1>8

\* A face whose making did not fail stays inactive.
LEMMA InactiveStays ==
  ASSUME TypeInv, VersionInv, MakerInv, GoneInv, NEW c \in Calls, Step(c), NEW g \in Faces,
         identity[g].state = "inactive", Steady(g)
  PROVE  identity'[g].state = "inactive"
<1>1. IdentityNext(c, g)  BY IdentitiesNext
<1>2. CASE /\ call[c].at \in {"enrollSave", "updateSave"} /\ g = FaceOf(c)
           /\ identity[g].version = call[c].copy.version
  <2>1. CopyOK(c) /\ call[c].copy = identity[g]
    BY <1>2 DEF VersionInv, Saving, GoneInv, GoneAt
  <2>2. call[c].copy.state = "active"  BY <1>2, <2>1 DEF CopyOK, RowOK
  <2> QED  BY <2>1, <2>2
<1> QED  BY <1>1, <1>2 DEF IdentityNext

LEMMA AcceptedBy ==
  ASSUME TypeInv, NEW c \in Calls, Step(c), call'[c].at = "accept"
  PROVE  TryCandidate(c)
<1> SUFFICES ASSUME ~TryCandidate(c)  PROVE FALSE
  OBVIOUS
<1>0. TypeOK  BY DEF TypeInv
<1>1. ~StartSome(c)  BY Started
<1> USE <1>0 DEF Goto, Raise, AfterFailure, TypeOK, CallStates
<1>2. CASE Resolve(c)
  <2>1. ASSUME NEW f \in Faces, NEW s \in Samples, CreateIdentity(c, f, s)  PROVE FALSE
    <3>1. call'[c].at \in {"upload", "raised", "failProcess"}  BY <2>1 DEF CreateIdentity
    <3> QED  BY <3>1
  <2> QED  BY <1>2, <2>1 DEF Resolve, Query, Accept, NextFace, CompleteProcess
<1>3. CASE Store(c)
  BY <1>3 DEF Store, AddLoad, AddRow, Upload, Upsert, Activate, NextFace
<1>4. CASE Compensate(c)
  BY <1>4 DEF Compensate, RemoveVector, RemoveObject, FailSample, FailLoad, FailSave, FailProcess
<1>5. CASE Maintain(c)
  BY <1>5 DEF Maintain, EnrollLoad, EnrollSave, UpdateSave, DeactivateLoad, DeactivateSave,
       DeactivateVectors, DeleteSave, DeleteVector, DeleteObject, At
<1>6. CASE CutOff(c)
  BY <1>6 DEF CutOff
<1> QED  BY <1>1, <1>2, <1>3, <1>4, <1>5, <1>6 DEF Step

LEMMA GoneStep ==
  ASSUME TypeInv, TypeInv', VersionInv, VersionInv', MakerInv, GoneInv, NEW c \in Calls, Step(c)
  PROVE  GoneInv'
<1>0. TypeOK /\ TypeOK' /\ Kept(c) /\ Arrived(c) /\ SampleArrived(c)
  BY Arrivals, SampleArrivals DEF TypeInv
<1>1. ASSUME NEW f \in Faces, MakingFailed(f)  PROVE MakingFailed(f)'
  BY <1>1, MakingFailedStays
<1>2. ASSUME NEW d \in Calls, d # c \/ ~StartSome(c)
      PROVE  call'[d].gone = call[d].gone /\ call'[d].op = call[d].op
  BY <1>0, <1>2, Continues DEF Kept
<1>3. ASSUME NEW d \in Calls, NEW g \in call'[d].gone
      PROVE  /\ identity'[g].state # "none"
             /\ ~MakingFailed(g)' => identity'[g].state = "inactive"
  <2>0. g \in Faces  BY <1>0 DEF TypeOK, CallStates
  <2>1. CASE d = c /\ StartSome(c)
    BY <2>0, <2>1, Started DEF Inactive
  <2>2. CASE d # c \/ ~StartSome(c)
    <3>1. GoneAt(d) /\ g \in call[d].gone  BY <1>2, <2>2 DEF GoneInv
    <3>2. Later(g)  BY <2>0, RowsLater
    <3>3. MakingFailed(g) => MakingFailed(g)'  BY <1>1, <2>0
    <3> QED  BY <2>0, <3>1, <3>2, <3>3, InactiveStays DEF GoneAt, Steady, Later
  <2> QED  BY <2>1, <2>2
<1>4. ASSUME NEW d \in Calls, NEW f \in Faces, f = call'[d].face, call'[d].at \in Saving, ~MakingFailed(f)'
      PROVE  /\ call'[d].copy.version <= identity'[f].version
             /\ call'[d].copy.version = identity'[f].version => call'[d].copy = identity'[f]
  <2>1. CASE call'[d] = call[d]
    <3>1. FaceOf(d) = f /\ Steady(f) /\ ~MakingFailed(f)'
      BY <1>1, <1>4, <2>1 DEF FaceOf, Steady
    <3>2. CopyOK(d) /\ GoneAt(d) /\ IdentityNext(c, f)
      BY <1>4, <2>1, IdentitiesNext DEF VersionInv, GoneInv
    <3>3. identity[f].state # "none"  BY <3>1, <3>2 DEF CopyOK
    <3>4. /\ call[d].copy.version <= identity[f].version
          /\ call[d].copy.version = identity[f].version => call[d].copy = identity[f]
      BY <1>4, <2>1, <3>1, <3>2 DEF GoneAt
    <3>5. CASE FailSave(c) /\ f = FaceOf(c) /\ sample' # sample
      <4>1. MakingFailed(FaceOf(c))'  BY <3>5, FailureTold
      <4>2. FaceOf(c)' = FaceOf(c)
        BY <1>0, <3>5 DEF FailSave, Raise, Goto, TypeOK, CallStates, FaceOf
      <4> QED  BY <3>1, <3>5, <4>1, <4>2
    <3>6. call[d].copy.version \in Nat /\ identity[f].version \in Nat /\ identity'[f].version \in Nat
      BY <1>0 DEF TypeOK, CallStates, IdentityRows
    <3> QED  BY <1>4, <2>1, <3>2, <3>3, <3>4, <3>5, <3>6 DEF IdentityNext
  <2>2. CASE d = c /\ (FailLoad(c) \/ EnrollLoad(c) \/ DeactivateLoad(c))
    <3>1. call'[c].copy = identity[FaceOf(c)] /\ UNCHANGED identity /\ call'[c].face = FaceOf(c)
      BY <1>0, <1>4, <2>2 DEF FailLoad, EnrollLoad, DeactivateLoad, Raise, Goto, TypeOK,
           CallStates, Saving, FaceOf
    <3>2. identity[f].version \in Nat  BY <1>0 DEF TypeOK, IdentityRows
    <3> QED  BY <1>4, <2>2, <3>1, <3>2
  <2>3. CASE d = c /\ StartSome(c)
    <3>1. call'[c].copy = identity[call'[c].face] /\ UNCHANGED identity
      BY <1>4, <2>3, Started DEF Saving
    <3>2. identity[f].version \in Nat  BY <1>0 DEF TypeOK, IdentityRows
    <3> QED  BY <1>4, <2>3, <3>1, <3>2
  <2> QED  BY <1>0, <1>4, <2>1, <2>2, <2>3 DEF Kept, Arrived
<1>5. ASSUME NEW d \in Calls, NEW f \in Faces, f = call'[d].face, call'[d].at = "accept", f \in call'[d].gone
      PROVE  MakingFailed(f)'
  <2>1. CASE d # c
    BY <1>0, <1>1, <1>5, <2>1 DEF Kept, GoneInv, GoneAt, FaceOf
  <2>2. CASE d = c
    <3>1. ~StartSome(c)  BY <1>5, <2>2, Started
    <3>2. identity[f].state = "active" /\ f \in call[c].gone
      <4>1. TryCandidate(c)  BY <1>5, <2>2, AcceptedBy
      <4> QED  BY <1>2, <1>5, <2>2, <3>1, <4>1, Tried DEF Acceptable, Active
    <3>3. MakingFailed(f)  BY <3>2 DEF GoneInv, GoneAt, Steady
    <3> QED  BY <1>1, <3>3
  <2> QED  BY <2>1, <2>2
<1>6. ASSUME NEW d \in Calls, call'[d].at \in Making, call'[d].op # "addSample"
      PROVE  call'[d].face \notin call'[d].gone
  <2>1. CASE call[d].at \in Making /\ call'[d].face = FaceOf(d)
    <3>1. d # c \/ ~StartSome(c)  BY <2>1, Started DEF Making
    <3> QED  BY <1>2, <1>6, <2>1, <3>1 DEF GoneInv, GoneAt
  <2>2. ASSUME d = c, NEW f \in Faces, NEW s \in Samples, CreateIdentity(c, f, s)
        PROVE  call'[d].face \notin call'[d].gone
    <3>1. identity[f].state = "none" /\ call'[c].face = f /\ call'[c].gone = call[c].gone
      BY <1>0, <1>6, <2>2 DEF CreateIdentity, Raise, Goto, Making, TypeOK, CallStates
    <3> QED  BY <2>2, <3>1 DEF GoneInv, GoneAt
  <2>3. CASE d = c /\ (AddLoad(c) \/ call[c].at = "addRow")
    <3>1. ~StartSome(c) /\ call[c].op = "addSample"
      BY <2>3, Started DEF AddLoad, At, TypeInv, OpAt
    <3> QED  BY <1>2, <1>6, <2>3, <3>1
  <2>4. call[d].at \in Making => call'[d].face = FaceOf(d)
    BY <1>0, <1>6 DEF Kept, SampleArrived, FaceOf
  <2> QED  BY <1>0, <1>6, <2>1, <2>2, <2>3, <2>4 DEF Kept, Arrived, FaceOf
<1>7. ASSUME NEW d \in Calls, call'[d].at = "new"  PROVE call'[d].gone = {}
  <2>1. d # c  BY <1>7, Started, Continues
  <2> QED  BY <1>0, <1>7, <2>1 DEF Kept, GoneInv, GoneAt
<1>8. ASSUME NEW r \in results'
      PROVE  call'[r.call].at # "new" /\ (r.face \in call'[r.call].gone => MakingFailed(r.face)')
  <2>1. CASE r \in results
    <3>1. r.call \in Calls /\ r.face \in Faces  BY <1>0, <2>1 DEF TypeOK, Results
    <3>2. call[r.call].at # "new"  BY <2>1 DEF GoneInv
    <3>3. r.call # c \/ ~StartSome(c)  BY <3>2, Started
    <3>4. call'[r.call].at # "new"  BY <1>0, <3>1, <3>2, <3>3, Continues DEF Kept
    <3>5. r.face \in call[r.call].gone => MakingFailed(r.face)
      BY <2>1 DEF GoneInv, DeactivatedNotMatched
    <3> QED  BY <1>1, <1>2, <3>1, <3>3, <3>4, <3>5
  <2>2. CASE r \notin results
    <3>1. (Accept(c) \/ Activate(c)) /\ AddResult(c)
      BY <2>2, ResultsWriters DEF Accept, Activate
    <3>2. r.call = c /\ r.face = FaceOf(c)  BY <2>2, <3>1 DEF AddResult
    <3>3. call[c].at \in {"accept", "activate"} /\ ~StartSome(c)
      BY <3>1, Started DEF Accept, Activate, At
    <3>4. call[c].at = "activate" => call[c].op # "addSample"
      BY <2>2, <3>1 DEF Activate, Accept, At
    <3>5. FaceOf(c) \in call[c].gone => MakingFailed(FaceOf(c)) /\ FaceOf(c) \in Faces
      BY <3>3, <3>4 DEF GoneInv, GoneAt, Making, TypeInv, KnowsAt
    <3>6. PICK f \in Faces : f = r.face
      BY <3>2, <3>3 DEF TypeInv, KnowsAt, Making
    <3>7. f \in call[c].gone => MakingFailed(f)'  BY <1>1, <3>2, <3>5, <3>6
    <3> QED  BY <1>2, <3>2, <3>3, <3>6, <3>7, Continues
  <2> QED  BY <2>1, <2>2
<1>9. ASSUME NEW d \in Calls  PROVE GoneAt(d)'
  <2>1. call'[d].at \in Saving \cup {"accept"} => call'[d].face \in Faces
    BY DEF TypeInv, KnowsAt, FaceOf
  <2>2. ASSUME call'[d].at \in Saving, Steady(FaceOf(d))'
        PROVE  /\ call'[d].copy.version <= identity'[call'[d].face].version
               /\ call'[d].copy.version = identity'[call'[d].face].version
                    => call'[d].copy = identity'[call'[d].face]
    <3>1. PICK f \in Faces : f = FaceOf(d)'  BY <2>1, <2>2 DEF FaceOf
    <3>2. ~MakingFailed(f)'  BY <2>2, <3>1 DEF Steady
    <3> QED  BY <1>4, <2>2, <3>1, <3>2 DEF FaceOf
  <2>3. ASSUME call'[d].at = "accept", call'[d].face \in call'[d].gone
        PROVE  MakingFailed(FaceOf(d))'
    <3>1. PICK f \in Faces : f = FaceOf(d)'  BY <2>1, <2>3 DEF FaceOf
    <3>2. MakingFailed(f)'  BY <1>5, <2>3, <3>1 DEF FaceOf
    <3> QED  BY <3>1, <3>2
  <2> QED  BY <1>3, <1>6, <1>7, <2>2, <2>3 DEF GoneAt, Steady, FaceOf
<1> QED  BY <1>8, <1>9 DEF GoneInv, DeactivatedNotMatched

LEMMA GoneInit == Init => GoneInv
BY DEF Init, GoneInv, GoneAt, Saving, Making, NewCall, DeactivatedNotMatched

-----------------------------------------------------------------------------
(* The theorems.                                                           *)

IInv == /\ TypeInv
        /\ VersionInv
        /\ EnrolledOnce
        /\ MakerInv
        /\ StoreInv
        /\ RecognitionInv
        /\ GoneInv

LEMMA InitIInv == Init => IInv
<1> SUFFICES ASSUME Init  PROVE IInv
  OBVIOUS
<1>1. EnrolledOnce  BY DEF Init, EnrolledOnce, At, NewCall
<1>2. RecognitionInv
  BY NullAssumption DEF Init, RecognitionInv, NewCall, Operations
<1> QED
  BY <1>1, <1>2, TypeInit, VersionInit, MakerInit, StoreInit, GoneInit DEF IInv

LEMMA StepIInv ==
  ASSUME IInv, NEW c \in Calls, Step(c)
  PROVE  IInv'
<1>0. Next  BY DEF Next, Step
<1>1. TypeInv'  BY <1>0, TypeStep DEF IInv
<1>2. VersionInv'  BY <1>1, VersionStep DEF IInv
<1>3. EnrolledOnce'  BY <1>1, EnrolledOnceStep DEF IInv
<1>4. MakerInv'  BY <1>1, <1>2, MakerStep DEF IInv
<1>5. StoreInv'  BY <1>1, <1>4, StoreStep DEF IInv
<1>6. RecognitionInv'  BY <1>1, <1>4, RecognitionStep DEF IInv
<1>7. GoneInv'  BY <1>1, <1>2, GoneStep DEF IInv
<1> QED  BY <1>1, <1>2, <1>3, <1>4, <1>5, <1>6, <1>7 DEF IInv

LEMMA StutterIInv ==
  ASSUME IInv, UNCHANGED vars
  PROVE  IInv'
<1> USE DEF vars, FaceOf, SampleOf, At, Active
<1>1. TypeInv'
  BY DEF IInv, TypeInv, TypeOK, OpAt, KnowsAt
<1>2. VersionInv'
  BY DEF IInv, VersionInv, CopyOK
<1>3. EnrolledOnce'
  BY DEF IInv, EnrolledOnce
<1>4. MakerInv'
  BY DEF IInv, MakerInv, SampleAt
<1>5. StoreInv'
  BY DEF IInv, StoreInv, Clean, StoredAt, ActiveSampleStored
<1>6. RecognitionInv'
  BY DEF IInv, RecognitionInv, RecognitionAt
<1>7. GoneInv'
  BY DEF IInv, GoneInv, GoneAt, Steady, MakingFailed, DeactivatedNotMatched
<1> QED  BY <1>1, <1>2, <1>3, <1>4, <1>5, <1>6, <1>7 DEF IInv

\* The inductive invariant of the identity storage: what the steps of the API
\* calls and of the video worker keep true of the rows, the crops, the vectors
\* and what each call remembers of them.
THEOREM IdentityInvariant == Spec => []IInv
<1>1. Init => IInv
  BY InitIInv
<1>2. IInv /\ [Next]_vars => IInv'
  <2> SUFFICES ASSUME IInv, [Next]_vars  PROVE IInv'
    OBVIOUS
  <2>1. CASE Next
    <3>1. PICK c \in Calls : Step(c)  BY <2>1 DEF Next, Step
    <3> QED  BY <3>1, StepIInv
  <2>2. CASE UNCHANGED vars
    BY <2>2, StutterIInv
  <2> QED  BY <2>1, <2>2
<1> QED  BY <1>1, <1>2, PTL DEF Spec

\* Every row, every point and every call stays of its type, for any number of
\* calls, faces and samples.
THEOREM IdentityTypeCorrect == Spec => []TypeOK
<1>1. IInv => TypeOK  BY DEF IInv, TypeInv
<1> QED  BY <1>1, IdentityInvariant, PTL

\* A sample that PostgreSQL calls active has its crop and its live vector,
\* whatever the calls do to each other, as long as the stores report what they
\* did: what add_sample, resolve_or_create_for_process and delete_sample promise
\* by the order of their steps.
THEOREM ActiveSamplesAreStored == Spec => []ActiveSampleStored
<1>1. IInv => ActiveSampleStored  BY DEF IInv, StoreInv
<1> QED  BY <1>1, IdentityInvariant, PTL

\* A failed sample has left nothing behind, and the recognition of an image
\* that failed leaves no active identity of its making that has no sample, as
\* long as the cleanups of _persist_resolution_failure's callers succeed.
THEOREM FailuresAreCompensated == Spec => []FailureCompensated
<1>1. IInv => FailureCompensated
  BY Compensated DEF IInv
<1> QED  BY <1>1, IdentityInvariant, PTL

\* Two enrolments of one face never both succeed: the second finds a version
\* that is not the one it read, or a face that is known already.
THEOREM EnrolmentsAreOnce == Spec => []EnrolledOnce
<1>1. IInv => EnrolledOnce  BY DEF IInv
<1> QED  BY <1>1, IdentityInvariant, PTL

\* A recognition never matches a face that was deactivated before it started,
\* but one whose making failed.
THEOREM DeactivatedAreNotMatched == Spec => []DeactivatedNotMatched
<1>1. IInv => DeactivatedNotMatched  BY DEF IInv, GoneInv
<1> QED  BY <1>1, IdentityInvariant, PTL

=============================================================================
