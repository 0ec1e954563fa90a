------------------------- MODULE VideoIngest_proofs --------------------------
(***************************************************************************)
(* Proofs about VideoIngest, for any number of calls, keys and contents.   *)
(*                                                                         *)
(* A call that has reserved its key is one with a process record.  The     *)
(* inductive invariant says that such calls have different keys, that a    *)
(* job and every step behind the reservation need one, and that the key    *)
(* tells which request it was reserved for.                                *)
(***************************************************************************)
EXTENDS VideoIngest, TLAPS

Reserved(c) == process[c] # "none"

\* A call that has arrived knows its key and its request; a retry's request is
\* a job there is.
ArrivedInv ==
  \A c \in Calls : ~At(c, "new") =>
    /\ KeyOf(c) \in Scopes \X Keys
    /\ Submits(c) => call[c].request \in Contents
    /\ ~Submits(c) => call[c].request \in Calls /\ Exists(call[c].request)

\* Only a call that has reserved its key is past the first transaction.
ReservedInv ==
  \A c \in Calls :
    /\ Reserved(c) => /\ call[c].at \notin {"new", "claim"}
                      /\ keys[KeyOf(c)].state # "none"
                      /\ keys[KeyOf(c)].request = call[c].request
    /\ call[c].at \notin Ends \cup {"new", "claim"} => Reserved(c)
    /\ Exists(c) => Reserved(c)
    /\ asset[c] # "none" => Reserved(c)

DistinctInv ==
  \A c, d \in Calls : Reserved(c) /\ Reserved(d) /\ KeyOf(c) = KeyOf(d) => c = d

\* A key that names a job names the one made under it.
SnapshotInv ==
  \A k \in Scopes \X Keys :
    keys[k].job # None => /\ Exists(keys[k].job)
                          /\ KeyOf(keys[k].job) = k

AnswerInv ==
  \A c \in Calls :
    LET d == call[c].answer
    IN  d # None => /\ ~At(c, "new")
                    /\ Exists(d)
                    /\ KeyOf(d) = KeyOf(c)
                    /\ call[d].request = call[c].request

\* A submit creates its job only once the source is there.
SourceInv ==
  /\ \A c \in Calls : At(c, "create") /\ Submits(c) => c \in source
  /\ \A c \in Calls : Exists(c) => /\ job[c].video \in Calls
                                   /\ asset[job[c].video] = "ready"
                                   /\ job[c].video \in source

IngestInv ==
  /\ TypeOK
  /\ ArrivedInv
  /\ ReservedInv
  /\ DistinctInv
  /\ SnapshotInv
  /\ AnswerInv
  /\ SourceInv
-----------------------------------------------------------------------------
LEMMA InitInv == Init => IngestInv
  <1> SUFFICES ASSUME Init PROVE IngestInv
    OBVIOUS
  <1> USE DEF Init
  <1>1. TypeOK
    BY DEF TypeOK, KeyRows, NoKey, ProcessStates, AssetStates, JobRows, NoJob,
           CallStates, NewCall, Points, Ends
  <1>2. ArrivedInv /\ ReservedInv /\ DistinctInv
    BY DEF ArrivedInv, ReservedInv, DistinctInv, At, Reserved, Exists, NewCall, NoJob
  <1>3. SnapshotInv /\ AnswerInv /\ SourceInv
    BY DEF SnapshotInv, AnswerInv, SourceInv, At, Exists, NewCall, NoJob, NoKey
  <1> QED BY <1>1, <1>2, <1>3 DEF IngestInv

\* What a step of call c does to the calls: nothing to another one, and to c
\* itself it moves it, leaving its key and its request.
Moves(c, point) ==
  /\ \A d \in Calls \ {c} : call'[d] = call[d]
  /\ call'[c].at = point
  /\ call'[c].scope = call[c].scope
  /\ call'[c].key = call[c].key
  /\ call'[c].request = call[c].request

LEMMA GotoMoves ==
  ASSUME TypeOK, NEW c \in Calls, NEW point \in Points,
         Goto(c, point) \/ Spoil(c, point)
  PROVE  /\ Moves(c, point)
         /\ call' \in [Calls -> CallStates]
         /\ call'[c].answer = call[c].answer
  BY DEF TypeOK, Goto, Spoil, Moves, CallStates
-----------------------------------------------------------------------------
(* Steps that leave the tables alone, but for the source prefix.           *)

\* Job e is one that call c may be answered with.
Justified(c, e) ==
  e # None => e \in Calls /\ Exists(e) /\ KeyOf(e) = KeyOf(c) /\ call[e].request = call[c].request

LEMMA QuietStep ==
  ASSUME IngestInv, NEW c \in Calls, NEW point \in Points,
         Moves(c, point), call' \in [Calls -> CallStates],
         call'[c].answer = call[c].answer \/ Justified(c, call'[c].answer),
         UNCHANGED <<keys, process, asset, job>>,
         source \subseteq source', source' \subseteq Calls, staging' \subseteq Calls,
         outbox' = outbox,
         ~At(c, "new"), point \notin {"new", "claim"},
         point \notin Ends => call[c].at \notin Ends \cup {"new", "claim"},
         point = "create" => c \in source'
  PROVE  IngestInv'
  <1> USE DEF IngestInv, At, Moves
  <1>1. TypeOK'
    BY DEF TypeOK
  <1>2. \A d \in Calls : /\ call'[d].scope = call[d].scope
                         /\ call'[d].key = call[d].key
                         /\ call'[d].request = call[d].request
                         /\ d # c => call'[d].at = call[d].at /\ call'[d].answer = call[d].answer
    OBVIOUS
  <1>3. ArrivedInv'
    BY <1>2 DEF ArrivedInv, KeyOf, Submits, Exists
  <1>4. ReservedInv'
    BY <1>2 DEF ReservedInv, Reserved, KeyOf, Exists
  <1>5. DistinctInv'
    BY <1>2 DEF DistinctInv, Reserved, KeyOf
  <1>6. SnapshotInv'
    <2> SUFFICES ASSUME NEW k \in Scopes \X Keys, keys[k].job # None
                 PROVE  Exists(keys[k].job) /\ KeyOf(keys[k].job)' = k
      BY DEF SnapshotInv, Exists
    <2>1. keys[k].job \in Calls
      BY DEF TypeOK, KeyRows
    <2> QED BY <2>1, <1>2 DEF SnapshotInv, KeyOf
  <1>7. AnswerInv'
    <2> SUFFICES ASSUME NEW d \in Calls, call'[d].answer # None
                 PROVE  LET e == call'[d].answer
                        IN  /\ call'[d].at # "new"
                            /\ job[e].state # "none"
                            /\ call'[e].scope = call'[d].scope
                            /\ call'[e].key = call'[d].key
                            /\ call'[e].request = call'[d].request
      BY DEF AnswerInv, Exists, KeyOf
    <2>1. call'[d].answer = call[d].answer \/ (d = c /\ Justified(c, call'[c].answer))
      BY <1>2
    <2>2. call'[d].answer \in Calls
      BY DEF CallStates
    <2> QED BY <2>1, <2>2, <1>2 DEF AnswerInv, Justified, KeyOf, Exists
  <1>8. SourceInv'
    BY <1>2 DEF SourceInv, Submits, Exists
  <1> QED BY <1>1, <1>3, <1>4, <1>5, <1>6, <1>7, <1>8

\* Where a call can be, and that it can be anywhere in Ends.
LEMMA PointsKnown ==
  /\ Ends = {"done", "raised", "gone"} /\ Ends \subseteq Points
  /\ {"new", "claim", "upload", "copy", "verify", "create", "dropStaging",
      "failLoad", "failSave", "failClean"} \subseteq Points
  BY DEF Points, Ends

LEMMA QuietSteps ==
  ASSUME IngestInv, NEW c \in Calls,
         \/ ReserveRefused(c) \/ Upload(c) \/ Copy(c) \/ Verify(c) \/ CreateFails(c)
         \/ RemoveStaging(c) \/ FailSaveFails(c) \/ CutOff(c)
  PROVE  IngestInv'
  <1> USE PointsKnown
  <1>0. TypeOK /\ source \subseteq Calls /\ staging \subseteq Calls
    BY DEF IngestInv, TypeOK
  <1>1. CASE ReserveRefused(c)
    BY <1>0, <1>1, GotoMoves, QuietStep DEF ReserveRefused, At
  <1>2. CASE Upload(c)
    <2>1. PICK point \in {"copy", "failLoad"} : Goto(c, point) \/ Spoil(c, point)
      BY <1>2 DEF Upload
    <2> QED BY <1>0, <1>2, <2>1, GotoMoves, QuietStep DEF Upload, At
  <1>3. CASE Copy(c)
    <2>1. PICK point \in {"verify", "failLoad"} : Goto(c, point) \/ Spoil(c, point)
      BY <1>3 DEF Copy
    <2> QED BY <1>0, <1>3, <2>1, GotoMoves, QuietStep DEF Copy, At
  <1>4. CASE Verify(c)
    BY <1>0, <1>4, GotoMoves, QuietStep DEF Verify, At
  <1>5. CASE CreateFails(c)
    BY <1>0, <1>5, GotoMoves, QuietStep DEF CreateFails, At
  <1>6. CASE RemoveStaging(c)
    <2>1. PICK point \in Ends : Goto(c, point) \/ Spoil(c, point)
      BY <1>6 DEF RemoveStaging, At
    <2> QED BY <1>0, <1>6, <2>1, GotoMoves, QuietStep DEF RemoveStaging, At
  <1>7. CASE FailSaveFails(c)
    <2>1. PICK point \in {"failClean", "raised"} : Spoil(c, point)
      BY <1>7 DEF FailSaveFails, AfterFailSave
    <2> QED BY <1>0, <1>7, <2>1, GotoMoves, QuietStep DEF FailSaveFails, At
  <1>8. CASE CutOff(c)
    BY <1>0, <1>8, GotoMoves, QuietStep DEF CutOff, At
  <1> QED BY <1>1, <1>2, <1>3, <1>4, <1>5, <1>6, <1>7, <1>8

LEMMA FailLoadStep ==
  ASSUME IngestInv, NEW c \in Calls, FailLoad(c)
  PROVE  IngestInv'
  <1>1. /\ Moves(c, "failSave") /\ call' \in [Calls -> CallStates]
        /\ call'[c].answer = call[c].answer
    BY PointsKnown DEF IngestInv, TypeOK, CallStates, FailLoad, Moves
  <1>2. source \subseteq Calls /\ staging \subseteq Calls
    BY DEF IngestInv, TypeOK
  <1> QED BY <1>1, <1>2, PointsKnown, QuietStep DEF FailLoad, At
-----------------------------------------------------------------------------
(* The steps that write the tables.                                        *)

\* A call that has not arrived has no job, and nothing refers to it.
LEMMA ArriveStep ==
  ASSUME IngestInv, NEW c \in Calls, Arrivals(c)
  PROVE  IngestInv'
  <1> USE DEF IngestInv
  <1>1. PICK scope \in Scopes, k \in Keys, request \in Requests :
          /\ Arrive(c, scope, k, request)
          /\ scope = "video_recognize" => request \in Contents
          /\ scope # "video_recognize" => request \in Calls /\ Exists(request)
    BY DEF Arrivals, Scopes, Keys, Requests
  <1>2. At(c, "new") /\ ~Reserved(c) /\ ~Exists(c)
    BY <1>1 DEF Arrive, ReservedInv, At
  <1>3. /\ \A d \in Calls \ {c} : call'[d] = call[d]
        /\ call'[c].at = "claim" /\ call'[c].scope = scope /\ call'[c].key = k
        /\ call'[c].request = request /\ call'[c].answer = None
        /\ call' \in [Calls -> CallStates]
    BY <1>1, PointsKnown DEF Arrive, TypeOK, CallStates, NewCall, ProcessStates
  <1>4. UNCHANGED <<keys, process, asset, job, staging, source, outbox>>
    BY <1>1 DEF Arrive
  <1>5. TypeOK'
    BY <1>3, <1>4 DEF TypeOK
  <1>6. ArrivedInv'
    <2> SUFFICES ASSUME NEW d \in Calls, ~At(d, "new")'
                 PROVE  /\ KeyOf(d)' \in Scopes \X Keys
                        /\ Submits(d)' => call'[d].request \in Contents
                        /\ ~Submits(d)' => call'[d].request \in Calls /\ Exists(call[d].request)'
      BY DEF ArrivedInv
    <2>1. CASE d = c
      BY <2>1, <1>1, <1>3, <1>4 DEF KeyOf, Submits, Exists
    <2>2. CASE d # c
      BY <2>2, <1>3, <1>4 DEF ArrivedInv, At, KeyOf, Submits, Exists
    <2> QED BY <2>1, <2>2
  <1>7. ReservedInv'
    BY <1>2, <1>3, <1>4 DEF ReservedInv, Reserved, KeyOf, Exists
  <1>8. DistinctInv'
    BY <1>2, <1>3, <1>4 DEF DistinctInv, Reserved, KeyOf
  <1>9. SnapshotInv'
    <2> SUFFICES ASSUME NEW l \in Scopes \X Keys, keys[l].job # None
                 PROVE  Exists(keys[l].job) /\ KeyOf(keys[l].job)' = l
      BY <1>4 DEF SnapshotInv, Exists
    <2>1. keys[l].job \in Calls /\ Exists(keys[l].job)
      BY DEF TypeOK, KeyRows, SnapshotInv
    <2> QED BY <2>1, <1>2, <1>3, <1>4 DEF SnapshotInv, KeyOf, Exists
  <1>10. AnswerInv'
    <2> SUFFICES ASSUME NEW d \in Calls, call'[d].answer # None
                 PROVE  LET e == call'[d].answer
                        IN  /\ call'[d].at # "new"
                            /\ job[e].state # "none"
                            /\ call'[e].scope = call'[d].scope
                            /\ call'[e].key = call'[d].key
                            /\ call'[e].request = call'[d].request
      BY <1>4 DEF AnswerInv, Exists, At, KeyOf
    <2>1. d # c /\ call[d].answer \in Calls
      BY <1>3 DEF TypeOK, CallStates
    <2>2. Exists(call[d].answer) /\ call[d].answer # c
      BY <2>1, <1>2, <1>3 DEF AnswerInv
    <2> QED BY <2>1, <2>2, <1>3 DEF AnswerInv, KeyOf, At, Exists
  <1>11. SourceInv'
    BY <1>3, <1>4 DEF SourceInv, At, Submits, Exists
  <1> QED BY <1>5, <1>6, <1>7, <1>8, <1>9, <1>10, <1>11

LEMMA ReserveStep ==
  ASSUME IngestInv, NEW c \in Calls, Reserve(c)
  PROVE  IngestInv'
  <1> USE DEF IngestInv
  <1>1. PICK point \in {"upload", "create", "raised"} :
          /\ Goto(c, point) \/ Spoil(c, point)
          /\ point = "create" => ~Submits(c)
    BY DEF Reserve, ReserveUpload, ReserveRetry, InProgress
  <1>2. /\ Moves(c, point) /\ call' \in [Calls -> CallStates]
        /\ call'[c].answer = call[c].answer
    BY <1>1, PointsKnown, GotoMoves
  <1>3. At(c, "claim") /\ ~Reserved(c) /\ ~Exists(c) /\ KeyOf(c) \in Scopes \X Keys
    BY DEF Reserve, ReserveUpload, ReserveRetry, InProgress, ReservedInv, ArrivedInv, At
  <1>4. keys[KeyOf(c)].state = "none" /\ call[c].request \in Requests
    BY <1>3 DEF Reserve, ReserveUpload, ReserveRetry, InProgress, Reservable, ArrivedInv,
                At, Requests
  <1>5. \A d \in Calls : Reserved(d) => KeyOf(d) # KeyOf(c)
    BY <1>4 DEF ReservedInv
  <1>6. \A d \in Calls : /\ KeyOf(d)' = KeyOf(d)
                         /\ Submits(d)' = Submits(d)
                         /\ call'[d].request = call[d].request
                         /\ call'[d].answer = call[d].answer
                         /\ d # c => call'[d].at = call[d].at
    BY <1>2 DEF Moves, KeyOf, Submits
  <1>7. /\ process' = [process EXCEPT ![c] = "processing"]
        /\ asset' = [asset EXCEPT ![c] = "uploading"] \/ asset' = asset
        /\ keys' = [keys EXCEPT ![KeyOf(c)] = [state |-> "in_progress",
                                         request |-> call[c].request, job |-> None]]
        /\ UNCHANGED <<job, staging, source, outbox>>
    BY DEF Reserve, ReserveUpload, ReserveRetry, InProgress
  <1>8. /\ \A d \in Calls : Reserved(d)' <=> Reserved(d) \/ d = c
        /\ \A d \in Calls \ {c} : asset'[d] = asset[d]
        /\ \A k \in Scopes \X Keys : k # KeyOf(c) => keys'[k] = keys[k]
        /\ keys'[KeyOf(c)].state = "in_progress" /\ keys'[KeyOf(c)].job = None
        /\ keys'[KeyOf(c)].request = call[c].request
    BY <1>3, <1>7 DEF TypeOK, Reserved
  <1>9. TypeOK'
    BY <1>2, <1>3, <1>4, <1>7 DEF TypeOK, KeyRows, ProcessStates, AssetStates
  <1>10. ArrivedInv'
    BY <1>3, <1>6, <1>7 DEF ArrivedInv, At, Exists
  <1>11. ReservedInv'
    <2> SUFFICES ASSUME NEW d \in Calls
                 PROVE  /\ Reserved(d)' => /\ call'[d].at \notin {"new", "claim"}
                                          /\ keys'[KeyOf(d)'].state # "none"
                                          /\ keys'[KeyOf(d)'].request = call'[d].request
                        /\ call'[d].at \notin Ends \cup {"new", "claim"} => Reserved(d)'
                        /\ Exists(d)' => Reserved(d)'
                        /\ asset'[d] # "none" => Reserved(d)'
      BY DEF ReservedInv
    <2>1. CASE d = c
      BY <2>1, <1>2, <1>6, <1>8 DEF Moves
    <2>2. CASE d # c
      <3>1. ~At(d, "new") => KeyOf(d) \in Scopes \X Keys
        BY DEF ArrivedInv
      <3>2. Reserved(d) => keys'[KeyOf(d)] = keys[KeyOf(d)]
        BY <3>1, <1>5, <1>8 DEF ReservedInv, At
      <3> QED BY <2>2, <3>2, <1>6, <1>7, <1>8 DEF ReservedInv, Exists
    <2> QED BY <2>1, <2>2
  <1>12. DistinctInv'
    BY <1>5, <1>6, <1>8 DEF DistinctInv
  <1>13. SnapshotInv'
    <2> SUFFICES ASSUME NEW k \in Scopes \X Keys, keys'[k].job # None
                 PROVE  Exists(keys[k].job)' /\ KeyOf(keys[k].job)' = k
      BY DEF SnapshotInv
    <2>1. keys'[k] = keys[k] /\ keys[k].job \in Calls
      BY <1>8 DEF TypeOK, KeyRows
    <2> QED BY <2>1, <1>6, <1>7 DEF SnapshotInv, Exists
  <1>14. AnswerInv'
    <2> SUFFICES ASSUME NEW d \in Calls, call[d].answer # None
                 PROVE  LET e == call[d].answer
                        IN  /\ call'[d].at # "new"
                            /\ Exists(e)
                            /\ KeyOf(e)' = KeyOf(d)'
                            /\ call'[e].request = call'[d].request
      BY <1>6, <1>7 DEF AnswerInv, Exists, At
    <2>1. call[d].answer \in Calls
      BY DEF TypeOK, CallStates
    <2> QED BY <2>1, <1>2, <1>6 DEF AnswerInv, At, Moves
  <1>15. SourceInv'
    <2>1. \A d \in Calls : At(d, "create")' /\ Submits(d)' => d \in source'
      BY <1>1, <1>2, <1>6, <1>7 DEF SourceInv, At, Moves
    <2>2. \A d \in Calls : Exists(d)' => /\ job'[d].video \in Calls
                                         /\ asset'[job'[d].video] = "ready"
                                         /\ job'[d].video \in source'
      BY <1>3, <1>7, <1>8 DEF SourceInv, Exists, ReservedInv
    <2> QED BY <2>1, <2>2 DEF SourceInv
  <1> QED BY <1>9, <1>10, <1>11, <1>12, <1>13, <1>14, <1>15

LEMMA ReplayStep ==
  ASSUME IngestInv, NEW c \in Calls, Replay(c)
  PROVE  IngestInv'
  <1> USE PointsKnown DEF IngestInv
  <1>1. At(c, "claim") /\ KeyOf(c) \in Scopes \X Keys
    BY DEF Replay, ArrivedInv, At
  <1>2. UNCHANGED <<keys, process, asset, job, staging, source, outbox>>
    BY DEF Replay
  <1>3. CASE Goto(c, "raised")
    BY <1>1, <1>2, <1>3, GotoMoves, QuietStep DEF At, TypeOK
  <1>4. CASE /\ Replayable(c)
             /\ call' = [call EXCEPT ![c].at = "done", ![c].answer = keys[KeyOf(c)].job]
    <2> DEFINE e == keys[KeyOf(c)].job
    <2>1. e \in Calls \cup {None}
      BY <1>1 DEF TypeOK, KeyRows
    <2>2. /\ Moves(c, "done") /\ call' \in [Calls -> CallStates]
          /\ call'[c].answer = e
      BY <1>4, <2>1 DEF TypeOK, CallStates, Moves
    <2>3. e # None => e \in Calls /\ Exists(e) /\ KeyOf(e) = KeyOf(c) /\ Reserved(e)
      BY <1>1, <2>1 DEF SnapshotInv, ReservedInv
    <2>4. e # None => call[e].request = call[c].request
      BY <1>4, <2>3 DEF ReservedInv, Replayable
    <2>5. Justified(c, call'[c].answer)
      BY <2>2, <2>3, <2>4 DEF Justified
    <2> QED BY <1>1, <1>2, <2>2, <2>5, QuietStep DEF At, TypeOK
  <1> QED BY <1>3, <1>4 DEF Replay

\* What a step keeps that reserves no key: who has one, and for what.
LEMMA KeptStep ==
  ASSUME IngestInv, TypeOK',
         \A d \in Calls : /\ call'[d].scope = call[d].scope
                          /\ call'[d].key = call[d].key
                          /\ call'[d].request = call[d].request
                          /\ call'[d].at = "new" <=> call[d].at = "new"
                          /\ Reserved(d) => call'[d].at \notin {"new", "claim"}
                          /\ call'[d].at \notin Ends \cup {"new", "claim"} => Reserved(d),
         \A d \in Calls : /\ Reserved(d)' <=> Reserved(d)
                          /\ Exists(d) => Exists(d)'
                          /\ Exists(d)' => Reserved(d)
                          /\ asset'[d] # "none" => Reserved(d),
         \A k \in Scopes \X Keys : keys[k].state # "none" =>
           keys'[k].state # "none" /\ keys'[k].request = keys[k].request,
         \A d \in Calls : call'[d].answer # call[d].answer =>
           call'[d].answer = d /\ Exists(d)' /\ Reserved(d)
  PROVE  ArrivedInv' /\ ReservedInv' /\ DistinctInv' /\ AnswerInv'
  <1> USE DEF IngestInv
  <1>1. \A d \in Calls : KeyOf(d)' = KeyOf(d) /\ Submits(d)' = Submits(d)
    BY DEF KeyOf, Submits
  <1>2. ArrivedInv'
    <2> SUFFICES ASSUME NEW d \in Calls, call'[d].at # "new"
                 PROVE  /\ KeyOf(d)' \in Scopes \X Keys
                        /\ Submits(d)' => call'[d].request \in Contents
                        /\ ~Submits(d)' => call'[d].request \in Calls /\ Exists(call[d].request)'
      BY DEF ArrivedInv, At, Exists
    <2> QED BY <1>1 DEF ArrivedInv, At, Exists
  <1>3. ReservedInv'
    <2> SUFFICES ASSUME NEW d \in Calls
                 PROVE  /\ Reserved(d) => /\ call'[d].at \notin {"new", "claim"}
                                          /\ keys'[KeyOf(d)].state # "none"
                                          /\ keys'[KeyOf(d)].request = call'[d].request
                        /\ call'[d].at \notin Ends \cup {"new", "claim"} => Reserved(d)
                        /\ Exists(d)' => Reserved(d)
                        /\ asset'[d] # "none" => Reserved(d)
      BY <1>1 DEF ReservedInv
    <2>1. Reserved(d) => KeyOf(d) \in Scopes \X Keys
      BY DEF ReservedInv, ArrivedInv, At
    <2> QED BY <2>1 DEF ReservedInv
  <1>4. DistinctInv'
    BY <1>1 DEF DistinctInv
  <1>5. AnswerInv'
    <2> SUFFICES ASSUME NEW d \in Calls, call'[d].answer # None
                 PROVE  LET e == call'[d].answer
                        IN  /\ call'[d].at # "new"
                            /\ job'[e].state # "none"
                            /\ call'[e].scope = call'[d].scope
                            /\ call'[e].key = call'[d].key
                            /\ call'[e].request = call'[d].request
      BY DEF AnswerInv, At, Exists, KeyOf
    <2>1. CASE call'[d].answer = call[d].answer
      <3>1. call[d].answer \in Calls
        BY <2>1 DEF TypeOK, CallStates
      <3> QED BY <2>1, <3>1 DEF AnswerInv, At, Exists, KeyOf
    <2>2. CASE call'[d].answer # call[d].answer
      BY <2>2 DEF Exists
    <2> QED BY <2>1, <2>2
  <1> QED BY <1>2, <1>3, <1>4, <1>5

LEMMA CreateJobStep ==
  ASSUME IngestInv, NEW c \in Calls, CreateJob(c)
  PROVE  IngestInv'
  <1> USE PointsKnown DEF IngestInv
  <1>1. At(c, "create") /\ Reserved(c) /\ KeyOf(c) \in Scopes \X Keys
    BY DEF CreateJob, CreateFirst, CreateRetry, NewJob, Ready, Finalized, Answer,
           ReservedInv, ArrivedInv, At, Ends
  <1>2. PICK point \in {"dropStaging", "done", "failLoad"} :
          /\ \A d \in Calls \ {c} : call'[d] = call[d]
          /\ call'[c].at = point
          /\ call'[c].scope = call[c].scope
          /\ call'[c].key = call[c].key
          /\ call'[c].request = call[c].request
          /\ call'[c].answer \in {c, call[c].answer}
          /\ call' \in [Calls -> CallStates]
    <2>1. PICK point \in {"dropStaging", "done"} :
            \/ call' = [call EXCEPT ![c].at = point, ![c].answer = c]
            \/ call' = [call EXCEPT ![c].at = "failLoad", ![c].spoiled = TRUE]
      BY DEF CreateJob, CreateFirst, CreateRetry, NewJob, Ready, Finalized, Answer, Spoil
    <2> QED BY <2>1 DEF TypeOK, CallStates
  <1>3. /\ VideoOf(c) \in Calls /\ VideoOf(c) \in source
        /\ VideoOf(c) # c => asset[VideoOf(c)] = "ready"
        /\ VideoOf(c) = c => Submits(c) \/ asset[c] = "ready"
    BY <1>1 DEF VideoOf, SourceInv, ArrivedInv, At
  <1>4. /\ \/ asset' = [asset EXCEPT ![c] = "ready"] /\ Submits(c)
           \/ asset' = asset /\ ~Submits(c)
        /\ job' = [job EXCEPT ![c] = [state |-> "pending", video |-> VideoOf(c)]]
        /\ keys' = [keys EXCEPT ![KeyOf(c)].state = "completed", ![KeyOf(c)].job = c]
        /\ UNCHANGED <<process, staging, source>>
        /\ outbox' = outbox \/ outbox' = outbox \cup {<<"cleanup_staging", c>>}
    <2>1. CASE Submits(c)
      BY <2>1 DEF CreateJob, CreateFirst, CreateRetry, NewJob, Ready, Finalized, Answer
    <2>2. CASE ~Submits(c)
      BY <2>2 DEF CreateJob, CreateFirst, CreateRetry, NewJob, Ready, Finalized, Answer
    <2> QED BY <2>1, <2>2
  <1>5. TypeOK'
    <2>1. job' \in [Calls -> JobRows] /\ asset' \in [Calls -> AssetStates]
      BY <1>3, <1>4 DEF TypeOK, AssetStates, JobRows
    <2>2. keys' \in [Scopes \X Keys -> KeyRows]
      <3>1. keys \in [Scopes \X Keys -> KeyRows]
        BY DEF TypeOK
      <3>2. keys[KeyOf(c)] \in KeyRows
        BY <1>1, <3>1
      <3>3. [keys[KeyOf(c)] EXCEPT !.state = "completed", !.job = c] \in KeyRows
        BY <3>2 DEF KeyRows
      <3>4. keys' = [keys EXCEPT ![KeyOf(c)] =
                       [keys[KeyOf(c)] EXCEPT !.state = "completed", !.job = c]]
        BY <1>1, <1>4, <3>1
      <3> QED BY <3>1, <3>3, <3>4
    <2>3. outbox' \subseteq {"cleanup_staging", "cleanup_canonical"} \X Calls
      BY <1>4 DEF TypeOK
    <2> QED BY <1>2, <1>4, <2>1, <2>2, <2>3 DEF TypeOK
  <1>6. /\ \A d \in Calls : /\ Reserved(d)' <=> Reserved(d)
                            /\ Exists(d)' <=> Exists(d) \/ d = c
                            /\ asset'[d] # asset[d] => d = c
                            /\ asset[d] = "ready" => asset'[d] = "ready"
                            /\ d # c => job'[d] = job[d]
        /\ job'[c].video = VideoOf(c) /\ asset'[VideoOf(c)] = "ready"
    BY <1>3, <1>4 DEF TypeOK, Reserved, Exists
  <1>7. /\ \A k \in Scopes \X Keys : k # KeyOf(c) => keys'[k] = keys[k]
        /\ keys'[KeyOf(c)].state = "completed" /\ keys'[KeyOf(c)].job = c
        /\ keys'[KeyOf(c)].request = keys[KeyOf(c)].request
    BY <1>1, <1>4 DEF TypeOK, KeyRows
  <1>8. ArrivedInv' /\ ReservedInv' /\ DistinctInv' /\ AnswerInv'
    <2>1. \A d \in Calls :
            /\ call'[d].scope = call[d].scope /\ call'[d].key = call[d].key
            /\ call'[d].request = call[d].request
            /\ call'[d].at = "new" <=> call[d].at = "new"
            /\ Reserved(d) => call'[d].at \notin {"new", "claim"}
            /\ call'[d].at \notin Ends \cup {"new", "claim"} => Reserved(d)
            /\ call'[d].answer # call[d].answer => call'[d].answer = d /\ Exists(d)' /\ Reserved(d)
      BY <1>1, <1>2, <1>6 DEF ReservedInv, At
    <2>2. \A d \in Calls : /\ Reserved(d)' <=> Reserved(d)
                           /\ Exists(d) => Exists(d)'
                           /\ Exists(d)' => Reserved(d)
                           /\ asset'[d] # "none" => Reserved(d)
      BY <1>1, <1>6 DEF ReservedInv
    <2>3. \A k \in Scopes \X Keys : keys[k].state # "none" =>
            keys'[k].state # "none" /\ keys'[k].request = keys[k].request
      BY <1>7
    <2> QED BY <1>5, <2>1, <2>2, <2>3, KeptStep
  <1>9. SnapshotInv'
    <2> SUFFICES ASSUME NEW k \in Scopes \X Keys, keys'[k].job # None
                 PROVE  Exists(keys[k].job)' /\ KeyOf(keys[k].job)' = k
      BY DEF SnapshotInv
    <2>1. CASE k = KeyOf(c)
      BY <2>1, <1>2, <1>6, <1>7 DEF KeyOf, Exists
    <2>2. CASE k # KeyOf(c)
      <3>1. keys'[k].job = keys[k].job /\ keys[k].job \in Calls
        BY <2>2, <1>7 DEF TypeOK, KeyRows
      <3> QED BY <3>1, <1>2, <1>6 DEF SnapshotInv, KeyOf, Exists
    <2> QED BY <2>1, <2>2
  <1>10. SourceInv'
    <2>1. \A d \in Calls : call'[d].at = "create" /\ Submits(d)' => d \in source'
      BY <1>2, <1>4 DEF SourceInv, At, Submits
    <2>2. \A d \in Calls : Exists(d)' => /\ job'[d].video \in Calls
                                         /\ asset'[job'[d].video] = "ready"
                                         /\ job'[d].video \in source'
      BY <1>3, <1>4, <1>6 DEF SourceInv
    <2> QED BY <2>1, <2>2 DEF SourceInv, At
  <1> QED BY <1>5, <1>8, <1>9, <1>10

\* What _fail_ingest writes leaves every job, and the videos of jobs, as they are.
LEMMA FailSaveStep ==
  ASSUME IngestInv, NEW c \in Calls, FailSave(c)
  PROVE  IngestInv'
  <1> USE PointsKnown DEF IngestInv
  <1>1. At(c, "failSave") /\ Reserved(c) /\ KeyOf(c) \in Scopes \X Keys
    BY DEF FailSave, FailUpload, FailRetry, Finalized, ReservedInv, ArrivedInv, At, Ends
  <1>2. PICK point \in {"failClean", "raised"} : Goto(c, point)
    BY DEF FailSave, FailUpload, FailRetry, Finalized, AfterFailSave
  <1>3. /\ Moves(c, point) /\ call' \in [Calls -> CallStates]
        /\ call'[c].answer = call[c].answer
    BY <1>2, GotoMoves
  <1>4. /\ process' = [process EXCEPT ![c] = "failed"] \/ process' = process
        /\ asset' = [asset EXCEPT ![c] = Rejected(asset[c])] \/ asset' = asset
        /\ keys' = [keys EXCEPT ![KeyOf(c)].state = "failed", ![KeyOf(c)].job = None]
        /\ UNCHANGED <<job, staging, source>>
        /\ outbox' = outbox \/ outbox' = outbox \cup {<<"cleanup_canonical", c>>}
    BY DEF FailSave, FailUpload, FailRetry, Finalized
  <1>5. TypeOK'
    <2>1. process' \in [Calls -> ProcessStates] /\ asset' \in [Calls -> AssetStates]
      BY <1>4 DEF TypeOK, ProcessStates, AssetStates, Rejected
    <2>2. keys' \in [Scopes \X Keys -> KeyRows]
      <3>1. keys \in [Scopes \X Keys -> KeyRows]
        BY DEF TypeOK
      <3>2. keys[KeyOf(c)] \in KeyRows
        BY <1>1, <3>1
      <3>3. [keys[KeyOf(c)] EXCEPT !.state = "failed", !.job = None] \in KeyRows
        BY <3>2 DEF KeyRows
      <3>4. keys' = [keys EXCEPT ![KeyOf(c)] =
                       [keys[KeyOf(c)] EXCEPT !.state = "failed", !.job = None]]
        BY <1>1, <1>4, <3>1
      <3> QED BY <3>1, <3>3, <3>4
    <2>3. outbox' \subseteq {"cleanup_staging", "cleanup_canonical"} \X Calls
      BY <1>4 DEF TypeOK
    <2> QED BY <1>3, <1>4, <2>1, <2>2, <2>3 DEF TypeOK
  <1>6. \A d \in Calls : /\ Reserved(d)' <=> Reserved(d)
                         /\ Exists(d)' <=> Exists(d)
                         /\ asset'[d] = "none" <=> asset[d] = "none"
                         /\ asset[d] = "ready" => asset'[d] = "ready"
    BY <1>1, <1>4 DEF TypeOK, Reserved, Exists, Rejected
  <1>7. /\ \A k \in Scopes \X Keys : k # KeyOf(c) => keys'[k] = keys[k]
        /\ keys'[KeyOf(c)].state = "failed" /\ keys'[KeyOf(c)].job = None
        /\ keys'[KeyOf(c)].request = keys[KeyOf(c)].request
    BY <1>1, <1>4 DEF TypeOK, KeyRows
  <1>8. \A d \in Calls : /\ call'[d].scope = call[d].scope
                         /\ call'[d].key = call[d].key
                         /\ call'[d].request = call[d].request
                         /\ call'[d].answer = call[d].answer
                         /\ d # c => call'[d].at = call[d].at
    BY <1>3 DEF Moves
  <1>9. ArrivedInv' /\ ReservedInv' /\ DistinctInv' /\ AnswerInv'
    <2>1. \A d \in Calls :
            /\ call'[d].at = "new" <=> call[d].at = "new"
            /\ Reserved(d) => call'[d].at \notin {"new", "claim"}
            /\ call'[d].at \notin Ends \cup {"new", "claim"} => Reserved(d)
      BY <1>1, <1>3, <1>8 DEF ReservedInv, At, Moves
    <2>2. \A d \in Calls : /\ Exists(d) => Exists(d)'
                           /\ Exists(d)' => Reserved(d)
                           /\ asset'[d] # "none" => Reserved(d)
      BY <1>6 DEF ReservedInv
    <2>3. \A k \in Scopes \X Keys : keys[k].state # "none" =>
            keys'[k].state # "none" /\ keys'[k].request = keys[k].request
      BY <1>7
    <2> QED BY <1>5, <1>6, <1>8, <2>1, <2>2, <2>3, KeptStep
  <1>10. SnapshotInv'
    <2> SUFFICES ASSUME NEW k \in Scopes \X Keys, keys'[k].job # None
                 PROVE  Exists(keys[k].job)' /\ KeyOf(keys[k].job)' = k
      BY DEF SnapshotInv
    <2>1. keys'[k] = keys[k] /\ keys[k].job \in Calls
      BY <1>7 DEF TypeOK, KeyRows
    <2> QED BY <2>1, <1>4, <1>8 DEF SnapshotInv, KeyOf, Exists
  <1>11. SourceInv'
    <2>1. \A d \in Calls : call'[d].at = "create" /\ Submits(d)' => d \in source'
      BY <1>3, <1>4, <1>8 DEF SourceInv, At, Submits, Moves
    <2> QED BY <2>1, <1>4, <1>6 DEF SourceInv, At, Exists
  <1> QED BY <1>5, <1>9, <1>10, <1>11

LEMMA JobEndsStep ==
  ASSUME IngestInv, NEW c \in Calls, JobEnds(c)
  PROVE  IngestInv'
  <1> USE DEF IngestInv
  <1>1. PICK outcome \in {"completed", "failed", "cancelled"} :
          /\ job' = [job EXCEPT ![c].state = outcome]
          /\ \/ process[c] = "processing" /\ process' = [process EXCEPT ![c] = outcome]
             \/ process' = process
    BY DEF JobEnds
  <1>2. Exists(c) /\ UNCHANGED <<keys, asset, staging, source, outbox, call>>
    BY DEF JobEnds, Exists
  <1>3. TypeOK'
    BY <1>1, <1>2 DEF TypeOK, ProcessStates, JobRows
  <1>4. \A d \in Calls : /\ Reserved(d)' <=> Reserved(d)
                         /\ Exists(d)' <=> Exists(d)
                         /\ job'[d].video = job[d].video
    BY <1>1, <1>2 DEF TypeOK, Reserved, Exists, JobRows
  <1>5. ArrivedInv' /\ ReservedInv' /\ DistinctInv' /\ AnswerInv'
    <2>1. \A d \in Calls :
            /\ Reserved(d) => call[d].at \notin {"new", "claim"}
            /\ call[d].at \notin Ends \cup {"new", "claim"} => Reserved(d)
            /\ Exists(d) => Reserved(d)
            /\ asset[d] # "none" => Reserved(d)
      BY DEF ReservedInv
    <2> QED BY <2>1, <1>2, <1>3, <1>4, KeptStep
  <1>6. SnapshotInv'
    <2> SUFFICES ASSUME NEW k \in Scopes \X Keys, keys[k].job # None
                 PROVE  Exists(keys[k].job)' /\ KeyOf(keys[k].job)' = k
      BY <1>2 DEF SnapshotInv
    <2>1. keys[k].job \in Calls
      BY DEF TypeOK, KeyRows
    <2> QED BY <2>1, <1>2, <1>4 DEF SnapshotInv, KeyOf, Exists
  <1>7. SourceInv'
    BY <1>2, <1>4 DEF SourceInv, At, Submits
  <1> QED BY <1>3, <1>5, <1>6, <1>7
-----------------------------------------------------------------------------
LEMMA StepInv == IngestInv /\ [Next]_vars => IngestInv'
  <1> SUFFICES ASSUME IngestInv, [Next]_vars PROVE IngestInv'
    OBVIOUS
  <1>1. CASE UNCHANGED vars
    BY <1>1 DEF vars, IngestInv, TypeOK, ArrivedInv, ReservedInv, DistinctInv, SnapshotInv,
                AnswerInv, SourceInv, At, KeyOf, Submits, Exists, Reserved
  <1>2. ASSUME NEW c \in Calls, Arrivals(c) \/ Ingest(c) \/ Fail(c) \/ JobEnds(c)
        PROVE  IngestInv'
    <2>1. CASE Arrivals(c) \/ JobEnds(c)
      BY <2>1, ArriveStep, JobEndsStep
    <2>2. CASE Ingest(c)
      BY <2>2, ReserveStep, QuietSteps, ReplayStep, CreateJobStep DEF Ingest
    <2>3. CASE Fail(c)
      BY <2>3, FailLoadStep, FailSaveStep, QuietSteps DEF Fail
    <2> QED BY <1>2, <2>1, <2>2, <2>3
  <1> QED BY <1>1, <1>2 DEF Next

\* The inductive invariant holds in every state of submissions and retries.
THEOREM IngestInvariant == Spec => []IngestInv
  <1>1. Init => IngestInv
    BY InitInv
  <1>2. IngestInv /\ [Next]_vars => IngestInv'
    BY StepInv
  <1> QED BY <1>1, <1>2, PTL DEF Spec

\* The rows, the prefixes and the calls stay within their types.
THEOREM IngestTypeCorrect == Spec => []TypeOK
  BY IngestInvariant, PTL DEF IngestInv

\* However many calls use a key, concurrently or again, cut off or misinformed
\* of a commit: submit_video_recognition and retry_job make one job under it.
THEOREM KeysMakeOneJob == Spec => []OneJobPerKey
  <1>1. IngestInv => OneJobPerKey
    BY DEF IngestInv, ReservedInv, DistinctInv, OneJobPerKey
  <1> QED BY <1>1, IngestInvariant, PTL

\* A call is answered with a job made under its key, for its request: the
\* snapshot a completed key replays is never another request's.
THEOREM AnswersAreJustified == Spec => []AnswersMatch
  <1>1. IngestInv => AnswersMatch
    BY DEF IngestInv, AnswerInv, AnswersMatch
  <1> QED BY <1>1, IngestInvariant, PTL

\* The video of every job is ready and its source is there, whatever
\* _fail_ingest writes after a second transaction reported failed.
THEOREM JobsHaveSources == Spec => []JobHasSource
  <1>1. IngestInv => JobHasSource
    BY DEF IngestInv, SourceInv, JobHasSource
  <1> QED BY <1>1, IngestInvariant, PTL
-----------------------------------------------------------------------------
(* What failures leave behind.                                             *)

\* A call that has not been cut off, nor misinformed, has no job until it is
\* answered, knows its process to be open when it comes to write the failure
\* down, and has written it down, and cleaned up, once it has raised.
SettledCall(c) ==
  Reserved(c) /\ ~call[c].spoiled =>
    /\ call[c].at \in {"upload", "copy", "verify", "create", "failLoad", "failSave"} =>
         ~Exists(c) /\ process[c] = "processing" /\ (Submits(c) => asset[c] = "uploading")
    /\ At(c, "failSave") => call[c].seen = "processing"
    /\ call[c].at \in {"failClean", "raised"} =>
         /\ process[c] = "failed" /\ ~Exists(c)
         /\ keys[KeyOf(c)].state = "failed"
         /\ Submits(c) => asset[c] = "rejected"
    /\ At(c, "raised") => c \notin staging

\* Only submits upload.
StagedCall(c) ==
  /\ call[c].at \in {"upload", "copy", "verify", "dropStaging", "failClean"} => Submits(c)
  /\ c \in staging => Reserved(c) /\ Submits(c)

SettledKey(k) ==
  /\ keys[k].state = "completed" => keys[k].job # None
  /\ keys[k].state = "failed" =>
       \A c \in Calls : KeyOf(c) = k /\ Exists(c) => call[c].spoiled

SettledInv ==
  /\ \A c \in Calls : SettledCall(c) /\ StagedCall(c)
  /\ \A k \in Scopes \X Keys : SettledKey(k)

CallStep(c) == Arrivals(c) \/ Ingest(c) \/ Fail(c) \/ JobEnds(c)

\* A step of one call leaves the others alone, and the keys they reserved.
OthersKept(c) ==
  \A d \in Calls \ {c} :
    /\ call'[d] = call[d] /\ process'[d] = process[d] /\ asset'[d] = asset[d]
    /\ job'[d] = job[d] /\ (d \in staging' <=> d \in staging)
    /\ Reserved(d) => keys'[KeyOf(d)] = keys[KeyOf(d)]

LEMMA KeysDistinct ==
  ASSUME IngestInv, NEW c \in Calls, NEW d \in Calls \ {c}, Reserved(d),
         Reserved(c) \/ Reservable(KeyOf(c))
  PROVE  KeyOf(d) # KeyOf(c)
  BY DEF IngestInv, DistinctInv, ReservedInv, Reservable

LEMMA StepKeepsOthers ==
  ASSUME IngestInv, NEW c \in Calls, CallStep(c)
  PROVE  OthersKept(c)
  <1> USE DEF OthersKept, Goto, Spoil
  <1>0. TypeOK /\ (call[c].at \in {"create", "failSave"} => Reserved(c))
    BY DEF IngestInv, ReservedInv, Ends
  <1>1. CASE Arrivals(c)
    BY <1>0, <1>1 DEF Arrivals, Arrive, TypeOK
  <1>2. CASE JobEnds(c)
    BY <1>0, <1>2 DEF JobEnds, TypeOK
  <1>3. CASE Reserve(c)
    <2>1. /\ \A d \in Calls \ {c} :
               call'[d] = call[d] /\ process'[d] = process[d] /\ asset'[d] = asset[d]
          /\ UNCHANGED <<job, staging>>
      BY <1>0, <1>3 DEF Reserve, ReserveUpload, ReserveRetry, TypeOK
    <2>2. \A d \in Calls \ {c} : Reserved(d) => keys'[KeyOf(d)] = keys[KeyOf(d)]
      <3> TAKE d \in Calls \ {c}
      <3>1. Reserved(d) => KeyOf(d) # KeyOf(c)
        BY <1>3, KeysDistinct DEF Reserve
      <3>2. Reserved(d) => KeyOf(d) \in Scopes \X Keys
        BY DEF IngestInv, ReservedInv, ArrivedInv, At
      <3> QED BY <1>0, <1>3, <3>1, <3>2 DEF Reserve, TypeOK
    <2> QED BY <2>1, <2>2
  <1>4. CASE CreateJob(c) \/ FailSave(c)
    <2>1. /\ \A d \in Calls \ {c} : /\ call'[d] = call[d] /\ process'[d] = process[d]
                                    /\ asset'[d] = asset[d] /\ job'[d] = job[d]
          /\ UNCHANGED staging
      BY <1>0, <1>4 DEF CreateJob, CreateFirst, CreateRetry, Answer, Ready, FailSave, FailUpload,
                        FailRetry, TypeOK
    <2>2. \A d \in Calls \ {c} : Reserved(d) => keys'[KeyOf(d)] = keys[KeyOf(d)]
      <3> TAKE d \in Calls \ {c}
      <3>1. Reserved(d) => KeyOf(d) # KeyOf(c)
        BY <1>0, <1>4, KeysDistinct DEF CreateJob, FailSave, At
      <3>2. Reserved(d) => KeyOf(d) \in Scopes \X Keys
        BY DEF IngestInv, ReservedInv, ArrivedInv, At
      <3> QED BY <1>0, <1>4, <3>1, <3>2 DEF CreateJob, FailSave, Finalized, TypeOK
    <2> QED BY <2>1, <2>2
  <1>5. CASE Upload(c) \/ Copy(c) \/ RemoveStaging(c)
    BY <1>0, <1>5 DEF Upload, Copy, RemoveStaging, TypeOK
  <1>6. CASE ReserveRefused(c) \/ Replay(c) \/ Verify(c) \/ CreateFails(c)
    BY <1>0, <1>6 DEF ReserveRefused, Replay, Verify, CreateFails, TypeOK
  <1>7. CASE FailLoad(c) \/ FailSaveFails(c) \/ CutOff(c)
    BY <1>0, <1>7 DEF FailLoad, FailSaveFails, CutOff, TypeOK
  <1> QED BY <1>1, <1>2, <1>3, <1>4, <1>5, <1>6, <1>7 DEF CallStep, Ingest, Fail

LEMMA OthersSettled ==
  ASSUME NEW c \in Calls, OthersKept(c), NEW d \in Calls \ {c}, SettledCall(d), StagedCall(d)
  PROVE  SettledCall(d)' /\ StagedCall(d)'
  <1>1. /\ call'[d] = call[d] /\ process'[d] = process[d] /\ asset'[d] = asset[d]
        /\ job'[d] = job[d] /\ (d \in staging' <=> d \in staging)
        /\ Reserved(d) => keys'[KeyOf(d)] = keys[KeyOf(d)]
    BY DEF OthersKept
  <1>2. SettledCall(d)'
    BY <1>1 DEF SettledCall, Reserved, Exists, Submits, At, KeyOf
  <1>3. StagedCall(d)'
    BY <1>1 DEF StagedCall, Reserved, Submits
  <1> QED BY <1>2, <1>3

\* Once spoiled, a call stays so.
LEMMA SpoiledStays ==
  ASSUME TypeOK, NEW c \in Calls, CallStep(c), ~At(c, "new")
  PROVE  /\ call[c].spoiled => call'[c].spoiled
         /\ call'[c].scope = call[c].scope /\ call'[c].key = call[c].key
  <1> USE DEF TypeOK, CallStates, At, Goto, Spoil
  <1>1. CASE Arrivals(c)
    BY <1>1 DEF Arrivals, Arrive
  <1>2. CASE JobEnds(c)
    BY <1>2 DEF JobEnds
  <1>3. CASE Reserve(c) \/ ReserveRefused(c) \/ Replay(c)
    BY <1>3 DEF Reserve, ReserveUpload, ReserveRetry, ReserveRefused, Replay
  <1>4. CASE Upload(c) \/ Copy(c) \/ Verify(c) \/ RemoveStaging(c)
    BY <1>4 DEF Upload, Copy, Verify, RemoveStaging
  <1>5. CASE CreateJob(c) \/ CreateFails(c)
    BY <1>5 DEF CreateJob, CreateFirst, CreateRetry, Answer, CreateFails
  <1>6. CASE FailLoad(c) \/ FailSave(c) \/ FailSaveFails(c) \/ CutOff(c)
    BY <1>6 DEF FailLoad, FailSave, FailSaveFails, CutOff
  <1> QED BY <1>1, <1>2, <1>3, <1>4, <1>5, <1>6 DEF CallStep, Ingest, Fail

\* The call that takes the step.
LEMMA OwnSettled ==
  ASSUME IngestInv, SettledInv, NEW c \in Calls, CallStep(c)
  PROVE  SettledCall(c)' /\ StagedCall(c)'
  <1>0. /\ TypeOK /\ SettledCall(c) /\ StagedCall(c)
        /\ Reserved(c) => call[c].at \notin {"new", "claim"}
        /\ call[c].at \notin Ends \cup {"new", "claim"} => Reserved(c)
        /\ Exists(c) => Reserved(c)
    BY DEF IngestInv, SettledInv, ReservedInv
  <1> USE DEF TypeOK, CallStates, At, Goto, Spoil, Submits, Exists, Reserved, StagedCall, Ends
  <1>1. CASE Arrivals(c)
    <2>1. PICK scope, k, request : Arrive(c, scope, k, request)
      BY <1>1 DEF Arrivals
    <2>2. call'[c].at = "claim" /\ At(c, "new") /\ UNCHANGED <<process, staging>>
      BY <1>0, <2>1 DEF Arrive, NewCall
    <2>3. ~Reserved(c)'
      BY <1>0, <2>2
    <2>4. c \notin staging'
      BY <1>0, <2>2
    <2> QED BY <2>2, <2>3, <2>4 DEF SettledCall
  <1>2. CASE JobEnds(c)
    <2>1. Exists(c) /\ UNCHANGED <<call, keys, asset, staging>>
      BY <1>2 DEF JobEnds
    <2>2. Exists(c)' /\ Reserved(c)'
      BY <1>0, <1>2, <2>1 DEF JobEnds, JobRows
    <2>3. ~call[c].spoiled => call[c].at \notin {"upload", "copy", "verify", "create", "failLoad",
                                               "failSave", "failClean", "raised"}
      BY <1>0, <2>1 DEF SettledCall
    <2>4. SettledCall(c)'
      BY <2>1, <2>3 DEF SettledCall
    <2> QED BY <1>0, <2>1, <2>2, <2>4
  <1>3. CASE Reserve(c)
    <2>1. ~Exists(c) /\ process'[c] = "processing" /\ UNCHANGED <<job, staging>>
      BY <1>0, <1>3 DEF Reserve
    <2>2. CASE ReserveUpload(c)
      BY <1>0, <1>3, <2>1, <2>2 DEF ReserveUpload, SettledCall
    <2>3. CASE ReserveRetry(c)
      BY <1>0, <1>3, <2>1, <2>3 DEF ReserveRetry, SettledCall
    <2> QED BY <1>3, <2>2, <2>3 DEF Reserve
  <1>4. CASE ReserveRefused(c) \/ Replay(c)
    <2>1. ~Reserved(c)' /\ call'[c].at \in {"raised", "done"} /\ UNCHANGED staging
      BY <1>0, <1>4 DEF ReserveRefused, Replay
    <2>2. c \notin staging'
      BY <1>0, <1>4, <2>1 DEF ReserveRefused, Replay
    <2> QED BY <2>1, <2>2 DEF SettledCall
  <1>5. CASE Upload(c)
    BY <1>0, <1>5 DEF Upload, SettledCall
  <1>6. CASE Copy(c)
    BY <1>0, <1>6 DEF Copy, SettledCall
  <1>7. CASE Verify(c)
    BY <1>0, <1>7 DEF Verify, SettledCall
  <1>8. CASE CreateJob(c)
    BY <1>0, <1>8 DEF CreateJob, CreateFirst, CreateRetry, Answer, SettledCall
  <1>9. CASE CreateFails(c)
    BY <1>0, <1>9 DEF CreateFails, SettledCall
  <1>10. CASE RemoveStaging(c)
    BY <1>0, <1>10 DEF RemoveStaging, SettledCall, KeyOf
  <1>11. CASE FailLoad(c)
    BY <1>0, <1>11 DEF FailLoad, SettledCall
  <1>12. CASE FailSave(c)
    <2>1. KeyOf(c) \in Scopes \X Keys /\ KeyOf(c)' = KeyOf(c)
      BY <1>0, <1>12 DEF FailSave, IngestInv, ArrivedInv, KeyOf
    <2>2. keys'[KeyOf(c)].state = "failed"
      BY <1>0, <1>12, <2>1 DEF FailSave, Finalized, KeyRows
    <2> QED
      BY <1>0, <1>12, <2>1, <2>2 DEF FailSave, FailUpload, FailRetry, AfterFailSave, Rejected,
           SettledCall
  <1>13. CASE FailSaveFails(c)
    BY <1>0, <1>13 DEF FailSaveFails, AfterFailSave, SettledCall
  <1>14. CASE CutOff(c)
    BY <1>0, <1>14 DEF CutOff, SettledCall
  <1> QED BY <1>1, <1>2, <1>3, <1>4, <1>5, <1>6, <1>7, <1>8, <1>9, <1>10, <1>11, <1>12, <1>13,
             <1>14 DEF CallStep, Ingest, Fail

LEMMA KeysSettled ==
  ASSUME IngestInv, SettledInv, NEW c \in Calls, CallStep(c), NEW k \in Scopes \X Keys
  PROVE  SettledKey(k)'
  <1>0. TypeOK /\ SettledKey(k) /\ SettledCall(c) /\ OthersKept(c)
    BY StepKeepsOthers DEF IngestInv, SettledInv
  <1>1. \A d \in Calls \ {c} : KeyOf(d)' = KeyOf(d) /\ (Exists(d)' <=> Exists(d))
                               /\ call'[d].spoiled = call[d].spoiled
    BY <1>0 DEF OthersKept, KeyOf, Exists
  <1>2. Exists(c) => ~At(c, "new") /\ Reserved(c)
    BY DEF IngestInv, ReservedInv, At
  <1>3. ASSUME keys'[k] = keys[k], Exists(c)' => Exists(c)
        PROVE  SettledKey(k)'
    <2>1. Exists(c)' => KeyOf(c)' = KeyOf(c) /\ (call[c].spoiled => call'[c].spoiled)
      BY <1>0, <1>2, <1>3, SpoiledStays DEF KeyOf
    <2> QED BY <1>0, <1>1, <1>3, <2>1 DEF SettledKey
  <1>4. CASE CreateJob(c)
    <2>1. KeyOf(c)' = KeyOf(c) /\ KeyOf(c) \in Scopes \X Keys
      BY <1>0, <1>4, SpoiledStays DEF CreateJob, KeyOf, At, IngestInv, ArrivedInv
    <2>2. CASE k = KeyOf(c)
      <3>1. keys'[k].state = "completed" /\ keys'[k].job = c
        BY <1>0, <1>4, <2>1, <2>2 DEF CreateJob, Finalized, TypeOK, KeyRows
      <3> QED BY <3>1, NullAssumption DEF SettledKey
    <2>3. CASE k # KeyOf(c)
      <3>1. keys'[k] = keys[k]
        BY <1>0, <1>4, <2>3 DEF CreateJob, Finalized, TypeOK
      <3> QED BY <1>0, <1>1, <2>1, <2>3, <3>1 DEF SettledKey
    <2> QED BY <2>2, <2>3
  <1>5. CASE FailSave(c)
    <2>1. Exists(c)' <=> Exists(c)
      BY <1>5 DEF FailSave, Exists
    <2>2. Reserved(c) /\ KeyOf(c) \in Scopes \X Keys /\ ~At(c, "new")
      BY <1>5 DEF FailSave, IngestInv, ReservedInv, ArrivedInv, At, Ends
    <2>3. CASE k = KeyOf(c)
      <3>1. keys'[k].state = "failed"
        BY <1>0, <1>5, <2>3 DEF FailSave, Finalized, TypeOK, KeyRows
      <3>2. \A d \in Calls \ {c} : ~(Exists(d) /\ KeyOf(d) = k)
        <4> TAKE d \in Calls \ {c}
        <4>1. Exists(d) => Reserved(d)
          BY DEF IngestInv, ReservedInv
        <4> QED BY <2>2, <2>3, <4>1, KeysDistinct
      <3>3. Exists(c) => call[c].spoiled
        BY <1>0, <1>5, <2>2 DEF FailSave, SettledCall, At
      <3>4. call[c].spoiled => call'[c].spoiled
        BY <1>0, <2>2, SpoiledStays
      <3> QED BY <1>1, <2>1, <3>1, <3>2, <3>3, <3>4 DEF SettledKey
    <2>4. CASE k # KeyOf(c)
      <3>1. keys'[k] = keys[k]
        BY <1>0, <1>5, <2>4 DEF FailSave, Finalized, TypeOK
      <3> QED BY <1>3, <2>1, <3>1
    <2> QED BY <2>3, <2>4
  <1>6. CASE Reserve(c)
    <2>1. Exists(c)' <=> Exists(c)
      BY <1>6 DEF Reserve, Exists
    <2>2. CASE k = KeyOf(c)
      <3>1. keys'[k].state = "in_progress"
        BY <1>0, <1>6, <2>2 DEF Reserve, InProgress, TypeOK
      <3> QED BY <3>1 DEF SettledKey
    <2>3. CASE k # KeyOf(c)
      <3>1. keys'[k] = keys[k]
        BY <1>0, <1>6, <2>3 DEF Reserve, TypeOK
      <3> QED BY <1>3, <2>1, <3>1
    <2> QED BY <2>2, <2>3
  <1>7. CASE ~(CreateJob(c) \/ FailSave(c) \/ Reserve(c))
    <2>1. UNCHANGED keys
      BY <1>7 DEF CallStep, Arrivals, Arrive, Ingest, ReserveRefused, Replay, Upload, Copy,
           Verify,
                  CreateFails, RemoveStaging, Fail, FailLoad, FailSaveFails, CutOff, JobEnds
    <2>2. Exists(c)' => Exists(c)
      BY <1>7 DEF CallStep, Arrivals, Arrive, Ingest, ReserveRefused, Replay, Upload, Copy,
           Verify,
                  CreateFails, RemoveStaging, Fail, FailLoad, FailSaveFails, CutOff, JobEnds, Exists
    <2> QED BY <1>3, <2>1, <2>2
  <1> QED BY <1>4, <1>5, <1>6, <1>7

LEMMA SettledStep == IngestInv /\ SettledInv /\ [Next]_vars => SettledInv'
  <1> SUFFICES ASSUME IngestInv, SettledInv, [Next]_vars PROVE SettledInv'
    OBVIOUS
  <1>1. CASE UNCHANGED vars
    BY <1>1 DEF vars, SettledInv, SettledCall, StagedCall, SettledKey, Reserved, Exists, Submits,
         At, KeyOf
  <1>2. ASSUME NEW c \in Calls, CallStep(c)
        PROVE  SettledInv'
    <2>1. \A d \in Calls \ {c} : SettledCall(d)' /\ StagedCall(d)'
      BY <1>2, StepKeepsOthers, OthersSettled DEF SettledInv
    <2>2. SettledCall(c)' /\ StagedCall(c)'
      BY <1>2, OwnSettled
    <2>3. \A k \in Scopes \X Keys : SettledKey(k)'
      BY <1>2, KeysSettled
    <2> QED BY <2>1, <2>2, <2>3 DEF SettledInv
  <1> QED BY <1>1, <1>2 DEF Next, CallStep

\* What a call leaves of its reservation is as SettledInv says, at all times.
THEOREM SettledInvariant == Spec => []SettledInv
  <1>1. Init => SettledInv
    BY DEF Init, SettledInv, SettledCall, StagedCall, SettledKey, Reserved, Exists, NoJob,
         NewCall, NoKey
  <1> QED BY <1>1, SettledStep, IngestInvariant, PTL DEF Spec

\* A submission or a retry that raised after it reserved its key has said so
\* everywhere and left no upload behind, unless it was cut off, misinformed by
\* a store or unable to clean up; and a key tells of a job there is, or of none
\* (_fail_ingest, retry_job, finalize).
THEOREM FailuresAreSettled == Spec => []FailureSettled
  <1>1. IngestInv /\ SettledInv => FailureSettled
    <2> SUFFICES ASSUME IngestInv, SettledInv PROVE FailureSettled
      OBVIOUS
    <2>1. \A c \in Calls :
            At(c, "raised") /\ process[c] # "none" /\ ~call[c].spoiled =>
              /\ process[c] = "failed" /\ ~Exists(c) /\ c \notin staging
              /\ keys[KeyOf(c)].state = "failed"
              /\ Submits(c) => asset[c] = "rejected"
      BY DEF SettledInv, SettledCall, Reserved, At
    <2>2. \A k \in Scopes \X Keys :
            /\ keys[k].state = "completed" => keys[k].job # None /\ Exists(keys[k].job)
            /\ keys[k].state = "failed" =>
                 \A c \in Calls : KeyOf(c) = k /\ Exists(c) => call[c].spoiled
      BY DEF SettledInv, SettledKey, IngestInv, SnapshotInv
    <2> QED BY <2>1, <2>2 DEF FailureSettled
  <1> QED BY <1>1, IngestInvariant, SettledInvariant, PTL
=============================================================================
