----------------------------- MODULE ImageRuntime -----------------------------
(***************************************************************************)
(* The native image runtime: a pool of execution slots that Python threads *)
(* share (bindings.cpp), and the inference of one picture on a slot        *)
(* (pipeline.cpp), called through NativeImageRecognitionAdapter.           *)
(*                                                                         *)
(* A call is made with the Python interpreter's lock (the GIL).  It is     *)
(* given up for the inference only: acquire_slot waits for a slot, and     *)
(* release_slot gives one back, while the caller holds it.                 *)
(*                                                                         *)
(* A slot's buffers hold one chunk of faces: "host" says which picture's   *)
(* which face the embedding and the crop at each position were made from.  *)
(***************************************************************************)
EXTENDS FaceDetection

CONSTANTS
  Callers,     \* threads of the default executor
  Slots,       \* context_pool_size of them
  Pictures,    \* names of the byte strings that are passed in
  Picture,     \* what nvJPEG and the detector make of each
  Empty,       \* the empty byte string
  Corrupt,     \* byte strings that are no JPEG
  MaxFaces,    \* the recognizer's largest batch
  Nobody

Faced == Pictures \ (Corrupt \cup {Empty})

ASSUME RuntimeAssumption ==
  /\ MaxFaces \in Nat \ {0}
  /\ Slots # {} /\ Nobody \notin Callers \cup Slots
  /\ Empty \in Pictures /\ Corrupt \subseteq Pictures
  /\ \A p \in Faced :
       /\ IsFiniteSet(Anchors(Picture[p]))
       /\ Picture[p].score \in [Anchors(Picture[p]) -> Nat]

VARIABLES
  runtime,   \* "absent", "ready" or "refused" (the constructor raised)
  slot,      \* the State of each ExecutionSlot
  gil,       \* the thread that holds the interpreter's lock
  call,      \* the state of each thread's call
  host       \* h_embeddings_ and h_aligned_crops_ of each slot

vars == <<runtime, slot, gil, call, host>>

\* A call that is not under way; "outcome" and "result" are the last one's.
Idle(outcome, picture, result) ==
  [at |-> "idle", picture |-> picture, slot |-> Nobody, todo |-> {}, cands |-> <<>>,
   found |-> <<>>, start |-> 0, size |-> 0, outcome |-> outcome, result |-> result]

\* The slot of a failed or finished call whose thread must take the GIL again.
Finish(c, outcome) == call' = [call EXCEPT ![c].at = "unwind", ![c].outcome = outcome]

Init ==
  /\ runtime = "absent"
  /\ slot \in [Slots -> {"initialized", "unavailable"}]
  /\ gil = Nobody
  /\ call = [c \in Callers |-> Idle("none", Empty, <<>>)]
  /\ host = [s \in Slots |-> <<>>]

-----------------------------------------------------------------------------
(* bindings.cpp                                                            *)

\* ImageRuntime(): one slot that is not available refuses the whole runtime.
Construct ==
  /\ runtime = "absent"
  /\ runtime' = IF \A s \in Slots : slot[s] = "initialized" THEN "ready" ELSE "refused"
  /\ UNCHANGED <<slot, gil, call, host>>

\* detect_and_embed: run_in_executor hands the picture to a thread.
Submit(c, p) ==
  /\ runtime = "ready" /\ call[c].at = "idle"
  /\ call' = [call EXCEPT ![c] = [Idle("none", p, <<>>) EXCEPT !.at = "queued"]]
  /\ UNCHANGED <<runtime, slot, gil, host>>

\* infer_jpeg up to acquire_slot, with the GIL.
Enter(c) ==
  /\ call[c].at = "queued" /\ gil = Nobody
  /\ IF call[c].picture = Empty
     THEN /\ call' = [call EXCEPT ![c] = Idle("EMPTY_IMAGE", Empty, <<>>)]
          /\ UNCHANGED gil
     ELSE /\ call' = [call EXCEPT ![c].at = "acquire"]
          /\ gil' = c
  /\ UNCHANGED <<runtime, slot, host>>

Available == {s \in Slots : slot[s] = "initialized"}
Taken(s) == [slot EXCEPT ![s] = "in_use"]

(***************************************************************************)
(* acquire_slot takes the first slot that is available and goes on to the  *)
(* inference, which gives up the GIL; without one the thread waits on the  *)
(* condition variable, and the GIL stays with it.  A waiter that is woken  *)
(* looks again.                                                            *)
(***************************************************************************)
Acquire(c) ==
  /\ call[c].at \in {"acquire", "wait"}
  /\ \/ \E s \in Available :
          /\ slot' = Taken(s)
          /\ call' = [call EXCEPT ![c].at = "decode", ![c].slot = s]
          /\ gil' = Nobody
     \/ /\ Available = {} /\ call[c].at = "acquire"
        /\ call' = [call EXCEPT ![c].at = "wait"]
        /\ UNCHANGED <<slot, gil>>
  /\ UNCHANGED <<runtime, host>>

\* Mutant: cv_.wait, without a deadline.
NoDeadline(c) ==
  /\ call[c].at = "wait" /\ Available # {}
  /\ call' = [call EXCEPT ![c].at = "acquire"]
  /\ UNCHANGED <<runtime, slot, gil, host>>

\* wait_until reports the timeout: GPU_OVERLOADED, without another look.
Timeout(c) ==
  /\ call[c].at = "wait"
  /\ call' = [call EXCEPT ![c] = Idle("GPU_OVERLOADED", call[c].picture, <<>>)]
  /\ gil' = Nobody
  /\ UNCHANGED <<runtime, slot, host>>

\* Mutant: the slot is given back after the check of the result, not by a guard.
UnguardedUnwind(c) ==
  /\ call[c].at = "unwind" /\ gil = Nobody
  /\ slot' = IF call[c].outcome = "ok" THEN [slot EXCEPT ![call[c].slot] = "initialized"]
             ELSE slot
  /\ call' = [call EXCEPT ![c] = Idle(call[c].outcome, call[c].picture, call[c].result)]
  /\ UNCHANGED <<runtime, gil, host>>

(***************************************************************************)
(* The inference is over: gil_scoped_release takes the GIL, the result or  *)
(* the exception is made, and slot_guard gives the slot back either way.   *)
(***************************************************************************)
Unwind(c) ==
  /\ call[c].at = "unwind" /\ gil = Nobody
  /\ slot' = [slot EXCEPT ![call[c].slot] = "initialized"]
  /\ call' = [call EXCEPT ![c] =
       Idle(call[c].outcome, call[c].picture,
            IF call[c].outcome = "ok" THEN call[c].result ELSE <<>>)]
  /\ UNCHANGED <<runtime, gil, host>>

-----------------------------------------------------------------------------
(* pipeline.cpp                                                            *)

\* decode, preprocess and the detector: the anchors are there to be decoded.
Decode(c) ==
  /\ call[c].at = "decode"
  /\ IF call[c].picture \in Corrupt
     THEN Finish(c, "decode failed")
     ELSE call' = [call EXCEPT ![c].at = "threads",
                               ![c].todo = Decoded(Picture[call[c].picture])]
  /\ UNCHANGED <<runtime, slot, gil, host>>

\* The threads of the decode kernel add their candidates in any order.
Thread(c, a) ==
  /\ call[c].at = "threads" /\ a \in call[c].todo
  /\ call' = [call EXCEPT ![c].todo = @ \ {a}, ![c].cands = DecodeThread(@, a)]
  /\ UNCHANGED <<runtime, slot, gil, host>>

\* processFrame: no face is an answer of its own.
Detect(c) ==
  /\ call[c].at = "threads" /\ call[c].todo = {}
  /\ \E sorted \in {Argsort(Picture[call[c].picture], call[c].cands)} :
     \E kept \in {NMS(Picture[call[c].picture], sorted)} :
     \E found \in {Compact(sorted, kept)} :
       call' = [call EXCEPT ![c].found = found, ![c].cands = <<>>,
                            ![c].at = IF found = <<>> THEN "unwind" ELSE "chunk",
                            ![c].outcome = IF found = <<>> THEN "ok" ELSE "none"]
  /\ UNCHANGED <<runtime, slot, gil, host>>

ChunkSize(c) ==
  LET rest == Len(call[c].found) - call[c].start
  IN  IF rest < MaxFaces THEN rest ELSE MaxFaces

\* Mutant: the copy to the host is read before it has landed.
ReadTooEarly(buffer, written) == IF Len(buffer) < Len(written) THEN written ELSE buffer

\* What a buffer holds after its first positions have been written.
Overwritten(buffer, written) ==
  written \o SubSeq(buffer, Len(written) + 1, Len(buffer))

(***************************************************************************)
(* One chunk: landmarks up, transform, warp, recognizer, normalisation,    *)
(* and embeddings and crops down into the slot's host buffers, of which    *)
(* only the chunk's positions are written.                                 *)
(***************************************************************************)
Recognize(c) ==
  /\ call[c].at = "chunk"
  /\ LET s == call[c].slot
         faces == SubSeq(call[c].found, call[c].start + 1, call[c].start + ChunkSize(c))
     IN  host' = [host EXCEPT ![s] = Overwritten(@,
                    [i \in DOMAIN faces |-> <<call[c].picture, faces[i]>>])]
  /\ call' = [call EXCEPT ![c].at = "copy", ![c].size = ChunkSize(c)]
  /\ UNCHANGED <<runtime, slot, gil>>

\* The observation of position i of the chunk, out of the host buffers.
Observation(c, i) ==
  [index |-> call[c].start + i - 1,
   face  |-> call[c].found[call[c].start + i],
   from  |-> host[call[c].slot][i]]

Observe(c) ==
  /\ call[c].at = "copy"
  /\ LET next == call[c].start + MaxFaces
         last == next >= Len(call[c].found)
     IN  call' = [call EXCEPT
           ![c].result = @ \o [i \in 1 .. call[c].size |-> Observation(c, i)],
           ![c].start = next,
           ![c].at = IF last THEN "unwind" ELSE "chunk",
           ![c].outcome = IF last THEN "ok" ELSE "none"]
  /\ UNCHANGED <<runtime, slot, gil, host>>

(***************************************************************************)
(* Anything in between fails: a CUDA call, the detector, the transform of  *)
(* a degenerate face, a norm that is not finite, the WebP encoder.         *)
(***************************************************************************)
Fail(c) ==
  /\ call[c].at \in {"decode", "threads", "chunk", "copy"}
  /\ Finish(c, "failed")
  /\ UNCHANGED <<runtime, slot, gil, host>>

-----------------------------------------------------------------------------
Work(c) ==
  \/ Decode(c) \/ Detect(c) \/ Recognize(c) \/ Observe(c)
  \/ \E a \in call[c].todo : Thread(c, a)

Step(c) ==
  \/ Enter(c) \/ Acquire(c) \/ Timeout(c) \/ Unwind(c)
  \/ Work(c) \/ Fail(c)

Next ==
  \/ Construct
  \/ \E c \in Callers : Step(c) \/ \E p \in Pictures : Submit(c, p)

Spec == Init /\ [][Next]_vars

(***************************************************************************)
(* Threads run.  A thread that wants the GIL gets it in the end, however   *)
(* often others take it first: CPython's ticket to a waiting thread (the   *)
(* switch interval).  The deadline of wait_until passes.                   *)
(***************************************************************************)
Fairness ==
  \A c \in Callers :
    /\ SF_vars(Enter(c) \/ Unwind(c))
    /\ WF_vars(Acquire(c) \/ Timeout(c) \/ Work(c))

FairSpec == Spec /\ Fairness

-----------------------------------------------------------------------------
Waiting(c) == call[c].at \in {"acquire", "wait"}
Inferring(c) == call[c].at \in {"decode", "threads", "chunk", "copy", "unwind"}

TypeOK ==
  /\ runtime \in {"absent", "ready", "refused"}
  /\ slot \in [Slots -> {"initialized", "unavailable", "in_use"}]
  /\ gil \in Callers \cup {Nobody}
  /\ \A c \in Callers :
       /\ call[c].at \in {"idle", "queued", "acquire", "wait", "decode", "threads",
                          "chunk", "copy", "unwind"}
       /\ call[c].picture \in Pictures
       /\ call[c].slot \in Slots \cup {Nobody}
       /\ Len(call[c].cands) <= MaxCandidates
  /\ \A s \in Slots : Len(host[s]) <= MaxFaces

(***************************************************************************)
(* A slot is in use exactly while one call infers on it, whatever failed   *)
(* or timed out before: none is lost and none is shared.                   *)
(***************************************************************************)
SlotsAccounted ==
  runtime = "ready" =>
    /\ \A c \in Callers : Inferring(c) <=> call[c].slot # Nobody
    /\ \A s \in Slots : slot[s] = "in_use" <=> \E c \in Callers : call[c].slot = s
    /\ \A c, d \in Callers : c # d /\ Inferring(c) /\ Inferring(d) => call[c].slot # call[d].slot

(***************************************************************************)
(* An answer is the caller's own: good detections of its picture, numbered *)
(* in order, each with the embedding and the crop of that very face, over  *)
(* as many chunks as it takes and in buffers other calls have used.        *)
(***************************************************************************)
ResultIsOwn ==
  \A c \in Callers : call[c].at = "idle" /\ call[c].outcome = "ok" =>
    LET p == call[c].picture
        r == call[c].result
    IN  /\ GoodDetections(Picture[p], [i \in DOMAIN r |-> r[i].face])
        /\ \A i \in DOMAIN r : r[i].index = i - 1 /\ r[i].from = <<p, r[i].face>>

(***************************************************************************)
(* Every call comes back with an answer or an error, although callers hold *)
(* the GIL while they wait for a slot.                                     *)
(***************************************************************************)
CallsReturn == \A c \in Callers : (call[c].at # "idle") ~> (call[c].at = "idle")
=============================================================================
