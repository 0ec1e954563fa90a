---------------------------- MODULE FaceDetection ----------------------------
(***************************************************************************)
(* The post-processing of the face detector, which the image runtime and   *)
(* the video worker share: the GPU kernels that turn one picture's anchors *)
(* into a list of faces (src/backend/native/image_runtime/src/kernels and  *)
(* retinaface_postproc.cpp).                                               *)
(*                                                                         *)
(* A picture is a record of its anchors' scores and boxes.  A box is the   *)
(* set of the cells it covers: two boxes overlap by more than the          *)
(* threshold when they share a cell, and a box without a cell has no area. *)
(* Scores are small integers, the confidence threshold one of them.        *)
(***************************************************************************)
EXTENDS Ordering, SequencesExt

CONSTANTS
  MaxCandidates,   \* profile.detector_max_candidates
  ConfThreshold    \* profile.detector_conf_threshold

ASSUME DetectionAssumption == MaxCandidates \in Nat \ {0} /\ ConfThreshold \in Nat

Anchors(picture) == DOMAIN picture.score
Overlap(b, c) == b \cap c # {}
Degenerate(b) == b = {}

\* retinaface_decode_batch_kernel returns below the threshold, and only below.
Decoded(picture) == {a \in Anchors(picture) : picture.score[a] >= ConfThreshold}

(***************************************************************************)
(* One thread of the decode kernel: atomicAdd gives the anchor the next    *)
(* position, and a position beyond the buffer is dropped.  "slots" are the *)
(* candidates written so far; the counter goes on counting.                *)
(***************************************************************************)
DecodeThread(slots, a) ==
  IF Len(slots) < MaxCandidates THEN Append(slots, a) ELSE slots

\* mergenvision_argsort_descending: by score, ties by position.
Argsort(picture, slots) ==
  LET score(i) == picture.score[slots[i]]
      before == [i \in DOMAIN slots |->
                   {j \in DOMAIN slots : score(j) > score(i) \/ (score(j) = score(i) /\ j < i)}]
  IN  [n \in DOMAIN slots |-> slots[AtPlace(before, n)]]

(***************************************************************************)
(* nms_exact_kernel: one thread scans the candidates by descending score.  *)
(* It stops at the first one that is not above the threshold, skips boxes  *)
(* without area, and keeps one that overlaps nothing kept before it.  The  *)
(* set it keeps is the only one of which this holds.                       *)
(***************************************************************************)
Scanned(picture, a) == picture.score[a] > ConfThreshold /\ ~Degenerate(picture.box[a])

NMS(picture, sorted) ==
  CHOOSE kept \in SUBSET ToSet(sorted) :
    \A i \in DOMAIN sorted :
      sorted[i] \in kept <=>
        /\ Scanned(picture, sorted[i])
        /\ \A j \in 1 .. (i - 1) :
             sorted[j] \in kept => ~Overlap(picture.box[sorted[i]], picture.box[sorted[j]])

\* scale_clip_compact_xy_kernel and processFrame: what is kept, in order.
Compact(sorted, kept) == Picked(sorted, {i \in DOMAIN sorted : sorted[i] \in kept})

(***************************************************************************)
(* What the detections of a picture should be, said without an order of    *)
(* threads: the faces above the threshold, best first, of which no two     *)
(* overlap and each one left out overlaps a face that is at least as good. *)
(***************************************************************************)
Faces(picture) == {a \in Anchors(picture) : Scanned(picture, a)}

GoodDetections(picture, found) ==
  LET taken == ToSet(found)
      clash(a, b) == Overlap(picture.box[a], picture.box[b])
  IN  /\ taken \subseteq Faces(picture)
      /\ IsInjective(found)
      /\ \A i, j \in DOMAIN found : i < j =>
           /\ picture.score[found[i]] >= picture.score[found[j]]
           /\ ~clash(found[i], found[j])
      /\ Cardinality(Decoded(picture)) <= MaxCandidates =>
           \A a \in Faces(picture) \ taken :
             \E b \in taken : clash(a, b) /\ picture.score[b] >= picture.score[a]
=============================================================================
