--------------------------- MODULE MCBulkEnrollment --------------------------
(* Instances of GpuPipeline, with BulkEnrollment, for TLC. *)
EXTENDS GpuPipeline, TLC

CONSTANTS r1, r2, f1, f2

\* One subject with a chunk without an acceptable face and one with two, and
\* another with a face, and a chunk that cannot be decoded.
MCManifest == <<[face |-> f1, images |-> <<"y", "m", "a", "b">>],
                [face |-> f2, images |-> <<"x", "a", "y">>]>>
Pictures == {"a", "b", "m", "x", "y"}
MCKind == [i \in Pictures |->
             IF i = "x" THEN "none" ELSE IF i = "y" THEN "broken"
             ELSE IF i = "m" THEN "many" ELSE "single"]
Anchor(score, x1, y1, x2, y2) ==
  [score |-> score, box |-> [x1 |-> x1, y1 |-> y1, x2 |-> x2, y2 |-> y2], points |-> 0]
\* x has a face that is not sure enough, a one that two anchors see, b two faces
\* side by side, m three apart, of which two fit.
MCRaw == [i \in Pictures |->
  IF i = "x" THEN <<Anchor(3, 1, 1, 4, 4)>>
  ELSE IF i = "a" THEN <<Anchor(6, 3, 3, 6, 6), Anchor(9, 3, 3, 7, 7), Anchor(4, 0, 0, 9, 9)>>
  ELSE IF i = "b" THEN <<Anchor(8, 1, 1, 2, 2), Anchor(7, 4, 1, 5, 2)>>
  ELSE IF i = "m" THEN <<Anchor(7, 0, 0, 1, 1), Anchor(7, 9, 9, 10, 10), Anchor(8, 0, 9, 1, 10)>>
  ELSE <<>>]
RunSymmetry == Permutations(Runs)
=============================================================================
