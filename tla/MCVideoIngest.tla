---------------------------- MODULE MCVideoIngest ----------------------------
(* Small instances of VideoIngest for TLC.                                 *)
EXTENDS VideoIngest, TLC

CONSTANTS c1, c2, c3, k1, k2, k3, x1, x2

MCSymmetry == Permutations(Calls) \cup Permutations(RetryKeys) \cup Permutations(Contents)
=============================================================================
