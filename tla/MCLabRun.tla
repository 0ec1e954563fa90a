------------------------------ MODULE MCLabRun ------------------------------
(* Two terminals in one run directory.                                       *)
EXTENDS LabRun, TLC

CONSTANTS p1, p2

TwoProcs == {p1, p2}
ProcSymmetry == Permutations(TwoProcs)
=============================================================================
