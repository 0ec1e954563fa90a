-------------------------- MODULE MCIdentityStorage --------------------------
(* A small instance of IdentityStorage for TLC: one face with one sample is *)
(* there from before, one more of each may be made.                         *)
EXTENDS IdentityStorage, TLC

CONSTANTS c1, c2, c3, f1, f2, s1, s2

OneOld == {f1}
OneOldSample == f1 :> s1
AllOps == Operations

\* Calls are interchangeable, and so are faces and samples nobody has yet.
FreshSymmetry == Permutations(Calls) \cup Permutations(Faces \ OldFaces) \cup
                 Permutations(Samples \ {OldSample[f] : f \in OldFaces})
=============================================================================
