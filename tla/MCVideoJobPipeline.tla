------------------------- MODULE MCVideoJobPipeline --------------------------
(* Instances of VideoJobPipeline for TLC. *)
EXTENDS VideoJobPipeline, TLC

CONSTANTS j1, w1, w2, t1, t2, t3, c1, c2

MCNames == {"worker-unknown"}
MCNameOf == [w \in Workers |-> "worker-unknown"]

\* Workers, tokens and cancel calls are interchangeable.
MCSymmetry == Permutations(Workers) \cup Permutations(Tokens) \cup Permutations(Requests)
=============================================================================
