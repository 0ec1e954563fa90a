--------------------------- MODULE MCVideoJobQueue ---------------------------
(* Instances of VideoJobQueue for TLC. *)
EXTENDS VideoJobQueue, TLC

CONSTANTS j1, j2, w1, w2, t1, t2

\* The names of workers started without WORKER_ID: all the same.
MCNames == {"worker-unknown"}
MCNameOf == [w \in Workers |-> "worker-unknown"]
MCWorkStages == {"decode_infer"}
=============================================================================
