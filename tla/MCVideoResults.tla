---------------------------- MODULE MCVideoResults ---------------------------
(* Instances of VideoResults for TLC. *)
EXTENDS VideoResults, TLC

CONSTANTS f1, f2

\* Two tracks, one of them seen twice.
MCParts == <<2, 1>>

\* No header, another unit, and byte ranges around the ends of the video; a
\* negative end is what "bytes=--1" is read as.
MCHeaders ==
  {None, [unit |-> "items", first |-> 0, last |-> 1]}
    \cup [unit : {"bytes"}, first : {Blank, Junk, 0, 1, 4}, last : {Blank, -1, 0, 2, 4}]

MCSymmetry == Permutations({f1, f2})
=============================================================================
