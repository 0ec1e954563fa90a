---------------------------- MODULE MCLabTracks ----------------------------
(* A video of a few frames with up to two of two people and a stranger that  *)
(* looks like either, clear or blurred.                                      *)
EXTENDS LabTracks

Face(score, vec, quality) == [score |-> score, vec |-> vec, quality |-> quality, eligible |-> TRUE]

Ann == Face("new", 0, 2)
Bob == Face("new", 900, 1)
Between == Face("high", 450, 3)
Blurred == Face("low", NoVector, 1)
Small == [Ann EXCEPT !.eligible = FALSE]

SomeScenes == {<<>>, <<Ann, Bob>>, <<Between, Small>>, <<Bob, Blurred>>}
=============================================================================
