--------------------------- MODULE MCImageRuntime ---------------------------
EXTENDS ImageRuntime, TLC

CONSTANTS pair, crowd, broken, empty, a1, a2, a3, a4

Boxed(scores, boxes) == [score |-> scores, box |-> boxes]

\* Two faces that overlap a third one, two of them equally good; and three faces
\* apart, of which two are equally good, beside a candidate at the threshold.
MCPicture ==
  pair :> Boxed(a1 :> 2 @@ a2 :> 2 @@ a3 :> 3 @@ a4 :> 0,
                a1 :> {1, 2} @@ a2 :> {2, 3} @@ a3 :> {} @@ a4 :> {5})
  @@ crowd :> Boxed(a1 :> 3 @@ a2 :> 2 @@ a3 :> 2 @@ a4 :> 1,
                    a1 :> {1} @@ a2 :> {2} @@ a3 :> {3} @@ a4 :> {4})
=============================================================================
