---------------------------- MODULE MCVideoTracks ----------------------------
(* Three people in four frames: one who stays, one who is like him and comes *)
(* near, one who is not and jumps.  Up to two of them are seen in a frame,   *)
(* the first frame at time 0 or later, the third a while after the second.   *)
EXTENDS VideoTracks

LOCAL Seen(x, vec, key) ==
    [x |-> x, vec |-> vec, quality |-> x % 3, key |-> key, eligible |-> TRUE]
LOCAL Stays   == Seen(0, 100, 1)
LOCAL Alike   == Seen(3, 130, 1)
LOCAL Other   == Seen(20, 600, 2)
LOCAL Moved   == Seen(60, 600, 2)
LOCAL Unknown == [Seen(40, NoVector, 3) EXCEPT !.eligible = TRUE]
LOCAL Faces == {<<>>, <<Stays>>, <<Moved>>, <<Stays, Alike>>, <<Alike, Other>>}

LOCAL Templates == 1 :> [crop |-> TRUE, quality |-> 1, count |-> 3] @@ 2 :> [crop |-> TRUE, quality |-> 2, count |-> 3]
                   @@ 3 :> [crop |-> FALSE, quality |-> 0, count |-> 1]
LOCAL Times == {<<0, 4, 13, 16>>, <<2, 4, 13, 16>>}
LOCAL Clip(seen, times) ==
    [i \in 1..4 |-> [index |-> i - 1, pts |-> times[i], faces |-> seen[i]]]

MCVideos ==
    {[frames |-> Clip(seen, times), templates |-> Templates] :
        seen \in [1..4 -> Faces], times \in Times}
    \cup {[frames |-> Clip(<< <<Unknown>>, <<>>, <<>>, <<Stays>> >>, <<0, 4, 13, 16>>), templates |-> t] :
             t \in {Templates, 3 :> [crop |-> TRUE, quality |-> 0, count |-> 1] @@ Templates}}
MCModes == {[kind |-> "every_frame", n |-> 0], [kind |-> "every_n_frames", n |-> 2],
            [kind |-> "frames_per_second", n |-> 3]}
MCGalleries == {{}, {[face |-> 1, vec |-> 100]},
                {[face |-> 1, vec |-> 110], [face |-> 2, vec |-> 600]}}
=============================================================================
