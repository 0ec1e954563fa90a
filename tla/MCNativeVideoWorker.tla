------------------------ MODULE MCNativeVideoWorker ------------------------
(* Small videos for VideoBundle: a person who moves and is joined by   *)
(* another, a buffer whose list is not in presentation order, a time stamp   *)
(* that is not known and one that goes back, a video without a face, and one      *)
(* whose surfaces change their color format inside a batch.                  *)
EXTENDS VideoBundle

LOCAL Face2(x, score, vec) == [x |-> x, score |-> score, vec |-> vec, finite |-> TRUE]
LOCAL Frame(num, pts, faces) ==
    [num |-> num, pts |-> pts, fmt |-> "nv12", usable |-> TRUE, faces |-> faces]

Meeting == << <<Frame(0, 0, <<Face2(10, 2, 0)>>),
                Frame(1, 1, <<Face2(13, 2, 12), Face2(11, 3, 24)>>)>>,
              <<Frame(2, 2, <<Face2(12, 3, 36), Face2(15, 1, 48), Face2(30, 1, 0)>>)>> >>
Shuffled == << <<Frame(1, 1, <<Face2(12, 1, 12)>>), Frame(0, 0, <<Face2(10, 1, 0)>>)>>,
               <<[Frame(2, 2, <<Face2(13, 5, 24)>>) EXCEPT !.usable = FALSE],
                 Frame(3, 2, <<[Face2(9, 9, 0) EXCEPT !.finite = FALSE],
                               Face2(14, 1, 36)>>)>> >>
Regressing == << <<Frame(0, 3, <<Face2(10, 1, 0)>>)>>, <<Frame(1, -1, <<Face2(10, 2, 12)>>)>>,
                 <<Frame(2, 1, <<Face2(20, 1, 24)>>), Frame(3, 4, <<>>)>>,
                 <<Frame(4, 2, <<Face2(10, 1, 0)>>)>> >>
Nobody == << <<Frame(0, 0, <<>>), Frame(1, 1, <<>>)>>, <<Frame(2, 2, <<>>)>> >>

Mixed == << <<Frame(0, 0, <<Face2(10, 1, 0)>>), Frame(1, 1, <<Face2(10, 2, 12)>>)>>,
            <<Frame(2, 2, <<>>), [Frame(3, 3, <<Face2(10, 3, 24)>>) EXCEPT !.fmt = "rgba"]>>,
            <<[Frame(4, 4, <<Face2(11, 1, 0)>>) EXCEPT !.fmt = "rgba"]>> >>

MCVideos == {Meeting, Shuffled, Regressing, Nobody, Mixed}
MCLimits == {0, 2, 3}
=============================================================================
