---------------------------- MODULE VideoTracks ----------------------------
(***************************************************************************)
(* What the Python worker makes of the observations of a video             *)
(* (VideoProcessingService.process): it samples the frames, links the      *)
(* faces of successive frames into tracklets, merges tracklets into        *)
(* canonical tracks, picks a crop and an identity for every track, and      *)
(* writes the appearance intervals and the public overlay.                  *)
(*                                                                          *)
(* A face is a box on a line (its left edge x, all boxes Width wide), a     *)
(* vector a point of another line: the score of two vectors falls with      *)
(* their distance, and a mean lies between the vectors it is made of.       *)
(* Scores are thousandths.                                                  *)
(***************************************************************************)
EXTENDS Ordering, SequencesExt

CONSTANTS Videos,      \* sequences of observation frames, and the track templates
          Modes,       \* sampling modes of a job
          Galleries,   \* sets of points in the vector store at the start
          Width,       \* of a box
          MaxGap,      \* max_gap_frames of the tracker
          MinGap,      \* min_template_gap of the identity resolution
          MaxSamples,  \* max_template_samples
          Limit        \* candidate_limit

\* A face of a frame as the native worker recorded it, and a frame.
Observed == [x : Int, vec : Int, quality : Nat, key : Nat, eligible : BOOLEAN]
Frames == [index : Nat, pts : Int, faces : Seq(Observed)]

\* The faces 101 and on are those the resolution makes.
ASSUME TracksAssumption ==
    /\ \A v \in Videos : /\ v.frames \in Seq(Frames)
                         /\ \A i, j \in 1..Len(v.frames) :
                              i < j => v.frames[i].index < v.frames[j].index
    /\ \A mode \in Modes : mode.n \in Nat
    /\ \A g \in Galleries : IsFiniteSet(g) /\ \A p \in g : p.face \in 1..100
    /\ Width \in Nat \ {0} /\ MaxGap \in Nat /\ MinGap \in Nat
    /\ MaxSamples \in Nat \ {0} /\ Limit \in Nat \ {0}

VARIABLES
    video,      \* the observations of the native worker
    phase,      \* sample, track, merge, crop, resolve, overlay, done, failed
    frames,     \* the frames sampled
    next,       \* the frame, tracklet or track the phase is at
    active,     \* tracklets still looked for
    closed,     \* tracklets that are lost
    tracks,     \* canonical tracks, in the order they were made
    crops,      \* the raw track key whose crop stands for each track
    outcomes,   \* identity outcomes, one per track
    gallery,    \* points of the vector store
    overlay     \* records of the public overlay

tracksVars == <<video, phase, frames, next, active, closed, tracks, crops, outcomes,
                gallery, overlay>>

NoVector == -1
Distance(a, b) == IF a < b THEN b - a ELSE a - b

-----------------------------------------------------------------------------
(* Reading: read_observation_frames *)

\* Every message of the file is taken for a frame.  The footer has a job id
\* and a count where a frame has a job id and a stream index: it parses as a
\* frame of number and time 0 without a face.
FooterFrame == [index |-> 0, pts |-> 0, faces |-> <<>>]
ReadFrames == Append(video.frames, FooterFrame)

-----------------------------------------------------------------------------
(* Sampling: _subsample_frames *)

ByTime(all) == SortedBy(all, [i \in DOMAIN all |-> <<all[i].pts, all[i].index>>])

\* The frames at least a step after the last one kept.  The step is 1/fps: a
\* gap is long enough when it is fps times as long as a second.
Second == 12
Due(fps, kept, f) == IF kept = <<>> THEN f.pts >= 0
                     ELSE (f.pts - Last(kept).pts) * fps >= Second
KeepStep(fps, kept, f) == IF Due(fps, kept, f) THEN Append(kept, f) ELSE kept

KeptByTime(fps, sorted) ==
    LET kept[n \in 0..Len(sorted)] ==
            IF n = 0 THEN <<>> ELSE KeepStep(fps, kept[n - 1], sorted[n])
    IN  kept[Len(sorted)]

Renumbered(kept) == [i \in 1..Len(kept) |-> [kept[i] EXCEPT !.index = i - 1]]

\* A mode without its number is every_frame.
Sampled(mode, all) ==
    LET sorted == ByTime(all)
    IN  IF mode.n = 0 THEN all
        ELSE IF mode.kind = "every_n_frames"
        THEN Renumbered(Picked(sorted, {i \in 1..Len(sorted) : sorted[i].index % mode.n = 0}))
        ELSE Renumbered(KeptByTime(mode.n, sorted))

-----------------------------------------------------------------------------
(* Tracking: VideoTrackingService.build_raw_tracklets *)

ByIndex(all) == SortedBy(all, [i \in DOMAIN all |-> <<all[i].index, all[i].pts>>])

Detection(f, d, n) == [frame |-> f.index, pts |-> f.pts, ordinal |-> n, x |-> d.x,
                       vec |-> d.vec, quality |-> d.quality, key |-> d.key]

Detections(f) ==
    LET eligible == Picked(f.faces, {i \in 1..Len(f.faces) : f.faces[i].eligible})
    IN  [i \in 1..Len(eligible) |-> Detection(f, eligible[i], i)]

\* _iou of two boxes of the same width, against iou_threshold = 0.3.
Inter(a, b) == IF Distance(a, b) >= Width THEN 0 ELSE Width - Distance(a, b)
Links(a, b) == 10 * Inter(a, b) >= 3 * (2 * Width - Inter(a, b))

Alive(t, f) == f.index - Last(t).frame - 1 <= MaxGap

\* The pairs <<tracklet, detection>> in reach, best overlap first.
Pairs(alive, dets) ==
    {p \in (1..Len(alive)) \X (1..Len(dets)) :
        Links(Last(alive[p[1]]).x, dets[p[2]].x)}
Gap(alive, dets, p) == Distance(Last(alive[p[1]]).x, dets[p[2]].x)
Before(alive, dets, p, q) ==
    \/ Gap(alive, dets, p) < Gap(alive, dets, q)
    \/ /\ Gap(alive, dets, p) = Gap(alive, dets, q)
       /\ p[1] < q[1] \/ (p[1] = q[1] /\ p[2] < q[2])
\* Mutant: a detection may continue two tracklets.
LooseClash(p, q) == p # q /\ p[1] = q[1]

Clash(p, q) == p # q /\ (p[1] = q[1] \/ p[2] = q[2])

\* The pairs taken in that order, a tracklet and a detection once each.
Matching(alive, dets) ==
    CHOOSE taken \in SUBSET Pairs(alive, dets) :
        \A p \in Pairs(alive, dets) :
            p \in taken <=> ~\E q \in taken : Clash(q, p) /\ Before(alive, dets, q, p)

\* The tracklets after a frame: those matched longer by a detection, the
\* others as they were, and a new one for every detection that is left.
Extended(alive, dets) ==
    LET taken == Matching(alive, dets)
        fresh == {d \in 1..Len(dets) : \A p \in taken : p[2] # d}
    IN  [i \in 1..Len(alive) |->
            IF \E d \in 1..Len(dets) : <<i, d>> \in taken
            THEN Append(alive[i], dets[CHOOSE d \in 1..Len(dets) : <<i, d>> \in taken])
            ELSE alive[i]]
        \o [n \in 1..Cardinality(fresh) |-> <<Picked(dets, fresh)[n]>>]

-----------------------------------------------------------------------------
(* Reconciliation: VideoReconciliationService.reconcile_tracklets *)

First(t) == Head(t).frame
End(t) == Last(t).frame

Total(numbers) ==
    LET sum[n \in 0..Len(numbers)] == IF n = 0 THEN 0 ELSE sum[n - 1] + numbers[n]
    IN  sum[Len(numbers)]
Mean(vectors) == Total(vectors) \div Len(vectors)
Representative(t) ==
    LET embedded == Picked(t, {i \in 1..Len(t) : t[i].vec # NoVector})
    IN  IF embedded = <<>> THEN NoVector
        ELSE Mean([i \in 1..Len(embedded) |-> embedded[i].vec])

\* _cosine_similarity; a tracklet without a vector is like nothing.
Score(u, v) == IF u = NoVector \/ v = NoVector THEN 0
               ELSE IF Distance(u, v) >= 1000 THEN 0 ELSE 1000 - Distance(u, v)
MergeThreshold == 600

\* Whether a tracklet of the track is seen together with this one.
Overlaps(track, t) ==
    \E i \in 1..Len(track.tracklets) :
        First(t) <= End(track.tracklets[i]) /\ First(track.tracklets[i]) <= End(t)

\* The tracks a tracklet may join: not seen with it, and alike.  The code also
\* looks for cannot_link_track_ids of the tracklet, which nothing ever sets.
Joinable(t) ==
    {i \in 1..Len(tracks) :
        ~Overlaps(tracks[i], t) /\ Score(Representative(t), tracks[i].rep) >= MergeThreshold}

\* The most alike, the oldest of equals.
Best(t) ==
    CHOOSE i \in Joinable(t) : \A j \in Joinable(t) :
        LET s == Score(Representative(t), tracks[i].rep)
            r == Score(Representative(t), tracks[j].rep)
        IN  s > r \/ (s = r /\ i <= j)

\* Tracks move halfway to the tracklet, however many they hold.
Enlarged(track, t) == [tracklets |-> Append(track.tracklets, t),
                     rep |-> Mean(<<track.rep, Representative(t)>>)]
NewTrack(t) == [tracklets |-> <<t>>, rep |-> Representative(t)]

\* Tracklets in the order they start; those that start together in the order
\* of their ordinal, which is that of their first faces in the frame.
Ordered(all) ==
    SortedBy(all, [i \in DOMAIN all |-> <<First(all[i]), Head(all[i]).ordinal>>])

\* _build_appearance_intervals: what touches or overlaps is one appearance.
Interval(t) == [start |-> First(t), end |-> End(t),
                from |-> Head(t).pts, to |-> Last(t).pts, count |-> Len(t)]
Larger(a, b) == IF a < b THEN b ELSE a

\* Mutant: an appearance is not joined with one that starts in the next frame.
MergedLate(done, i) ==
    IF done # <<>> /\ Last(done).end >= i.start
    THEN Append(Front(done), [Last(done) EXCEPT !.end = i.end, !.count = @ + i.count])
    ELSE Append(done, i)

Merged(done, i) ==
    IF done # <<>> /\ Last(done).end >= i.start - 1
    THEN Append(Front(done),
                [start |-> Last(done).start, end |-> Larger(Last(done).end, i.end),
                 from |-> Last(done).from, to |-> Larger(Last(done).to, i.to),
                 count |-> Last(done).count + i.count])
    ELSE Append(done, i)
Intervals(track) ==
    LET sorted == Ordered(track.tracklets)
        done[n \in 0..Len(sorted)] ==
            IF n = 0 THEN <<>> ELSE Merged(done[n - 1], Interval(sorted[n]))
    IN  done[Len(sorted)]

-----------------------------------------------------------------------------
(* Crops: NativeRepresentativeCropProvider.get_crop *)

Keys(track) == {d.key : d \in UNION {ToSet(track.tracklets[i]) : i \in 1..Len(track.tracklets)}}

\* The raw track with a crop first, then the best template, then the most
\* observed, then the first key.
Prefers(k, l) ==
    LET a == video.templates[k]  b == video.templates[l]
    IN  IF a.crop # b.crop THEN a.crop
        ELSE IF a.quality # b.quality THEN a.quality > b.quality
        ELSE a.count > b.count \/ (a.count = b.count /\ k <= l)
Known(track) == Keys(track) \cap DOMAIN video.templates
Chosen(track) == CHOOSE k \in Known(track) : \A l \in Known(track) : Prefers(k, l)

\* read_crop_bytes: the template names a crop, and its file is a picture.
Readable(k) == k \in DOMAIN video.templates /\ video.templates[k].crop
HasCrop(track) == Known(track) # {} /\ Readable(Chosen(track))

-----------------------------------------------------------------------------
(* Identities: VideoIdentityResolutionService.resolve *)

MatchThreshold == 950

\* The samples of a track: tracklet by tracklet, best quality first, MinGap
\* frames apart, MaxSamples at most.
Sample(selected, d) ==
    IF /\ d.vec # NoVector /\ Len(selected) < MaxSamples
       /\ \A i \in 1..Len(selected) : Distance(d.frame, selected[i].frame) >= MinGap
    THEN Append(selected, d) ELSE selected
BestFirst(t) == SortedBy(t, [k \in DOMAIN t |-> <<-t[k].quality, k>>])
Samples(track) ==
    FoldLeft(Sample, <<>>, FlattenSeq([i \in 1..Len(track.tracklets) |->
                                          BestFirst(track.tracklets[i])]))

\* _canonical_embedding: their mean weighted by quality, or the plain mean.
Weighted(s) ==
    LET total == Total([i \in 1..Len(s) |-> s[i].quality])
    IN  IF total = 0 THEN Mean([i \in 1..Len(s) |-> s[i].vec])
        ELSE Total([i \in 1..Len(s) |-> s[i].vec * s[i].quality]) \div total

\* The answers of the vector store: the nearest points, nearest first, equal
\* ones in any order.
Nearest(v) ==
    LET n == IF Cardinality(gallery) < Limit THEN Cardinality(gallery) ELSE Limit
    IN  {c \in [1..n -> gallery] :
            /\ \A i, j \in 1..n : i # j => c[i] # c[j]
            /\ \A i, j \in 1..n : i < j => Score(v, c[i].vec) >= Score(v, c[j].vec)
            /\ \A p \in gallery \ ToSet(c) : \A i \in 1..n :
                  Score(v, p.vec) <= Score(v, c[i].vec)}

\* The best is good enough and clearly better than the second.
Clear(v, cand) ==
    /\ cand # <<>> /\ Score(v, cand[1].vec) >= MatchThreshold
    /\ Len(cand) > 1 => 100 * Score(v, cand[2].vec) < 95 * Score(v, cand[1].vec)

Meet(a, b) == ~(a.end < b.start \/ b.end < a.start)

\* Mutant: the intervals are compared by their ends only.
BlockedAtEnd(face, track) ==
    \E o \in 1..Len(outcomes) :
        /\ outcomes[o].face = face
        /\ Last(Intervals(tracks[o])).end = Last(Intervals(track)).end

\* A face that is already given to a track seen at the same time.
Blocked(face, track) ==
    \E o \in 1..Len(outcomes) :
        /\ outcomes[o].face = face
        /\ \E a \in ToSet(Intervals(tracks[o])), b \in ToSet(Intervals(track)) : Meet(a, b)

\* The positions of the candidates _try_accept_candidate asks the lifecycle for.
Offers(v, cand, track) ==
    {i \in DOMAIN cand : /\ Clear(v, cand) /\ Score(v, cand[i].vec) >= MatchThreshold
                         /\ ~Blocked(cand[i].face, track)}

-----------------------------------------------------------------------------
TracksInit ==
    /\ video \in Videos /\ gallery \in Galleries
    /\ phase = "sample" /\ frames = <<>> /\ next = 1
    /\ active = <<>> /\ closed = <<>> /\ tracks = <<>>
    /\ crops = <<>> /\ outcomes = <<>> /\ overlay = <<>>

SampleFrames ==
    /\ phase = "sample"
    /\ \E mode \in Modes :
        frames' = ByIndex(Sampled(mode, ReadFrames))
    /\ phase' = "track"
    /\ UNCHANGED <<video, next, active, closed, tracks, crops, outcomes, gallery, overlay>>

TrackFrame ==
    /\ phase = "track" /\ next <= Len(frames)
    /\ LET f == frames[next]
           alive == {i \in 1..Len(active) : Alive(active[i], f)}
       IN  /\ closed' = closed \o Picked(active, (1..Len(active)) \ alive)
           /\ active' = Extended(Picked(active, alive), Detections(f))
    /\ next' = next + 1
    /\ UNCHANGED <<video, phase, frames, tracks, crops, outcomes, gallery, overlay>>

\* Tracking hands the tracklets on by their ordinal, the merge takes them by
\* their start: one order, because ordinals are given frame after frame.
CloseTracklets ==
    /\ phase = "track" /\ next > Len(frames)
    /\ closed' = Ordered(closed \o active) /\ active' = <<>>
    /\ phase' = "merge" /\ next' = 1
    /\ UNCHANGED <<video, frames, tracks, crops, outcomes, gallery, overlay>>

MergeTracklet ==
    /\ phase = "merge" /\ next <= Len(closed)
    /\ LET t == closed[next]
       IN  tracks' = IF Joinable(t) = {} THEN Append(tracks, NewTrack(t))
                     ELSE [tracks EXCEPT ![Best(t)] = Enlarged(@, t)]
    /\ next' = next + 1
    /\ UNCHANGED <<video, phase, frames, active, closed, crops, outcomes, gallery, overlay>>

\* The crop of every track is read before the first one is resolved; a track
\* without one fails the attempt.
TakeCrops ==
    /\ phase = "merge" /\ next > Len(closed)
    /\ IF \A i \in 1..Len(tracks) : HasCrop(tracks[i])
       THEN /\ crops' = [i \in 1..Len(tracks) |-> Chosen(tracks[i])]
            /\ phase' = "resolve"
       ELSE phase' = "failed" /\ UNCHANGED crops
    /\ next' = 1
    /\ UNCHANGED <<video, frames, active, closed, tracks, outcomes, gallery, overlay>>

\* One track: the first candidate the lifecycle accepts (it may refuse any of
\* them), or a new identity whose sample the next tracks are compared with.
ResolveTrack ==
    /\ phase = "resolve" /\ next <= Len(tracks)
    /\ LET track == tracks[next]
           samples == Samples(track)
           v == Weighted(samples)
       IN  IF samples = <<>>
           THEN phase' = "failed" /\ UNCHANGED <<next, outcomes, gallery>>
           ELSE \E cand \in Nearest(v), refused \in SUBSET {p.face : p \in gallery} :
                /\ LET offers == {i \in Offers(v, cand, track) : cand[i].face \notin refused}
                       first == CHOOSE i \in offers : \A k \in offers : i <= k
                       fresh == 100 + next
                   IN  IF offers # {}
                       THEN /\ outcomes' = Append(outcomes, [face |-> cand[first].face, new |-> FALSE])
                            /\ UNCHANGED gallery
                       ELSE /\ outcomes' = Append(outcomes, [face |-> fresh, new |-> TRUE])
                            /\ gallery' = gallery \cup {[face |-> fresh, vec |-> v]}
                /\ next' = next + 1 /\ UNCHANGED phase
    /\ UNCHANGED <<video, frames, active, closed, tracks, crops, overlay>>

\* The lifecycle cannot store the new identity: what the tracks before this
\* one got stays.
ResolveFails ==
    /\ phase = "resolve" /\ next <= Len(tracks)
    /\ phase' = "failed"
    /\ UNCHANGED <<video, frames, next, active, closed, tracks, crops, outcomes, gallery,
                   overlay>>

\* write_public_overlay: a record for every frame with a detection, its time
\* that of the first one met.
Shown(i) ==
    FlattenSeq([t \in 1..Len(tracks[i].tracklets) |->
        [d \in 1..Len(tracks[i].tracklets[t]) |->
            [frame |-> tracks[i].tracklets[t][d].frame, pts |-> tracks[i].tracklets[t][d].pts,
             track |-> i, face |-> outcomes[i].face]]])

WriteOverlay ==
    /\ phase = "resolve" /\ next > Len(tracks)
    /\ LET shown == FlattenSeq([i \in 1..Len(tracks) |-> Shown(i)])
           Of(f) == SelectSeq(shown, LAMBDA s : s.frame = f)
           sorted == SetToSortSeq({s.frame : s \in ToSet(shown)}, <)
       IN  overlay' = [n \in 1..Len(sorted) |->
               [frame |-> sorted[n], pts |-> Head(Of(sorted[n])).pts,
                faces |-> Of(sorted[n])]]
    /\ phase' = "done"
    /\ UNCHANGED <<video, frames, next, active, closed, tracks, crops, outcomes, gallery>>

\* read_overlay_frames: the chunk is skipped when its first and last record
\* are outside the window, then the records are.
ReadOverlay(from, to) ==
    IF overlay = <<>> \/ Head(overlay).pts > to \/ Last(overlay).pts < from THEN <<>>
    ELSE SelectSeq(overlay, LAMBDA r : from <= r.pts /\ r.pts <= to)

Stop == phase \in {"done", "failed"} /\ UNCHANGED tracksVars

TracksNext == \/ SampleFrames \/ TrackFrame \/ CloseTracklets \/ MergeTracklet
              \/ TakeCrops \/ ResolveTrack \/ ResolveFails \/ WriteOverlay \/ Stop

TracksSpec == TracksInit /\ [][TracksNext]_tracksVars

-----------------------------------------------------------------------------
(* Properties *)

Rising(t) == \A i \in 2..Len(t) : /\ t[i - 1].frame < t[i].frame
                                  /\ t[i].frame - t[i - 1].frame - 1 <= MaxGap
AllTracklets == closed \o active

\* Every face of a sampled frame that may be tracked is in one tracklet, once;
\* a tracklet has a face of a frame at most and no gap above max_gap_frames,
\* and so has a canonical track however its tracklets were merged
\* (build_raw_tracklets, _overlaps).
FacesTrackedOnce ==
    /\ \A i \in 1..Len(AllTracklets) : Rising(AllTracklets[i])
    /\ phase # "sample" =>
        \A n \in 1..Len(frames) : \A d \in ToSet(Detections(frames[n])) :
            (phase # "track" \/ n < next) =>
                Cardinality({i \in 1..Len(AllTracklets) : d \in ToSet(AllTracklets[i])}) = 1
    /\ \A i \in 1..Len(tracks) :
        LET parts == tracks[i].tracklets
        IN  \A k, l \in 1..Len(parts) : \A a \in 1..Len(parts[k]), b \in 1..Len(parts[l]) :
                <<k, a>> # <<l, b>> => parts[k][a].frame # parts[l][b].frame

\* Nobody is in two places at once: two tracks that get the same face are
\* never seen in one frame (_blocked, _try_accept_candidate).
FramesOf(track) ==
    {d.frame : d \in UNION {ToSet(track.tracklets[k]) : k \in 1..Len(track.tracklets)}}
OnePlaceAtOnce ==
    \A i, j \in 1..Len(outcomes) :
        i # j /\ outcomes[i].face = outcomes[j].face =>
            FramesOf(tracks[i]) \cap FramesOf(tracks[j]) = {}

\* The appearances of a track are apart and in order, count every face of it
\* once, and hold its first and last frame (_build_appearance_intervals); what
\* a reader of the overlay asks of a window is all of it, when time stamps
\* rise with the frame numbers (write_public_overlay, read_overlay_frames).
ResultsTell ==
    /\ \A i \in 1..Len(tracks) :
        LET parts == Intervals(tracks[i])
            all == FlattenSeq(tracks[i].tracklets)
        IN  /\ \A n \in 2..Len(parts) : parts[n - 1].end + 1 < parts[n].start
            /\ \A n \in 1..Len(parts) :
                 parts[n].count = Cardinality({k \in 1..Len(all) :
                                      all[k].frame \in parts[n].start..parts[n].end})
            /\ FoldLeft(LAMBDA s, p : s + p.count, 0, parts) = Len(all)
    /\ phase = "done" =>
        /\ FoldLeft(LAMBDA s, r : s + Len(r.faces), 0, overlay)
             = FoldLeft(LAMBDA s, t : s + Len(t), 0, closed)
        /\ (\A n \in 2..Len(frames) : frames[n - 1].pts <= frames[n].pts) =>
             \A from, to \in {frames[n].pts : n \in 1..Len(frames)} :
                {r.frame : r \in ToSet(ReadOverlay(from, to))}
                  = {d.frame : d \in {e \in UNION {ToSet(t) : t \in ToSet(closed)} :
                                          from <= e.pts /\ e.pts <= to}}
=============================================================================
