----------------------------- MODULE LabTracks -----------------------------
(***************************************************************************)
(* How the research lab makes persons of the faces of a frozen video:       *)
(* ByteTrackIoUTracker links the observations of successive frames into     *)
(* tracklets, build_tracklet_template picks the vectors that stand for a    *)
(* tracklet, reconcile_tracklets groups tracklets under cannot-link and     *)
(* complete-link rules, and aggregate_canonical_tracks gives every group    *)
(* its detections and its appearances.                                      *)
(*                                                                          *)
(* Boxes, their Kalman prediction and the association costs are abstracted  *)
(* to the pairs the assignment matches, which may be any.  A vector is a    *)
(* point of a line: the cosine of two falls with their distance, and a      *)
(* centroid lies between the vectors it is made of.  Cosines are            *)
(* thousandths, time stamps small numbers.                                  *)
(***************************************************************************)
EXTENDS Ordering, SequencesExt

CONSTANTS Scenes,         \* sequences of faces a frame may show
          Clock,          \* steps of the time stamp between two frames, which may be none
          MaxFrames,      \* frames of the video
          MaxLostFrames,  \* max_lost_frames of the tracker
          MaxLostNs,      \* max_lost_ns of the tracker
          MaxSelected,    \* max_selected_samples of a template
          MinSelected,    \* min_selected_samples of a template
          Separation      \* min_temporal_separation_ns of a template

\* A face a frame may show: its score starts a tracklet, is high, or is low.
Faces == [score : {"new", "high", "low"}, vec : Int, quality : Nat, eligible : BOOLEAN]

ASSUME LabTracksAssumption ==
    /\ Clock \subseteq Nat /\ MaxFrames \in Nat
    /\ MaxLostFrames \in Nat /\ MaxLostNs \in Nat
    /\ Scenes \subseteq Seq(Faces)
    /\ MaxSelected \in Nat \ {0} /\ MinSelected \in Nat \ {0} /\ Separation \in Nat

VARIABLES
    phase,         \* track, templates, reconcile, aggregate, done
    frames,        \* the frame records: pts and scene_cut_before
    observations,  \* the face observations, in the order of their ids
    tracklets,     \* raw tracklets: what each has seen, and its state
    assignments,   \* pairs <<observation, tracklet>> the replay wrote
    templates,     \* one per tracklet
    clusters,      \* lists of tracklets
    tracks         \* canonical tracks, in the order of their ids

vars == <<phase, frames, observations, tracklets, assignments, templates,
          clusters, tracks>>

NoVector == -1
Cosine(u, v) == LET d == IF u < v THEN v - u ELSE u - v
                IN  IF d >= 1000 THEN 0 ELSE 1000 - d

Pts(o) == observations[o].pts
Vec(o) == observations[o].vec
Quality(o) == observations[o].quality
Frame(o) == observations[o].frame
Smallest(S) == CHOOSE n \in S : \A k \in S : n <= k
Largest(S) == CHOOSE n \in S : \A k \in S : n >= k

\* The members of a set in order, of which "before" says what comes before each.
Ranked(before) == [n \in 1..Cardinality(DOMAIN before) |-> AtPlace(before, n)]
\* A list that is put down once, element by element.
Listed(s) == <<>> \o s
Total(numbers) ==
    LET sum[n \in 0..Len(numbers)] == IF n = 0 THEN 0 ELSE sum[n - 1] + numbers[n]
    IN  sum[Len(numbers)]

Init ==
    /\ phase = "track"
    /\ frames = <<>> /\ observations = <<>>
    /\ tracklets = <<>> /\ assignments = {}
    /\ templates = <<>> /\ clusters = {} /\ tracks = <<>>

-----------------------------------------------------------------------------
(* Extraction and tracking: _make_observation, ByteTrackIoUTracker.update *)

\* Only an eligible face of a good score has a vector.
Observation(face, index, pts) ==
    [frame |-> index, pts |-> pts, eligible |-> face.eligible,
     score |-> face.score, quality |-> face.quality,
     vec |-> IF face.eligible /\ face.score # "low" THEN face.vec ELSE NoVector]

\* Mutant: a detection may continue two tracklets.
LooseMatchings(ts, dets) ==
    {pairs \in SUBSET (ts \X dets) : \A p, q \in pairs : p # q => p[1] # q[1]}

\* linear_assignment of the pairs that pass the gate, over any positions of
\* the boxes: any pairs in which no tracklet and no detection occurs twice.
Matchings(ts, dets) ==
    {pairs \in SUBSET (ts \X dets) :
        \A p, q \in pairs : p # q => p[1] # q[1] /\ p[2] # q[2]}
Matched(pairs) == {p[1] : p \in pairs}
Taken(pairs) == {p[2] : p \in pairs}

InState(ts, states) == {t \in DOMAIN ts : ts[t].state \in states}

\* _reset_all_tracklets and finalize
Closed(ts) == [t \in DOMAIN ts |-> [ts[t] EXCEPT !.state = "removed"]]

\* Tracklet.update, re_activate and mark_lost
Continued(ts, pairs) ==
    [t \in DOMAIN ts |->
        IF t \in Matched(pairs)
        THEN [seen |-> Append(ts[t].seen, CHOOSE o \in Taken(pairs) : <<t, o>> \in pairs),
              state |-> "tracked"]
        ELSE IF ts[t].state = "tracked" THEN [ts[t] EXCEPT !.state = "lost"] ELSE ts[t]]

\* A tracklet of its own for each of these observations, in their order.
Started(fresh) == [i \in 1..Cardinality(fresh) |->
    [seen |-> <<CHOOSE o \in fresh : Cardinality({n \in fresh : n <= o}) = i>>,
     state |-> "tracked"]]

\* Mutant: only the frames count.
TimedOutByFrames(last, index, pts) == index - last.frame > MaxLostFrames

\* Whether a tracklet last seen then is given up at this frame and time.
TimedOut(last, index, pts) ==
    \/ index - last.frame > MaxLostFrames
    \/ pts - last.pts > MaxLostNs

\* The tracklets a frame begins with: none goes on over a scene cut.
AtCut(cut, ts) == IF cut THEN Closed(ts) ELSE ts

Expired(all, ts, index, pts) ==
    [t \in DOMAIN ts |->
        IF ts[t].state = "lost" /\ TimedOut(all[Last(ts[t].seen)], index, pts)
        THEN [ts[t] EXCEPT !.state = "removed"] ELSE ts[t]]

\* One frame of the frozen run: lost tracklets take part in the association
\* before they time out, and only those still tracked meet the low scores.
Update(scene, step, cut) ==
    LET index == Len(frames)
        pts == IF frames = <<>> THEN 0 ELSE Last(frames).pts + step
        all == observations \o [i \in 1..Len(scene) |-> Observation(scene[i], index, pts)]
        dets == {o \in DOMAIN all : o > Len(observations) /\ all[o].eligible}
        high == {o \in dets : all[o].score # "low"}
        kept == AtCut(cut, tracklets)
    IN  /\ phase = "track" /\ Len(frames) < MaxFrames
        /\ cut => frames # <<>>
        /\ frames' = Append(frames, [pts |-> pts, cut |-> cut])
        /\ observations' = all
        /\ \E first \in Matchings(InState(kept, {"tracked", "lost"}), high) :
           \E second \in Matchings(InState(kept, {"tracked"}) \ Matched(first), dets \ high) :
              LET fresh == {o \in high \ Taken(first) : all[o].score = "new"}
                  now == Continued(kept, first \union second) \o Started(fresh)
              IN  /\ tracklets' = Expired(all, now, index, pts)
                  /\ assignments' = assignments \union
                        {<<Last(now[t].seen), t>> : t \in
                            {u \in InState(now, {"tracked"}) : all[Last(now[u].seen)].frame = index}}
        /\ UNCHANGED <<phase, templates, clusters, tracks>>

Finalize ==
    /\ phase = "track" /\ frames # <<>>
    /\ tracklets' = Closed(tracklets)
    /\ phase' = "templates"
    /\ UNCHANGED <<frames, observations, assignments, templates, clusters, tracks>>

-----------------------------------------------------------------------------
(* Templates: build_tracklet_template *)

\* Twice the median of some numbers.
Twice(numbers) ==
    LET sorted == SortedBy(Listed(numbers), [i \in DOMAIN numbers |-> <<numbers[i], 0>>])
        n == Len(numbers)
    IN  sorted[(n + 1) \div 2] + sorted[n \div 2 + 1]

Candidates(seen) == Listed(Picked(seen, {i \in DOMAIN seen : Vec(seen[i]) # NoVector}))

\* The observation of the best quality, the first of several.
FirstBest(os) ==
    os[CHOOSE i \in DOMAIN os :
        /\ \A k \in DOMAIN os : Quality(os[k]) <= Quality(os[i])
        /\ \A k \in 1..(i - 1) : Quality(os[k]) < Quality(os[i])]

\* The span of the candidates in MaxSelected bins, and the best of each.
OfBins(os) ==
    LET from == Pts(os[1])
        span == IF Pts(Last(os)) > from THEN Pts(Last(os)) - from ELSE 1
        edge(k) == from + (span * k) \div MaxSelected
        bin(k) == {i \in DOMAIN os : \/ edge(k - 1) <= Pts(os[i]) /\ Pts(os[i]) < edge(k)
                                     \/ k = MaxSelected /\ Pts(os[i]) = edge(k)}
        filled == {k \in 1..MaxSelected : bin(k) # {}}
    IN  Listed(Picked([k \in filled |-> FirstBest(Picked(os, bin(k)))], filled))

Apart(o, chosen) ==
    \A i \in DOMAIN chosen :
        Pts(o) - Pts(chosen[i]) >= Separation \/ Pts(chosen[i]) - Pts(o) >= Separation

\* Mutant: there are as many places as candidates.
GrownAlways(chosen, o) == IF Apart(o, chosen) THEN Append(chosen, o) ELSE chosen

Grown(chosen, o) ==
    IF Len(chosen) < MaxSelected /\ Apart(o, chosen) THEN Append(chosen, o) ELSE chosen

\* The free places go to the best of the rest, far enough from those chosen.
Selected(os, picked) ==
    LET left == Listed(Picked(os, {i \in DOMAIN os : os[i] \notin ToSet(picked)}))
        rest == SortedBy(left, [i \in DOMAIN left |-> <<-Quality(left[i]), 0>>])
        chosen[n \in 0..Len(rest)] == IF n = 0 THEN picked ELSE Grown(chosen[n - 1], rest[n])
    IN  chosen[Len(rest)]

\* The first observation with the best median cosine to the others.
Medoid(chosen) ==
    LET median(i) == Twice([k \in DOMAIN chosen |-> Cosine(Vec(chosen[i]), Vec(chosen[k]))])
    IN  Vec(chosen[CHOOSE i \in DOMAIN chosen :
                /\ \A k \in DOMAIN chosen : median(k) <= median(i)
                /\ \A k \in 1..(i - 1) : median(k) < median(i)])

\* Those no further from the medoid than three times the median deviation,
\* and over the floor of 0.20.
Inliers(chosen) ==
    LET medoid == Medoid(chosen)
        near == [i \in DOMAIN chosen |-> Cosine(Vec(chosen[i]), medoid)]
        middle == Twice(near)
        spread == Twice([i \in DOMAIN near |->
                    IF 2 * near[i] > middle THEN 2 * near[i] - middle
                    ELSE middle - 2 * near[i]])
    IN  Listed(Picked(chosen, {k \in DOMAIN chosen :
                          4 * near[k] >= 2 * middle - 3 * spread /\ near[k] >= 200}))

\* The mean by quality, of which every sample has a little.
Weight(o) == Largest({Quality(o), 1})
Centroid(os) ==
    Total([i \in DOMAIN os |-> Weight(os[i]) * Vec(os[i])])
        \div Total([i \in DOMAIN os |-> Weight(os[i])])

Failed(rejected) == [vec |-> NoVector, kept |-> {}, rejected |-> rejected]

\* The template of a tracklet, with the observations it is made of and those
\* it reports as rejected.  Without enough observations that are apart, those
\* of the bins are in neither list.
Template(seen) ==
    LET os == Candidates(seen)
        unfit == ToSet(seen) \ ToSet(os)
    IN  IF Len(os) < MinSelected THEN Failed(unfit)
        ELSE LET picked == OfBins(os)
                 chosen == Selected(os, picked)
                 kept == Inliers(chosen)
             IN  IF Len(chosen) < MinSelected
                 THEN Failed(unfit \union (ToSet(os) \ ToSet(picked)))
                 ELSE [vec |-> IF Len(kept) < MinSelected THEN NoVector ELSE Centroid(kept),
                       kept |-> ToSet(kept),
                       rejected |-> unfit \union (ToSet(os) \ ToSet(kept))]

\* The observations of a tracklet, by what the replay wrote.
AssignedTo(t) == Picked([o \in DOMAIN observations |-> o],
                        {o \in DOMAIN observations : <<o, t>> \in assignments})

BuildTemplates ==
    /\ phase = "templates"
    /\ templates' = [t \in DOMAIN tracklets |-> Template(AssignedTo(t))]
    /\ phase' = "reconcile"
    /\ UNCHANGED <<frames, observations, tracklets, assignments, clusters, tracks>>

-----------------------------------------------------------------------------
(* Reconciliation: reconcile_tracklets *)

MinTrackletCosine == 450
MinMemberCosine == 400

\* build_cannot_link_pairs: the two are seen in one frame.
CannotLink(a, b) ==
    \E o \in ToSet(tracklets[a].seen), p \in ToSet(tracklets[b].seen) : Frame(o) = Frame(p)

HasTemplate(t) == templates[t].vec # NoVector
\* One cosine of a pair, whichever of the two is named first.
PairCosine(a, b) == Cosine(templates[Smallest({a, b})].vec, templates[Largest({a, b})].vec)
Alike(a, b) ==
    HasTemplate(a) /\ HasTemplate(b) /\ PairCosine(a, b) >= MinTrackletCosine

\* candidate_edges, the best first.
Better(e, f) ==
    \/ PairCosine(e[1], e[2]) > PairCosine(f[1], f[2])
    \/ /\ PairCosine(e[1], e[2]) = PairCosine(f[1], f[2])
       /\ e[1] < f[1] \/ (e[1] = f[1] /\ e[2] < f[2])
Edges ==
    LET edges == {e \in (DOMAIN tracklets) \X (DOMAIN tracklets) :
                    e[1] < e[2] /\ ~CannotLink(e[1], e[2]) /\ Alike(e[1], e[2])}
    IN  Ranked([e \in edges |-> {f \in edges : Better(f, e)}])

\* _cluster_centroid: every template counts alike.
Middle(ts) ==
    Total(Picked([t \in DOMAIN templates |-> templates[t].vec], ts)) \div Cardinality(ts)

\* Mutant: only the pair of the edge is looked at.
MayMergeEdge(a, b) ==
    \A t \in a \union b : Cosine(templates[t].vec, Middle(a \union b)) >= MinMemberCosine

\* Whether two groups may become one: no pair across them is forbidden or
\* unlike, and every member is near the middle of all.
MayMerge(a, b) ==
    /\ \A x \in a, y \in b : ~CannotLink(x, y) /\ Alike(x, y)
    /\ \A t \in a \union b : Cosine(templates[t].vec, Middle(a \union b)) >= MinMemberCosine

\* The list of the second end of an edge goes behind that of the first.
Merge(lists, edge) ==
    LET joined == {p \in lists \X lists :
                     /\ p[1] # p[2] /\ edge[1] \in ToSet(p[1]) /\ edge[2] \in ToSet(p[2])
                     /\ MayMerge(ToSet(p[1]), ToSet(p[2]))}
        pair == CHOOSE p \in joined : TRUE
    IN  IF joined = {} THEN lists
        ELSE (lists \ {pair[1], pair[2]}) \union {pair[1] \o pair[2]}

\* Edge after edge, from every tracklet on its own.
Merged ==
    LET edges == Edges
        after[n \in 0..Len(edges)] ==
            IF n = 0 THEN {<<t>> : t \in DOMAIN tracklets} ELSE Merge(after[n - 1], edges[n])
    IN  after[Len(edges)]

Reconcile ==
    /\ phase = "reconcile"
    /\ clusters' = Merged
    /\ phase' = "aggregate"
    /\ UNCHANGED <<frames, observations, tracklets, assignments, templates, tracks>>

-----------------------------------------------------------------------------
(* Aggregation: build_appearances, aggregate_canonical_tracks *)

\* The gap two detections of one appearance may have: 2.5 times the median.
MaxGap(os) ==
    IF Len(os) < 2 THEN 1
    ELSE LET gaps == [i \in 1..(Len(os) - 1) |-> Pts(os[i + 1]) - Pts(os[i])]
         IN  Largest({1, (5 * (Twice(gaps) \div 2)) \div 2})

\* Mutant: a gap is measured from the start of the appearance.
FromStart(gap, intervals, o) ==
    IF intervals = <<>> \/ Pts(o) - Pts(Last(intervals)[1]) > gap
    THEN Append(intervals, <<o, o>>)
    ELSE Append(Front(intervals), <<Last(intervals)[1], o>>)

Extend(gap, intervals, o) ==
    IF intervals = <<>> \/ Pts(o) - Pts(Last(intervals)[2]) > gap
    THEN Append(intervals, <<o, o>>)
    ELSE Append(Front(intervals), <<Last(intervals)[1], o>>)

Appearances(os) ==
    LET gap == MaxGap(os)
        intervals[n \in 0..Len(os)] ==
            IF n = 0 THEN <<>> ELSE Extend(gap, intervals[n - 1], os[n])
    IN  intervals[Len(os)]

Members(group) == {o \in DOMAIN observations : \E t \in group : <<o, t>> \in assignments}

\* The place of an observation's tracklet in a list of tracklets.
Place(list, o) == CHOOSE i \in DOMAIN list : <<o, list[i]>> \in assignments

\* sorted by time, of observations listed tracklet by tracklet.
Earlier(list, p, o) ==
    \/ Pts(p) < Pts(o)
    \/ Pts(p) = Pts(o) /\ Less(<<Place(list, p), p>>, <<Place(list, o), o>>)

\* A cluster as a canonical track: its detections by time.
CanonicalTrack(list) ==
    LET members == Members(ToSet(list))
        os == Listed(Ranked([o \in members |-> {p \in members : Earlier(list, p, o)}]))
    IN  [tracklets |-> ToSet(list), detections |-> os, appearances |-> Appearances(os)]

\* The clusters by the time they begin.
Starts(list) == Smallest({Pts(tracklets[t].seen[1]) : t \in ToSet(list)})
ByStart(a, b) == \/ Starts(a) < Starts(b)
                 \/ Starts(a) = Starts(b) /\ Smallest(ToSet(a)) < Smallest(ToSet(b))

Aggregate ==
    /\ phase = "aggregate"
    /\ LET order == Ranked([g \in clusters |-> {h \in clusters : ByStart(h, g)}])
       IN  tracks' = [i \in DOMAIN order |-> CanonicalTrack(order[i])]
    /\ phase' = "done"
    /\ UNCHANGED <<frames, observations, tracklets, assignments, templates, clusters>>

Next == \/ \E scene \in Scenes, step \in Clock, cut \in BOOLEAN : Update(scene, step, cut)
        \/ Finalize
        \/ BuildTemplates
        \/ Reconcile
        \/ Aggregate

Spec == Init /\ [][Next]_vars

-----------------------------------------------------------------------------
(* Properties *)

\* The assignments the replay writes, collected frame by frame, and the
\* histories the tracker keeps tell the same story: an observation is in one
\* tracklet at most, one whose score starts a tracklet is in exactly one, and
\* no tracklet has two observations of one frame (stage_reconcile joins the
\* two, build_cannot_link_pairs from the histories, the detections of a track
\* from the assignments).  A tracklet never goes on over a scene cut, nor after
\* the tracker has gone without it for longer than both timeouts allow: at the
\* frame before each return it was not yet timed out.  The return itself may be
\* later than the timeouts, for they are looked at after the association.
TrackletsSound ==
    /\ assignments = {a \in (DOMAIN observations) \X (DOMAIN tracklets) :
                        a[1] \in ToSet(tracklets[a[2]].seen)}
    /\ \A o \in DOMAIN observations :
        LET owners == {t \in DOMAIN tracklets : <<o, t>> \in assignments}
        IN  /\ Cardinality(owners) <= 1
            /\ observations[o].eligible /\ observations[o].score = "new" => owners # {}
    /\ \A t \in DOMAIN tracklets : \A i \in 1..(Len(tracklets[t].seen) - 1) :
        LET a == observations[tracklets[t].seen[i]]
            b == observations[tracklets[t].seen[i + 1]]
        IN  /\ a.frame < b.frame
            /\ \A f \in (a.frame + 1)..b.frame : ~frames[f + 1].cut
            /\ b.frame - 1 - a.frame <= MaxLostFrames
            /\ frames[b.frame].pts - a.pts <= MaxLostNs

\* Every tracklet ends up in one canonical track, a track never has two
\* detections of one frame, any two of its tracklets are alike, and every
\* detection of the tracklets is told once (reconcile_tracklets merges pair by
\* pair, so a chain of likes could bring unlike or simultaneous ones together).
\* The detections of a track are in the order of time; two frames may be of one
\* time, and their detections then follow in the order the list of tracklets has.
PersonsApart ==
    phase = "done" =>
        /\ UNION {tracks[i].tracklets : i \in DOMAIN tracks} = DOMAIN tracklets
        /\ \A i, j \in DOMAIN tracks : i # j => tracks[i].tracklets \intersect tracks[j].tracklets = {}
        /\ \A i \in DOMAIN tracks :
            /\ \A k, n \in DOMAIN tracks[i].detections :
                k < n => /\ Pts(tracks[i].detections[k]) <= Pts(tracks[i].detections[n])
                         /\ Frame(tracks[i].detections[k]) # Frame(tracks[i].detections[n])
            /\ \A a, b \in tracks[i].tracklets : a # b => Alike(a, b)

\* The appearances of a track are made of its own detections: in time order,
\* each detection in exactly one of them, and between two of them a gap no two
\* successive detections of one appearance have (build_appearances).
AppearancesCover ==
    \A i \in DOMAIN tracks :
        LET os == tracks[i].detections
            spans == tracks[i].appearances
            within(o, s) == Pts(s[1]) <= Pts(o) /\ Pts(o) <= Pts(s[2])
        IN  /\ \A o \in ToSet(os) : Cardinality({k \in DOMAIN spans : within(o, spans[k])}) = 1
            /\ \A k \in 1..(Len(spans) - 1) :
                \A n \in 1..(Len(os) - 1) :
                    (\E s \in ToSet(spans) : within(os[n], s) /\ within(os[n + 1], s)) =>
                        Pts(os[n + 1]) - Pts(os[n]) < Pts(spans[k + 1][1]) - Pts(spans[k][2])

\* Every observation of a tracklet is either part of its template or reported
\* as rejected, and a template lies among the vectors it is made of
\* (build_tracklet_template has five ways out, each with its own lists).
SamplesTold ==
    \A t \in DOMAIN templates :
        LET p == templates[t]
        IN  /\ p.kept \intersect p.rejected = {}
            /\ p.kept \union p.rejected = ToSet(tracklets[t].seen)
            /\ Cardinality(p.kept) <= MaxSelected
            /\ p.vec # NoVector => \E o, q \in p.kept : Vec(o) <= p.vec /\ p.vec <= Vec(q)

\* What is reported of the persons: appearances and templates.
TracksTold == AppearancesCover /\ SamplesTold

=============================================================================
