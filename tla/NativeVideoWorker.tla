-------------------------- MODULE NativeVideoWorker --------------------------
(***************************************************************************)
(* The native video worker (backend/native/video_worker): one process per  *)
(* job that decodes a video, detects, tracks and embeds the faces of its    *)
(* frames and leaves an artifact bundle for the Python worker.              *)
(*                                                                          *)
(* Three threads share it.  GStreamer's streaming thread runs the probe     *)
(* on_mux_src_buffer for every buffer of the stream muxer; the processing   *)
(* thread pops what the probe queued, cuts it into inference batches and    *)
(* records frames and tracks; main waits for the bus, closes the queue,     *)
(* joins the processing thread, finalizes the bundle and picks the exit     *)
(* code.  The decoder, the muxer and the two networks are the environment:  *)
(* a video is the buffers the muxer will emit, a face carries the place,    *)
(* the score and the vector the networks give it.                           *)
(***************************************************************************)
EXTENDS Ordering, SequencesExt

CONSTANTS Videos,      \* sequences of mux buffers, each a sequence of frames
          Limits,      \* --max-frames of a run; 0 stands for --all-frames
          BatchSize,   \* --detector-batch-size
          RecBatch,    \* faces the recognizer takes at once
          Near,        \* association_distance_threshold of the tracker
          MaxMisses    \* max_consecutive_misses of the tracker

\* What the decoder says of a face and the muxer of a frame; vec and fmt are
\* what the networks will make of the face and the surface's color format.
Sightings == [x : Int, score : Int, vec : Int, finite : BOOLEAN]
MuxFrames == [num : Int, pts : Int, fmt : {"nv12", "rgba", "other"}, usable : BOOLEAN,
              faces : Seq(Sightings)]

ASSUME WorkerAssumption ==
    /\ \A v \in Videos : v \in Seq(Seq(MuxFrames))
    /\ BatchSize \in Nat \ {0}
    /\ RecBatch \in Nat \ {0}
    /\ Limits \subseteq Nat
    /\ Near \in Nat /\ MaxMisses \in Nat

VARIABLES
    video, limit,  \* the run: its input and its --max-frames
    feed,          \* buffers the muxer has still to emit
    bus,           \* the message on the bus: none, eos or error
    held,          \* what the probe accepted and has not queued yet
    accepted,      \* frames accepted (also presentation_counter before the cut)
    counter,       \* presentation_counter
    stop,          \* stop_requested
    fault,         \* SmokeStats.error
    queue, closed, \* WorkQueue.items, WorkQueue.eos
    broken,        \* WorkQueue.error
    proc,          \* the processing thread: pop, infer or ended
    todo,          \* complete batches it has not processed yet
    found,         \* frames of the batch in hand still to be tracked
    pending,       \* TemporalFrameBatchAssembler.pending_
    previous,      \* TemporalFrameBatchAssembler.previous_pts_ns_
    tracks,        \* NaiveTracker.tracks_; a track's key is its position
    recorded,      \* observations.pb: the frames written, in order
    sums,          \* ArtifactState.accumulators_, by track key
    main,          \* main: start, relock, linking, listen, join, a step of the
                   \* finalization (templates .. rename), verdict or gone
    linked,        \* PipelineContext.demux_linked
    work,          \* the working directory, what finalize has put there
    torn,          \* files of it whose write was cut short and not noticed
    bundle,        \* the output directory: empty, absent, or a finished bundle
    exit           \* none while it runs; 0, 1, or abort

probeVars == <<feed, held, accepted, counter, stop>>
procVars  == <<proc, todo, found, pending, previous, tracks, recorded, sums>>
outVars   == <<work, torn, bundle>>
workerVars == <<video, limit, bus, probeVars, fault, queue, closed, broken, procVars,
          main, linked, outVars, exit>>

Nothing == <<>>   \* the probe holds no frames
Running == exit = "none"

\* The working directory as ArtifactState opens it; the output directory is
\* empty before the run and absent between remove_all and rename.
NotYet  == [templates |-> <<>>, frames |-> -1, crops |-> {}, packed |-> {},
            manifest |-> <<>>]
Absent  == <<>>
Empty   == <<"empty">>

-----------------------------------------------------------------------------
(* Order and batches: TemporalFrameBatchAssembler *)

\* presentation_order_less: time stamp, then the muxer's frame number, then the
\* place in the buffer.
Presentation(frames) ==
    SortedBy(frames, [i \in DOMAIN frames |-> <<frames[i].pts, frames[i].num>>])

\* A time stamp goes back when both it and the one just before it are known.
Regresses(prev, f) == prev >= 0 /\ f.pts >= 0 /\ f.pts < prev

\* Whether a push of these (sorted) frames throws PresentationOrderViolation.
OutOfOrder(prev, frames) ==
    \E i \in 1..Len(frames) :
        Regresses(IF i = 1 THEN prev ELSE frames[i - 1].pts, frames[i])

\* The batches a push completes, and what stays pending for the next.
Complete(frames) ==
    [b \in 1..(Len(frames) \div BatchSize) |->
        SubSeq(frames, (b - 1) * BatchSize + 1, b * BatchSize)]
Remainder(frames) ==
    SubSeq(frames, (Len(frames) \div BatchSize) * BatchSize + 1, Len(frames))

-----------------------------------------------------------------------------
(* Detection and recognition: VideoFacePipeline *)

\* The faces of a frame from left to right, the surer ones first where two are
\* at one place; their position is their ordinal.
Finite(faces) == Picked(faces, {n \in DOMAIN faces : faces[n].finite})
LeftToRight(faces) ==
    SortedBy(faces, [n \in DOMAIN faces |-> <<faces[n].x, -faces[n].score>>])
Detected(f) == LeftToRight(Finite(f.faces))

\* A batch the pipeline will not take: larger than its buffers, of surfaces in
\* different color formats, or in a format it has no preprocessing for.
Refused(batch) ==
    \/ Len(batch) > 32
    \/ \E i \in 1..Len(batch) : batch[i].fmt # batch[1].fmt
    \/ batch[1].fmt \notin {"rgba", "nv12"}

\* The faces handed to the recognizer: those of the frames whose surface it
\* can read, in the order of the batch.
Items(batch) ==
    FlattenSeq([i \in 1..Len(batch) |->
                   IF batch[i].usable THEN Detected(batch[i]) ELSE <<>>])

\* Mutant: every chunk is read back from the rows of the first.
FirstChunkRow(items, k) == items[1 + ((k - 1) % RecBatch)].vec

\* The recognizer fills one output buffer per chunk; row (k - 1) % RecBatch
\* of chunk (k - 1) \div RecBatch is read back as the vector of item k.
Row(items, k) ==
    LET first == ((k - 1) \div RecBatch) * RecBatch
    IN  items[first + 1 + ((k - 1) % RecBatch)].vec

\* The frames of a batch with their faces and what recognition adds to them.
Recognised(batch) ==
    [i \in 1..Len(batch) |->
        LET skipped == Len(Items(SubSeq(batch, 1, i - 1)))
        IN  [index |-> batch[i].index, pts |-> batch[i].pts, num |-> batch[i].num,
             faces |-> [o \in 1..Len(Detected(batch[i])) |->
                 [x |-> Detected(batch[i])[o].x,
                  score |-> Detected(batch[i])[o].score,
                  eligible |-> batch[i].usable,
                  emb |-> IF batch[i].usable THEN Row(Items(batch), skipped + o)
                                             ELSE -1]]]]

-----------------------------------------------------------------------------
(* Tracking: NaiveTracker.update *)

Distance(a, b) == IF a < b THEN b - a ELSE a - b

\* Mutant: a track may continue in two faces of one frame.
SharedCandidates(links, faces, o) ==
    {t \in 1..Len(tracks) : Distance(tracks[t].x, faces[o].x) <= Near}

\* The tracks a face may continue: within reach and not taken by a face before
\* it.  A lost track is one of them: only kRemoved is excluded, and no track is
\* ever removed.
Candidates(links, faces, o) ==
    {t \in 1..Len(tracks) : /\ Distance(tracks[t].x, faces[o].x) <= Near
                            /\ \A p \in 1..(o - 1) : links[p] # t}

\* The greedy assignment: face after face takes the nearest of its candidates,
\* the oldest of equally near ones, or 0 when there is none.
Greedy(links, faces, o) ==
    LET cand == Candidates(links, faces, o)
        Dist(t) == Distance(tracks[t].x, faces[o].x)
    IN  IF cand = {} THEN links[o] = 0
        ELSE /\ links[o] \in cand
             /\ \A t \in cand : \/ Dist(links[o]) < Dist(t)
                                \/ Dist(links[o]) = Dist(t) /\ links[o] <= t

Links(faces) ==
    CHOOSE links \in [1..Len(faces) -> 0..Len(tracks)] :
        \A o \in 1..Len(faces) : Greedy(links, faces, o)

\* Keys are allocated in the order of the faces, so the n-th key belongs to
\* the n-th track.
Keys(links) ==
    [o \in DOMAIN links |->
        IF links[o] # 0 THEN links[o]
        ELSE Len(tracks) + Cardinality({p \in 1..o : links[p] = 0})]

\* A matched track moves to the face; kTentative becomes kConfirmed, and a
\* lost track stays lost.  A track without a face counts a miss.
Matched(t, d) ==
    [x |-> d.x, misses |-> 0,
     state |-> IF t.state = "tentative" THEN "confirmed" ELSE t.state]
Missed(t) ==
    [t EXCEPT !.misses = @ + 1,
              !.state = IF t.misses + 1 > MaxMisses THEN "lost" ELSE @]
NewTrack(d) == [x |-> d.x, misses |-> 0, state |-> "tentative"]

\* The tracks after a frame whose faces have these keys.
Tracked(faces, keys) ==
    [t \in 1..(Len(tracks) + Cardinality({o \in DOMAIN keys : keys[o] > Len(tracks)})) |->
        IF \E o \in DOMAIN keys : keys[o] = t
        THEN LET o == CHOOSE o \in DOMAIN keys : keys[o] = t
             IN  IF t > Len(tracks) THEN NewTrack(faces[o]) ELSE Matched(tracks[t], faces[o])
        ELSE Missed(tracks[t])]

\* What observations.pb says of a frame: build_proto_frame, with the key of
\* the track of each face.
Observation(f, keys) ==
    [index |-> f.index, pts |-> f.pts, num |-> f.num, faces |-> f.faces, keys |-> keys]

-----------------------------------------------------------------------------
(* What is kept of a track: TrackAccumulator, ArtifactState.update_track *)

NoPicture == [score |-> -1, pts |-> -1, ordinal |-> -1]
Fresh == [first |-> -1, last |-> -1, count |-> 0, eligible |-> 0, mean |-> -1,
          picture |-> NoPicture]

\* update_template: the first vector starts the mean, a later one moves it by
\* its difference over the number of vectors seen BEFORE it.
MeanAfter(acc, v) ==
    IF acc.eligible = 0 THEN v ELSE acc.mean + (v - acc.mean) \div acc.eligible

Better(new, old) ==
    \/ old = NoPicture
    \/ new.score > old.score
    \/ new.score = old.score /\ new.pts < old.pts
    \/ new.score = old.score /\ new.pts = old.pts /\ new.ordinal < old.ordinal

UpdateTrack(acc, f, face, ordinal) ==
    LET new == [score |-> face.score, pts |-> f.pts, ordinal |-> ordinal]
    IN  [first |-> IF acc.first < 0 \/ f.pts < acc.first THEN f.pts ELSE acc.first,
         last |-> IF f.pts > acc.last THEN f.pts ELSE acc.last,
         count |-> acc.count + 1,
         eligible |-> IF face.eligible THEN acc.eligible + 1 ELSE acc.eligible,
         mean |-> IF face.eligible THEN MeanAfter(acc, face.emb) ELSE acc.mean,
         picture |-> IF face.eligible /\ Better(new, acc.picture)
                     THEN new ELSE acc.picture]

\* The accumulators after a frame whose faces have these keys.
Updated(f, keys) ==
    [k \in DOMAIN sums \cup ToSet(keys) |->
        IF k \notin ToSet(keys) THEN sums[k]
        ELSE LET o == CHOOSE o \in DOMAIN keys : keys[o] = k
             IN  UpdateTrack(IF k \in DOMAIN sums THEN sums[k] ELSE Fresh, f, f.faces[o], o)]

-----------------------------------------------------------------------------
WorkerInit ==
    /\ video \in Videos /\ limit \in Limits
    /\ feed = video /\ bus = "none"
    /\ held = Nothing /\ accepted = 0 /\ counter = 0 /\ stop = FALSE
    /\ fault = FALSE
    /\ queue = <<>> /\ closed = FALSE /\ broken = FALSE
    /\ proc = "pop" /\ todo = <<>> /\ found = <<>> /\ pending = <<>> /\ previous = -1
    /\ tracks = <<>> /\ recorded = <<>> /\ sums = <<>>
    /\ main = "start" /\ linked = FALSE /\ exit = "none"
    /\ work = NotYet /\ torn = {} /\ bundle = Empty

-----------------------------------------------------------------------------
(* The streaming thread *)

\* The pipeline plays until main sets it to NULL.
Playing == Running /\ linked /\ main \in {"linking", "listen", "join"}

\* on_demux_pad_added: the handler stores demux_linked under ctx.mtx, which
\* main holds until it waits for the pad.
Link ==
    /\ Running /\ main = "linking" /\ ~linked
    /\ linked' = TRUE
    /\ UNCHANGED <<video, limit, bus, probeVars, fault, queue, closed, broken,
                   procVars, main, outVars, exit>>

\* The frames of the next buffer the probe keeps: numbered in the order of
\* the muxer's list, cut at --max-frames.
Numbered == [i \in 1..Len(feed[1]) |->
    [index |-> counter + i - 1, pts |-> feed[1][i].pts, num |-> feed[1][i].num,
     fmt |-> feed[1][i].fmt, usable |-> feed[1][i].usable,
     faces |-> feed[1][i].faces]]
Room == IF limit = 0 THEN Len(feed[1])
        ELSE IF limit - accepted < Len(feed[1]) THEN limit - accepted
        ELSE Len(feed[1])

\* on_mux_src_buffer up to the counters: stop_requested is visible to main
\* before the frames are in the queue.
Accept ==
    /\ Playing /\ bus # "eos"
    /\ feed # <<>> /\ held = Nothing
    /\ feed' = Tail(feed)
    /\ IF stop THEN UNCHANGED <<held, accepted, counter, stop>>
       ELSE /\ held' = <<SubSeq(Numbered, 1, Room)>>
            /\ counter' = counter + Len(feed[1])
            /\ accepted' = accepted + Room
            /\ stop' = (limit > 0 /\ accepted + Room >= limit)
    /\ UNCHANGED <<video, limit, bus, fault, queue, closed, broken, procVars,
                   main, linked, outVars, exit>>

\* A buffer that cannot be mapped is skipped and the run is marked failed.
Unmappable ==
    /\ Playing /\ bus # "eos"
    /\ feed # <<>> /\ held = Nothing /\ ~stop
    /\ feed' = Tail(feed) /\ fault' = TRUE
    /\ UNCHANGED <<video, limit, bus, held, accepted, counter, stop, queue,
                   closed, broken, procVars, main, linked, outVars, exit>>

\* WorkQueue.push: a closed queue drops the frames.
Push ==
    /\ Running /\ held # Nothing
    /\ queue' = IF closed THEN queue ELSE queue \o held
    /\ held' = Nothing
    /\ UNCHANGED <<video, limit, bus, feed, accepted, counter, stop, fault,
                   closed, broken, procVars, main, linked, outVars, exit>>

\* The end of the stream reaches the sink after the last buffer passed the
\* probe; an element may fail at any time instead.
EndOfStream ==
    /\ Playing /\ bus = "none" /\ feed = <<>> /\ held = Nothing
    /\ bus' = "eos"
    /\ UNCHANGED <<video, limit, probeVars, fault, queue, closed, broken,
                   procVars, main, linked, outVars, exit>>

ElementFails ==
    /\ Playing /\ bus = "none"
    /\ bus' = "error"
    /\ UNCHANGED <<video, limit, probeVars, fault, queue, closed, broken,
                   procVars, main, linked, outVars, exit>>

-----------------------------------------------------------------------------
(* The processing thread: processing_thread_loop *)

\* queue->pop and assembler->push of what it returned.
Pop ==
    /\ Running /\ proc = "pop" /\ queue # <<>>
    /\ \E frames \in {Presentation(queue[1])} :
        /\ ~OutOfOrder(previous, frames)
        /\ todo' = Complete(pending \o frames)
        /\ pending' = Remainder(pending \o frames)
        /\ previous' = IF frames = <<>> THEN previous ELSE Last(frames).pts
    /\ proc' = IF todo' = <<>> THEN "pop" ELSE "infer"
    /\ queue' = Tail(queue)
    /\ UNCHANGED <<video, limit, bus, probeVars, fault, closed, broken, found,
                   tracks, recorded, sums, main, linked, outVars, exit>>

\* PresentationOrderViolation leaves the loop: the batches the same push had
\* completed and the frames still pending are lost, and the queue is closed.
PopOutOfOrder ==
    /\ Running /\ proc = "pop" /\ queue # <<>>
    /\ OutOfOrder(previous, Presentation(queue[1]))
    /\ queue' = Tail(queue)
    /\ broken' = TRUE /\ closed' = TRUE /\ proc' = "ended"
    /\ UNCHANGED <<video, limit, bus, probeVars, fault, todo, found, pending, previous,
                   tracks, recorded, sums, main, linked, outVars, exit>>

\* infer_detector_batch of the next batch.
Infer ==
    /\ Running /\ proc \in {"infer", "flush"} /\ found = <<>>
    /\ ~Refused(todo[1])
    /\ found' = Recognised(todo[1])
    /\ todo' = Tail(todo)
    /\ UNCHANGED <<video, limit, bus, probeVars, fault, queue, closed, broken, proc,
                   pending, previous, tracks, recorded, sums, main, linked, outVars, exit>>

\* The rest of process_complete_inference_batch for the next frame: track its
\* faces, write its observations, update the tracks they belong to.
TrackFrame ==
    /\ Running /\ found # <<>>
    /\ \E keys \in {Keys(Links(found[1].faces))} :
        /\ tracks' = Tracked(found[1].faces, keys)
        /\ recorded' = Append(recorded, Observation(found[1], keys))
        /\ sums' = Updated(found[1], keys)
    /\ found' = Tail(found)
    /\ proc' = IF Len(found) > 1 \/ todo # <<>> THEN proc
               ELSE IF proc = "flush" THEN "ended" ELSE "pop"
    /\ UNCHANGED <<video, limit, bus, probeVars, fault, queue, closed, broken, todo,
                   pending, previous, main, linked, outVars, exit>>

\* A CUDA call, an engine or a check of the pipeline throws: the batch, the
\* ones behind it and the pending frames are lost.
InferFails ==
    /\ Running /\ proc \in {"infer", "flush"} /\ found = <<>>
    /\ broken' = TRUE /\ closed' = TRUE /\ proc' = "ended"
    /\ UNCHANGED <<video, limit, bus, probeVars, fault, queue, todo, found,
                   pending, previous, tracks, recorded, sums, main, linked, outVars, exit>>

\* Mutant: the loop ends and leaves the partial batch behind.
FlushNothing ==
    /\ Running /\ proc = "pop" /\ queue = <<>> /\ closed
    /\ proc' = "ended"
    /\ UNCHANGED <<video, limit, bus, probeVars, fault, queue, closed, broken, todo,
                   found, pending, previous, tracks, recorded, sums, main, linked,
                   outVars, exit>>

\* The queue is empty and closed: flush_eos.
Flush ==
    /\ Running /\ proc = "pop" /\ queue = <<>> /\ closed
    /\ todo' = IF pending = <<>> THEN <<>> ELSE <<pending>>
    /\ pending' = <<>>
    /\ proc' = IF pending = <<>> THEN "ended" ELSE "flush"
    /\ UNCHANGED <<video, limit, bus, probeVars, fault, queue, closed, broken,
                   found, previous, tracks, recorded, sums, main, linked, outVars, exit>>

-----------------------------------------------------------------------------
(* main *)

StartPipeline ==
    /\ Running /\ main = "start"
    /\ main' = "linking"
    /\ UNCHANGED <<video, limit, bus, probeVars, fault, queue, closed, broken,
                   procVars, linked, outVars, exit>>

\* The pipeline does not start: set_state_blocking reports it with
\* post_error, which locks ctx.mtx again in the thread that holds it.
StartFails ==
    /\ Running /\ main = "start"
    /\ main' = "relock"
    /\ UNCHANGED <<video, limit, bus, probeVars, fault, queue, closed, broken,
                   procVars, linked, outVars, exit>>

\* Five seconds without a video pad, or a pad that cannot be linked: main
\* returns while processing_thread is joinable, which terminates the process.
NoVideoPad ==
    /\ Running /\ main = "linking" /\ ~linked
    /\ main' = "gone" /\ exit' = "abort"
    /\ UNCHANGED <<video, limit, bus, probeVars, fault, queue, closed, broken,
                   procVars, linked, outVars>>

Listen ==
    /\ Running /\ main = "linking" /\ linked
    /\ main' = "listen"
    /\ UNCHANGED <<video, limit, bus, probeVars, fault, queue, closed, broken,
                   procVars, linked, outVars, exit>>

\* Mutant: main joins the processing thread without closing its queue.
LeaveOpen ==
    /\ Running /\ main = "listen" /\ (bus # "none" \/ stop)
    /\ main' = "join"
    /\ UNCHANGED <<video, limit, bus, probeVars, fault, queue, closed, broken,
                   procVars, linked, outVars, exit>>

\* The loop on the bus ends with a message or when it sees stop_requested.
CloseQueue ==
    /\ Running /\ main = "listen" /\ (bus # "none" \/ stop)
    /\ closed' = TRUE /\ main' = "join"
    /\ UNCHANGED <<video, limit, bus, probeVars, fault, queue, broken, procVars,
                   linked, outVars, exit>>

\* The processing thread is joined and the pipeline set to NULL, which waits
\* for the streaming thread: the probe never runs again.
EndPipeline ==
    /\ Running /\ main = "join" /\ proc = "ended" /\ held = Nothing
    /\ main' = "templates"
    /\ UNCHANGED <<video, limit, bus, probeVars, fault, queue, closed, broken,
                   procVars, linked, outVars, exit>>

-----------------------------------------------------------------------------
(* The bundle: ArtifactState.finalize, whatever the verdict will be *)

\* A step of finalize.  The streams of observations, templates, crops and
\* manifest are written without a look at their state: a disk that fills up
\* leaves the file short and the step goes on.
Finalize(from, to, file) ==
    /\ Running /\ main = from
    /\ main' = to
    /\ torn' \in {torn, torn \cup {file}}
    /\ UNCHANGED <<video, limit, bus, probeVars, fault, queue, closed, broken,
                   procVars, linked, exit>>

\* The template of a track; has_template is a vector to take the mean of.
Template(acc) ==
    [first |-> acc.first, last |-> acc.last, count |-> acc.count,
     eligible |-> acc.eligible, mean |-> acc.mean, picture |-> acc.picture]

Pictured == {k \in DOMAIN sums : sums[k].picture # NoPicture}

\* finalize_templates: a template per accumulator and a footer that counts them.
WriteTemplates ==
    /\ Finalize("templates", "footer", "templates")
    /\ work' = [work EXCEPT !.templates = [k \in DOMAIN sums |-> Template(sums[k])]]
    /\ UNCHANGED bundle

\* Mutant: the footer counts what was decoded, not what was written.
FooterCountsDecoded ==
    /\ Finalize("footer", "crops", "observations")
    /\ work' = [work EXCEPT !.frames = counter]
    /\ UNCHANGED bundle

\* finalize_observations: the footer counts the frames written.
WriteFooter ==
    /\ Finalize("footer", "crops", "observations")
    /\ work' = [work EXCEPT !.frames = Len(recorded)]
    /\ UNCHANGED bundle

\* write_crops: a picture per track that has one; a file that cannot be opened
\* is left out.
WriteCrops ==
    /\ Finalize("crops", "pack", "crops")
    /\ \E left \in {{}} \cup {{k} : k \in Pictured} :
        /\ left # {} => "crops" \in torn'
        /\ work' = [work EXCEPT !.crops = Pictured \ left]
    /\ UNCHANGED bundle

\* compress_file_zstd of both files; the originals are deleted.
Compress ==
    /\ Finalize("pack", "manifest", "observations")
    /\ torn' = torn
    /\ work' = [work EXCEPT !.packed = {"observations", "templates"}]
    /\ UNCHANGED bundle

\* write_manifest: the counts come from the accumulators, the list of crops
\* from the files that exist.
WriteManifest ==
    /\ Finalize("manifest", "swap", "manifest")
    /\ work' = [work EXCEPT !.manifest =
           [frames |-> Len(recorded), templates |-> Cardinality(DOMAIN sums),
            crops |-> Cardinality(Pictured), listed |-> work.crops]]
    /\ UNCHANGED bundle

\* Opening, encoding, compressing or renaming throws: nobody catches it.
FinalizeFails ==
    /\ Running /\ main \in {"templates", "footer", "crops", "pack", "manifest", "swap", "rename"}
    /\ main' = "gone" /\ exit' = "abort"
    /\ UNCHANGED <<video, limit, bus, probeVars, fault, queue, closed, broken,
                   procVars, linked, outVars>>

\* The output directory is removed and the working directory renamed to it.
RemoveOutput ==
    /\ Running /\ main = "swap"
    /\ main' = "rename" /\ bundle' = Absent
    /\ UNCHANGED <<video, limit, bus, probeVars, fault, queue, closed, broken,
                   procVars, linked, work, torn, exit>>

Publish ==
    /\ Running /\ main = "rename"
    /\ main' = "verdict" /\ bundle' = work
    /\ UNCHANGED <<video, limit, bus, probeVars, fault, queue, closed, broken,
                   procVars, linked, work, torn, exit>>

\* The statistics the verdict reads; a bus error is not one of them.
Detections == {i \in 1..Len(recorded) : recorded[i].faces # <<>>}
Embeddings == {i \in Detections : \E o \in 1..Len(recorded[i].faces) :
                                      recorded[i].faces[o].eligible}
Statistics ==
    [error |-> fault \/ broken, meta |-> video # feed, processed |-> Len(recorded),
     detections |-> Cardinality(Detections), embeddings |-> Cardinality(Embeddings),
     tracks |-> Len(tracks)]

Passes ==
    LET final == Statistics
    IN  /\ ~final.error /\ final.meta
        /\ limit > 0 => final.processed = limit
        /\ final.detections > 0 /\ final.embeddings > 0 /\ final.tracks > 0

\* main returns; the bundle is out whatever it returns.
Return ==
    /\ Running /\ main = "verdict"
    /\ main' = "gone" /\ exit' = IF Passes THEN "0" ELSE "1"
    /\ UNCHANGED <<video, limit, bus, probeVars, fault, queue, closed, broken,
                   procVars, linked, outVars>>

-----------------------------------------------------------------------------
Probe   == Link \/ Accept \/ Unmappable \/ Push \/ EndOfStream \/ ElementFails
Process == Pop \/ PopOutOfOrder \/ Infer \/ TrackFrame \/ InferFails \/ Flush
Main    == StartPipeline \/ StartFails \/ NoVideoPad \/ Listen \/ CloseQueue
           \/ EndPipeline \/ WriteTemplates \/ WriteFooter \/ WriteCrops \/ Compress
           \/ WriteManifest \/ FinalizeFails \/ RemoveOutput \/ Publish \/ Return

WorkerNext == Probe \/ Process \/ Main

WorkerSpec == WorkerInit /\ [][WorkerNext]_workerVars
-----------------------------------------------------------------------------
(* Properties *)

\* The frames the probe accepts when it accepts every buffer: numbered as the
\* muxer lists them, cut at the limit, each buffer in presentation order.
Expected ==
    FlattenSeq([b \in 1..Len(video) |->
        LET before == Len(FlattenSeq(SubSeq(video, 1, b - 1)))
            room == IF limit = 0 \/ limit >= before + Len(video[b])
                    THEN Len(video[b]) ELSE IF limit > before THEN limit - before ELSE 0
        IN  Presentation([i \in 1..room |->
                [index |-> before + i - 1, pts |-> video[b][i].pts,
                 num |-> video[b][i].num]])])

Written == [i \in 1..Len(recorded) |->
    [index |-> recorded[i].index, pts |-> recorded[i].pts, num |-> recorded[i].num]]

\* Nothing that waits between the probe and the tracker outgrows its place: a
\* push leaves less than a batch pending, and every batch it completed is one
\* the engines take (TemporalFrameBatchAssembler::push, emit_one_batch).
WorkerTypeOK ==
    /\ exit \in {"none", "0", "1", "abort"}
    /\ bundle \in {Empty, Absent, work} /\ torn \subseteq {"templates", "observations", "crops", "manifest"}
    /\ accepted \in Nat /\ (limit > 0 => accepted <= limit)
    /\ Len(pending) < BatchSize
    /\ \A b \in 1..Len(todo) : Len(todo[b]) \in 1..BatchSize
    /\ proc \in {"infer", "flush"} => todo # <<>> \/ found # <<>>

\* However probe, queue, assembler and main interleave, the observations are
\* the first of the accepted frames, each once, in presentation order within
\* its buffer and with its own number (on_mux_src_buffer, push, flush_eos).
RecordedInOrder == ~fault => IsPrefix(Written, Expected)

\* The parts of a bundle agree with the observations and with each other.
BundleIsWhole ==
    LET keys == UNION {ToSet(recorded[i].keys) : i \in 1..Len(recorded)}
        pictured == UNION {{recorded[i].keys[o] :
                                o \in {o \in DOMAIN recorded[i].faces :
                                         recorded[i].faces[o].eligible}} :
                               i \in 1..Len(recorded)}
    IN  /\ bundle \notin {Empty, Absent} /\ bundle.packed = {"observations", "templates"}
        /\ bundle.frames = Len(recorded) /\ bundle.manifest.frames = Len(recorded)
        /\ DOMAIN bundle.templates = keys
        /\ bundle.manifest.templates = Cardinality(keys)
        /\ bundle.crops = pictured
        /\ bundle.manifest.listed = bundle.crops
        /\ bundle.manifest.crops = Cardinality(bundle.crops)

\* A run that ends with 0 on a stream that ended has written every frame of
\* the video, or exactly --max-frames of them, and its known time stamps never
\* go back from one frame to the next (main, processing_thread_loop).  Unless
\* the disk cut a file short, the bundle it leaves says the same in all its
\* parts: footer, templates, pictures and manifest (finalize).
ZeroMeansWhole ==
    exit = "0" /\ bus # "error" =>
        /\ Written = Expected
        /\ \A i \in 2..Len(recorded) : ~Regresses(recorded[i - 1].pts, recorded[i])
        /\ torn = {} => BundleIsWhole

\* The faces recorded under a key.
Seen(k) == UNION {{<<i, o>> : o \in {o \in DOMAIN recorded[i].keys : recorded[i].keys[o] = k}} :
                     i \in DOMAIN recorded}
Face(p) == recorded[p[1]].faces[p[2]]
Time(p) == recorded[p[1]].pts
Picture(p) == [score |-> Face(p).score, pts |-> Time(p), ordinal |-> p[2]]

\* The template of a track says what the observations say: its count, its
\* first and last time (when every time is known), and as its picture the best
\* of its faces, whatever the batches they came in; a key names one face of a
\* frame at most (update_track, NaiveTracker::update).
TracksAgree ==
    /\ DOMAIN sums = UNION {ToSet(recorded[i].keys) : i \in 1..Len(recorded)}
    /\ \A k \in DOMAIN sums :
        LET seen == Seen(k)
            embedded == {p \in seen : Face(p).eligible}
        IN  /\ sums[k].count = Cardinality(seen)
            /\ sums[k].count = Cardinality({p[1] : p \in seen})
            /\ sums[k].eligible = Cardinality(embedded)
            /\ (\A p \in seen : Time(p) >= 0) =>
                  /\ \A p \in seen : Time(p) \in sums[k].first..sums[k].last
                  /\ {sums[k].first, sums[k].last} \subseteq {Time(p) : p \in seen}
            /\ embedded = {} <=> sums[k].picture = NoPicture
            /\ embedded # {} =>
                  /\ sums[k].picture \in {Picture(p) : p \in embedded}
                  /\ \A p \in embedded : ~Better(Picture(p), sums[k].picture)

\* A vector is the one of the face it is stored with: the rows of a chunk of
\* the recognizer go back to the faces they came from.
VectorIsOwn ==
    \A i \in 1..Len(recorded) : \A o \in 1..Len(recorded[i].faces) :
        LET face == recorded[i].faces[o]
        IN  face.eligible => \E b \in 1..Len(video) : \E j \in 1..Len(video[b]) :
                /\ video[b][j].num = recorded[i].num
                /\ \E n \in 1..Len(video[b][j].faces) :
                      /\ video[b][j].faces[n].x = face.x
                      /\ video[b][j].faces[n].vec = face.emb

Recordings == WorkerTypeOK /\ RecordedInOrder /\ TracksAgree /\ VectorIsOwn
=============================================================================
