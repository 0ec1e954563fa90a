----------------------------- MODULE VideoBundle -----------------------------
(***************************************************************************)
(* The Python worker around the native one: _process_one_job downloads the  *)
(* source, awaits the native worker, opens the bundle it leaves, reads the  *)
(* observations and hands bundle and frames to the processing service.       *)
(* Composes NativeVideoWorker with the readers of its files.                *)
(***************************************************************************)
EXTENDS NativeVideoWorker

VARIABLES
    stage,    \* download, await, open, read, repack, reopen, taken or raised
    known,    \* the track keys it has a template of
    read      \* the frames it got from the observations

readerVars == <<stage, known, read>>
bundleVars == <<workerVars, readerVars>>

UnchangedNative == UNCHANGED workerVars

Goto(from, to) == stage = from /\ stage' = to

\* _get_video_asset and _download_source_video, before the native worker runs.
Download ==
    /\ Goto("download", "await")
    /\ UnchangedNative /\ UNCHANGED <<known, read>>

\* The native worker, which runs while it is awaited.
RunWorker == stage = "await" /\ WorkerNext /\ UNCHANGED readerVars

\* Fault: the exit code is logged and not looked at.
AcceptAnyExit ==
    /\ stage = "await" /\ ~Running
    /\ stage' = IF bundle \notin {Empty, Absent} THEN "open" ELSE "raised"
    /\ UnchangedNative /\ UNCHANGED <<known, read>>

\* _run_native_worker: any code but 0 raises, and so does a missing manifest.
RunNativeWorker ==
    /\ stage = "await" /\ ~Running
    /\ stage' = IF exit = "0" /\ bundle \notin {Empty, Absent} THEN "open" ELSE "raised"
    /\ UnchangedNative /\ UNCHANGED <<known, read>>

\* What read_track_templates may find.  A file cut short inside a message is
\* refused; cut between two, its last message is taken for the footer, whose
\* count is then a time stamp: it fits when that is 0 and the header is all
\* that is left, or when there is nothing but the header.
Unreadable == {0}   \* no set of keys
TemplatesRead ==
    IF "templates" \notin torn THEN {DOMAIN bundle.templates} ELSE {{}, Unreadable}

\* Fault: a bundle with too few templates is taken for one with fewer tracks.
FewerCountsValid(keys) ==
    Cardinality({k \in keys : bundle.templates[k].picture # NoPicture})
        <= bundle.manifest.crops

\* NativeBundle._validate_counts.
CountsValid(keys) ==
    Cardinality({k \in keys : bundle.templates[k].picture # NoPicture})
        = bundle.manifest.crops

\* NativeBundle: the manifest is JSON, which a cut breaks, and counts the
\* templates that name a crop.
OpenBundle ==
    /\ stage = "open"
    /\ \E keys \in TemplatesRead :
         IF "manifest" \notin torn /\ keys # Unreadable /\ CountsValid(keys)
         THEN stage' = "read" /\ known' = keys
         ELSE stage' = "raised" /\ UNCHANGED known
    /\ UnchangedNative /\ UNCHANGED read

\* A frame of the observations as the reader hands it on.
Message(i) == [index |-> recorded[i].index, pts |-> recorded[i].pts, keys |-> recorded[i].keys]
Messages == [i \in 1..Len(recorded) |-> Message(i)]

\* ObservationChunkFooter has a string and a number where VideoObservationFrame
\* has the job and the stream: its bytes parse as a frame of time 0.
FooterFrame == [index |-> 0, pts |-> 0, keys |-> <<>>]

\* What read_observation_frames returns: every message is taken for a frame,
\* so that the footer is the last one and its count is never compared; a file
\* cut between two messages is a shorter video.
FramesRead ==
    IF "observations" \notin torn THEN {Append(Messages, FooterFrame)}
    ELSE {SubSeq(Messages, 1, n) : n \in 0..Len(Messages)}

ReadObservations ==
    /\ Goto("read", "repack")
    /\ read' \in FramesRead
    /\ UnchangedNative /\ UNCHANGED known

\* _compress_artifact_bundle packs what is not packed, which the native worker
\* has done, and rewrites the manifest.
Repack ==
    /\ Goto("repack", "reopen")
    /\ bundle' = [bundle EXCEPT !.packed = @ \cup ({"observations", "templates"} \ @)]
    /\ UNCHANGED <<video, limit, bus, probeVars, fault, queue, closed, broken, procVars,
                   main, linked, work, torn, exit, known, read>>

\* NativeRepresentativeCropProvider opens the same files again.
Take ==
    /\ Goto("reopen", "taken")
    /\ UnchangedNative /\ UNCHANGED <<known, read>>

\* Any file or store may fail: the exception ends the attempt.
ReaderRaises ==
    /\ stage \in {"download", "open", "read", "repack", "reopen"}
    /\ stage' = "raised"
    /\ UnchangedNative /\ UNCHANGED <<known, read>>

Reader == Download \/ RunNativeWorker \/ OpenBundle \/ ReadObservations \/ Repack
          \/ Take \/ ReaderRaises

BundleInit == WorkerInit /\ stage = "download" /\ known = {} /\ read = <<>>
BundleNext == RunWorker \/ Reader

\* The native worker's threads are scheduled, and the coroutine that awaits it
\* goes on when it has ended.
BundleSpec ==
    /\ BundleInit /\ [][BundleNext]_bundleVars
    /\ WF_bundleVars(stage = "await" /\ Probe /\ UNCHANGED readerVars)
    /\ WF_bundleVars(stage = "await" /\ Process /\ UNCHANGED readerVars)
    /\ WF_bundleVars(stage = "await" /\ Main /\ UNCHANGED readerVars)
    /\ WF_bundleVars(Reader)

-----------------------------------------------------------------------------
(* Properties *)

\* What an attempt goes on with comes from a native run that ended with 0, and
\* such a run has written all of the video or of --max-frames (ZeroMeansWhole).
\* The frames the Python worker reads are those of the video from the first
\* on, all of them and the footer unless a full disk cut the file between two
\* frames, and every face in them has a key it has read a template of
\* (_run_native_worker, NativeBundle, read_observation_frames).
TakenMeansWhole ==
    /\ ZeroMeansWhole
    /\ stage = "taken" =>
        LET seen == UNION {ToSet(read[i].keys) : i \in 1..Len(read)}
        IN  /\ exit = "0"
            /\ seen \subseteq known
            /\ bus # "error" =>
                 \A i \in 1..(IF "observations" \in torn THEN Len(read) ELSE Len(Expected)) :
                    /\ read[i].index = Expected[i].index
                    /\ read[i].pts = Expected[i].pts
            /\ "observations" \notin torn =>
                 Len(read) = bundle.manifest.frames + 1 /\ Last(read) = FooterFrame

\* Once the pipeline plays, the attempt gets its frames or an exception: main
\* gets a message or the stop flag, the queue it closes is drained, no thread
\* waits for ever, and the process that is awaited without a timeout ends.
WorkerEnds == main = "linking" ~> stage \in {"taken", "raised"}
=============================================================================
