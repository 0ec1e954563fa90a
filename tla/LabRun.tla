------------------------------- MODULE LabRun -------------------------------
(***************************************************************************)
(* The run directory of the research lab and the commands that work in it   *)
(* (pipeline.py, extraction.py, artifact_store.py, atomic_io.py): extract   *)
(* freezes a video into four raw files and their checksums under a lock;    *)
(* every other stage validates them, reads them and the files of earlier    *)
(* stages, and writes its own in place, without the lock.                   *)
(*                                                                          *)
(* A file is known by the extractions its content comes from.  A process    *)
(* may die at any step: what it was writing in place is left torn, what it   *)
(* wrote through a temporary file is there or not.                          *)
(***************************************************************************)
EXTENDS Integers, Sequences

CONSTANTS Procs,           \* processes of the command line
          Commands,        \* commands that are given
          MaxCommands,     \* how many
          MaxExtractions   \* how many extractions begin

Nobody == "nobody"
Stages == {"extract", "validate", "replay", "templates", "reconcile", "gallery",
           "evaluate", "visualize", "benchmark"}

ASSUME LabRunAssumption ==
    /\ Nobody \notin Procs /\ Commands \subseteq Stages \union {"force", "run"}
    /\ MaxCommands \in Nat /\ MaxExtractions \in Nat

VARIABLES
    disk,      \* the content of each file, or NoFile
    checksums, \* of the raw files, or NoSums
    lock,      \* the process that holds .run.lock, or Nobody
    begun,     \* extractions begun
    given,     \* commands given
    gallery,   \* whether the gallery holds a valid identity
    proc       \* the processes

runVars == <<disk, checksums, lock, begun, given, gallery, proc>>

RawFiles == {"manifest", "frames", "observations", "embeddings"}
Derived == {"assignments", "tracklets", "templates", "pairs", "clusters", "tracks",
            "labels", "metrics", "overlay", "benchmark"}
Files == RawFiles \union Derived

\* Content made of these extractions; a draft is the manifest before timing.
Content(of, whole, draft) == [of |-> of, whole |-> whole, draft |-> draft]
Torn == Content({}, FALSE, FALSE)
NoFile == Content({}, FALSE, TRUE)
NoSums == [f \in RawFiles |-> NoFile]

-----------------------------------------------------------------------------
(* The stages, as the steps they take *)

\* A step of a stage, on some files.
Op(kind, stage, files) == <<[kind |-> kind, stage |-> stage, files |-> files]>>

\* Writing in place: the file is emptied, then filled.
InPlace(stage, file) == Op("open", stage, {file}) \o Op("close", stage, {file})

\* A stage that works on the frozen run: it validates, then reads.
Frozen(stage, files) == Op("validate", stage, {}) \o Op("read", stage, files)

\* What extraction writes, the checksums last.
Put(file) == Op("put", "extract", {file})
Writes ==
    Put("manifest") \o Put("frames") \o Put("observations") \o Put("embeddings")
    \o Op("seal", "extract", {"manifest"}) \o Op("sums", "extract", {})

\* stage_extract
Extracts(again) ==
    Op("lock", "extract", {}) \o again \o Op("unlock", "extract", {})

\* stage_replay
Replays ==
    Frozen("replay", {"frames", "observations", "embeddings"})
    \o InPlace("replay", "assignments") \o InPlace("replay", "tracklets")

\* stage_templates
BuildsTemplates ==
    Frozen("templates", {"observations", "embeddings"})
    \o Op("unless", "templates", {"assignments"}) \o Op("read", "templates", {"assignments"})
    \o InPlace("templates", "templates")

\* stage_reconcile
Reconciles ==
    Frozen("reconcile", {"observations", "embeddings", "frames"})
    \o Op("unless", "reconcile", {"assignments"}) \o Op("read", "reconcile", {"assignments"})
    \o Op("unless", "reconcile", {"templates"}) \o Op("read", "reconcile", {"templates"})
    \o InPlace("reconcile", "pairs") \o InPlace("reconcile", "clusters")
    \o InPlace("reconcile", "tracks")

\* The rest of stage_gallery when the gallery has valid identities.
Matches ==
    Op("unless", "gallery", {"clusters"})
    \o Op("read", "gallery", {"clusters", "templates"})
    \o Op("relabel", "gallery", {"tracks"}) \o InPlace("gallery", "labels")

\* stage_evaluate: without canonical_tracks.json it ends in an unbound name.
Evaluates ==
    Frozen("evaluate", {"observations", "assignments", "clusters"})
    \o Op("look", "evaluate", {"tracks"}) \o InPlace("evaluate", "metrics")

\* stage_visualize
Visualizes ==
    Frozen("visualize", {"observations", "embeddings", "assignments"})
    \o Op("look", "visualize", {"tracklets", "clusters", "labels", "tracks"})
    \o InPlace("visualize", "overlay")

\* stage_benchmark
Benchmarks ==
    Frozen("benchmark", {"manifest", "observations", "embeddings"})
    \o InPlace("benchmark", "benchmark")

Program(stage) ==
    CASE stage = "extract" -> Extracts(Op("reuse", "extract", {}))
      [] stage = "force" -> Extracts(Writes)
      [] stage = "validate" -> Frozen(stage, {"manifest"})
      [] stage = "replay" -> Replays
      [] stage = "templates" -> BuildsTemplates
      [] stage = "reconcile" -> Reconciles
      [] stage = "gallery" -> Op("validate", stage, {}) \o Op("match", stage, {})
      [] stage = "evaluate" -> Evaluates
      [] stage = "visualize" -> Visualizes
      [] stage = "benchmark" -> Benchmarks

\* Which stage makes a file another one misses.
Maker(file) == CASE file = "assignments" -> "replay"
                 [] file = "templates" -> "templates"
                 [] file = "clusters" -> "reconcile"

\* run_friends: every stage, with this for the replay.
FullRun(replay) ==
    Program("extract") \o Program("validate") \o replay \o Program("templates")
    \o Program("reconcile") \o Program("gallery") \o Program("evaluate")
    \o Program("visualize") \o Program("benchmark")

\* Mutant: the full run trusts the replay it finds.
Trusting(cmd) == IF cmd = "run" THEN FullRun(Op("unless", "replay", {"assignments"}))
                 ELSE Program(cmd)

Steps(cmd) == IF cmd = "run" THEN FullRun(Program("replay")) ELSE Program(cmd)

-----------------------------------------------------------------------------
(* The processes *)

\* What a stage has read so far: from which extractions, and all of it whole.
NothingRead == [of |-> {}, whole |-> TRUE]

Idle == [cmd |-> "none", todo |-> <<>>, status |-> "idle", alone |-> FALSE,
         mine |-> 0, got |-> [s \in Stages |-> NothingRead],
         file |-> "", clash |-> FALSE]

\* The run directory is new, or as an earlier full run left it: with labels, or
\* without when the gallery had nobody in it.  The gallery may have been filled
\* or emptied since.
RunInit ==
    /\ gallery \in BOOLEAN
    /\ \/ begun = 0 /\ disk = [f \in Files |-> NoFile] /\ checksums = NoSums
       \/ /\ begun = 1
          /\ \E left \in {Files, Files \ {"labels"}} :
                disk = [f \in Files |-> IF f \in left THEN Content({1}, TRUE, FALSE) ELSE NoFile]
          /\ checksums = [f \in RawFiles |-> Content({1}, TRUE, FALSE)]
    /\ lock = Nobody /\ given = 0
    /\ proc = [p \in Procs |-> Idle]

Busy(p) == proc[p].todo # <<>>
Exists(f) == disk[f] # NoFile

\* ArtifactStore.validate.  Its reads are one step: the checksums are compared
\* with the files of one moment.
Complete == checksums # NoSums /\ \A f \in RawFiles : Exists(f)
Valid == Complete /\ checksums = [f \in RawFiles |-> disk[f]]

\* Process p is at a step of this kind.
At(p, kind) == Busy(p) /\ Head(proc[p].todo).kind = kind
Uses(p) == Head(proc[p].todo).files
File(p) == CHOOSE f \in Uses(p) : TRUE
Stage(p) == Head(proc[p].todo).stage

\* The process goes on, or ends with the command done.
Onward(r, rest) == [r EXCEPT !.todo = rest, !.status = IF rest = <<>> THEN "ok" ELSE "busy"]
Advance(p) == proc' = [proc EXCEPT ![p] = Onward(@, Tail(@.todo))]
Expand(p, more) == proc' = [proc EXCEPT ![p] = Onward(@, more \o Tail(@.todo))]

\* An exception ends the command; the lock, if held, is let go.
Ends(p, how) ==
    /\ proc' = [proc EXCEPT ![p].todo = <<>>, ![p].status = how, ![p].file = ""]
    /\ lock' = IF lock = p THEN Nobody ELSE lock
    /\ UNCHANGED <<disk, checksums, begun, given, gallery>>

Start(p, cmd) ==
    /\ ~Busy(p) /\ given < MaxCommands
    /\ given' = given + 1
    /\ proc' = [q \in Procs |->
        IF q = p THEN [Idle EXCEPT !.cmd = cmd, !.todo = Steps(cmd), !.status = "busy",
                                   !.alone = \A o \in Procs \ {p} : ~Busy(o)]
        ELSE [proc[q] EXCEPT !.alone = FALSE]]
    /\ UNCHANGED <<disk, checksums, lock, begun, gallery>>

Crash(p) == Busy(p) /\ Ends(p, "crashed")

\* Mutant: the lock is advice nobody takes.
NoLock == TRUE

\* flock(LOCK_EX | LOCK_NB)
LockFree == lock = Nobody

\* RunLock.__enter__: taken at once or not at all.
TakeLock(p) ==
    /\ At(p, "lock")
    /\ \/ /\ LockFree
          /\ lock' = p /\ Advance(p)
          /\ UNCHANGED <<disk, checksums, begun, given, gallery>>
       \/ ~LockFree /\ Ends(p, "failed")

\* extract_video keeps a run that is complete and valid.
Reuse(p) ==
    /\ At(p, "reuse")
    /\ Expand(p, IF Valid THEN <<>> ELSE Writes)
    /\ UNCHANGED <<disk, checksums, lock, begun, given, gallery>>

\* The raw files, each replaced at once; the first begins an extraction.
PutRaw(p) ==
    /\ At(p, "put")
    /\ LET first == File(p) = "manifest"
           mine == IF first THEN begun + 1 ELSE proc[p].mine
       IN  /\ first => begun < MaxExtractions
           /\ begun' = IF first THEN begun + 1 ELSE begun
           /\ disk' = [disk EXCEPT ![File(p)] = Content({mine}, TRUE, first)]
           /\ proc' = [proc EXCEPT ![p] = [Onward(@, Tail(@.todo)) EXCEPT !.mine = mine]]
    /\ UNCHANGED <<checksums, lock, given, gallery>>

\* The manifest again, with its timing.
SealManifest(p) ==
    /\ At(p, "seal")
    /\ disk' = [disk EXCEPT !["manifest"] = Content({proc[p].mine}, TRUE, FALSE)]
    /\ Advance(p)
    /\ UNCHANGED <<checksums, lock, begun, given, gallery>>

WriteChecksums(p) ==
    /\ At(p, "sums")
    /\ checksums' = [f \in RawFiles |-> disk[f]]
    /\ Advance(p)
    /\ UNCHANGED <<disk, lock, begun, given, gallery>>

Unlock(p) ==
    /\ At(p, "unlock")
    /\ lock' = Nobody /\ Advance(p)
    /\ UNCHANGED <<disk, checksums, begun, given, gallery>>

Validate(p) ==
    /\ At(p, "validate")
    /\ \/ /\ Valid
          /\ proc' = [proc EXCEPT ![p] = [Onward(@, Tail(@.todo)) EXCEPT
                                            !.got[Stage(p)] = NothingRead]]
          /\ UNCHANGED <<disk, checksums, lock, begun, given, gallery>>
       \/ ~Valid /\ Ends(p, "failed")

\* Files are read into the stage.  A torn one is refused when the tear is
\* inside a record, and taken for the whole when it is between two;
\* canonical_tracks.json and labels.json are one record each.
Absorbs(p, files) ==
    /\ \A f \in files : disk[f].whole \/ f \notin {"clusters", "labels"}
    /\ LET got == proc[p].got[Stage(p)]
           more == [of |-> got.of \union UNION {disk[f].of : f \in files},
                    whole |-> got.whole /\ \A f \in files : disk[f].whole]
       IN  proc' = [proc EXCEPT ![p] = [Onward(@, Tail(@.todo)) EXCEPT !.got[Stage(p)] = more]]
    /\ UNCHANGED <<disk, checksums, lock, begun, given, gallery>>

Read(p) ==
    /\ At(p, "read")
    /\ \/ (\A f \in Uses(p) : Exists(f)) /\ Absorbs(p, Uses(p))
       \/ (\E f \in Uses(p) : ~disk[f].whole \/ ~Exists(f)) /\ Ends(p, "failed")

\* Files a stage can do without.
Look(p) ==
    /\ At(p, "look")
    /\ \/ Absorbs(p, {f \in Uses(p) : Exists(f)})
       \/ (\E f \in Uses(p) : Exists(f) /\ ~disk[f].whole) /\ Ends(p, "failed")

\* A stage that misses a file of an earlier one runs that stage first.
Unless(p) ==
    /\ At(p, "unless")
    /\ Expand(p, IF Exists(File(p)) THEN <<>> ELSE Program(Maker(File(p))))
    /\ UNCHANGED <<disk, checksums, lock, begun, given, gallery>>

\* stage_gallery stops when there is no gallery, or nobody in it.
MatchGallery(p) ==
    /\ At(p, "match")
    /\ Expand(p, IF gallery THEN Matches ELSE <<>>)
    /\ UNCHANGED <<disk, checksums, lock, begun, given, gallery>>

\* The canonical tracks are read and written again with their labels.
Relabel(p) ==
    /\ At(p, "relabel")
    /\ \/ /\ Exists("tracks")
          /\ Expand(p, Op("read", "gallery", {"tracks"}) \o InPlace("gallery", "tracks"))
       \/ ~Exists("tracks") /\ Advance(p)
    /\ UNCHANGED <<disk, checksums, lock, begun, given, gallery>>

\* open(..., "w") empties the file, for whoever else is writing it as well.
Open(p) ==
    /\ At(p, "open")
    /\ LET others == {q \in Procs \ {p} : proc[q].file = File(p)}
       IN  proc' = [q \in Procs |->
            IF q = p THEN [Onward(proc[p], Tail(proc[p].todo)) EXCEPT
                                !.file = File(p), !.clash = others # {}]
            ELSE IF q \in others THEN [proc[q] EXCEPT !.clash = TRUE] ELSE proc[q]]
    /\ disk' = [disk EXCEPT ![File(p)] = Torn]
    /\ UNCHANGED <<checksums, lock, begun, given, gallery>>

Close(p) ==
    /\ At(p, "close")
    /\ LET read == proc[p].got[Stage(p)]
       IN  disk' = [disk EXCEPT ![File(p)] =
                        Content(read.of, read.whole /\ ~proc[p].clash, FALSE)]
    /\ proc' = [proc EXCEPT ![p] = [Onward(@, Tail(@.todo)) EXCEPT !.file = ""]]
    /\ UNCHANGED <<checksums, lock, begun, given, gallery>>

Step(p) ==
    \/ TakeLock(p) \/ Reuse(p) \/ PutRaw(p) \/ SealManifest(p) \/ WriteChecksums(p)
    \/ Unlock(p) \/ Validate(p) \/ Read(p) \/ Look(p) \/ Unless(p) \/ MatchGallery(p)
    \/ Relabel(p) \/ Open(p) \/ Close(p)

RunNext == \E p \in Procs :
              \/ \E cmd \in Commands : Start(p, cmd)
              \/ Step(p)
              \/ Crash(p)

RunSpec == RunInit /\ [][RunNext]_runVars

-----------------------------------------------------------------------------
(* Properties *)

\* Raw files that pass validation are those of one extraction that was
\* finished, whatever extractors died halfway, and however many there were
\* (extract_video writes the checksums last; RunLock).
ValidMeansFinished ==
    Valid => \E n \in 1..begun : \A f \in RawFiles :
                disk[f] = Content({n}, TRUE, FALSE)

\* A full run nothing else came between, once it is done, has replaced every
\* file that hung on an earlier extraction or was torn by an earlier command
\* that died: all are whole and of the extraction that is there now.  But
\* stage_gallery stops early when the gallery has nobody in it, and leaves the
\* labels it finds; stage_visualize takes them up whatever run they are of, so
\* that then, and only then, the overlay may hang on an earlier extraction.
RunRenewsAll ==
    \A p \in Procs :
        proc[p].cmd = "run" /\ proc[p].status = "ok" /\ proc[p].alone =>
            LET now == disk["manifest"].of
            IN  /\ Valid
                /\ \A f \in Derived \ {"labels", "overlay"} : disk[f] = Content(now, TRUE, FALSE)
                /\ gallery => disk["labels"] = Content(now, TRUE, FALSE)
                /\ disk["overlay"] = Content(now \union disk["labels"].of, TRUE, FALSE)
=============================================================================
