----------------------------- MODULE GpuPipeline ------------------------------
(***************************************************************************)
(* GpuFacePipeline: what BulkEnrollment's Extract stands for.  A host      *)
(* program reserves device memory, launches kernels on one CUDA stream,    *)
(* and copies small results back, after which it waits for the stream and  *)
(* reads them.  The device takes the work of the stream in order, at any   *)
(* later moment.  Memory that is dropped is handed out again at once,      *)
(* while work that uses it may still be waiting.                           *)
(*                                                                         *)
(* The host's program is a sequence of steps, made up phase by phase, as   *)
(* far as what has been copied back decides it.  An exception in a chunk   *)
(* leaves its frame and what was launched goes on.                         *)
(*                                                                         *)
(* Arrays that are reserved and dropped together and never mistaken for    *)
(* others are one here: the outputs of the detector, boxes and landmarks.  *)
(* A box is a record of corners, from 0 to Unit, which stands for 1.0.     *)
(***************************************************************************)
EXTENDS BulkEnrollment, Integers, SequencesExt

CONSTANTS
  Raw,            \* for each picture, what the detector says at its anchors
  Confidence,     \* confidence_threshold
  MaxCandidates,  \* max_candidates
  Unit,
  NmsTenths,      \* nms_threshold
  Raising         \* the kinds of step at which an exception is tried

VARIABLES
  block,    \* the allocation records of all arenas: key, state, and the content
  tensor,   \* the DeviceTensors that are alive, and their allocation
  stream,   \* work launched and not done
  fetched,  \* host arrays that device memory is copied to
  host      \* the host program

deviceVars == <<block, tensor, stream, fetched, host>>

-----------------------------------------------------------------------------
(* The kernels of detection.                                               *)

Smaller(a, b) == IF a < b THEN a ELSE b
Larger(a, b) == IF a > b THEN a ELSE b

Passing(image) == {a \in DOMAIN Raw[image] : Raw[image][a].score >= Confidence}

\* The threads of retinaface_decode_batch_kernel take positions with atomicAdd;
\* they come in the order "arrival".
Arrivals(image) ==
  {s \in [1..Cardinality(Passing(image)) -> Passing(image)] : IsInjective(s)}
Candidates(image, arrival) ==
  LET n == Len(arrival)
  IN  [i \in 1..Smaller(n, MaxCandidates) |-> [of |-> image] @@ Raw[image][arrival[i]]]

\* The n-th place of those that so many others come before.
Ranked(n, before) == [k \in 1..n |-> CHOOSE i \in 1..n : Cardinality(before[i]) = k - 1]

\* mergenvision_argsort_descending; equal scores by position, which is any.
Argsort(scores) ==
  Ranked(Len(scores),
         [i \in DOMAIN scores |-> {j \in DOMAIN scores : \/ scores[j] > scores[i]
                                                         \/ scores[j] = scores[i] /\ j < i}])

\* iou: with one added to each length, though the boxes are normalized.
Suppresses(a, b) ==
  LET w == Larger(0, Smaller(a.x2, b.x2) - Larger(a.x1, b.x1) + Unit)
      h == Larger(0, Smaller(a.y2, b.y2) - Larger(a.y1, b.y1) + Unit)
      area(c) == (c.x2 - c.x1 + Unit) * (c.y2 - c.y1 + Unit)
  IN  10 * w * h > NmsTenths * (area(a) + area(b) - w * h)

\* nms_kernel: a thread for each place of the order, which any better candidate
\* suppresses, suppressed or not.
Keep(found, order) ==
  [i \in DOMAIN order |->
     \A j \in 1..(i - 1) : ~Suppresses(found[order[i]].box, found[order[j]].box)]

\* scale_clip_compact_xy_kernel
Compacted(found, order, keep) ==
  LET places == {i \in DOMAIN order : keep[i]}
  IN  [n \in 1..Cardinality(places) |-> found[order[Nth(places, n)]]]

Area(row) == (row.box.x2 - row.box.x1) * (row.box.y2 - row.box.y1)

\* pick_largest_kernel: the first of the largest.
Largest(rows) ==
  CHOOSE i \in DOMAIN rows : /\ \A j \in DOMAIN rows : Area(rows[j]) <= Area(rows[i])
                             /\ \A j \in 1..(i - 1) : Area(rows[j]) < Area(rows[i])

\* What all of this makes of a picture.
Survivors(image, arrival) ==
  LET found == Candidates(image, arrival)
      order == Argsort([i \in DOMAIN found |-> found[i].score])
  IN  Compacted(found, order, Keep(found, order))

KindOf(n) == IF n = 0 THEN "none" ELSE IF n = 1 THEN "single" ELSE "many"

ASSUME DetectorAssumption ==
  /\ MaxCandidates \in Nat \ {0} /\ Confidence \in Nat /\ Unit \in Nat \ {0} /\ NmsTenths \in Nat
  /\ \A i \in Images : Kind[i] # "broken" =>
       \A arrival \in Arrivals(i) : Kind[i] = KindOf(Len(Survivors(i, arrival)))
-----------------------------------------------------------------------------
(* The steps of the host's program.  An array of the host that a copy is   *)
(* under way to, or that was never copied to, holds nothing of use.        *)

Reserve(name, key) == [op |-> "reserve", name |-> name, key |-> key]
Ensure(name, key) == [op |-> "ensure", name |-> name, key |-> key]
Drop(names) == [op |-> "drop", names |-> names]
Launch(kernel, ins, outs, at) ==
  [op |-> "launch", kernel |-> kernel, in |-> ins, out |-> outs, at |-> at]
Set(name, value) == Launch("set", <<>>, <<name>>, value)
Fetch(array, name) == [op |-> "fetch", array |-> array, name |-> name]
Sync == [op |-> "sync"]
Check(name) == [op |-> "check", name |-> name]

\* What a kernel leaves in its outputs, of which "old" is what they hold.
SetRow(rows, n, row) ==
  [k \in 1..Larger(n, Len(rows)) |-> IF k = n THEN row ELSE rows[k]]
Over(new, old) == new \o SubSeq(old, Len(new) + 1, Len(old))

Matrix(row, status) == <<<<row.of>>, IF row.points = 0 THEN status ELSE <<row.points>>>>
Warped(image, matrix) == <<[of |-> image[1], by |-> matrix[1], unit |-> FALSE]>>

Written(kernel, in, old, at) ==
  CASE kernel = "set" -> <<at>>
    [] kernel = "gather" -> <<FlattenSeq(in)>>
    [] kernel = "detect" -> <<Over(in[1], old[1])>>
    [] kernel = "candidates" ->
         <<[b \in DOMAIN old[2] |-> Over(Candidates(in[1][b], at[in[1][b]]), old[1][b])],
           [b \in DOMAIN old[2] |-> old[2][b] + Len(at[in[1][b]])]>>
    [] kernel = "scores" -> <<[i \in 1..at.count |-> in[1][at.slot][i].score]>>
    [] kernel = "argsort" -> <<Argsort(in[1])>>
    [] kernel = "nms" -> <<Keep(in[1][at], in[2])>>
    [] kernel = "compact" ->
         LET rows == Compacted(in[1][at], in[2], in[3])
         IN  <<Over(rows, old[1]), Over([i \in DOMAIN rows |-> rows[i].score], old[2]),
               <<Len(rows)>>>>
    [] kernel = "pick" ->
         LET n == Len(at)
             best(b) == Largest(SubSeq(in[b], 1, at[b]))
             hit == {b \in 1..n : at[b] > 0}
             pick(of, rest) == [b \in 1..n |-> IF b \in hit THEN of[b][best(b)]
                                               ELSE IF b \in DOMAIN rest THEN rest[b] ELSE 0]
         IN  <<pick(in, old[1]), pick(SubSeq(in, n + 1, 2 * n), old[2]),
               [b \in 1..n |-> IF b \in hit THEN 1 ELSE 0]>>
    [] kernel = "matrix" -> Matrix(in[1][at], old[2])
    [] kernel = "warp" -> <<Warped(in[1], in[2])>>
    [] kernel = "place" -> <<SetRow(old[1], at, in[1][1])>>
    [] kernel = "recognize" -> <<Over(SubSeq(in[1], at.offset + 1, at.offset + at.count), old[1])>>
    [] kernel = "normalize" ->
         <<[k \in DOMAIN old[1] |-> IF k <= at THEN [old[1][k] EXCEPT !.unit = TRUE]
                                    ELSE old[1][k]], old[2]>>
    [] kernel = "concat" ->
         <<[k \in 1..Larger(at.offset + at.count, Len(old[1])) |->
              IF k \in (at.offset + 1)..(at.offset + at.count) THEN in[1][k - at.offset]
              ELSE old[1][k]]>>

\* The order of the threads is the device's choice.
Threads(pictures) ==
  {f \in [pictures -> UNION {Arrivals(i) : i \in pictures}] : \A i \in pictures : f[i] \in Arrivals(i)}
Outcomes(kernel, in, old, at) ==
  IF kernel = "candidates"
  THEN {Written(kernel, in, old, threads) : threads \in Threads({in[1][b] : b \in DOMAIN old[2]})}
  ELSE {Written(kernel, in, old, at)}

-----------------------------------------------------------------------------
(* The host's program.                                                     *)

\* An element of a host array.  One that nothing was copied to holds anything:
\* 0 here, which the host would take for an answer.
Fetched(array, n) ==
  IF array \in DOMAIN fetched /\ n \in DOMAIN fetched[array] THEN fetched[array][n] ELSE 0

Bundle == Manifest[host.bundle].images
InChunk == {p \in DOMAIN Bundle : Chunk(Bundle, p) = host.chunk}
Slots == Valid(Bundle, host.chunk)
N == Cardinality(Slots)
PositionOf(v) == Nth(Slots, v)
Each(n, steps(_)) == FlattenSeq([b \in 1..n |-> steps(b)])
Named(name, n) == [b \in 1..n |-> <<name, b>>]

\* One tensor each: <<name, 0>>, or <<name, slot>>.
One(name) == <<name, 0>>
Outputs == {One("found"), One("embedded")}

\* infer_device with _ensure_output_buffer, on a name of its own.
Infer(kernel, input, output, rows, at) ==
  <<Ensure(One(output), <<output, "rows", rows>>),
    Launch(kernel, <<One(input)>>, <<One(output)>>, at)>>

\* The engines' warm-up, with inputs that hold nothing.
Warming ==
  <<Reserve(One("input"), <<"found", "input", 1>>)>>
  \o Infer("detect", "input", "found", 1, 0) \o <<Sync, Drop({One("input")})>>
  \o <<Reserve(One("chips"), <<"embedded", "input", 1>>)>>
  \o Infer("detect", "chips", "embedded", 1, 0) \o <<Sync, Drop({One("chips")})>>

\* Decoding together raises when one picture fails, and then one by one.
Decoding ==
  LET decode(v) == <<Reserve(<<"image", v>>, <<"codec", "image", 1>>),
                     Set(<<"image", v>>, <<Bundle[PositionOf(v)]>>)>>
  IN  IF Slots = InChunk THEN Each(N, decode)
      ELSE Each(N, decode) \o <<Drop({<<"image", v>> : v \in 1..N})>> \o Each(N, decode)

\* preprocess_batch: resize, copy into one array, convert, twist, reformat.
Preprocessing ==
  <<Reserve(One("resized"), <<"cvcuda", "rows", N>>),
    Launch("gather", Named("image", N), <<One("resized")>>, 0),
    Reserve(One("rows"), <<"pre", "rows", N>>),
    Launch("gather", <<One("resized")>>, <<One("rows")>>, 0),
    Reserve(One("input"), <<"cvcuda", "rows", N>>),
    Launch("gather", <<One("rows")>>, <<One("input")>>, 0)>>

\* Fault: the counters are not cleared.
UnclearedCounting ==
  <<Reserve(One("cands"), <<"post", "cands", N>>),
    Reserve(One("counters"), <<"post", "int", N>>),
    Launch("candidates", <<One("found")>>, <<One("cands"), One("counters")>>, 0),
    Fetch(One("counters"), One("counters")), Sync>>

\* RetinaFacePostprocess.decode, until the counters are there.
Counting ==
  <<Reserve(One("cands"), <<"post", "cands", N>>),
    Reserve(One("counters"), <<"post", "int", N>>),
    Set(One("counters"), [b \in 1..N |-> 0]),
    Launch("candidates", <<One("found")>>, <<One("cands"), One("counters")>>, 0),
    Fetch(One("counters"), One("counters")), Sync>>

Detecting == Preprocessing \o Infer("detect", "input", "found", N, 0) \o Counting

CountOf(b) == Smaller(Fetched(One("counters"), b), MaxCandidates)

\* Its loop over the pictures: sort, suppress.
Sorting(b) ==
  LET k == CountOf(b)
      order == Reserve(<<"order", b>>, <<"post", "int", k>>)
      keep == Reserve(<<"keep", b>>, <<"post", "byte", k>>)
  IN  IF k = 0
      THEN <<Reserve(<<"empty", b>>, <<"post", "rows", 0>>),
             Reserve(<<"none", b>>, <<"post", "float", 0>>), order, keep>>
      ELSE <<Reserve(One("scores"), <<"post", "float", k>>),
             Launch("scores", <<One("cands")>>, <<One("scores")>>, [slot |-> b, count |-> k]),
             order,
             Launch("argsort", <<One("scores")>>, <<<<"order", b>>>>, 0),
             keep,
             Launch("nms", <<One("cands"), <<"order", b>>>>, <<<<"keep", b>>>>, b)>>

\* scale_and_compact
Scaling(b) ==
  LET k == CountOf(b)
  IN  <<Reserve(<<"rows", b>>, <<"post", "rows", k>>),
        Reserve(<<"score", b>>, <<"post", "float", k>>),
        Reserve(<<"count", b>>, <<"post", "int", 1>>),
        IF k = 0 THEN Set(<<"count", b>>, <<0>>)
        ELSE Launch("compact", <<One("cands"), <<"order", b>>, <<"keep", b>>>>,
                    <<<<"rows", b>>, <<"score", b>>, <<"count", b>>>>, b)>>

\* Fault: the counts are read before the stream has got to their copies.
HastyCounts(array) == Each(N, LAMBDA b : <<Fetch(<<array, b>>, <<"count", b>>)>>)

FetchCounts(array) == Each(N, LAMBDA b : <<Fetch(<<array, b>>, <<"count", b>>)>>) \o <<Sync>>

Ranking ==
  Each(N, Sorting) \o <<Drop({One("scores"), One("counters")})>>
  \o Each(N, Scaling) \o FetchCounts("faces")

\* pick_largest_device fetches the counts again.
Choosing ==
  <<Reserve(One("picked"), <<"post", "rows", N>>),
    Reserve(One("pickedScores"), <<"post", "float", N>>),
    Reserve(One("valid"), <<"post", "int", N>>)>> \o FetchCounts("counts")

Picking ==
  <<Launch("pick", Named("rows", N) \o Named("score", N),
           <<One("picked"), One("pickedScores"), One("valid")>>,
           [b \in 1..N |-> Fetched(<<"counts", b>>, 1)]),
    Sync, Fetch(One("valid"), One("valid")), Sync,
    Fetch(One("picked"), One("picked")), Fetch(One("pickedScores"), One("pickedScores")), Sync>>

FacesIn(v) == Fetched(<<"faces", v>>, 1)
Chosen == {v \in 1..N : FacesIn(v) = 1 /\ Fetched(One("valid"), v) # 0}

\* The status of a picture that is not accepted.
StatusOf(p) ==
  IF p \notin Slots THEN "decode_failed"
  ELSE LET v == Cardinality({q \in Slots : q <= p})
       IN  IF FacesIn(v) = 0 \/ Fetched(One("valid"), v) = 0 THEN "no_face"
           ELSE IF FacesIn(v) > 1 THEN "quarantine" ELSE "selected"

\* GpuFaceAligner.align, and the chip's place in the batch.
Align(image, v, j) ==
  <<Reserve(One("matrix"), <<"align", "matrix", 1>>),
    Reserve(One("status"), <<"align", "int", 1>>),
    Set(One("status"), <<0>>),
    Launch("matrix", <<One("picked")>>, <<One("matrix"), One("status")>>, v),
    Fetch(One("status"), One("status")), Sync, Check(One("status")), Drop({One("status")}),
    Reserve(One("chip"), <<"align", "chip", 1>>),
    Launch("warp", <<<<"image", image>>, One("matrix")>>, <<One("chip")>>, 0),
    Drop({One("matrix")}),
    Launch("place", <<One("chip")>>, <<One("chips")>>, j)>>

\* Fault: the chosen are numbered, and the number is taken for the slot.
Misaligning(j) == Align(j, Nth(Chosen, j), j)

Aligning(j) == Align(Nth(Chosen, j), Nth(Chosen, j), j)

\* GpuRecognizer.embed: a piece at a time, normalized where it lies.
Recognizing(q) ==
  LET offset == (q - 1) * EngineMax
      count == Smaller(EngineMax, Cardinality(Chosen) - offset)
  IN  Infer("recognize", "chips", "embedded", count, [offset |-> offset, count |-> count])
      \o <<Reserve(One("status"), <<"embed", "int", 1>>),
           Set(One("status"), <<0>>),
           Launch("normalize", <<>>, <<One("embedded"), One("status")>>, count),
           Fetch(One("status"), One("status")), Sync, Check(One("status")), Drop({One("status")})>>

Concatenating(q) ==
  LET offset == (q - 1) * EngineMax
      count == Smaller(EngineMax, Cardinality(Chosen) - offset)
  IN  <<Launch("concat", <<One("embedded")>>, <<One("all")>>, [offset |-> offset, count |-> count])>>

Recognition ==
  LET m == Cardinality(Chosen)
      pieces == (m + EngineMax - 1) \div EngineMax
  IN  <<Reserve(One("chips"), <<"pipe", "chips", m>>)>> \o Each(m, Aligning)
      \o Each(pieces, Recognizing)
      \o (IF pieces = 1 THEN <<Fetch(One("vectors"), One("embedded"))>>
          ELSE <<Reserve(One("all"), <<"embed", "rows", m>>)>> \o Each(pieces, Concatenating)
               \o <<Fetch(One("vectors"), One("all"))>>)
      \o <<Sync>>

-----------------------------------------------------------------------------
(* The host takes its steps.                                               *)

NoResult == [status |-> "pending", face |-> [of |-> "nothing"], vector |-> [of |-> "nothing"]]
NewResults(b) == [p \in DOMAIN Manifest[b].images |-> NoResult]

DeviceInit ==
  /\ block = <<>> /\ tensor = <<>> /\ stream = <<>> /\ fetched = <<>>
  /\ host = [phase |-> "warmup", bundle |-> 1, chunk |-> 0, todo |-> Warming,
             result |-> NewResults(1), broken |-> {}]

Calls(op) == host.todo # <<>> /\ Head(host.todo).op = op
Call == Head(host.todo)
Return == host' = [host EXCEPT !.todo = Tail(@)]

\* _find_completed_record: the first that is free, or a new one.
Place(key) ==
  LET free == {i \in DOMAIN block : block[i].key = key /\ block[i].state = "free"}
  IN  IF free = {} THEN Len(block) + 1 ELSE CHOOSE i \in free : \A j \in free : i <= j

\* The content stays: memory that was never written holds anything, 0 here.
Blank(key) == [n \in 1..key[3] |-> IF key[2] = "cands" THEN <<>> ELSE 0]
Grown(key) ==
  LET i == Place(key)
  IN  [k \in DOMAIN block \cup {i} |->
         IF k # i THEN block[k]
         ELSE [key |-> key, state |-> "active",
               holds |-> IF i \in DOMAIN block THEN block[i].holds ELSE Blank(key)]]

\* The records of tensors that are collected: weakref.finalize.
Freed(blocks, names) ==
  LET gone == {tensor[n] : n \in names \cap DOMAIN tensor}
  IN  [i \in DOMAIN blocks |-> IF i \in gone THEN [blocks[i] EXCEPT !.state = "free"] ELSE blocks[i]]

\* What the name stood for before is collected after.
Bind(name, key) ==
  /\ block' = Freed(Grown(key), {name})
  /\ tensor' = [n \in DOMAIN tensor \cup {name} |-> IF n = name THEN Place(key) ELSE tensor[n]]

Collect(names) ==
  /\ block' = Freed(block, names)
  /\ tensor' = Restrict(tensor, DOMAIN tensor \ names)

HostReserve ==
  /\ Calls("reserve")
  /\ Bind(Call.name, Call.key)
  /\ Return
  /\ UNCHANGED <<stream, fetched>>

\* _ensure_output_buffer: the buffer at hand is kept when it is large enough.
HostEnsure ==
  /\ Calls("ensure")
  /\ IF Call.name \in DOMAIN tensor /\ block[tensor[Call.name]].key[3] >= Call.key[3]
     THEN UNCHANGED <<block, tensor>> ELSE Bind(Call.name, Call.key)
  /\ Return
  /\ UNCHANGED <<stream, fetched>>

HostDrop ==
  /\ Calls("drop")
  /\ Collect(Call.names)
  /\ Return
  /\ UNCHANGED <<stream, fetched>>

\* Kernels get the addresses there are now.
Pointers(names) == [k \in DOMAIN names |-> tensor[names[k]]]

HostLaunch ==
  /\ Calls("launch")
  /\ stream' = Append(stream, [kernel |-> Call.kernel, in |-> Pointers(Call.in),
                               out |-> Pointers(Call.out), at |-> Call.at])
  /\ Return
  /\ UNCHANGED <<block, tensor, fetched>>

\* cudaMemcpyAsync to the host, into an array made for it.
HostFetch ==
  /\ Calls("fetch")
  /\ stream' = Append(stream, [kernel |-> "copy", in |-> <<tensor[Call.name]>>,
                               out |-> <<>>, at |-> Call.array])
  /\ fetched' = Restrict(fetched, DOMAIN fetched \ {Call.array})
  /\ Return
  /\ UNCHANGED <<block, tensor>>

HostSync ==
  /\ Calls("sync")
  /\ stream = <<>>
  /\ Return
  /\ UNCHANGED <<block, tensor, stream, fetched>>

\* A status other than 0 is a ValueError: Raise.
HostCheck ==
  /\ Calls("check")
  /\ Fetched(Call.name, 1) = 0
  /\ Return
  /\ UNCHANGED <<block, tensor, stream, fetched>>

\* The device does the oldest work of the stream.
Device ==
  /\ stream # <<>>
  /\ LET work == Head(stream)
         in == [k \in DOMAIN work.in |-> block[work.in[k]].holds]
         old == [k \in DOMAIN work.out |-> block[work.out[k]].holds]
     IN  IF work.kernel = "copy"
         THEN /\ fetched' = [a \in DOMAIN fetched \cup {work.at} |->
                               IF a = work.at THEN in[1] ELSE fetched[a]]
              /\ UNCHANGED block
         ELSE /\ \E new \in Outcomes(work.kernel, in, old, work.at) :
                   block' = [i \in DOMAIN block |->
                     IF \E k \in DOMAIN work.out : work.out[k] = i
                     THEN [block[i] EXCEPT !.holds = new[CHOOSE k \in DOMAIN work.out : work.out[k] = i]]
                     ELSE block[i]]
              /\ UNCHANGED fetched
  /\ stream' = Tail(stream)
  /\ UNCHANGED <<tensor, host>>

-----------------------------------------------------------------------------
(* From one phase of a chunk to the next.                                  *)

Done(phase) == host.phase = phase /\ host.todo = <<>>
Enter(phase, program) == host' = [host EXCEPT !.phase = phase, !.todo = program]

\* The frame of _process_chunk is left; only the engines keep their buffers.
Leave(result, broken) ==
  /\ Collect(DOMAIN tensor \ Outputs)
  /\ fetched' = <<>>
  /\ host' = [host EXCEPT
       !.phase = IF host.chunk + 1 \in Chunks(Bundle) THEN "chunk" ELSE "returned",
       !.chunk = @ + 1, !.todo = <<>>, !.result = result, !.broken = broken]

Marked(statuses) ==
  [p \in DOMAIN Bundle |-> IF p \in InChunk THEN [NoResult EXCEPT !.status = statuses[p]]
                           ELSE host.result[p]]

WarmedUp ==
  /\ Done("warmup")
  /\ Enter("chunk", <<>>)
  /\ UNCHANGED <<block, tensor, stream, fetched>>

Decode ==
  /\ Done("chunk")
  /\ Enter("decode", Decoding)
  /\ UNCHANGED <<block, tensor, stream, fetched>>

\* Nothing could be decoded.
Undecoded ==
  /\ Done("decode") /\ Slots = {}
  /\ Leave(Marked([p \in InChunk |-> "decode_failed"]), host.broken)
  /\ UNCHANGED stream

Detect ==
  /\ Done("decode") /\ Slots # {}
  /\ Enter("detect", Detecting)
  /\ UNCHANGED <<block, tensor, stream, fetched>>

RankCandidates ==
  /\ Done("detect")
  /\ Enter("rank", Ranking)
  /\ UNCHANGED <<block, tensor, stream, fetched>>

Choose ==
  /\ Done("rank")
  /\ Enter("choose", Choosing)
  /\ UNCHANGED <<block, tensor, stream, fetched>>

Pick ==
  /\ Done("choose")
  /\ Enter("pick", Picking)
  /\ UNCHANGED <<block, tensor, stream, fetched>>

Unselected ==
  /\ Done("pick") /\ Chosen = {}
  /\ Leave(Marked([p \in InChunk |-> StatusOf(p)]), host.broken)
  /\ UNCHANGED stream

Select ==
  /\ Done("pick") /\ Chosen # {}
  /\ Enter("embed", Recognition)
  /\ UNCHANGED <<block, tensor, stream, fetched>>

\* The j-th chosen has the j-th embedding, and its slot's box and score.
Embedded ==
  LET faces == Marked([p \in InChunk |-> StatusOf(p)])
  IN  [p \in DOMAIN faces |->
         IF p \in InChunk /\ faces[p].status = "selected"
         THEN [status |-> "accepted",
               face |-> [row |-> Fetched(One("picked"), Slot(Bundle, p)),
                         score |-> Fetched(One("pickedScores"), Slot(Bundle, p))],
               vector |-> Fetched(One("vectors"),
                            Cardinality({v \in Chosen : v <= Slot(Bundle, p)}))]
         ELSE faces[p]]

Accept ==
  /\ Done("embed")
  /\ Leave(Embedded, host.broken)
  /\ UNCHANGED stream

\* A CUDA call or a check raises: the chunk has failed as a whole, and the work
\* that was launched goes on.  Decoding has a handler of its own.
Raise ==
  /\ host.phase \in {"detect", "rank", "choose", "pick", "embed"}
  /\ host.todo # <<>>
  /\ Call.op \in Raising
  /\ Leave(Marked([p \in InChunk |-> "inference-error"]), host.broken \cup {host.chunk})
  /\ UNCHANGED stream

\* extract_batch has returned, and is called for the next bundle.
NextExtraction ==
  /\ Done("returned")
  /\ host.bundle < Len(Manifest)
  /\ host' = [host EXCEPT !.phase = "chunk", !.bundle = @ + 1, !.chunk = 0,
                          !.result = NewResults(host.bundle + 1), !.broken = {}]
  /\ UNCHANGED <<block, tensor, stream, fetched>>

\* close: the stream is waited for, and all memory freed.
Close ==
  /\ Done("returned")
  /\ host.bundle = Len(Manifest)
  /\ stream = <<>>
  /\ block' = <<>> /\ tensor' = <<>> /\ fetched' = <<>>
  /\ host' = [host EXCEPT !.phase = "closed", !.result = <<>>, !.broken = {}]
  /\ UNCHANGED stream

DeviceNext ==
  \/ HostReserve \/ HostEnsure \/ HostDrop \/ HostLaunch \/ HostFetch \/ HostSync
  \/ HostCheck \/ Device \/ WarmedUp \/ Decode \/ Undecoded \/ Detect \/ RankCandidates
  \/ Choose \/ Pick \/ Unselected \/ Select \/ Accept \/ Raise
  \/ NextExtraction \/ Close

\* The command with its device.  Extraction and the stores share no state but
\* the result, which ExtractionHolds compares with Extract's; the extractions
\* come first here.
BulkInit == Init /\ DeviceInit
BulkNext ==
  \/ DeviceNext /\ UNCHANGED vars
  \/ host.phase = "closed" /\ Next /\ UNCHANGED deviceVars
BulkSpec == BulkInit /\ [][BulkNext]_<<vars, deviceVars>>

-----------------------------------------------------------------------------
(* Properties.                                                             *)

\* What extract_batch returns is what Extract says, whatever the order in which
\* threads, kernels and copies get done, and whatever memory they find: in each
\* chunk that did not raise a picture has the status of its faces, and one that
\* is accepted has the box of its own face and a unit row of its own (or of the
\* picture that Embedding names); in one that did all have failed.
ExtractionHolds ==
  host.phase = "returned" =>
    \A p \in DOMAIN Bundle :
      LET got == host.result[p]
          kind == Kind[Bundle[p]]
          whose == Embedding(Bundle, p)
      IN  IF Chunk(Bundle, p) \in host.broken THEN got.status = "inference-error"
          ELSE CASE kind = "broken" -> got.status = "decode_failed"
                 [] kind = "none" -> got.status = "no_face"
                 [] kind = "many" -> got.status = "quarantine"
                 [] kind = "single" ->
                      /\ got.status = "accepted"
                      /\ got.face.row.of = Bundle[p] /\ got.face.score = got.face.row.score
                      /\ got.vector = [of |-> whose, by |-> whose, unit |-> TRUE]

\* Two tensors that are alive never share memory, and what is alive is not free.
BuffersExclusive ==
  /\ \A n \in DOMAIN tensor : tensor[n] \in DOMAIN block /\ block[tensor[n]].state = "active"
  /\ \A n, m \in DOMAIN tensor : tensor[n] = tensor[m] => n = m
=============================================================================
