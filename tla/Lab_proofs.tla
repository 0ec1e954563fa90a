----------------------------- MODULE Lab_proofs ------------------------------
(***************************************************************************)
(* Proofs about the research lab: LabRun for any number of processes and   *)
(* commands, LabTracks for videos of any length.                           *)
(***************************************************************************)
EXTENDS LabRun, LabTracks, FiniteSetTheorems, WellFoundedInduction, TLAPS

-----------------------------------------------------------------------------
(* LabRun: the steps of a command.  What extraction does under the lock is *)
(* a chain in which each step has its place behind another.                *)

Kinds == {"lock", "reuse", "put", "seal", "sums", "unlock", "validate", "read", "look",
          "unless", "match", "relabel", "open", "close"}

Ops == {op \in [kind : Kinds, stage : Stages, files : SUBSET Files] :
          /\ op.kind \in {"open", "close"} => \E f \in Derived : op.files = {f}
          /\ op.kind = "put" => \E f \in RawFiles : op.files = {f}
          /\ op.kind = "unless" =>
               op.files \in {{"assignments"}, {"templates"}, {"clusters"}}}

Section == {"reuse", "put", "seal", "sums", "unlock"}

\* Whether a step may come right before another.
Leads(a, b) ==
  /\ b.kind = "reuse" => a.kind = "lock"
  /\ b.kind = "put" =>
       \/ b.files = {"manifest"} /\ a.kind = "lock"
       \/ b.files = {"frames"} /\ a.kind = "put" /\ a.files = {"manifest"}
       \/ b.files = {"observations"} /\ a.kind = "put" /\ a.files = {"frames"}
       \/ b.files = {"embeddings"} /\ a.kind = "put" /\ a.files = {"observations"}
  /\ b.kind = "seal" => a.kind = "put" /\ a.files = {"embeddings"}
  /\ b.kind = "sums" => a.kind = "seal"
  /\ b.kind = "unlock" => a.kind \in {"reuse", "sums"}

Chain(t) == t \in Seq(Ops) /\ \A i \in 1..(Len(t) - 1) : Leads(t[i], t[i + 1])

\* A chain that can begin anywhere: not in the middle of an extraction.
Program1(t) == Chain(t) /\ t # <<>> /\ t[1].kind \notin Section

LEMMA Joins ==
  ASSUME NEW s, NEW t, Chain(s), Chain(t),
         s # <<>> /\ t # <<>> => Leads(s[Len(s)], t[1])
  PROVE  Chain(s \o t)
<1> DEFINE n == Len(s)
           m == Len(t)
           st == s \o t
<1>1. s \in Seq(Ops) /\ t \in Seq(Ops) /\ n \in Nat /\ m \in Nat  BY DEF Chain
<1>2. /\ st \in Seq(Ops) /\ Len(st) = n + m
      /\ \A i \in 1..n : st[i] = s[i]
      /\ \A k \in 1..m : st[n + k] = t[k]
  BY <1>1
<1>3. /\ \A i \in 1..(n - 1) : Leads(s[i], s[i + 1])
      /\ \A i \in 1..(m - 1) : Leads(t[i], t[i + 1])
  BY DEF Chain
<1>4. n > 0 => s # <<>>  BY <1>1
<1>5. m > 0 => t # <<>>  BY <1>1
<1> HIDE DEF n, m, st
<1>6. ASSUME NEW i \in 1..(n + m - 1)  PROVE Leads(st[i], st[i + 1])
  <2>1. CASE i + 1 <= n
    <3>1. i \in 1..n /\ i + 1 \in 1..n /\ i \in 1..(n - 1)  BY <1>1, <2>1
    <3> QED  BY <1>2, <1>3, <3>1
  <2>2. CASE i = n
    <3>1. i \in 1..n /\ 1 \in 1..m /\ i + 1 = n + 1 /\ n > 0 /\ m > 0
      BY <1>1, <2>2
    <3>2. st[i] = s[n] /\ st[i + 1] = t[1]  BY <1>2, <2>2, <3>1
    <3> QED  BY <1>4, <1>5, <3>1, <3>2 DEF n
  <2>3. CASE i > n
    <3> DEFINE k == i - n
    <3>1. /\ k \in 1..(m - 1) /\ k \in 1..m /\ k + 1 \in 1..m
          /\ i = n + k /\ i + 1 = n + (k + 1)
      BY <1>1, <2>3
    <3> HIDE DEF k
    <3>2. st[i] = t[k] /\ st[i + 1] = t[k + 1]  BY <1>2, <3>1
    <3> QED  BY <1>3, <3>1, <3>2
  <2> QED  BY <1>1, <2>1, <2>2, <2>3
<1> QED  BY <1>2, <1>6 DEF Chain, st

LEMMA Ends1 ==
  ASSUME NEW s, NEW t, Chain(s), Chain(t), s # <<>>, t # <<>>
  PROVE  /\ s \o t # <<>> /\ (s \o t)[1] = s[1]
         /\ (s \o t)[Len(s \o t)] = t[Len(t)]
<1> DEFINE n == Len(s)
           m == Len(t)
<1>1. s \in Seq(Ops) /\ t \in Seq(Ops) /\ n \in Nat \ {0} /\ m \in Nat \ {0}
  BY DEF Chain
<1>2. /\ Len(s \o t) = n + m /\ (s \o t)[1] = s[1]
      /\ \A k \in 1..m : (s \o t)[n + k] = t[k]
  BY <1>1
<1> HIDE DEF n, m
<1>3. (s \o t)[n + m] = t[m] /\ s \o t # <<>>  BY <1>1, <1>2
<1> QED  BY <1>2, <1>3 DEF n, m

LEMMA Behind == ASSUME NEW a, NEW b, b.kind \notin Section  PROVE Leads(a, b)
BY DEF Leads, Section

LEMMA Sequel ==
  ASSUME NEW s, NEW t, Program1(s), Program1(t)
  PROVE  Program1(s \o t)
<1>1. Chain(s \o t)  BY Joins, Behind DEF Program1
<1>2. (s \o t)[1] = s[1] /\ s \o t # <<>>  BY DEF Program1, Chain
<1> QED  BY <1>1, <1>2 DEF Program1

LEMMA Single ==
  ASSUME NEW op \in Ops  PROVE Chain(<<op>>) /\ <<op>>[1] = op /\ <<op>> # <<>>
BY DEF Chain

\* A chain from one step to another, and one step more.
From(t, a, b) == Chain(t) /\ t # <<>> /\ t[1] = a /\ t[Len(t)] = b

LEMMA ExtendChain ==
  ASSUME NEW t, NEW a, NEW b, From(t, a, b), NEW op \in Ops, Leads(b, op)
  PROVE  From(t \o <<op>>, a, op)
<1> DEFINE u == <<op>>
<1>1. Chain(u) /\ u # <<>> /\ u[1] = op /\ u[Len(u)] = op  BY Single
<1> HIDE DEF u
<1>2. From(t \o u, a, op)  BY <1>1, Joins, Ends1 DEF From
<1> QED  BY <1>2 DEF u

LEMMA Step1 ==
  ASSUME NEW kind \in Kinds, NEW stage \in Stages, NEW files \in SUBSET Files,
         kind \notin Section \cup {"open", "close", "unless"}
  PROVE  Program1(Op(kind, stage, files))
<1> DEFINE op == [kind |-> kind, stage |-> stage, files |-> files]
<1>1. op \in Ops  BY DEF Ops, Section
<1> QED  BY <1>1, Single DEF Op, Program1

LEMMA Unless1 ==
  ASSUME NEW stage \in Stages, NEW f \in {"assignments", "templates", "clusters"}
  PROVE  Program1(Op("unless", stage, {f}))
<1> DEFINE op == [kind |-> "unless", stage |-> stage, files |-> {f}]
<1>1. op \in Ops  BY DEF Ops, Kinds, Files, Derived
<1> QED  BY <1>1, Single DEF Op, Program1, Section

LEMMA InPlace1 ==
  ASSUME NEW stage \in Stages, NEW f \in Derived
  PROVE  Program1(InPlace(stage, f))
<1> DEFINE op(kind) == [kind |-> kind, stage |-> stage, files |-> {f}]
<1>1. op("open") \in Ops /\ op("close") \in Ops  BY DEF Ops, Kinds, Files
<1>2. Program1(<<op("open")>>) /\ Program1(<<op("close")>>)
  BY <1>1, Single DEF Program1, Section
<1> QED  BY <1>2, Sequel DEF InPlace, Op

\* What extraction writes is one chain, from the manifest to the checksums.
LEMMA WritesChain ==
  /\ Chain(Writes) /\ Writes # <<>>
  /\ Writes[1].kind = "put" /\ Writes[1].files = {"manifest"}
  /\ Writes[Len(Writes)].kind = "sums"
<1> DEFINE put(f) == [kind |-> "put", stage |-> "extract", files |-> {f}]
           seal == [kind |-> "seal", stage |-> "extract", files |-> {"manifest"}]
           sums == [kind |-> "sums", stage |-> "extract", files |-> {}]
<1>1. /\ put("manifest") \in Ops /\ put("frames") \in Ops /\ put("observations") \in Ops
      /\ put("embeddings") \in Ops /\ seal \in Ops /\ sums \in Ops
  BY DEF Ops, Kinds, Files, RawFiles, Stages
<1>2. /\ Leads(put("manifest"), put("frames")) /\ Leads(put("frames"), put("observations"))
      /\ Leads(put("observations"), put("embeddings")) /\ Leads(put("embeddings"), seal)
      /\ Leads(seal, sums) /\ put("manifest").files = {"manifest"}
      /\ put("manifest").kind = "put" /\ sums.kind = "sums"
  BY DEF Leads
<1>3. Writes = <<put("manifest")>> \o <<put("frames")>> \o <<put("observations")>>
               \o <<put("embeddings")>> \o <<seal>> \o <<sums>>
  BY DEF Writes, Put, Op
<1> HIDE DEF put, seal, sums
<1>4. From(<<put("manifest")>>, put("manifest"), put("manifest"))  BY <1>1, Single DEF From
<1>5. From(Writes, put("manifest"), sums)  BY <1>1, <1>2, <1>3, <1>4, ExtendChain
<1> QED  BY <1>2, <1>5 DEF From

LEMMA ExtractsChain ==
  Program1(Extracts(Writes)) /\ Program1(Extracts(Op("reuse", "extract", {})))
<1> DEFINE op(kind) == [kind |-> kind, stage |-> "extract", files |-> {}]
           l == <<op("lock")>>
           u == <<op("unlock")>>
           r == <<op("reuse")>>
<1>1. op("lock") \in Ops /\ op("unlock") \in Ops /\ op("reuse") \in Ops
  BY DEF Ops, Kinds, Stages
<1>2. /\ op("lock").kind = "lock" /\ op("unlock").kind = "unlock" /\ op("reuse").kind = "reuse"
      /\ Extracts(Writes) = l \o Writes \o u
      /\ Extracts(Op("reuse", "extract", {})) = l \o r \o u
  BY DEF Extracts, Op
<1> HIDE DEF op
<1>3. Chain(l) /\ l # <<>> /\ l[Len(l)] = op("lock") /\ l[1] = op("lock")  BY <1>1, Single
<1>4. From(l \o Writes, op("lock"), Writes[Len(Writes)])
  <2>1. Leads(op("lock"), Writes[1])  BY <1>2, WritesChain DEF Leads
  <2> QED  BY <1>3, <2>1, WritesChain, Joins, Ends1 DEF From
<1>5. From(l \o r, op("lock"), op("reuse"))
  <2>1. Leads(op("lock"), op("reuse"))  BY <1>2 DEF Leads
  <2>2. From(l, op("lock"), op("lock"))  BY <1>3 DEF From
  <2> QED  BY <1>1, <2>1, <2>2, ExtendChain
<1>6. /\ Leads(Writes[Len(Writes)], op("unlock")) /\ Leads(op("reuse"), op("unlock"))
      /\ op("lock").kind \notin Section
  BY <1>2, WritesChain DEF Leads, Section
<1>7. From(l \o Writes \o u, op("lock"), op("unlock"))  BY <1>1, <1>4, <1>6, ExtendChain
<1>8. From(l \o r \o u, op("lock"), op("unlock"))  BY <1>1, <1>5, <1>6, ExtendChain
<1> HIDE DEF l, r, u
<1> QED  BY <1>2, <1>6, <1>7, <1>8 DEF From, Program1

LEMMA Frozen1 ==
  ASSUME NEW stage \in Stages, NEW files \in SUBSET Files
  PROVE  Program1(Frozen(stage, files))
<1>1. Program1(Op("validate", stage, {})) /\ Program1(Op("read", stage, files))
  BY Step1 DEF Section, Kinds
<1> QED  BY <1>1, Sequel DEF Frozen

LEMMA StagePrograms ==
  /\ Program1(Replays) /\ Program1(BuildsTemplates) /\ Program1(Reconciles)
  /\ Program1(Matches) /\ Program1(Evaluates) /\ Program1(Visualizes) /\ Program1(Benchmarks)
<1>1. \A f \in Derived : {f} \in SUBSET Files  BY DEF Files
<1>2. /\ {"replay", "templates", "reconcile", "gallery", "evaluate", "visualize", "benchmark"}
           \subseteq Stages
      /\ {"assignments", "tracklets", "templates", "pairs", "clusters", "tracks",
          "labels", "metrics", "overlay", "benchmark"} = Derived
      /\ {"manifest", "frames", "observations", "embeddings"} \cup Derived = Files
  BY DEF Stages, Derived, Files, RawFiles
<1>3. Program1(Replays)
  <2>1. Program1(Frozen("replay", {"frames", "observations", "embeddings"}))
    BY <1>2, Frozen1
  <2>2. Program1(InPlace("replay", "assignments")) /\ Program1(InPlace("replay", "tracklets"))
    BY <1>2, InPlace1
  <2> QED  BY <2>1, <2>2, Sequel DEF Replays
<1>4. Program1(BuildsTemplates)
  <2>1. Program1(Frozen("templates", {"observations", "embeddings"}))  BY <1>2, Frozen1
  <2>2. Program1(Op("unless", "templates", {"assignments"}))  BY <1>2, Unless1
  <2>3. Program1(Op("read", "templates", {"assignments"}))  BY <1>2, Step1 DEF Section, Kinds
  <2>4. Program1(InPlace("templates", "templates"))  BY <1>2, InPlace1
  <2> QED  BY <2>1, <2>2, <2>3, <2>4, Sequel DEF BuildsTemplates
<1>5. Program1(Reconciles)
  <2>1. Program1(Frozen("reconcile", {"observations", "embeddings", "frames"}))
    BY <1>2, Frozen1
  <2>2. /\ Program1(Op("unless", "reconcile", {"assignments"}))
        /\ Program1(Op("unless", "reconcile", {"templates"}))
    BY <1>2, Unless1
  <2>3. /\ Program1(Op("read", "reconcile", {"assignments"}))
        /\ Program1(Op("read", "reconcile", {"templates"}))
    BY <1>2, Step1 DEF Section, Kinds
  <2>4. /\ Program1(InPlace("reconcile", "pairs")) /\ Program1(InPlace("reconcile", "clusters"))
        /\ Program1(InPlace("reconcile", "tracks"))
    BY <1>2, InPlace1
  <2> QED  BY <2>1, <2>2, <2>3, <2>4, Sequel DEF Reconciles
<1>6. Program1(Matches)
  <2>1. Program1(Op("unless", "gallery", {"clusters"}))  BY <1>2, Unless1
  <2>2. /\ Program1(Op("read", "gallery", {"clusters", "templates"}))
        /\ Program1(Op("relabel", "gallery", {"tracks"}))
    BY <1>2, Step1 DEF Section, Kinds
  <2>3. Program1(InPlace("gallery", "labels"))  BY <1>2, InPlace1
  <2> QED  BY <2>1, <2>2, <2>3, Sequel DEF Matches
<1>7. Program1(Evaluates)
  <2>1. Program1(Frozen("evaluate", {"observations", "assignments", "clusters"}))
    BY <1>2, Frozen1
  <2>2. Program1(Op("look", "evaluate", {"tracks"}))  BY <1>2, Step1 DEF Section, Kinds
  <2>3. Program1(InPlace("evaluate", "metrics"))  BY <1>2, InPlace1
  <2> QED  BY <2>1, <2>2, <2>3, Sequel DEF Evaluates
<1>8. Program1(Visualizes)
  <2>1. Program1(Frozen("visualize", {"observations", "embeddings", "assignments"}))
    BY <1>2, Frozen1
  <2>2. Program1(Op("look", "visualize", {"tracklets", "clusters", "labels", "tracks"}))
    BY <1>2, Step1 DEF Section, Kinds
  <2>3. Program1(InPlace("visualize", "overlay"))  BY <1>2, InPlace1
  <2> QED  BY <2>1, <2>2, <2>3, Sequel DEF Visualizes
<1>9. Program1(Benchmarks)
  <2>1. Program1(Frozen("benchmark", {"manifest", "observations", "embeddings"}))
    BY <1>2, Frozen1
  <2>2. Program1(InPlace("benchmark", "benchmark"))  BY <1>2, InPlace1
  <2> QED  BY <2>1, <2>2, Sequel DEF Benchmarks
<1> QED  BY <1>3, <1>4, <1>5, <1>6, <1>7, <1>8, <1>9

\* Every stage, and every command, is a chain that can begin anywhere.
LEMMA Programs ==
  \A stage \in Stages \cup {"force"} : Program1(Program(stage))
<1>1. /\ Program1(Frozen("validate", {"manifest"}))
      /\ Program1(Op("validate", "gallery", {})) /\ Program1(Op("match", "gallery", {}))
  BY Frozen1, Step1 DEF Section, Kinds, Stages, Files, RawFiles
<1>2. Program1(Op("validate", "gallery", {}) \o Op("match", "gallery", {}))
  BY <1>1, Sequel
<1> QED  BY <1>1, <1>2, ExtractsChain, StagePrograms DEF Program, Stages

LEMMA StepsProgram ==
  ASSUME NEW cmd \in Commands
  PROVE  Program1(Steps(cmd))
<1>1. CASE cmd = "run"
  <2>1. \A stage \in Stages : Program1(Program(stage))  BY Programs
  <2>2. Program1(FullRun(Program("replay")))
    <3>1. /\ Program1(Program("extract")) /\ Program1(Program("validate"))
          /\ Program1(Program("replay")) /\ Program1(Program("templates"))
          /\ Program1(Program("reconcile")) /\ Program1(Program("gallery"))
          /\ Program1(Program("evaluate")) /\ Program1(Program("visualize"))
          /\ Program1(Program("benchmark"))
      BY <2>1 DEF Stages
    <3> QED  BY <3>1, Sequel DEF FullRun
  <2> QED  BY <1>1, <2>2 DEF Steps
<1>2. CASE cmd # "run"
  BY <1>2, Programs, LabRunAssumption DEF Steps
<1> QED  BY <1>1, <1>2

\* What is left of a chain, and what a step puts before it.
LEMMA Rest ==
  ASSUME NEW t, Chain(t), t # <<>>
  PROVE  /\ Chain(Tail(t)) /\ Head(t) \in Ops
         /\ Tail(t) # <<>> => /\ Head(Tail(t)) = Tail(t)[1] /\ Head(Tail(t)) \in Ops
                             /\ Leads(Head(t), Head(Tail(t)))
<1> DEFINE u == Tail(t)
           n == Len(t)
<1>1. t \in Seq(Ops) /\ n \in Nat \ {0} /\ Head(t) = t[1] /\ Head(t) \in Ops  BY DEF Chain
<1>2. u \in Seq(Ops) /\ Len(u) = n - 1 /\ \A i \in 1..(n - 1) : u[i] = t[i + 1]
  BY <1>1
<1>3. \A i \in 1..(n - 1) : Leads(t[i], t[i + 1])  BY DEF Chain
<1>4. u # <<>> => /\ n > 1 /\ Head(u) = u[1] /\ Head(u) \in Ops  BY <1>1, <1>2
<1> HIDE DEF u, n
<1>5. ASSUME NEW i \in 1..(n - 2)  PROVE Leads(u[i], u[i + 1])
  <2>1. /\ i \in 1..(n - 1) /\ i + 1 \in 1..(n - 1)  BY <1>1
  <2> QED  BY <1>2, <1>3, <2>1
<1>6. Len(u) - 1 = n - 2  BY <1>1, <1>2
<1>7. Chain(u)  BY <1>2, <1>5, <1>6 DEF Chain
<1>8. u # <<>> => Leads(t[1], u[1])
  <2> SUFFICES ASSUME u # <<>> PROVE Leads(t[1], u[1])
    OBVIOUS
  <2>1. 1 \in 1..(n - 1) /\ 1 + 1 = 2  BY <1>1, <1>4
  <2> QED  BY <1>2, <1>3, <2>1
<1> QED  BY <1>1, <1>4, <1>7, <1>8 DEF u

LEMMA Before ==
  ASSUME NEW s, NEW t, Program1(s), Chain(t), t # <<>> => t[1].kind \notin Section
  PROVE  Program1(s \o t)
<1>1. Chain(s \o t)  BY Joins, Behind DEF Program1
<1>2. CASE t = <<>>
  <2>1. s \o t = s  BY <1>2 DEF Program1, Chain
  <2> QED  BY <2>1
<1>3. CASE t # <<>>  BY <1>1, <1>3, Ends1 DEF Program1
<1> QED  BY <1>2, <1>3

-----------------------------------------------------------------------------
(* The inductive invariant of the run directory *)

Contents == [of : SUBSET Nat, whole : BOOLEAN, draft : BOOLEAN]

ProcRecs == [cmd : Commands \cup {"none"}, todo : Seq(Ops),
             status : {"idle", "busy", "ok", "failed", "crashed"}, alone : BOOLEAN,
             mine : Nat, got : [Stages -> [of : SUBSET Nat, whole : BOOLEAN]],
             file : Files \cup {""}, clash : BOOLEAN]

RunTypes ==
  /\ disk \in [Files -> Contents] /\ checksums \in [RawFiles -> Contents]
  /\ lock \in Procs \cup {Nobody} /\ begun \in Nat
  /\ proc \in [Procs -> ProcRecs]

\* A file this process put down in the extraction it is in.
Made(p, f) ==
  proc[p].mine \in 1..begun /\ disk[f] = Content({proc[p].mine}, TRUE, FALSE)

\* What an extraction has put down by the time it comes to a step.
Filled(p) ==
  LET h == Head(proc[p].todo)
  IN  /\ h.kind = "put" /\ h.files = {"frames"} => proc[p].mine \in 1..begun
      /\ h.kind = "put" /\ h.files = {"observations"} => Made(p, "frames")
      /\ h.kind = "put" /\ h.files = {"embeddings"} =>
           Made(p, "frames") /\ Made(p, "observations")
      /\ h.kind = "seal" => \A f \in RawFiles \ {"manifest"} : Made(p, f)
      /\ h.kind = "sums" => \A f \in RawFiles : Made(p, f)

\* A process in the middle of an extraction holds the lock.
Placed(p) ==
  /\ Chain(proc[p].todo)
  /\ Busy(p) => /\ Head(proc[p].todo).kind \in Section => lock = p
                /\ Filled(p)

\* The checksums are those of one extraction that wrote every raw file.
SumsFinished ==
  \/ checksums = NoSums
  \/ \E n \in 1..begun : checksums = [f \in RawFiles |-> Content({n}, TRUE, FALSE)]

RunInv == RunTypes /\ SumsFinished /\ \A p \in Procs : Placed(p)

LEMMA OnwardType ==
  ASSUME NEW r \in ProcRecs, NEW rest \in Seq(Ops)
  PROVE  /\ Onward(r, rest) \in ProcRecs /\ Onward(r, rest).todo = rest
         /\ Onward(r, rest).mine = r.mine
BY DEF Onward, ProcRecs

LEMMA TheFile ==
  ASSUME NEW p, NEW f, Uses(p) = {f}  PROVE File(p) = f
BY DEF File

LEMMA Head1 ==
  ASSUME NEW t, Chain(t), t # <<>>  PROVE Head(t) = t[1] /\ Head(t) \in Ops
BY Rest DEF Chain

\* A process outside an extraction has its place whatever else there is.
LEMMA Outside ==
  ASSUME NEW p \in Procs, Chain(proc'[p].todo),
         proc'[p].todo # <<>> => proc'[p].todo[1].kind \notin Section
  PROVE  Placed(p)'
<1>1. proc'[p].todo # <<>> => Head(proc'[p].todo).kind \notin Section  BY Head1
<1> QED  BY <1>1 DEF Placed, Busy, Filled, Section

\* What the others do leaves a process in its place, the lock being one's own.
LEMMA Others ==
  ASSUME RunInv, NEW p \in Procs, NEW q \in Procs \ {p},
         proc'[q].todo = proc[q].todo, proc'[q].mine = proc[q].mine,
         begun' \in Nat, begun' >= begun,
         lock = q => lock' = q /\ \A f \in RawFiles : disk'[f] = disk[f]
  PROVE  Placed(q)'
<1>1. Placed(q) /\ begun \in Nat /\ proc[q].mine \in Nat  BY DEF RunInv, RunTypes, ProcRecs
<1>2. CASE ~Busy(q)  BY <1>1, <1>2 DEF Placed, Busy
<1>3. CASE Busy(q) /\ Head(proc[q].todo).kind \notin Section
  BY <1>1, <1>3 DEF Placed, Busy, Filled, Section
<1>4. CASE Busy(q) /\ Head(proc[q].todo).kind \in Section
  <2>1. lock = q /\ lock' = q /\ \A f \in RawFiles : disk'[f] = disk[f]
    BY <1>1, <1>4 DEF Placed
  <2>2. \A f \in RawFiles : Made(q, f) => Made(q, f)'  BY <1>1, <2>1 DEF Made, Content
  <2>3. {"frames", "observations", "manifest", "embeddings"} = RawFiles  BY DEF RawFiles
  <2>4. proc[q].mine \in 1..begun => proc'[q].mine \in 1..begun'  BY <1>1
  <2>5. Filled(q) /\ Chain(proc[q].todo)  BY <1>1, <1>4 DEF Placed
  <2>6. Filled(q)'  BY <2>2, <2>3, <2>4, <2>5 DEF Filled
  <2> QED  BY <2>1, <2>5, <2>6 DEF Placed
<1> QED  BY <1>2, <1>3, <1>4

LEMMA Carried ==
  ASSUME RunInv, NEW p \in Procs, RunTypes', SumsFinished', Placed(p)',
         \A q \in Procs \ {p} : proc'[q].todo = proc[q].todo /\ proc'[q].mine = proc[q].mine,
         begun' >= begun,
         \A q \in Procs \ {p} :
            lock = q => lock' = q /\ \A f \in RawFiles : disk'[f] = disk[f]
  PROVE  RunInv'
<1>1. begun' \in Nat  BY DEF RunTypes
<1>2. \A q \in Procs \ {p} : Placed(q)'  BY <1>1, Others
<1> QED  BY <1>2 DEF RunInv

LEMMA SumsKept ==
  ASSUME RunInv, checksums' = checksums, begun' \in Nat, begun' >= begun
  PROVE  SumsFinished'
<1>1. begun \in Nat  BY DEF RunInv, RunTypes
<1>2. 1..begun \subseteq 1..begun'  BY <1>1
<1> QED  BY <1>2 DEF RunInv, SumsFinished, NoSums

\* A process at a step.
LEMMA AtStep ==
  ASSUME RunInv, NEW p \in Procs, Busy(p)
  PROVE  LET h == Head(proc[p].todo)
             t == Tail(proc[p].todo)
         IN  /\ proc[p] \in ProcRecs /\ h \in Ops /\ t \in Seq(Ops) /\ Chain(t)
             /\ t # <<>> => Head(t) = t[1] /\ t[1] \in Ops /\ Leads(h, t[1])
<1>1. Chain(proc[p].todo) /\ proc[p].todo # <<>> /\ proc[p] \in ProcRecs
  BY DEF RunInv, RunTypes, Placed, Busy
<1> QED  BY <1>1, Rest DEF Chain

\* Where a step is no part of an extraction, what follows it is not either.
LEMMA Leaves ==
  ASSUME NEW a, NEW b, Leads(a, b), a.kind \notin {"lock", "reuse", "put", "seal", "sums"}
  PROVE  b.kind \notin Section
BY DEF Leads, Section

LEMMA DerivedNotRaw == Derived \cap RawFiles = {} /\ Derived \subseteq Files /\ RawFiles \subseteq Files
BY DEF Derived, RawFiles, Files

LEMMA NobodyLocks == \A p \in Procs : p # Nobody
BY LabRunAssumption

-----------------------------------------------------------------------------
(* The first state, and each step *)

LEMMA RunBegins == RunInit => RunInv
<1> SUFFICES ASSUME RunInit PROVE RunInv
  OBVIOUS
<1>1. RunTypes
  <2>1. Idle \in ProcRecs  BY DEF Idle, ProcRecs, NothingRead
  <2>2. proc \in [Procs -> ProcRecs]  BY <2>1 DEF RunInit
  <2>3. NoFile \in Contents /\ Content({1}, TRUE, FALSE) \in Contents
    BY DEF NoFile, Content, Contents
  <2>4. disk \in [Files -> Contents]
    <3>1. CASE disk = [f \in Files |-> NoFile]  BY <2>3, <3>1
    <3>2. CASE \E left \in {Files, Files \ {"labels"}} :
                disk = [f \in Files |-> IF f \in left THEN Content({1}, TRUE, FALSE) ELSE NoFile]
      BY <2>3, <3>2
    <3> QED  BY <3>1, <3>2 DEF RunInit
  <2>7. checksums \in [RawFiles -> Contents]  BY <2>3 DEF RunInit, NoSums
  <2>5. begun = 0 \/ begun = 1  BY DEF RunInit
  <2>6. lock = Nobody  BY DEF RunInit
  <2> QED  BY <2>2, <2>4, <2>5, <2>6, <2>7 DEF RunTypes
<1>2. SumsFinished
  <2>1. 1 \in 1..1  OBVIOUS
  <2> QED  BY <2>1 DEF RunInit, SumsFinished
<1>3. ASSUME NEW p \in Procs PROVE Placed(p)
  <2>1. proc[p].todo = <<>>  BY DEF RunInit, Idle
  <2>2. Chain(<<>>)  BY DEF Chain
  <2> QED  BY <2>1, <2>2 DEF Placed, Busy
<1> QED  BY <1>1, <1>2, <1>3 DEF RunInv

\* A command begins, or ends with what it had left undone.
LEMMA StartStep ==
  ASSUME RunInv, NEW p \in Procs, NEW cmd \in Commands, Start(p, cmd)
  PROVE  RunInv'
<1> DEFINE r == [Idle EXCEPT !.cmd = cmd, !.todo = Steps(cmd), !.status = "busy",
                             !.alone = \A o \in Procs \ {p} : ~Busy(o)]
<1>1. Program1(Steps(cmd)) /\ Steps(cmd) \in Seq(Ops)
  BY StepsProgram DEF Program1, Chain
<1>2. r \in ProcRecs /\ r.todo = Steps(cmd)
  BY <1>1 DEF Idle, ProcRecs, NothingRead
<1>3. proc' = [q \in Procs |-> IF q = p THEN r ELSE [proc[q] EXCEPT !.alone = FALSE]]
  BY DEF Start
<1> HIDE DEF r
<1>4. proc'[p] = r  BY <1>3
<1>5. \A q \in Procs \ {p} : /\ proc'[q] \in ProcRecs
                             /\ proc'[q].todo = proc[q].todo /\ proc'[q].mine = proc[q].mine
  <2> SUFFICES ASSUME NEW q \in Procs \ {p}
               PROVE  /\ proc'[q] \in ProcRecs
                      /\ proc'[q].todo = proc[q].todo /\ proc'[q].mine = proc[q].mine
    OBVIOUS
  <2>1. proc[q] \in ProcRecs /\ proc'[q] = [proc[q] EXCEPT !.alone = FALSE]
    BY <1>3 DEF RunInv, RunTypes
  <2> QED  BY <2>1 DEF ProcRecs
<1>6. RunTypes'  BY <1>2, <1>3, <1>4, <1>5 DEF Start, RunInv, RunTypes
<1>7. Placed(p)'  BY <1>1, <1>2, <1>4, Outside DEF Program1
<1>8. begun' >= begun /\ begun' \in Nat
  <2>1. begun' = begun  BY DEF Start
  <2> QED  BY <2>1 DEF RunInv, RunTypes
<1>9. SumsFinished'  BY <1>8, SumsKept DEF Start
<1> QED  BY <1>5, <1>6, <1>7, <1>8, <1>9, Carried DEF Start

LEMMA EndsStep ==
  ASSUME RunInv, NEW p \in Procs, NEW how \in {"failed", "crashed"}, Ends(p, how)
  PROVE  RunInv'
<1>1. proc[p] \in ProcRecs /\ proc \in [Procs -> ProcRecs] /\ begun \in Nat
  BY DEF RunInv, RunTypes
<1>2. proc' = [proc EXCEPT ![p] = [proc[p] EXCEPT !.todo = <<>>, !.status = how, !.file = ""]]
  BY <1>1 DEF Ends
<1> DEFINE r == [proc[p] EXCEPT !.todo = <<>>, !.status = how, !.file = ""]
<1>3. r \in ProcRecs /\ r.todo = <<>>
  <2>1. <<>> \in Seq(Ops)  OBVIOUS
  <2> QED  BY <1>1, <2>1 DEF ProcRecs
<1> HIDE DEF r
<1>4. proc' \in [Procs -> ProcRecs] /\ proc'[p] = r /\ \A q \in Procs \ {p} : proc'[q] = proc[q]
  BY <1>1, <1>2, <1>3 DEF r
<1>5. RunTypes'  BY <1>4 DEF Ends, RunInv, RunTypes
<1>6. Chain(<<>>)  BY DEF Chain
<1>7. Placed(p)'  BY <1>3, <1>4, <1>6, Outside
<1>8. begun' >= begun /\ begun' \in Nat
  <2>1. begun' = begun  BY DEF Ends
  <2> QED  BY <1>1, <2>1
<1>9. SumsFinished'  BY <1>8, SumsKept DEF Ends
<1>10. \A q \in Procs \ {p} : lock = q => lock' = q /\ disk' = disk  BY NobodyLocks DEF Ends
<1> QED  BY <1>4, <1>5, <1>7, <1>8, <1>9, <1>10, Carried

\* A step that touches neither the raw files nor the checksums nor the lock
\* goes on to the rest of the command, with a whole stage before it or not.
LEMMA GoesOn ==
  ASSUME RunInv, NEW p \in Procs, Busy(p), NEW r \in ProcRecs, NEW rest,
         proc'[p] = r, r.todo = rest, proc' \in [Procs -> ProcRecs],
         \A q \in Procs \ {p} : proc'[q].todo = proc[q].todo /\ proc'[q].mine = proc[q].mine,
         rest = Tail(proc[p].todo) \/ \E s : Program1(s) /\ rest = s \o Tail(proc[p].todo),
         Head(proc[p].todo).kind \notin {"lock", "reuse", "put", "seal", "sums"},
         disk' \in [Files -> Contents], \A f \in RawFiles : disk'[f] = disk[f],
         UNCHANGED <<checksums, lock, begun>>
  PROVE  RunInv'
<1> DEFINE t == Tail(proc[p].todo)
<1>1. Chain(t) /\ (t # <<>> => t[1].kind \notin Section)  BY AtStep, Leaves
<1> HIDE DEF t
<1>2. Chain(rest) /\ (rest # <<>> => rest[1].kind \notin Section)
  <2>1. CASE rest = t  BY <1>1, <2>1
  <2>2. ASSUME NEW s, Program1(s), rest = s \o t  PROVE Program1(rest)
    BY <1>1, <2>2, Before
  <2> QED  BY <2>1, <2>2 DEF t, Program1
<1>3. Placed(p)'  BY <1>2, Outside
<1>4. begun' >= begun /\ begun' \in Nat  BY DEF RunInv, RunTypes
<1>5. SumsFinished'  BY <1>4, SumsKept
<1>6. RunTypes'  BY DEF RunInv, RunTypes
<1> QED  BY <1>3, <1>4, <1>5, <1>6, Carried

\* The processes when one goes on.
LEMMA OneGoes ==
  ASSUME RunInv, NEW p \in Procs, NEW r \in ProcRecs, proc' = [proc EXCEPT ![p] = r]
  PROVE  /\ proc' \in [Procs -> ProcRecs] /\ proc'[p] = r
         /\ \A q \in Procs \ {p} : proc'[q] = proc[q]
BY DEF RunInv, RunTypes

LEMMA AdvanceGoes ==
  ASSUME RunInv, NEW p \in Procs, Busy(p), Advance(p)
  PROVE  LET r == Onward(proc[p], Tail(proc[p].todo))
         IN  /\ r \in ProcRecs /\ r.todo = Tail(proc[p].todo) /\ r.mine = proc[p].mine
             /\ proc' = [proc EXCEPT ![p] = r]
<1>1. proc[p] \in ProcRecs /\ Tail(proc[p].todo) \in Seq(Ops)  BY AtStep
<1>2. proc' = [proc EXCEPT ![p] = Onward(proc[p], Tail(proc[p].todo))]
  BY DEF Advance, RunInv, RunTypes
<1> QED  BY <1>1, <1>2, OnwardType

LEMMA ExpandGoes ==
  ASSUME RunInv, NEW p \in Procs, Busy(p), NEW more \in Seq(Ops), Expand(p, more)
  PROVE  LET r == Onward(proc[p], more \o Tail(proc[p].todo))
         IN  /\ r \in ProcRecs /\ r.todo = more \o Tail(proc[p].todo) /\ r.mine = proc[p].mine
             /\ proc' = [proc EXCEPT ![p] = r]
<1> DEFINE rest == more \o Tail(proc[p].todo)
<1>1. proc[p] \in ProcRecs /\ Tail(proc[p].todo) \in Seq(Ops)  BY AtStep
<1>2. rest \in Seq(Ops)  BY <1>1
<1>3. proc' = [proc EXCEPT ![p] = Onward(proc[p], rest)]
  BY DEF Expand, RunInv, RunTypes
<1> HIDE DEF rest
<1>4. Onward(proc[p], rest) \in ProcRecs /\ Onward(proc[p], rest).todo = rest
      /\ Onward(proc[p], rest).mine = proc[p].mine
  BY <1>1, <1>2, OnwardType
<1> QED  BY <1>3, <1>4 DEF rest

\* Steps that put a stage before the rest: the missing one, the matching, the
\* labels.
LEMMA ExpandStep ==
  ASSUME RunInv, NEW p \in Procs, Busy(p), NEW more, more = <<>> \/ Program1(more),
         Expand(p, more),
         Head(proc[p].todo).kind \notin {"lock", "reuse", "put", "seal", "sums"},
         UNCHANGED <<disk, checksums, lock, begun>>
  PROVE  RunInv'
<1> DEFINE t == Tail(proc[p].todo)
           r == Onward(proc[p], more \o t)
<1>1. more \in Seq(Ops) /\ t \in Seq(Ops)
  <2>1. <<>> \in Seq(Ops)  OBVIOUS
  <2> QED  BY <2>1, AtStep DEF Program1, Chain
<1>2. r \in ProcRecs /\ r.todo = more \o t /\ proc' = [proc EXCEPT ![p] = r]
  BY <1>1, ExpandGoes
<1>3. more \o t = t \/ \E s : Program1(s) /\ more \o t = s \o t
  <2>1. CASE more = <<>>  BY <1>1, <2>1
  <2>2. CASE Program1(more)  BY <2>2
  <2> QED  BY <2>1, <2>2
<1>4. disk' \in [Files -> Contents]  BY DEF RunInv, RunTypes
<1> HIDE DEF r
<1>5. /\ proc' \in [Procs -> ProcRecs] /\ proc'[p] = r
      /\ \A q \in Procs \ {p} : proc'[q] = proc[q]
  BY <1>2, OneGoes
<1> QED  BY <1>2, <1>3, <1>4, <1>5, GoesOn

LEMMA AdvanceStep ==
  ASSUME RunInv, NEW p \in Procs, Busy(p), Advance(p),
         Head(proc[p].todo).kind \notin {"lock", "reuse", "put", "seal", "sums"},
         UNCHANGED <<disk, checksums, lock, begun>>
  PROVE  RunInv'
<1> DEFINE r == Onward(proc[p], Tail(proc[p].todo))
<1>1. r \in ProcRecs /\ r.todo = Tail(proc[p].todo) /\ proc' = [proc EXCEPT ![p] = r]
  BY AdvanceGoes
<1> HIDE DEF r
<1>2. /\ proc' \in [Procs -> ProcRecs] /\ proc'[p] = r
      /\ \A q \in Procs \ {p} : proc'[q] = proc[q]
  BY <1>1, OneGoes
<1>3. disk' \in [Files -> Contents]  BY DEF RunInv, RunTypes
<1> QED  BY <1>1, <1>2, <1>3, GoesOn

LEMMA UnlessStep ==
  ASSUME RunInv, NEW p \in Procs, Unless(p)  PROVE RunInv'
<1> DEFINE more == IF Exists(File(p)) THEN <<>> ELSE Program(Maker(File(p)))
<1>1. Busy(p) /\ Head(proc[p].todo).kind = "unless" /\ Expand(p, more)
      /\ UNCHANGED <<disk, checksums, lock, begun>>
  BY DEF Unless, At
<1>2. Head(proc[p].todo) \in Ops  BY <1>1, AtStep
<1>3. File(p) \in {"assignments", "templates", "clusters"}
  <2>1. Uses(p) \in {{"assignments"}, {"templates"}, {"clusters"}}
    BY <1>1, <1>2 DEF Ops, Uses
  <2> QED  BY <2>1, TheFile
<1>4. Program1(Program(Maker(File(p))))  BY <1>3, Programs DEF Maker, Stages
<1>5. more = <<>> \/ Program1(more)  BY <1>4
<1> HIDE DEF more
<1> QED  BY <1>1, <1>5, ExpandStep

LEMMA MatchStep ==
  ASSUME RunInv, NEW p \in Procs, MatchGallery(p)  PROVE RunInv'
<1> DEFINE more == IF gallery THEN Matches ELSE <<>>
<1>1. Busy(p) /\ Head(proc[p].todo).kind = "match" /\ Expand(p, more)
      /\ UNCHANGED <<disk, checksums, lock, begun>>
  BY DEF MatchGallery, At
<1>2. more = <<>> \/ Program1(more)  BY StagePrograms
<1> HIDE DEF more
<1> QED  BY <1>1, <1>2, ExpandStep

LEMMA RelabelStep ==
  ASSUME RunInv, NEW p \in Procs, Relabel(p)  PROVE RunInv'
<1> DEFINE more == Op("read", "gallery", {"tracks"}) \o InPlace("gallery", "tracks")
<1>1. /\ Busy(p) /\ Head(proc[p].todo).kind = "relabel" /\ (Expand(p, more) \/ Advance(p))
      /\ UNCHANGED <<disk, checksums, lock, begun>>
  BY DEF Relabel, At
<1>2. Program1(more)
  <2>1. "tracks" \in Derived /\ {"tracks"} \in SUBSET Files /\ "gallery" \in Stages
    BY DEF Derived, Files, Stages
  <2> QED  BY <2>1, Step1, InPlace1, Sequel DEF Section, Kinds
<1> HIDE DEF more
<1>3. CASE Expand(p, more)  BY <1>1, <1>2, <1>3, ExpandStep
<1>4. CASE Advance(p)  BY <1>1, <1>4, AdvanceStep
<1> QED  BY <1>1, <1>3, <1>4

\* Reading, with what the stage has read from now on.
Reads == [of : SUBSET Nat, whole : BOOLEAN]

LEMMA GotStep ==
  ASSUME RunInv, NEW p \in Procs, Busy(p), NEW seen \in Reads,
         proc' = [proc EXCEPT ![p] =
                    [Onward(@, Tail(@.todo)) EXCEPT !.got[Stage(p)] = seen]],
         Head(proc[p].todo).kind \notin {"lock", "reuse", "put", "seal", "sums"},
         UNCHANGED <<disk, checksums, lock, begun>>
  PROVE  RunInv'
<1> DEFINE o == Onward(proc[p], Tail(proc[p].todo))
           r == [o EXCEPT !.got[Stage(p)] = seen]
<1>1. proc[p] \in ProcRecs /\ Tail(proc[p].todo) \in Seq(Ops) /\ Stage(p) \in Stages
  BY AtStep DEF Stage, Ops
<1>2. o \in ProcRecs /\ o.todo = Tail(proc[p].todo) /\ o.mine = proc[p].mine
  BY <1>1, OnwardType
<1>3. proc' = [proc EXCEPT ![p] = r]  BY DEF RunInv, RunTypes
<1> HIDE DEF o
<1>4. r \in ProcRecs /\ r.todo = Tail(proc[p].todo)
  BY <1>1, <1>2 DEF ProcRecs, Reads
<1> HIDE DEF r
<1>5. /\ proc' \in [Procs -> ProcRecs] /\ proc'[p] = r
      /\ \A q \in Procs \ {p} : proc'[q] = proc[q]
  BY <1>3, <1>4, OneGoes
<1>6. disk' \in [Files -> Contents]  BY DEF RunInv, RunTypes
<1> QED  BY <1>4, <1>5, <1>6, GoesOn

LEMMA ValidateStep ==
  ASSUME RunInv, NEW p \in Procs, Validate(p)  PROVE RunInv'
<1>1. CASE Ends(p, "failed")  BY <1>1, EndsStep
<1>2. CASE ~Ends(p, "failed")
  <2>1. /\ Busy(p) /\ Head(proc[p].todo).kind = "validate"
        /\ proc' = [proc EXCEPT ![p] =
                      [Onward(@, Tail(@.todo)) EXCEPT !.got[Stage(p)] = NothingRead]]
        /\ UNCHANGED <<disk, checksums, lock, begun>>
    BY <1>2 DEF Validate, At
  <2>2. NothingRead \in Reads  BY DEF NothingRead, Reads
  <2> QED  BY <2>1, <2>2, GotStep
<1> QED  BY <1>1, <1>2

LEMMA AbsorbsStep ==
  ASSUME RunInv, NEW p \in Procs, Busy(p), NEW files \in SUBSET Files, Absorbs(p, files),
         Head(proc[p].todo).kind \notin {"lock", "reuse", "put", "seal", "sums"}
  PROVE  RunInv'
<1> DEFINE s == Stage(p)
           g == proc[p].got[s]
           seen == [of |-> g.of \union UNION {disk[f].of : f \in files},
                    whole |-> g.whole /\ \A f \in files : disk[f].whole]
<1>1. s \in Stages /\ proc[p] \in ProcRecs  BY AtStep DEF Stage, Ops
<1>2. g \in Reads  BY <1>1 DEF ProcRecs, Reads
<1>3. \A f \in files : disk[f].of \in SUBSET Nat /\ disk[f].whole \in BOOLEAN
  BY DEF RunInv, RunTypes, Contents
<1>4. seen \in Reads
  <2>1. g.of \union UNION {disk[f].of : f \in files} \in SUBSET Nat  BY <1>2, <1>3 DEF Reads
  <2>2. (g.whole /\ \A f \in files : disk[f].whole) \in BOOLEAN  OBVIOUS
  <2> QED  BY <2>1, <2>2 DEF Reads
<1>5. proc' = [proc EXCEPT ![p] = [Onward(@, Tail(@.todo)) EXCEPT !.got[s] = seen]]
  BY DEF Absorbs
<1>6. UNCHANGED <<disk, checksums, lock, begun>>  BY DEF Absorbs
<1> HIDE DEF seen
<1> QED  BY <1>4, <1>5, <1>6, GotStep

LEMMA ReadStep ==
  ASSUME RunInv, NEW p \in Procs, Read(p) \/ Look(p)  PROVE RunInv'
<1>1. Busy(p) /\ Head(proc[p].todo).kind \in {"read", "look"}  BY DEF Read, Look, At
<1>2. Uses(p) \in SUBSET Files  BY <1>1, AtStep DEF Uses, Ops
<1>3. \/ Ends(p, "failed") \/ Absorbs(p, Uses(p)) \/ Absorbs(p, {f \in Uses(p) : Exists(f)})
  BY DEF Read, Look
<1>4. {f \in Uses(p) : Exists(f)} \in SUBSET Files  BY <1>2
<1> QED  BY <1>1, <1>2, <1>3, <1>4, EndsStep, AbsorbsStep

\* Writing in place touches files that are worked out from the raw ones.
LEMMA InPlaceFile ==
  ASSUME RunInv, NEW p \in Procs, Busy(p), Head(proc[p].todo).kind \in {"open", "close"}
  PROVE  File(p) \in Derived /\ File(p) \in Files /\ File(p) \notin RawFiles
<1>1. PICK f \in Derived : Uses(p) = {f}  BY AtStep DEF Ops, Uses
<1> QED  BY <1>1, TheFile, DerivedNotRaw

LEMMA OpenStep ==
  ASSUME RunInv, NEW p \in Procs, Open(p)  PROVE RunInv'
<1> DEFINE o == Onward(proc[p], Tail(proc[p].todo))
           others == {q \in Procs \ {p} : proc[q].file = File(p)}
           r == [o EXCEPT !.file = File(p), !.clash = others # {}]
<1>1. Busy(p) /\ Head(proc[p].todo).kind = "open"  BY DEF Open, At
<1>2. File(p) \in Files /\ File(p) \notin RawFiles  BY <1>1, InPlaceFile
<1>3. proc[p] \in ProcRecs /\ Tail(proc[p].todo) \in Seq(Ops)  BY <1>1, AtStep
<1>4. o \in ProcRecs /\ o.todo = Tail(proc[p].todo)  BY <1>3, OnwardType
<1>5. proc' = [q \in Procs |->
                IF q = p THEN r
                ELSE IF q \in others THEN [proc[q] EXCEPT !.clash = TRUE] ELSE proc[q]]
  BY DEF Open
<1> HIDE DEF o, others
<1>6. r \in ProcRecs /\ r.todo = Tail(proc[p].todo)  BY <1>2, <1>4 DEF ProcRecs
<1> HIDE DEF r
<1>7. ASSUME NEW q \in Procs \ {p}
      PROVE  /\ proc'[q] \in ProcRecs
             /\ proc'[q].todo = proc[q].todo /\ proc'[q].mine = proc[q].mine
  <2>1. proc[q] \in ProcRecs  BY DEF RunInv, RunTypes
  <2>2. proc'[q] = [proc[q] EXCEPT !.clash = TRUE] \/ proc'[q] = proc[q]  BY <1>5
  <2> QED  BY <2>1, <2>2 DEF ProcRecs
<1>8. proc' \in [Procs -> ProcRecs] /\ proc'[p] = r
  <2>1. proc'[p] = r  BY <1>5
  <2>2. \A q \in Procs : proc'[q] \in ProcRecs  BY <1>6, <1>7, <2>1
  <2>3. proc' = [q \in Procs |-> proc'[q]]  BY <1>5
  <2> QED  BY <2>1, <2>2, <2>3
<1>9. disk' = [disk EXCEPT ![File(p)] = Torn] /\ disk \in [Files -> Contents]
      /\ UNCHANGED <<checksums, lock, begun>>
  BY DEF Open, RunInv, RunTypes
<1>10. Torn \in Contents  BY DEF Torn, Content, Contents
<1>11. disk' \in [Files -> Contents] /\ \A f \in RawFiles : disk'[f] = disk[f]
  BY <1>2, <1>9, <1>10, DerivedNotRaw
<1> QED  BY <1>1, <1>6, <1>7, <1>8, <1>9, <1>11, GoesOn

LEMMA CloseStep ==
  ASSUME RunInv, NEW p \in Procs, Close(p)  PROVE RunInv'
<1> DEFINE o == Onward(proc[p], Tail(proc[p].todo))
           r == [o EXCEPT !.file = ""]
           read == proc[p].got[Stage(p)]
           c == Content(read.of, read.whole /\ ~proc[p].clash, FALSE)
<1>1. Busy(p) /\ Head(proc[p].todo).kind = "close"  BY DEF Close, At
<1>2. File(p) \in Files /\ File(p) \notin RawFiles  BY <1>1, InPlaceFile
<1>3. proc[p] \in ProcRecs /\ Tail(proc[p].todo) \in Seq(Ops) /\ Stage(p) \in Stages
  BY <1>1, AtStep DEF Stage, Ops
<1>4. o \in ProcRecs /\ o.todo = Tail(proc[p].todo)  BY <1>3, OnwardType
<1>5. proc' = [proc EXCEPT ![p] = r]  BY DEF Close, RunInv, RunTypes
<1>6. c \in Contents
  <2>1. read \in Reads /\ proc[p].clash \in BOOLEAN  BY <1>3 DEF ProcRecs, Reads
  <2>2. read.of \in SUBSET Nat /\ (read.whole /\ ~proc[p].clash) \in BOOLEAN
    BY <2>1 DEF Reads
  <2> QED  BY <2>2 DEF Content, Contents
<1>7. disk' = [disk EXCEPT ![File(p)] = c] /\ disk \in [Files -> Contents]
      /\ UNCHANGED <<checksums, lock, begun>>
  BY DEF Close, RunInv, RunTypes
<1> HIDE DEF o, c
<1>8. r \in ProcRecs /\ r.todo = Tail(proc[p].todo)  BY <1>4 DEF ProcRecs
<1> HIDE DEF r
<1>9. /\ proc' \in [Procs -> ProcRecs] /\ proc'[p] = r
      /\ \A q \in Procs \ {p} : proc'[q] = proc[q]
  BY <1>5, <1>8, OneGoes
<1>10. disk' \in [Files -> Contents] /\ \A f \in RawFiles : disk'[f] = disk[f]
  BY <1>2, <1>6, <1>7, DerivedNotRaw
<1> QED  BY <1>1, <1>7, <1>8, <1>9, <1>10, GoesOn

\* A step under the lock, or the one that takes it.
LEMMA Within ==
  ASSUME RunInv, NEW p \in Procs, lock \in {p, Nobody}, lock' = p,
         NEW r \in ProcRecs, proc' = [proc EXCEPT ![p] = r], Chain(r.todo),
         r.todo # <<>> => Filled(p)',
         disk' \in [Files -> Contents], checksums' \in [RawFiles -> Contents],
         begun' \in Nat, begun' >= begun, SumsFinished'
  PROVE  RunInv'
<1>1. /\ proc' \in [Procs -> ProcRecs] /\ proc'[p] = r
      /\ \A q \in Procs \ {p} : proc'[q] = proc[q]
  BY OneGoes
<1>2. RunTypes'  BY <1>1 DEF RunTypes
<1>3. Placed(p)'  BY <1>1 DEF Placed, Busy
<1>4. \A q \in Procs \ {p} : lock # q  BY NobodyLocks
<1> QED  BY <1>1, <1>2, <1>3, <1>4, Carried

\* The process at a step of an extraction holds the lock.
LEMMA HoldsLock ==
  ASSUME RunInv, NEW p \in Procs, Busy(p), Head(proc[p].todo).kind \in Section
  PROVE  lock = p /\ Filled(p)
BY DEF RunInv, Placed

LEMMA TakeLockStep ==
  ASSUME RunInv, NEW p \in Procs, TakeLock(p)  PROVE RunInv'
<1>1. CASE Ends(p, "failed")  BY <1>1, EndsStep
<1>2. CASE ~Ends(p, "failed")
  <2> DEFINE r == Onward(proc[p], Tail(proc[p].todo))
             h == Head(proc[p].todo)
             t == Tail(proc[p].todo)
  <2>1. /\ Busy(p) /\ h.kind = "lock" /\ lock = Nobody /\ lock' = p /\ Advance(p)
        /\ UNCHANGED <<disk, checksums, begun>>
    BY <1>2 DEF TakeLock, At, LockFree
  <2>2. r \in ProcRecs /\ r.todo = t /\ proc' = [proc EXCEPT ![p] = r]
    BY <2>1, AdvanceGoes
  <2> HIDE DEF r
  <2>3. proc'[p] = r  BY <2>2, OneGoes
  <2>4. Chain(t) /\ (t # <<>> => Head(t) = t[1] /\ Leads(h, t[1]))  BY <2>1, AtStep
  <2> HIDE DEF t, h
  <2>5. t # <<>> => Filled(p)'  BY <2>1, <2>2, <2>3, <2>4 DEF Filled, Leads
  <2>6. /\ disk' \in [Files -> Contents] /\ checksums' \in [RawFiles -> Contents]
        /\ begun' \in Nat /\ begun' >= begun
    BY <2>1 DEF RunInv, RunTypes
  <2>7. SumsFinished'  BY <2>1, <2>6, SumsKept
  <2> QED  BY <2>1, <2>2, <2>4, <2>5, <2>6, <2>7, Within
<1> QED  BY <1>1, <1>2

LEMMA ReuseStep ==
  ASSUME RunInv, NEW p \in Procs, Reuse(p)  PROVE RunInv'
<1> DEFINE h == Head(proc[p].todo)
           t == Tail(proc[p].todo)
           more == IF Valid THEN <<>> ELSE Writes
           r == Onward(proc[p], more \o t)
<1>1. /\ Busy(p) /\ h.kind = "reuse" /\ Expand(p, more)
      /\ UNCHANGED <<disk, checksums, begun, lock>>
  BY DEF Reuse, At
<1>2. lock = p  BY <1>1, HoldsLock DEF Section
<1>3. t \in Seq(Ops) /\ Chain(t) /\ (t # <<>> => Head(t) = t[1] /\ Leads(h, t[1]))
  BY <1>1, AtStep
<1>4. more \in Seq(Ops)
  <2>1. <<>> \in Seq(Ops)  OBVIOUS
  <2> QED  BY <2>1, WritesChain DEF Chain
<1>5. r \in ProcRecs /\ r.todo = more \o t /\ proc' = [proc EXCEPT ![p] = r]
  BY <1>1, <1>4, ExpandGoes
<1> HIDE DEF r, h, t
<1>6. proc'[p] = r  BY <1>5, OneGoes
<1>7. Chain(more \o t) /\ (more \o t # <<>> => Filled(p)')
  <2>1. CASE Valid
    <3>1. more \o t = t  BY <1>3, <2>1
    <3>2. t # <<>> => Filled(p)'  BY <1>1, <1>3, <1>5, <1>6, <3>1 DEF Filled, Leads
    <3> QED  BY <1>3, <3>1, <3>2
  <2>2. CASE ~Valid
    <3>1. more = Writes  BY <2>2
    <3> HIDE DEF more
    <3>2. t # <<>> => Leads(Writes[Len(Writes)], t[1])
      BY <1>1, <1>3, WritesChain DEF Leads
    <3>3. Chain(Writes \o t)  BY <1>3, <3>2, WritesChain, Joins
    <3>4. (Writes \o t)[1] = Writes[1] /\ Writes \o t # <<>>
      <4>1. CASE t = <<>>  BY <4>1, WritesChain DEF Chain
      <4>2. CASE t # <<>>  BY <1>3, <4>2, WritesChain, Ends1
      <4> QED  BY <4>1, <4>2
    <3>5. Head(Writes \o t) = Writes[1]  BY <3>3, <3>4, Head1
    <3>6. Head(proc'[p].todo).kind = "put" /\ Head(proc'[p].todo).files = {"manifest"}
      BY <1>5, <1>6, <3>1, <3>5, WritesChain
    <3>7. Filled(p)'  BY <3>6 DEF Filled
    <3> QED  BY <3>1, <3>3, <3>7
  <2> QED  BY <2>1, <2>2
<1> HIDE DEF more
<1>8. /\ disk' \in [Files -> Contents] /\ checksums' \in [RawFiles -> Contents]
      /\ begun' \in Nat /\ begun' >= begun
  BY <1>1 DEF RunInv, RunTypes
<1>9. SumsFinished'  BY <1>1, <1>8, SumsKept
<1> QED  BY <1>1, <1>2, <1>5, <1>7, <1>8, <1>9, Within

LEMMA PutStep ==
  ASSUME RunInv, NEW p \in Procs, PutRaw(p)  PROVE RunInv'
<1> DEFINE h == Head(proc[p].todo)
           t == Tail(proc[p].todo)
           o == Onward(proc[p], t)
           mine == IF File(p) = "manifest" THEN begun + 1 ELSE proc[p].mine
           r == [o EXCEPT !.mine = mine]
           c == Content({mine}, TRUE, File(p) = "manifest")
<1>1. /\ Busy(p) /\ h.kind = "put" /\ UNCHANGED <<checksums, lock>>
      /\ begun' = (IF File(p) = "manifest" THEN begun + 1 ELSE begun)
      /\ disk' = [disk EXCEPT ![File(p)] = c]
  BY DEF PutRaw, At
<1>2. lock = p /\ Filled(p)  BY <1>1, HoldsLock DEF Section
<1>3. PICK f \in RawFiles : h.files = {f}  BY <1>1, AtStep DEF Ops
<1>4. File(p) = f  BY <1>3, TheFile DEF Uses
<1>5. /\ proc[p] \in ProcRecs /\ t \in Seq(Ops) /\ Chain(t)
      /\ t # <<>> => Head(t) = t[1] /\ Leads(h, t[1])
  BY <1>1, AtStep
<1>6. proc' = [proc EXCEPT ![p] = r]  BY DEF PutRaw, RunInv, RunTypes
<1>7. begun \in Nat /\ proc[p].mine \in Nat /\ disk \in [Files -> Contents]
  BY <1>5 DEF ProcRecs, RunInv, RunTypes
<1>8. mine \in Nat /\ begun' \in Nat /\ begun' >= begun  BY <1>1, <1>7
<1>9. o \in ProcRecs /\ o.todo = t  BY <1>5, OnwardType
<1> HIDE DEF o, mine
<1>10. r \in ProcRecs /\ r.todo = t /\ r.mine = mine  BY <1>8, <1>9 DEF ProcRecs
<1> HIDE DEF r
<1>11. proc'[p] = r  BY <1>6, <1>10, OneGoes
<1>12. c \in Contents  BY <1>8 DEF Content, Contents
<1> HIDE DEF c
<1>13. /\ disk' \in [Files -> Contents] /\ disk'[f] = c
       /\ \A g \in RawFiles \ {f} : disk'[g] = disk[g]
  BY <1>1, <1>4, <1>7, <1>12, DerivedNotRaw
<1>14. {"manifest", "frames", "observations", "embeddings"} = RawFiles  BY DEF RawFiles
<1>15. f = "manifest" => proc'[p].mine \in 1..begun'
  BY <1>1, <1>4, <1>7, <1>10, <1>11 DEF mine
<1>16. f # "manifest" => /\ proc'[p].mine = proc[p].mine /\ begun' = begun
                         /\ c = Content({proc'[p].mine}, TRUE, FALSE)
  BY <1>1, <1>4, <1>10, <1>11 DEF mine, c
<1>17. f # "manifest" => /\ proc[p].mine \in 1..begun => Made(p, f)'
                         /\ \A g \in RawFiles \ {f} : Made(p, g) => Made(p, g)'
  BY <1>13, <1>16 DEF Made, Content
<1> HIDE DEF h, t
<1>18. t # <<>> => Filled(p)'
  <2> SUFFICES ASSUME t # <<>> PROVE Filled(p)'
    OBVIOUS
  <2>1. Head(proc'[p].todo) = t[1] /\ Leads(h, t[1])  BY <1>5, <1>10, <1>11
  <2>2. CASE f = "manifest"
    BY <1>1, <1>3, <1>15, <2>1, <2>2 DEF Filled, Leads
  <2>3. CASE f = "frames"
    <3>1. Made(p, "frames")'  BY <1>1, <1>2, <1>3, <1>17, <2>3 DEF Filled, h
    <3> QED  BY <1>1, <1>3, <2>1, <2>3, <3>1 DEF Filled, Leads
  <2>4. CASE f = "observations"
    <3>1. Made(p, "frames")  BY <1>1, <1>2, <1>3, <2>4 DEF Filled, h
    <3>2. Made(p, "frames")' /\ Made(p, "observations")'
      BY <1>14, <1>17, <2>4, <3>1 DEF Made
    <3> QED  BY <1>1, <1>3, <2>1, <2>4, <3>2 DEF Filled, Leads
  <2>5. CASE f = "embeddings"
    <3>1. Made(p, "frames") /\ Made(p, "observations")
      BY <1>1, <1>2, <1>3, <2>5 DEF Filled, h
    <3>2. Made(p, "frames")' /\ Made(p, "observations")' /\ Made(p, "embeddings")'
      BY <1>14, <1>17, <2>5, <3>1 DEF Made
    <3>3. \A g \in RawFiles \ {"manifest"} : Made(p, g)'  BY <1>14, <3>2
    <3> QED  BY <1>1, <1>3, <2>1, <2>5, <3>3 DEF Filled, Leads
  <2> QED  BY <1>14, <2>2, <2>3, <2>4, <2>5
<1>19. SumsFinished'  BY <1>1, <1>8, SumsKept
<1>20. checksums' \in [RawFiles -> Contents]  BY <1>1 DEF RunInv, RunTypes
<1> QED  BY <1>1, <1>2, <1>5, <1>6, <1>8, <1>10, <1>13, <1>18, <1>19, <1>20, Within

LEMMA SealStep ==
  ASSUME RunInv, NEW p \in Procs, SealManifest(p)  PROVE RunInv'
<1> DEFINE h == Head(proc[p].todo)
           t == Tail(proc[p].todo)
           r == Onward(proc[p], t)
           c == Content({proc[p].mine}, TRUE, FALSE)
<1>1. /\ Busy(p) /\ h.kind = "seal" /\ Advance(p)
      /\ disk' = [disk EXCEPT !["manifest"] = c] /\ UNCHANGED <<checksums, lock, begun>>
  BY DEF SealManifest, At
<1>2. lock = p /\ Filled(p)  BY <1>1, HoldsLock DEF Section
<1>3. /\ proc[p] \in ProcRecs /\ Chain(t) /\ (t # <<>> => Head(t) = t[1] /\ Leads(h, t[1]))
  BY <1>1, AtStep
<1>4. r \in ProcRecs /\ r.todo = t /\ r.mine = proc[p].mine /\ proc' = [proc EXCEPT ![p] = r]
  BY <1>1, AdvanceGoes
<1> HIDE DEF r
<1>5. proc'[p] = r  BY <1>4, OneGoes
<1>6. c \in Contents  BY <1>3 DEF ProcRecs, Content, Contents
<1>7. "manifest" \in RawFiles  BY DEF RawFiles
<1>8. /\ disk' \in [Files -> Contents] /\ disk'["manifest"] = c
      /\ \A f \in RawFiles \ {"manifest"} : disk'[f] = disk[f]
  BY <1>1, <1>6, <1>7, DerivedNotRaw DEF RunInv, RunTypes
<1>9. \A f \in RawFiles : Made(p, f)'
  <2>1. \A f \in RawFiles \ {"manifest"} : Made(p, f)  BY <1>1, <1>2 DEF Filled
  <2>2. "frames" \in RawFiles \ {"manifest"}  BY DEF RawFiles
  <2>3. proc'[p].mine = proc[p].mine /\ begun' = begun /\ proc[p].mine \in 1..begun
    BY <1>1, <1>4, <1>5, <2>1, <2>2 DEF Made
  <2>4. \A f \in RawFiles : disk'[f] = Content({proc'[p].mine}, TRUE, FALSE)
    BY <1>8, <2>1, <2>3 DEF Made
  <2> QED  BY <2>3, <2>4 DEF Made
<1> HIDE DEF h, t
<1>10. t # <<>> => Filled(p)'
  BY <1>1, <1>3, <1>4, <1>5, <1>9 DEF Filled, Leads
<1>11. checksums' \in [RawFiles -> Contents] /\ begun' \in Nat /\ begun' >= begun
  BY <1>1 DEF RunInv, RunTypes
<1>12. SumsFinished'  BY <1>1, <1>11, SumsKept
<1> QED  BY <1>1, <1>2, <1>3, <1>4, <1>8, <1>10, <1>11, <1>12, Within

\* The checksums come last, when every raw file is of this extraction.
LEMMA SumsStep ==
  ASSUME RunInv, NEW p \in Procs, WriteChecksums(p)  PROVE RunInv'
<1> DEFINE h == Head(proc[p].todo)
           t == Tail(proc[p].todo)
           r == Onward(proc[p], t)
<1>1. /\ Busy(p) /\ h.kind = "sums" /\ Advance(p)
      /\ checksums' = [f \in RawFiles |-> disk[f]] /\ UNCHANGED <<disk, lock, begun>>
  BY DEF WriteChecksums, At
<1>2. lock = p /\ Filled(p)  BY <1>1, HoldsLock DEF Section
<1>3. /\ Chain(t) /\ (t # <<>> => Head(t) = t[1] /\ Leads(h, t[1]))
  BY <1>1, AtStep
<1>4. r \in ProcRecs /\ r.todo = t /\ proc' = [proc EXCEPT ![p] = r]
  BY <1>1, AdvanceGoes
<1> HIDE DEF r
<1>5. proc'[p] = r  BY <1>4, OneGoes
<1>6. \A f \in RawFiles : Made(p, f)  BY <1>1, <1>2 DEF Filled
<1>7. SumsFinished'
  <2>1. "frames" \in RawFiles  BY DEF RawFiles
  <2>2. proc[p].mine \in 1..begun'  BY <1>1, <1>6, <2>1 DEF Made
  <2>3. checksums' = [f \in RawFiles |-> Content({proc[p].mine}, TRUE, FALSE)]
    BY <1>1, <1>6 DEF Made
  <2> QED  BY <2>2, <2>3 DEF SumsFinished
<1> HIDE DEF h, t
<1>8. t # <<>> => Filled(p)'  BY <1>1, <1>3, <1>4, <1>5 DEF Filled, Leads
<1>9. /\ disk' \in [Files -> Contents] /\ begun' \in Nat /\ begun' >= begun
      /\ checksums' \in [RawFiles -> Contents]
  BY <1>1, DerivedNotRaw DEF RunInv, RunTypes
<1> QED  BY <1>1, <1>2, <1>3, <1>4, <1>7, <1>8, <1>9, Within

LEMMA UnlockStep ==
  ASSUME RunInv, NEW p \in Procs, Unlock(p)  PROVE RunInv'
<1> DEFINE h == Head(proc[p].todo)
           t == Tail(proc[p].todo)
           r == Onward(proc[p], t)
<1>1. /\ Busy(p) /\ h.kind = "unlock" /\ Advance(p) /\ lock' = Nobody
      /\ UNCHANGED <<disk, checksums, begun>>
  BY DEF Unlock, At
<1>2. lock = p  BY <1>1, HoldsLock DEF Section
<1>3. Chain(t) /\ (t # <<>> => t[1].kind \notin Section)  BY <1>1, AtStep, Leaves
<1>4. r \in ProcRecs /\ r.todo = t /\ proc' = [proc EXCEPT ![p] = r]
  BY <1>1, AdvanceGoes
<1> HIDE DEF r, h, t
<1>5. /\ proc' \in [Procs -> ProcRecs] /\ proc'[p] = r
      /\ \A q \in Procs \ {p} : proc'[q] = proc[q]
  BY <1>4, OneGoes
<1>6. Placed(p)'  BY <1>3, <1>4, <1>5, Outside
<1>7. begun' \in Nat /\ begun' >= begun  BY <1>1 DEF RunInv, RunTypes
<1>8. SumsFinished'  BY <1>1, <1>7, SumsKept
<1>9. RunTypes'  BY <1>1, <1>5 DEF RunInv, RunTypes
<1> QED  BY <1>2, <1>5, <1>6, <1>7, <1>8, <1>9, Carried

LEMMA RunKept == RunInv /\ [RunNext]_runVars => RunInv'
<1> SUFFICES ASSUME RunInv, [RunNext]_runVars PROVE RunInv'
  OBVIOUS
<1>1. CASE UNCHANGED runVars
  BY <1>1 DEF runVars, RunInv, RunTypes, SumsFinished, Placed, Busy, Filled, Made
<1>2. ASSUME NEW p \in Procs, NEW cmd \in Commands, Start(p, cmd)  PROVE RunInv'
  BY <1>2, StartStep
<1>3. ASSUME NEW p \in Procs, Crash(p)  PROVE RunInv'
  BY <1>3, EndsStep DEF Crash
<1>4. ASSUME NEW p \in Procs, Step(p)  PROVE RunInv'
  BY <1>4, TakeLockStep, ReuseStep, PutStep, SealStep, SumsStep, UnlockStep,
     ValidateStep, ReadStep, UnlessStep, MatchStep, RelabelStep, OpenStep, CloseStep
     DEF Step
<1> QED  BY <1>1, <1>2, <1>3, <1>4 DEF RunNext

\* The run directory stays well typed, a process inside an extraction holds
\* the lock and has put down, whole and of its own extraction, every raw file
\* that comes before its step, and the checksums are those of one extraction.
THEOREM RunStaysInOrder == RunSpec => []RunInv
<1> QED  BY RunBegins, RunKept, PTL DEF RunSpec

\* Whatever extractors died halfway, and however many there were: raw files
\* that pass validation are those of one extraction that was finished.
THEOREM ValidRunIsFinished == RunSpec => []ValidMeansFinished
<1>1. RunInv => ValidMeansFinished
  <2> SUFFICES ASSUME RunInv, Valid
               PROVE \E n \in 1..begun : \A f \in RawFiles : disk[f] = Content({n}, TRUE, FALSE)
    BY DEF ValidMeansFinished
  <2>1. checksums # NoSums /\ checksums = [f \in RawFiles |-> disk[f]]
    BY DEF Valid, Complete
  <2>2. PICK n \in 1..begun : checksums = [f \in RawFiles |-> Content({n}, TRUE, FALSE)]
    BY <2>1 DEF RunInv, SumsFinished
  <2>3. \A f \in RawFiles : disk[f] = checksums[f]  BY <2>1
  <2> QED  BY <2>2, <2>3
<1> QED  BY <1>1, RunStaysInOrder, PTL

-----------------------------------------------------------------------------
(* What a full run makes: sequences of steps that follow on from one        *)
(* another, and in which no file is read that was not written before.       *)

Linked(R, S, t) == t \in Seq(S) /\ \A i \in 1..(Len(t) - 1) : <<t[i], t[i + 1]>> \in R

\* A step with what a full run may count on.
Fine == {op \in Ops :
           /\ op.kind = "read" => op.files # {} /\ op.files \cap {"labels", "overlay"} = {}
           /\ op.kind = "look" =>
                "overlay" \notin op.files /\ ("labels" \in op.files <=> op.stage = "visualize")
           /\ op.kind \in {"open", "close"} =>
                /\ op.files = {"overlay"} <=> op.stage = "visualize"
                /\ op.files = {"labels"} => op.stage = "gallery"
           /\ op.kind \in {"match", "relabel"} => op.stage = "gallery"
           /\ op.kind = "relabel" => op.files = {"tracks"}}

\* A file that is opened is closed by the next step.
Tidy == {ab \in Ops \X Ops :
           /\ ab[1].kind = "open" <=> ab[2].kind = "close"
           /\ ab[2].kind = "close" => ab[1].stage = ab[2].stage /\ ab[1].files = ab[2].files}

\* The steps after which an extraction goes on.
Midway == {"lock", "reuse", "put", "seal", "sums"}

\* The extraction comes first and is gone through to its end, a stage validates
\* before it reads and reads before it writes; the stage of the gallery asks for
\* the gallery before it reads, and the pictures are drawn after a look at what
\* else is there.
Smooth == {ab \in Tidy :
  /\ ab[1] \in Fine /\ ab[2] \in Fine /\ ab[2].kind # "lock"
  /\ ab[2].kind \in Section => ab[1].kind \in Section \cup {"lock"}
  /\ ab[1].kind \in Midway => ab[2].kind \in Section
  /\ ab[2].kind \in {"read", "unless", "match"} =>
       ab[1].stage = ab[2].stage /\ ab[1].kind \in {"validate", "read", "unless"}
  /\ ab[2].kind \in {"read", "unless"} /\ ab[2].stage = "gallery" => ab[1].kind # "validate"
  /\ ab[2].kind \in {"look", "relabel", "open"} =>
       ab[1].stage = ab[2].stage /\ ab[1].kind \in {"read", "look", "close", "relabel"}
  /\ ab[2].kind = "look" => ab[1].kind = "read"
  /\ ab[2].kind = "open" /\ ab[2].stage = "visualize" => ab[1].kind = "look"}

LEMMA LinkedJoin ==
  ASSUME NEW R, NEW S, NEW s, NEW t, Linked(R, S, s), Linked(R, S, t),
         s # <<>> /\ t # <<>> => <<s[Len(s)], t[1]>> \in R
  PROVE  Linked(R, S, s \o t)
<1> DEFINE n == Len(s)
           m == Len(t)
           st == s \o t
<1>1. s \in Seq(S) /\ t \in Seq(S) /\ n \in Nat /\ m \in Nat  BY DEF Linked
<1>2. /\ st \in Seq(S) /\ Len(st) = n + m
      /\ \A i \in 1..n : st[i] = s[i]
      /\ \A k \in 1..m : st[n + k] = t[k]
  BY <1>1
<1>3. /\ \A i \in 1..(n - 1) : <<s[i], s[i + 1]>> \in R
      /\ \A i \in 1..(m - 1) : <<t[i], t[i + 1]>> \in R
  BY DEF Linked
<1>4. n > 0 => s # <<>>  BY <1>1
<1>5. m > 0 => t # <<>>  BY <1>1
<1> HIDE DEF n, m, st
<1>6. ASSUME NEW i \in 1..(n + m - 1)  PROVE <<st[i], st[i + 1]>> \in R
  <2>1. CASE i + 1 <= n
    <3>1. i \in 1..n /\ i + 1 \in 1..n /\ i \in 1..(n - 1)  BY <1>1, <2>1
    <3> QED  BY <1>2, <1>3, <3>1
  <2>2. CASE i = n
    <3>1. i \in 1..n /\ 1 \in 1..m /\ i + 1 = n + 1 /\ n > 0 /\ m > 0
      BY <1>1, <2>2
    <3>2. st[i] = s[n] /\ st[i + 1] = t[1]  BY <1>2, <2>2, <3>1
    <3> QED  BY <1>4, <1>5, <3>1, <3>2 DEF n
  <2>3. CASE i > n
    <3> DEFINE k == i - n
    <3>1. /\ k \in 1..(m - 1) /\ k \in 1..m /\ k + 1 \in 1..m
          /\ i = n + k /\ i + 1 = n + (k + 1)
      BY <1>1, <2>3
    <3> HIDE DEF k
    <3>2. st[i] = t[k] /\ st[i + 1] = t[k + 1]  BY <1>2, <3>1
    <3> QED  BY <1>3, <3>1, <3>2
  <2> QED  BY <1>1, <2>1, <2>2, <2>3
<1>7. Len(st) - 1 = n + m - 1  BY <1>1, <1>2
<1>8. Linked(R, S, st)  BY <1>2, <1>6, <1>7 DEF Linked
<1> QED  BY <1>8 DEF st

LEMMA LinkedTail ==
  ASSUME NEW R, NEW S, NEW t, Linked(R, S, t), t # <<>>
  PROVE  /\ Linked(R, S, Tail(t)) /\ Head(t) \in S /\ Head(t) = t[1]
         /\ Len(Tail(t)) = Len(t) - 1 /\ Len(t) \in Nat \ {0}
         /\ \A i \in 1..(Len(t) - 1) : Tail(t)[i] = t[i + 1]
         /\ Tail(t) # <<>> => /\ Len(t) > 1 /\ Head(Tail(t)) = Tail(t)[1] /\ Head(Tail(t)) \in S
                             /\ <<Head(t), Head(Tail(t))>> \in R
<1> DEFINE u == Tail(t)
           n == Len(t)
<1>1. t \in Seq(S) /\ n \in Nat \ {0} /\ Head(t) = t[1] /\ Head(t) \in S  BY DEF Linked
<1>2. u \in Seq(S) /\ Len(u) = n - 1 /\ \A i \in 1..(n - 1) : u[i] = t[i + 1]
  BY <1>1
<1>3. \A i \in 1..(n - 1) : <<t[i], t[i + 1]>> \in R  BY DEF Linked
<1>4. u # <<>> => /\ n > 1 /\ Head(u) = u[1] /\ Head(u) \in S  BY <1>1, <1>2
<1> HIDE DEF u, n
<1>5. ASSUME NEW i \in 1..(n - 2)  PROVE <<u[i], u[i + 1]>> \in R
  <2>1. /\ i \in 1..(n - 1) /\ i + 1 \in 1..(n - 1)  BY <1>1
  <2> QED  BY <1>2, <1>3, <2>1
<1>6. Len(u) - 1 = n - 2  BY <1>1, <1>2
<1>7. Linked(R, S, u)  BY <1>2, <1>5, <1>6 DEF Linked
<1>8. u # <<>> => <<t[1], u[1]>> \in R
  <2> SUFFICES ASSUME u # <<>> PROVE <<t[1], u[1]>> \in R
    OBVIOUS
  <2>1. 1 \in 1..(n - 1) /\ 1 + 1 = 2  BY <1>1, <1>4
  <2> QED  BY <1>2, <1>3, <2>1
<1> QED  BY <1>1, <1>2, <1>4, <1>7, <1>8 DEF u, n

LEMMA JoinEnds ==
  ASSUME NEW S, NEW s \in Seq(S), NEW t \in Seq(S), s # <<>>, t # <<>>
  PROVE  /\ s \o t # <<>> /\ (s \o t)[1] = s[1]
         /\ (s \o t)[Len(s \o t)] = t[Len(t)]
<1> DEFINE n == Len(s)
           m == Len(t)
<1>1. n \in Nat \ {0} /\ m \in Nat \ {0}  OBVIOUS
<1>2. /\ Len(s \o t) = n + m /\ (s \o t)[1] = s[1]
      /\ \A k \in 1..m : (s \o t)[n + k] = t[k]
  BY <1>1
<1> HIDE DEF n, m
<1>3. (s \o t)[n + m] = t[m] /\ s \o t # <<>>  BY <1>1, <1>2
<1> QED  BY <1>2, <1>3 DEF n, m

\* A smooth sequence from one step to another.
Flow(t, a, b) == Linked(Smooth, Fine, t) /\ t # <<>> /\ t[1] = a /\ t[Len(t)] = b

LEMMA FlowJoin ==
  ASSUME NEW s, NEW t, NEW a, NEW b, NEW c, NEW d,
         Flow(s, a, b), Flow(t, c, d), <<b, c>> \in Smooth
  PROVE  Flow(s \o t, a, d)
<1>1. Linked(Smooth, Fine, s \o t)  BY LinkedJoin DEF Flow
<1>2. s \in Seq(Fine) /\ t \in Seq(Fine)  BY DEF Flow, Linked
<1> QED  BY <1>1, <1>2, JoinEnds DEF Flow

LEMMA FlowOne == ASSUME NEW a \in Fine  PROVE Flow(<<a>>, a, a)
BY DEF Flow, Linked

Rec(kind, stage, files) == [kind |-> kind, stage |-> stage, files |-> files]

LEMMA FineRec ==
  ASSUME NEW kind \in Kinds, NEW stage \in Stages, NEW files \in SUBSET Files,
         kind \in {"open", "close"} => \E f \in Derived : files = {f},
         kind = "put" => \E f \in RawFiles : files = {f},
         kind = "unless" => files \in {{"assignments"}, {"templates"}, {"clusters"}},
         kind = "read" => files # {} /\ files \cap {"labels", "overlay"} = {},
         kind = "look" => "overlay" \notin files /\ ("labels" \in files <=> stage = "visualize"),
         kind \in {"open", "close"} =>
           /\ files = {"overlay"} <=> stage = "visualize"
           /\ files = {"labels"} => stage = "gallery",
         kind \in {"match", "relabel"} => stage = "gallery",
         kind = "relabel" => files = {"tracks"}
  PROVE  Rec(kind, stage, files) \in Fine /\ Op(kind, stage, files) = <<Rec(kind, stage, files)>>
BY DEF Rec, Fine, Ops, Op

\* Which step may follow in a stage, and the stage after it.
LEMMA Follows ==
  ASSUME NEW a \in Fine, NEW b \in Fine,
         \/ /\ a.stage = b.stage
            /\ \/ a.kind = "validate" /\ b.kind = "match"
               \/ a.kind = "validate" /\ b.kind = "read" /\ b.stage # "gallery"
               \/ a.kind = "read" /\ b.kind \in {"look", "unless", "relabel"}
               \/ a.kind \in {"read", "close"} /\ b.kind = "open" /\ b.stage # "visualize"
               \/ a.kind = "unless" /\ b.kind = "read"
               \/ a.kind = "look" /\ b.kind = "open"
               \/ a.kind = "relabel" /\ b.kind = "open"
               \/ a.kind = "open" /\ b.kind = "close" /\ a.files = b.files
         \/ a.kind \notin Midway \cup {"open"} /\ b.kind = "validate"
         \/ a.kind \in Section \cup {"lock"} /\ b.kind \in Section
  PROVE  <<a, b>> \in Smooth
BY DEF Smooth, Tidy, Fine, Section, Midway

\* The worked-out files a step counts on, and whether it makes one: matching
\* makes the labels, when there is somebody to match with.
Wants(op) ==
  IF op.kind \in {"read", "look", "unless"} THEN op.files \cap Derived
  ELSE IF op.kind = "match" THEN {"clusters", "templates", "tracks"}
  ELSE IF op.kind = "relabel" THEN {"tracks"} ELSE {}
Makes(op, f) ==
  \/ op.kind = "close" /\ op.files = {f}
  \/ op.kind = "match" /\ f = "labels"

\* With the files F good before these steps, every file they count on is good
\* when they come to it, and the files G are good after them.
Feeds(F, t, G) ==
  /\ t \in Seq(Ops)
  /\ \A i \in 1..Len(t) : \A f \in Wants(t[i]) : f \in F \/ \E j \in 1..(i - 1) : Makes(t[j], f)
  /\ \A f \in G : f \in F \/ \E j \in 1..Len(t) : Makes(t[j], f)

LEMMA FlowFrozen ==
  ASSUME NEW stage \in Stages \ {"gallery"}, NEW files \in SUBSET Files, files # {},
         files \cap {"labels", "overlay"} = {}
  PROVE  Flow(Frozen(stage, files), Rec("validate", stage, {}), Rec("read", stage, files))
<1> DEFINE a == Rec("validate", stage, {})
           b == Rec("read", stage, files)
<1>1. /\ a \in Fine /\ Op("validate", stage, {}) = <<a>>
      /\ b \in Fine /\ Op("read", stage, files) = <<b>>
  BY FineRec DEF Kinds
<1>2. a.stage = b.stage /\ b.stage # "gallery" /\ a.kind = "validate" /\ b.kind = "read"  BY DEF Rec
<1> HIDE DEF a, b
<1>3. <<a, b>> \in Smooth  BY <1>1, <1>2, Follows
<1>4. Flow(<<a>>, a, a) /\ Flow(<<b>>, b, b)  BY <1>1, FlowOne
<1>5. Flow(<<a>> \o <<b>>, a, b)  BY <1>3, <1>4, FlowJoin
<1> QED  BY <1>1, <1>5 DEF Frozen, a, b

LEMMA FlowInPlace ==
  ASSUME NEW stage \in Stages, NEW f \in Derived,
         f = "overlay" <=> stage = "visualize", f = "labels" => stage = "gallery"
  PROVE  Flow(InPlace(stage, f), Rec("open", stage, {f}), Rec("close", stage, {f}))
<1> DEFINE a == Rec("open", stage, {f})
           b == Rec("close", stage, {f})
<1>0. ({f} = {"overlay"} <=> stage = "visualize") /\ ({f} = {"labels"} => stage = "gallery")
  OBVIOUS
<1>1. /\ a \in Fine /\ Op("open", stage, {f}) = <<a>>
      /\ b \in Fine /\ Op("close", stage, {f}) = <<b>>
  BY <1>0, FineRec, DerivedNotRaw DEF Kinds
<1>2. a.stage = b.stage /\ a.files = b.files /\ a.kind = "open" /\ b.kind = "close"  BY DEF Rec
<1> HIDE DEF a, b
<1>3. <<a, b>> \in Smooth  BY <1>1, <1>2, Follows
<1>4. Flow(<<a>>, a, a) /\ Flow(<<b>>, b, b)  BY <1>1, FlowOne
<1>5. Flow(<<a>> \o <<b>>, a, b)  BY <1>3, <1>4, FlowJoin
<1> QED  BY <1>1, <1>5 DEF InPlace, a, b

\* A piece of a stage goes from a step to one after which the stage may write.
Piece(t, stage, first) ==
  \E a, b : /\ Flow(t, a, b) /\ a.kind = first /\ a.stage = stage /\ b.stage = stage
            /\ b.kind \in {"read", "look", "close", "relabel"}

LEMMA PieceWrites ==
  ASSUME NEW stage \in Stages \ {"visualize"}, NEW f \in Derived \ {"overlay"},
         f = "labels" => stage = "gallery", NEW t, NEW first, Piece(t, stage, first)
  PROVE  Piece(t \o InPlace(stage, f), stage, first)
<1> DEFINE c == Rec("open", stage, {f})
           d == Rec("close", stage, {f})
<1>1. PICK a, b : /\ Flow(t, a, b) /\ a.kind = first /\ a.stage = stage /\ b.stage = stage
                  /\ b.kind \in {"read", "look", "close", "relabel"}
  BY DEF Piece
<1>2. Flow(InPlace(stage, f), c, d)  BY FlowInPlace
<1>3. /\ c.kind = "open" /\ c.stage = stage /\ stage # "visualize"
      /\ d.kind = "close" /\ d.stage = stage
  BY DEF Rec
<1> HIDE DEF c, d
<1>4. b \in Fine /\ c \in Fine  BY <1>1, <1>2 DEF Flow, Linked
<1>5. <<b, c>> \in Smooth  BY <1>1, <1>3, <1>4, Follows
<1>6. Flow(t \o InPlace(stage, f), a, d)  BY <1>1, <1>2, <1>5, FlowJoin
<1> QED  BY <1>1, <1>3, <1>6 DEF Piece

\* Another step of a stage after one that read.
LEMMA PieceStep ==
  ASSUME NEW stage \in Stages, NEW t, NEW a, NEW b, Flow(t, a, b), b.stage = stage,
         NEW c \in Fine, c.stage = stage,
         \/ b.kind = "read" /\ c.kind \in {"look", "unless", "relabel"}
         \/ b.kind = "unless" /\ c.kind = "read"
         \/ b.kind = "validate" /\ c.kind = "match"
  PROVE  Flow(t \o <<c>>, a, c)
<1>1. b \in Fine  BY DEF Flow, Linked
<1>2. <<b, c>> \in Smooth  BY <1>1, Follows
<1> QED  BY <1>2, FlowOne, FlowJoin

LEMMA FlowStages ==
  /\ Piece(Replays, "replay", "validate") /\ Piece(BuildsTemplates, "templates", "validate")
  /\ Piece(Reconciles, "reconcile", "validate") /\ Piece(Matches, "gallery", "unless")
  /\ Piece(Evaluates, "evaluate", "validate") /\ Piece(Visualizes, "visualize", "validate")
  /\ Piece(Benchmarks, "benchmark", "validate")
  /\ Piece(Program("validate"), "validate", "validate")
<1>1. /\ {"validate", "replay", "templates", "reconcile", "gallery", "evaluate", "visualize",
          "benchmark"} \subseteq Stages
      /\ {"assignments", "tracklets", "templates", "pairs", "clusters", "tracks",
          "labels", "metrics", "overlay", "benchmark"} = Derived
      /\ {"manifest", "frames", "observations", "embeddings"} \cup Derived = Files
  BY DEF Stages, Derived, Files, RawFiles
<1>2. ASSUME NEW stage \in Stages \ {"gallery"}, NEW files \in SUBSET Files, files # {},
             files \cap {"labels", "overlay"} = {}
      PROVE  Piece(Frozen(stage, files), stage, "validate")
  <2>1. Flow(Frozen(stage, files), Rec("validate", stage, {}), Rec("read", stage, files))
    BY <1>2, FlowFrozen
  <2> QED  BY <2>1 DEF Piece, Rec
<1>3. Piece(Replays, "replay", "validate")
  <2>1. Piece(Frozen("replay", {"frames", "observations", "embeddings"}), "replay", "validate")
    BY <1>1, <1>2
  <2> QED  BY <1>1, <2>1, PieceWrites DEF Replays
<1>4. ASSUME NEW stage \in Stages, NEW f \in {"assignments", "templates", "clusters"},
             NEW files \in SUBSET Files, files # {}, files \cap {"labels", "overlay"} = {},
             NEW t, NEW a, NEW b, Flow(t, a, b), b.stage = stage, b.kind = "read"
      PROVE  Flow(t \o Op("unless", stage, {f}) \o Op("read", stage, files),
                  a, Rec("read", stage, files))
  <2> DEFINE u == Rec("unless", stage, {f})
             c == Rec("read", stage, files)
  <2>1. /\ u \in Fine /\ Op("unless", stage, {f}) = <<u>>
        /\ c \in Fine /\ Op("read", stage, files) = <<c>>
    BY <1>1, <1>4, FineRec DEF Kinds
  <2>2. u.stage = stage /\ u.kind = "unless" /\ c.stage = stage /\ c.kind = "read"  BY DEF Rec
  <2> HIDE DEF u, c
  <2>3. Flow(t \o <<u>>, a, u)  BY <1>4, <2>1, <2>2, PieceStep
  <2>4. Flow(t \o <<u>> \o <<c>>, a, c)  BY <2>1, <2>2, <2>3, PieceStep
  <2> QED  BY <2>1, <2>4 DEF c
<1>5. Piece(BuildsTemplates, "templates", "validate")
  <2> DEFINE a == Rec("validate", "templates", {})
             t == Frozen("templates", {"observations", "embeddings"})
             b == Rec("read", "templates", {"observations", "embeddings"})
  <2>1. Flow(t, a, b)  BY <1>1, FlowFrozen
  <2>5. b.stage = "templates" /\ b.kind = "read"  BY DEF Rec
  <2>6. /\ {"assignments"} \in SUBSET Files /\ {"assignments"} # {}
        /\ {"assignments"} \cap {"labels", "overlay"} = {}
    BY <1>1
  <2> HIDE DEF t, a, b
  <2>2. Flow(t \o Op("unless", "templates", {"assignments"})
               \o Op("read", "templates", {"assignments"}), a,
             Rec("read", "templates", {"assignments"}))
    BY <1>1, <1>4, <2>1, <2>5, <2>6
  <2>3. Piece(t \o Op("unless", "templates", {"assignments"})
                \o Op("read", "templates", {"assignments"}), "templates", "validate")
    BY <2>2 DEF Piece, Rec, a
  <2>4. Piece(t \o Op("unless", "templates", {"assignments"})
                \o Op("read", "templates", {"assignments"})
                \o InPlace("templates", "templates"), "templates", "validate")
    BY <1>1, <2>3, PieceWrites
  <2> QED  BY <2>4 DEF BuildsTemplates, t
<1>6. Piece(Reconciles, "reconcile", "validate")
  <2> DEFINE a == Rec("validate", "reconcile", {})
             t == Frozen("reconcile", {"observations", "embeddings", "frames"})
             u == t \o Op("unless", "reconcile", {"assignments"})
                    \o Op("read", "reconcile", {"assignments"})
             v == u \o Op("unless", "reconcile", {"templates"})
                    \o Op("read", "reconcile", {"templates"})
             b == Rec("read", "reconcile", {"observations", "embeddings", "frames"})
             c == Rec("read", "reconcile", {"assignments"})
  <2>1. Flow(t, a, b)  BY <1>1, FlowFrozen
  <2>6. b.stage = "reconcile" /\ b.kind = "read" /\ c.stage = "reconcile" /\ c.kind = "read"
    BY DEF Rec
  <2>7. /\ {"assignments"} \in SUBSET Files /\ {"assignments"} # {}
        /\ {"templates"} \in SUBSET Files /\ {"templates"} # {}
        /\ {"assignments"} \cap {"labels", "overlay"} = {}
        /\ {"templates"} \cap {"labels", "overlay"} = {}
    BY <1>1
  <2> HIDE DEF t, a, b
  <2>2. Flow(u, a, c)  BY <1>1, <1>4, <2>1, <2>6, <2>7
  <2> HIDE DEF u, c
  <2>3. Flow(v, a, Rec("read", "reconcile", {"templates"}))
    BY <1>1, <1>4, <2>2, <2>6, <2>7
  <2> HIDE DEF v
  <2>4. Piece(v, "reconcile", "validate")  BY <2>3 DEF Piece, Rec, a
  <2>5. Piece(v \o InPlace("reconcile", "pairs") \o InPlace("reconcile", "clusters")
                \o InPlace("reconcile", "tracks"), "reconcile", "validate")
    BY <1>1, <2>4, PieceWrites
  <2> QED  BY <2>5 DEF Reconciles, v, u, t
<1>7. ASSUME NEW stage \in Stages \ {"gallery"}, NEW t, NEW f \in Derived,
             f = "overlay" <=> stage = "visualize", f # "labels",
             NEW files \in SUBSET Files, files # {}, files \cap {"labels", "overlay"} = {},
             t = Frozen(stage, files), NEW looked \in SUBSET Files,
             "overlay" \notin looked, "labels" \in looked <=> stage = "visualize"
      PROVE  Piece(t \o Op("look", stage, looked) \o InPlace(stage, f), stage, "validate")
  <2> DEFINE c == Rec("look", stage, looked)
             d == Rec("open", stage, {f})
             e == Rec("close", stage, {f})
             a == Rec("validate", stage, {})
             b == Rec("read", stage, files)
  <2>1. Flow(t, a, b)  BY <1>7, FlowFrozen
  <2>2. c \in Fine /\ Op("look", stage, looked) = <<c>>  BY <1>7, FineRec DEF Kinds
  <2>3. /\ a.kind = "validate" /\ a.stage = stage /\ b.kind = "read" /\ b.stage = stage
        /\ c.kind = "look" /\ c.stage = stage
        /\ d.kind = "open" /\ d.stage = stage /\ e.kind = "close" /\ e.stage = stage
    BY DEF Rec
  <2>5. Flow(InPlace(stage, f), d, e)  BY <1>7, FlowInPlace
  <2> HIDE DEF a, b, c, d, e
  <2>4. Flow(t \o <<c>>, a, c)  BY <2>1, <2>2, <2>3, PieceStep
  <2>6. d \in Fine  BY <2>5 DEF Flow, Linked
  <2>7. <<c, d>> \in Smooth  BY <2>2, <2>3, <2>6, Follows
  <2>8. Flow(t \o <<c>> \o InPlace(stage, f), a, e)  BY <2>4, <2>5, <2>7, FlowJoin
  <2> QED  BY <2>2, <2>3, <2>8 DEF Piece
<1>8. Piece(Evaluates, "evaluate", "validate")  BY <1>1, <1>7 DEF Evaluates
<1>9. Piece(Visualizes, "visualize", "validate")  BY <1>1, <1>7 DEF Visualizes
<1>10. Piece(Benchmarks, "benchmark", "validate")
  <2>1. Piece(Frozen("benchmark", {"manifest", "observations", "embeddings"}), "benchmark",
              "validate")
    BY <1>1, <1>2
  <2> QED  BY <1>1, <2>1, PieceWrites DEF Benchmarks
<1>11. Piece(Matches, "gallery", "unless")
  <2> DEFINE a == Rec("unless", "gallery", {"clusters"})
             b == Rec("read", "gallery", {"clusters", "templates"})
             c == Rec("relabel", "gallery", {"tracks"})
  <2>1. /\ a \in Fine /\ Op("unless", "gallery", {"clusters"}) = <<a>>
        /\ b \in Fine /\ Op("read", "gallery", {"clusters", "templates"}) = <<b>>
        /\ c \in Fine /\ Op("relabel", "gallery", {"tracks"}) = <<c>>
    BY <1>1, FineRec DEF Kinds
  <2>2. /\ a.kind = "unless" /\ a.stage = "gallery" /\ b.kind = "read" /\ b.stage = "gallery"
        /\ c.kind = "relabel" /\ c.stage = "gallery"
    BY DEF Rec
  <2> HIDE DEF a, b, c
  <2>3. Flow(<<a>>, a, a)  BY <2>1, FlowOne
  <2>4. Flow(<<a>> \o <<b>>, a, b)  BY <1>1, <2>1, <2>2, <2>3, PieceStep
  <2>5. Flow(<<a>> \o <<b>> \o <<c>>, a, c)  BY <1>1, <2>1, <2>2, <2>4, PieceStep
  <2>6. Piece(<<a>> \o <<b>> \o <<c>>, "gallery", "unless")  BY <2>2, <2>5 DEF Piece
  <2>7. Piece(<<a>> \o <<b>> \o <<c>> \o InPlace("gallery", "labels"), "gallery", "unless")
    BY <1>1, <2>6, PieceWrites
  <2> QED  BY <2>1, <2>7 DEF Matches
<1>12. Piece(Program("validate"), "validate", "validate")
  BY <1>1, <1>2 DEF Program
<1> QED  BY <1>3, <1>5, <1>6, <1>8, <1>9, <1>10, <1>11, <1>12

\* Extraction, from the lock to letting it go.
LEMMA FlowExtracts ==
  /\ Flow(Writes, Rec("put", "extract", {"manifest"}), Rec("sums", "extract", {}))
  /\ Flow(Extracts(Writes), Rec("lock", "extract", {}), Rec("unlock", "extract", {}))
  /\ Flow(Extracts(Op("reuse", "extract", {})), Rec("lock", "extract", {}),
          Rec("unlock", "extract", {}))
<1> DEFINE put(f) == Rec("put", "extract", {f})
           seal == Rec("seal", "extract", {"manifest"})
           sums == Rec("sums", "extract", {})
           op(kind) == Rec(kind, "extract", {})
<1>1. /\ put("manifest") \in Fine /\ put("frames") \in Fine /\ put("observations") \in Fine
      /\ put("embeddings") \in Fine /\ seal \in Fine /\ sums \in Fine
      /\ op("lock") \in Fine /\ op("reuse") \in Fine /\ op("unlock") \in Fine
  BY FineRec DEF Kinds, Files, RawFiles, Stages
<1>2. /\ Put("manifest") = <<put("manifest")>> /\ Put("frames") = <<put("frames")>>
      /\ Put("observations") = <<put("observations")>> /\ Put("embeddings") = <<put("embeddings")>>
      /\ Op("seal", "extract", {"manifest"}) = <<seal>> /\ Op("sums", "extract", {}) = <<sums>>
      /\ Op("lock", "extract", {}) = <<op("lock")>> /\ Op("reuse", "extract", {}) = <<op("reuse")>>
      /\ Op("unlock", "extract", {}) = <<op("unlock")>>
  BY DEF Put, Op, Rec
<1>3. /\ \A f : put(f).kind = "put"
      /\ seal.kind = "seal" /\ sums.kind = "sums" /\ op("lock").kind = "lock"
      /\ op("reuse").kind = "reuse" /\ op("unlock").kind = "unlock"
  BY DEF Rec
<1> HIDE DEF put, seal, sums, op
<1>4. ASSUME NEW t, NEW a, NEW b, Flow(t, a, b), NEW c \in Fine,
             b.kind \in Section \cup {"lock"}, c.kind \in Section
      PROVE  Flow(t \o <<c>>, a, c)
  <2>1. b \in Fine  BY <1>4 DEF Flow, Linked
  <2>2. <<b, c>> \in Smooth  BY <1>4, <2>1, Follows
  <2> QED  BY <1>4, <2>2, FlowOne, FlowJoin
<1>5. Flow(Writes, put("manifest"), sums)
  <2>1. {"put", "seal", "sums"} \subseteq Section  BY DEF Section
  <2>2. Flow(<<put("manifest")>>, put("manifest"), put("manifest"))  BY <1>1, FlowOne
  <2>3. Flow(<<put("manifest")>> \o <<put("frames")>>, put("manifest"), put("frames"))
    BY <1>1, <1>3, <1>4, <2>1, <2>2
  <2>4. Flow(<<put("manifest")>> \o <<put("frames")>> \o <<put("observations")>>,
             put("manifest"), put("observations"))
    BY <1>1, <1>3, <1>4, <2>1, <2>3
  <2>5. Flow(<<put("manifest")>> \o <<put("frames")>> \o <<put("observations")>>
             \o <<put("embeddings")>>, put("manifest"), put("embeddings"))
    BY <1>1, <1>3, <1>4, <2>1, <2>4
  <2>6. Flow(<<put("manifest")>> \o <<put("frames")>> \o <<put("observations")>>
             \o <<put("embeddings")>> \o <<seal>>, put("manifest"), seal)
    BY <1>1, <1>3, <1>4, <2>1, <2>5
  <2>7. Flow(<<put("manifest")>> \o <<put("frames")>> \o <<put("observations")>>
             \o <<put("embeddings")>> \o <<seal>> \o <<sums>>, put("manifest"), sums)
    BY <1>1, <1>3, <1>4, <2>1, <2>6
  <2> QED  BY <1>2, <2>7 DEF Writes
<1>6. {"put", "reuse", "sums", "unlock"} \subseteq Section  BY DEF Section
<1>7. Flow(<<op("lock")>>, op("lock"), op("lock"))  BY <1>1, FlowOne
<1>8. Flow(<<op("lock")>> \o Writes, op("lock"), sums)
  <2>1. <<op("lock"), put("manifest")>> \in Smooth  BY <1>1, <1>3, <1>6, Follows
  <2> QED  BY <1>5, <1>7, <2>1, FlowJoin
<1>9. Flow(<<op("lock")>> \o <<op("reuse")>>, op("lock"), op("reuse"))
  BY <1>1, <1>3, <1>4, <1>6, <1>7
<1>10. Flow(<<op("lock")>> \o Writes \o <<op("unlock")>>, op("lock"), op("unlock"))
  BY <1>1, <1>3, <1>4, <1>6, <1>8
<1>11. Flow(<<op("lock")>> \o <<op("reuse")>> \o <<op("unlock")>>, op("lock"), op("unlock"))
  BY <1>1, <1>3, <1>4, <1>6, <1>9
<1> QED  BY <1>2, <1>5, <1>10, <1>11 DEF Extracts, put, sums, op

\* Whole programs: what is opened in them is closed in them.
TidyProgram(t) ==
  /\ Linked(Tidy, Ops, t) /\ t # <<>> /\ t[1].kind # "close" /\ t[Len(t)].kind # "open"

LEMMA FlowTidy ==
  ASSUME NEW t, NEW a, NEW b, Flow(t, a, b), a.kind # "close", b.kind # "open"
  PROVE  TidyProgram(t)
<1>1. Fine \subseteq Ops /\ Smooth \subseteq Tidy  BY DEF Fine, Smooth
<1>2. t \in Seq(Ops)  BY <1>1 DEF Flow, Linked
<1> QED  BY <1>1, <1>2 DEF Flow, Linked, TidyProgram

LEMMA TidyJoin ==
  ASSUME NEW s, NEW t, TidyProgram(s), TidyProgram(t)
  PROVE  TidyProgram(s \o t)
<1>1. s[Len(s)] \in Ops /\ t[1] \in Ops  BY DEF TidyProgram, Linked
<1>2. <<s[Len(s)], t[1]>> \in Tidy  BY <1>1 DEF TidyProgram, Tidy
<1>3. Linked(Tidy, Ops, s \o t)  BY <1>2, LinkedJoin DEF TidyProgram
<1>4. s \in Seq(Ops) /\ t \in Seq(Ops)  BY DEF TidyProgram, Linked
<1> QED  BY <1>3, <1>4, JoinEnds DEF TidyProgram

LEMMA PieceTidy ==
  ASSUME NEW t, NEW stage, NEW first \in {"validate", "unless"}, Piece(t, stage, first)
  PROVE  TidyProgram(t)
BY FlowTidy DEF Piece

LEMMA FlowGallery ==
  Flow(Program("gallery"), Rec("validate", "gallery", {}), Rec("match", "gallery", {}))
<1> DEFINE a == Rec("validate", "gallery", {})
           b == Rec("match", "gallery", {})
<1>1. /\ a \in Fine /\ Op("validate", "gallery", {}) = <<a>>
      /\ b \in Fine /\ Op("match", "gallery", {}) = <<b>>
  BY FineRec DEF Kinds, Stages
<1>2. a.stage = b.stage /\ a.kind = "validate" /\ b.kind = "match"  BY DEF Rec
<1> HIDE DEF a, b
<1>3. <<a, b>> \in Smooth  BY <1>1, <1>2, Follows
<1>4. Flow(<<a>>, a, a) /\ Flow(<<b>>, b, b)  BY <1>1, FlowOne
<1>5. Flow(<<a>> \o <<b>>, a, b)  BY <1>3, <1>4, FlowJoin
<1> QED  BY <1>1, <1>5 DEF Program, a, b

\* What rewrites the tracks with their labels.
Relabels == Op("read", "gallery", {"tracks"}) \o InPlace("gallery", "tracks")

LEMMA FlowRelabels == Piece(Relabels, "gallery", "read")
<1> DEFINE a == Rec("read", "gallery", {"tracks"})
<1>1. "tracks" \in Derived /\ "gallery" \in Stages /\ {"tracks"} \in SUBSET Files
  BY DEF Derived, Stages, Files
<1>2. a \in Fine /\ Op("read", "gallery", {"tracks"}) = <<a>>
  BY <1>1, FineRec DEF Kinds
<1>3. a.kind = "read" /\ a.stage = "gallery"  BY DEF Rec
<1> HIDE DEF a
<1>4. Piece(<<a>>, "gallery", "read")  BY <1>2, <1>3, FlowOne DEF Piece
<1>5. Piece(<<a>> \o InPlace("gallery", "tracks"), "gallery", "read")
  BY <1>1, <1>4, PieceWrites
<1> QED  BY <1>2, <1>5 DEF Relabels

LEMMA TidyPrograms ==
  /\ \A stage \in Stages \cup {"force"} : TidyProgram(Program(stage))
  /\ \A cmd \in Commands : TidyProgram(Steps(cmd))
  /\ TidyProgram(Writes) /\ TidyProgram(Matches)
  /\ TidyProgram(Relabels)
<1>1. /\ TidyProgram(Writes) /\ TidyProgram(Program("extract")) /\ TidyProgram(Program("force"))
  BY FlowExtracts, FlowTidy DEF Program, Rec
<1>2. /\ TidyProgram(Program("replay")) /\ TidyProgram(Program("templates"))
      /\ TidyProgram(Program("reconcile")) /\ TidyProgram(Matches)
      /\ TidyProgram(Program("evaluate")) /\ TidyProgram(Program("visualize"))
      /\ TidyProgram(Program("benchmark")) /\ TidyProgram(Program("validate"))
  BY FlowStages, PieceTidy DEF Program
<1>3. TidyProgram(Program("gallery"))  BY FlowGallery, FlowTidy DEF Rec
<1>4. \A stage \in Stages \cup {"force"} : TidyProgram(Program(stage))
  BY <1>1, <1>2, <1>3 DEF Stages
<1>5. TidyProgram(FullRun(Program("replay")))
  BY <1>1, <1>2, <1>3, TidyJoin DEF FullRun
<1>6. \A cmd \in Commands : TidyProgram(Steps(cmd))
  BY <1>4, <1>5, LabRunAssumption DEF Steps
<1>7. TidyProgram(Relabels)  BY FlowRelabels, FlowTidy DEF Piece
<1> QED  BY <1>1, <1>2, <1>4, <1>6, <1>7

\* A full run is smooth from the lock on.
LEMMA FlowFullRun ==
  \E a, b : Flow(FullRun(Program("replay")), a, b) /\ a.kind = "lock" /\ b.kind # "open"
<1> DEFINE Run(t) == \E a, b : /\ Flow(t, a, b) /\ a.kind = "lock"
                              /\ b.kind \notin Midway \cup {"open"}
           Stage1(t) == \E a, b : /\ Flow(t, a, b) /\ a.kind = "validate"
                                 /\ b.kind \notin Midway \cup {"open"}
<1>1. ASSUME NEW s, NEW t, Run(s), Stage1(t)  PROVE Run(s \o t)
  <2>1. PICK a, b : Flow(s, a, b) /\ a.kind = "lock" /\ b.kind \notin Midway \cup {"open"}  BY <1>1
  <2>2. PICK c, d : /\ Flow(t, c, d) /\ c.kind = "validate"
                        /\ d.kind \notin Midway \cup {"open"}
     BY <1>1
  <2>3. b \in Fine /\ c \in Fine  BY <2>1, <2>2 DEF Flow, Linked
  <2>4. <<b, c>> \in Smooth  BY <2>1, <2>2, <2>3, Follows
  <2> QED  BY <2>1, <2>2, <2>4, FlowJoin
<1>2. Run(Program("extract"))  BY FlowExtracts DEF Program, Rec, Midway
<1>3. ASSUME NEW t, NEW stage, Piece(t, stage, "validate")  PROVE Stage1(t)
  BY <1>3 DEF Piece, Midway
<1>4. /\ Stage1(Program("replay")) /\ Stage1(Program("templates"))
      /\ Stage1(Program("reconcile")) /\ Stage1(Program("evaluate"))
      /\ Stage1(Program("visualize")) /\ Stage1(Program("benchmark"))
      /\ Stage1(Program("validate"))
  BY <1>3, FlowStages DEF Program
<1>5. Stage1(Program("gallery"))  BY FlowGallery DEF Rec, Midway
<1> HIDE DEF Run, Stage1
<1>6. Run(FullRun(Program("replay")))
  BY <1>1, <1>2, <1>4, <1>5 DEF FullRun
<1> QED  BY <1>6 DEF Run

-----------------------------------------------------------------------------
(* The files a full run reads were written before *)

LEMMA FeedsJoin ==
  ASSUME NEW F, NEW G, NEW H, NEW s, NEW t, Feeds(F, s, G), Feeds(G, t, H)
  PROVE  Feeds(F, s \o t, H)
<1> DEFINE n == Len(s)
           m == Len(t)
           st == s \o t
<1>1. s \in Seq(Ops) /\ t \in Seq(Ops) /\ n \in Nat /\ m \in Nat  BY DEF Feeds
<1>2. /\ st \in Seq(Ops) /\ Len(st) = n + m
      /\ \A i \in 1..n : st[i] = s[i]
      /\ \A k \in 1..m : st[n + k] = t[k]
  BY <1>1
<1>3. /\ \A i \in 1..n : \A f \in Wants(s[i]) : f \in F \/ \E j \in 1..(i - 1) : Makes(s[j], f)
      /\ \A f \in G : f \in F \/ \E j \in 1..n : Makes(s[j], f)
      /\ \A i \in 1..m : \A f \in Wants(t[i]) : f \in G \/ \E j \in 1..(i - 1) : Makes(t[j], f)
      /\ \A f \in H : f \in G \/ \E j \in 1..m : Makes(t[j], f)
  BY DEF Feeds
<1> HIDE DEF n, m, st
<1>4. ASSUME NEW i \in 1..(n + m), NEW f \in Wants(st[i])
      PROVE  f \in F \/ \E j \in 1..(i - 1) : Makes(st[j], f)
  <2>1. CASE i <= n
    <3>1. i \in 1..n /\ 1..(i - 1) \subseteq 1..n  BY <1>1, <2>1
    <3> QED  BY <1>2, <1>3, <3>1
  <2>2. CASE i > n
    <3> DEFINE k == i - n
    <3>1. k \in 1..m /\ i = n + k  BY <1>1, <2>2
    <3> HIDE DEF k
    <3>2. f \in Wants(t[k])  BY <1>2, <3>1
    <3>3. CASE f \in G
      <4>1. f \in F \/ \E j \in 1..n : Makes(s[j], f)  BY <1>3, <3>3
      <4>2. 1..n \subseteq 1..(i - 1)  BY <1>1, <2>2
      <4> QED  BY <1>2, <4>1, <4>2
    <3>4. CASE f \notin G
      <4>1. PICK j \in 1..(k - 1) : Makes(t[j], f)  BY <1>3, <3>1, <3>2, <3>4
      <4>2. j \in 1..m /\ n + j \in 1..(i - 1)  BY <1>1, <3>1
      <4>3. st[n + j] = t[j]  BY <1>2, <4>2
      <4> QED  BY <4>1, <4>2, <4>3
    <3> QED  BY <3>3, <3>4
  <2> QED  BY <1>1, <2>1, <2>2
<1>5. ASSUME NEW f \in H  PROVE f \in F \/ \E j \in 1..(n + m) : Makes(st[j], f)
  <2>1. CASE f \in G
    <3>1. f \in F \/ \E j \in 1..n : Makes(s[j], f)  BY <1>3, <2>1
    <3>2. 1..n \subseteq 1..(n + m)  BY <1>1
    <3> QED  BY <1>2, <3>1, <3>2
  <2>2. CASE f \notin G
    <3>1. PICK j \in 1..m : Makes(t[j], f)  BY <1>3, <2>2
    <3>2. n + j \in 1..(n + m)  BY <1>1
    <3> QED  BY <1>2, <3>1, <3>2
  <2> QED  BY <2>1, <2>2
<1>6. Feeds(F, st, H)  BY <1>2, <1>4, <1>5 DEF Feeds
<1> QED  BY <1>6 DEF st

LEMMA FeedsMore ==
  ASSUME NEW F, NEW F2, NEW G, NEW G2, NEW t, Feeds(F, t, G), F \subseteq F2, G2 \subseteq G
  PROVE  Feeds(F2, t, G2)
BY DEF Feeds

LEMMA FeedsOne ==
  ASSUME NEW F, NEW op \in Ops, Wants(op) \subseteq F
  PROVE  Feeds(F, <<op>>, F)
<1> DEFINE t == <<op>>
<1>1. t \in Seq(Ops) /\ Len(t) = 1 /\ t[1] = op  OBVIOUS
<1> HIDE DEF t
<1>2. Feeds(F, t, F)  BY <1>1 DEF Feeds
<1> QED  BY <1>2 DEF t

LEMMA FeedsMakes ==
  ASSUME NEW F, NEW op \in Ops, NEW f, Makes(op, f), Wants(op) \subseteq F
  PROVE  Feeds(F, <<op>>, F \cup {f})
<1> DEFINE t == <<op>>
<1>1. t \in Seq(Ops) /\ Len(t) = 1 /\ t[1] = op  OBVIOUS
<1> HIDE DEF t
<1>2. Feeds(F, t, F \cup {f})  BY <1>1 DEF Feeds
<1> QED  BY <1>2 DEF t

LEMMA FeedsOp ==
  ASSUME NEW kind \in Kinds \ {"put", "open", "close", "unless"}, NEW stage \in Stages,
         NEW files \in SUBSET Files, NEW F, Wants(Rec(kind, stage, files)) \subseteq F
  PROVE  Feeds(F, Op(kind, stage, files), F)
<1>1. Rec(kind, stage, files) \in Ops  BY DEF Rec, Ops
<1>2. Op(kind, stage, files) = <<Rec(kind, stage, files)>>  BY DEF Op, Rec
<1> QED  BY <1>1, <1>2, FeedsOne

LEMMA FeedsFrozen ==
  ASSUME NEW stage \in Stages, NEW files \in SUBSET Files, NEW F, files \cap Derived \subseteq F
  PROVE  Feeds(F, Frozen(stage, files), F)
<1>1. /\ Wants(Rec("validate", stage, {})) \subseteq F
      /\ Wants(Rec("read", stage, files)) \subseteq F
  BY DEF Wants, Rec
<1>2. Feeds(F, Op("validate", stage, {}), F) /\ Feeds(F, Op("read", stage, files), F)
  BY <1>1, FeedsOp DEF Kinds
<1> QED  BY <1>2, FeedsJoin DEF Frozen

LEMMA FeedsRead ==
  ASSUME NEW stage \in Stages, NEW files \in SUBSET Files, NEW F, files \subseteq F,
         NEW kind \in {"read", "look"}
  PROVE  Feeds(F, Op(kind, stage, files), F)
<1>1. Wants(Rec(kind, stage, files)) \subseteq F  BY DEF Wants, Rec
<1> QED  BY <1>1, FeedsOp DEF Kinds

LEMMA FeedsUnless ==
  ASSUME NEW stage \in Stages, NEW f \in {"assignments", "templates", "clusters"},
         NEW F, f \in F
  PROVE  Feeds(F, Op("unless", stage, {f}), F)
<1> DEFINE op == Rec("unless", stage, {f})
<1>1. op \in Ops /\ Op("unless", stage, {f}) = <<op>>
  BY DEF Rec, Ops, Op, Kinds, Files, Derived
<1>2. Wants(op) \subseteq F  BY DEF Wants, Rec
<1> HIDE DEF op
<1> QED  BY <1>1, <1>2, FeedsOne

LEMMA FeedsInPlace ==
  ASSUME NEW stage \in Stages, NEW f \in Derived, NEW F
  PROVE  Feeds(F, InPlace(stage, f), F \cup {f})
<1> DEFINE a == Rec("open", stage, {f})
           b == Rec("close", stage, {f})
<1>1. /\ a \in Ops /\ Op("open", stage, {f}) = <<a>>
      /\ b \in Ops /\ Op("close", stage, {f}) = <<b>>
  BY DerivedNotRaw DEF Rec, Ops, Op, Kinds
<1>2. Wants(a) = {} /\ Wants(b) = {} /\ Makes(b, f)  BY DEF Wants, Makes, Rec
<1> HIDE DEF a, b
<1>3. Feeds(F, <<a>>, F) /\ Feeds(F, <<b>>, F \cup {f})  BY <1>1, <1>2, FeedsOne, FeedsMakes
<1> QED  BY <1>1, <1>3, FeedsJoin DEF InPlace

LEMMA FeedsExtract ==
  ASSUME NEW F
  PROVE  Feeds(F, Writes, F) /\ Feeds(F, Program("extract"), F)
<1>1. ASSUME NEW f \in RawFiles  PROVE Feeds(F, Put(f), F)
  <2> DEFINE a == Rec("put", "extract", {f})
  <2>1. a \in Ops /\ Put(f) = <<a>>  BY DerivedNotRaw DEF Rec, Ops, Op, Put, Kinds, Stages
  <2>2. Wants(a) = {}  BY DEF Wants, Rec
  <2> HIDE DEF a
  <2> QED  BY <2>1, <2>2, FeedsOne
<1>2. ASSUME NEW kind \in {"lock", "reuse", "unlock", "sums", "seal"}, NEW files \in SUBSET Files
      PROVE  Feeds(F, Op(kind, "extract", files), F)
  <2>1. Wants(Rec(kind, "extract", files)) = {}  BY DEF Wants, Rec
  <2> QED  BY <2>1, FeedsOp DEF Kinds, Stages
<1>3. /\ {"manifest"} \in SUBSET Files /\ {} \in SUBSET Files
      /\ {"manifest", "frames", "observations", "embeddings"} = RawFiles
  BY DEF Files, RawFiles
<1>4. Feeds(F, Writes, F)  BY <1>1, <1>2, <1>3, FeedsJoin DEF Writes
<1>5. Feeds(F, Program("extract"), F)
  <2>1. Feeds(F, Op("lock", "extract", {}) \o Op("reuse", "extract", {}), F)
    BY <1>2, <1>3, FeedsJoin
  <2>2. Feeds(F, Op("lock", "extract", {}) \o Op("reuse", "extract", {})
                 \o Op("unlock", "extract", {}), F)
    BY <1>2, <1>3, <2>1, FeedsJoin
  <2> QED  BY <2>2 DEF Program, Extracts
<1> QED  BY <1>4, <1>5

\* Matching reads files of the reconciliation, leaves them as good, and makes the
\* labels.
LEMMA FeedsMatches ==
  ASSUME NEW F
  PROVE  /\ {"clusters", "templates", "tracks"} \subseteq F =>
              Feeds(F, Matches, F \cup {"labels"})
         /\ "tracks" \in F => Feeds(F, Relabels, F)
<1>1. /\ "gallery" \in Stages /\ "labels" \in Derived /\ "tracks" \in Derived
      /\ {"clusters", "templates"} \in SUBSET Files /\ {"tracks"} \in SUBSET Files
  BY DEF Stages, Derived, Files
<1>2. ASSUME "tracks" \in F
      PROVE  Feeds(F, Op("read", "gallery", {"tracks"}) \o InPlace("gallery", "tracks"), F)
  <2>1. Feeds(F, Op("read", "gallery", {"tracks"}), F)  BY <1>1, <1>2, FeedsRead
  <2>2. Feeds(F, InPlace("gallery", "tracks"), F \cup {"tracks"})  BY <1>1, FeedsInPlace
  <2>3. Feeds(F, InPlace("gallery", "tracks"), F)  BY <2>2, FeedsMore
  <2> QED  BY <2>1, <2>3, FeedsJoin
<1>3. ASSUME {"clusters", "templates", "tracks"} \subseteq F
      PROVE  Feeds(F, Matches, F \cup {"labels"})
  <2>1. Feeds(F, Op("unless", "gallery", {"clusters"}), F)  BY <1>1, <1>3, FeedsUnless
  <2>2. Feeds(F, Op("read", "gallery", {"clusters", "templates"}), F)
    BY <1>1, <1>3, FeedsRead
  <2>3. Feeds(F, Op("relabel", "gallery", {"tracks"}), F)
    <3>1. Wants(Rec("relabel", "gallery", {"tracks"})) \subseteq F  BY <1>3 DEF Wants, Rec
    <3> QED  BY <1>1, <3>1, FeedsOp DEF Kinds
  <2>4. Feeds(F, InPlace("gallery", "labels"), F \cup {"labels"})  BY <1>1, FeedsInPlace
  <2> QED  BY <2>1, <2>2, <2>3, <2>4, FeedsJoin DEF Matches
<1> QED  BY <1>2, <1>3 DEF Relabels

LEMMA FeedsFullRun == Feeds({}, FullRun(Program("replay")), Derived)
<1> DEFINE F1 == {"assignments", "tracklets"}
           F2 == {"assignments", "tracklets", "templates"}
           F3 == {"assignments", "tracklets", "templates", "pairs", "clusters", "tracks"}
           L3 == F3 \cup {"labels"}
           F4 == L3 \cup {"metrics"}
           F5 == F4 \cup {"overlay"}
           F6 == F5 \cup {"benchmark"}
<1>1. /\ {"validate", "replay", "templates", "reconcile", "gallery", "evaluate", "visualize",
          "benchmark"} \subseteq Stages
      /\ {"assignments", "tracklets", "templates", "pairs", "clusters", "tracks",
          "labels", "metrics", "overlay", "benchmark"} = Derived
      /\ {"manifest", "frames", "observations", "embeddings"} \cup Derived = Files
      /\ {"manifest", "frames", "observations", "embeddings"} \cap Derived = {}
  BY DEF Stages, Derived, Files, RawFiles
<1>2. Feeds({}, Program("extract"), {})  BY FeedsExtract
<1>3. Feeds({}, Program("validate"), {})
  <2>1. {"manifest"} \in SUBSET Files /\ {"manifest"} \cap Derived \subseteq {}  BY <1>1
  <2> QED  BY <1>1, <2>1, FeedsFrozen DEF Program
<1>4. Feeds({}, Program("replay"), F1)
  <2> DEFINE r == {"frames", "observations", "embeddings"}
  <2>1. r \in SUBSET Files /\ r \cap Derived \subseteq {}  BY <1>1
  <2>2. Feeds({}, Frozen("replay", r), {})  BY <1>1, <2>1, FeedsFrozen
  <2>3. Feeds({}, InPlace("replay", "assignments"), {} \cup {"assignments"})
    BY <1>1, FeedsInPlace
  <2>4. Feeds({} \cup {"assignments"}, InPlace("replay", "tracklets"),
              {} \cup {"assignments"} \cup {"tracklets"})
    BY <1>1, FeedsInPlace
  <2>5. Feeds({}, Program("replay"), {} \cup {"assignments"} \cup {"tracklets"})
    BY <2>2, <2>3, <2>4, FeedsJoin DEF Program, Replays
  <2>6. {} \cup {"assignments"} \cup {"tracklets"} = F1  OBVIOUS
  <2> QED  BY <2>5, <2>6
<1>5. Feeds(F1, Program("templates"), F2)
  <2> DEFINE r == {"observations", "embeddings"}
  <2>1. r \in SUBSET Files /\ r \cap Derived \subseteq F1  BY <1>1
  <2>2. Feeds(F1, Frozen("templates", r), F1)  BY <1>1, <2>1, FeedsFrozen
  <2>3. Feeds(F1, Op("unless", "templates", {"assignments"}), F1)  BY <1>1, FeedsUnless
  <2>4. Feeds(F1, Op("read", "templates", {"assignments"}), F1)  BY <1>1, FeedsRead
  <2>5. Feeds(F1, InPlace("templates", "templates"), F1 \cup {"templates"})
    BY <1>1, FeedsInPlace
  <2>6. F1 \cup {"templates"} = F2  OBVIOUS
  <2> HIDE DEF F1, F2
  <2>7. Feeds(F1, BuildsTemplates, F2)
    BY <2>2, <2>3, <2>4, <2>5, <2>6, FeedsJoin DEF BuildsTemplates
  <2> QED  BY <2>7 DEF Program
<1>6. Feeds(F2, Program("reconcile"), F3)
  <2> DEFINE r == {"observations", "embeddings", "frames"}
             G1 == F2 \cup {"pairs"}
             G2 == G1 \cup {"clusters"}
  <2>1. r \in SUBSET Files /\ r \cap Derived \subseteq F2  BY <1>1
  <2>2. Feeds(F2, Frozen("reconcile", r), F2)  BY <1>1, <2>1, FeedsFrozen
  <2>3. /\ Feeds(F2, Op("unless", "reconcile", {"assignments"}), F2)
        /\ Feeds(F2, Op("unless", "reconcile", {"templates"}), F2)
    BY <1>1, FeedsUnless
  <2>4. /\ Feeds(F2, Op("read", "reconcile", {"assignments"}), F2)
        /\ Feeds(F2, Op("read", "reconcile", {"templates"}), F2)
    BY <1>1, FeedsRead
  <2>5. /\ Feeds(F2, InPlace("reconcile", "pairs"), G1)
        /\ Feeds(G1, InPlace("reconcile", "clusters"), G2)
        /\ Feeds(G2, InPlace("reconcile", "tracks"), G2 \cup {"tracks"})
    BY <1>1, FeedsInPlace
  <2>6. G2 \cup {"tracks"} = F3  OBVIOUS
  <2> HIDE DEF F2, F3, G1, G2
  <2>7. Feeds(F2, Reconciles, F3)
    BY <2>2, <2>3, <2>4, <2>5, <2>6, FeedsJoin DEF Reconciles
  <2> QED  BY <2>7 DEF Program
<1>7. Feeds(F3, Program("gallery"), L3)
  <2> DEFINE m == Rec("match", "gallery", {})
  <2>1. /\ Wants(Rec("validate", "gallery", {})) \subseteq F3
        /\ Wants(m) \subseteq F3 /\ Makes(m, "labels")
    BY DEF Wants, Makes, Rec
  <2>4. m \in Ops /\ Op("match", "gallery", {}) = <<m>>  BY <1>1 DEF Rec, Ops, Op, Kinds
  <2> HIDE DEF F3, m
  <2>2. /\ Feeds(F3, Op("validate", "gallery", {}), F3)
        /\ Feeds(F3, Op("match", "gallery", {}), L3)
    BY <1>1, <2>1, <2>4, FeedsOp, FeedsMakes DEF Kinds
  <2>3. Program("gallery") = Op("validate", "gallery", {}) \o Op("match", "gallery", {})
    BY DEF Program
  <2> HIDE DEF L3
  <2> QED  BY <2>2, <2>3, FeedsJoin
<1>8. Feeds(L3, Program("evaluate"), F4)
  <2> DEFINE r == {"observations", "assignments", "clusters"}
  <2>1. r \in SUBSET Files /\ r \cap Derived \subseteq L3 /\ {"tracks"} \in SUBSET Files
    BY <1>1
  <2>2. Feeds(L3, Frozen("evaluate", r), L3)  BY <1>1, <2>1, FeedsFrozen
  <2>3. Feeds(L3, Op("look", "evaluate", {"tracks"}), L3)  BY <1>1, <2>1, FeedsRead
  <2>4. Feeds(L3, InPlace("evaluate", "metrics"), F4)  BY <1>1, FeedsInPlace
  <2> HIDE DEF L3, F4
  <2>5. Feeds(L3, Evaluates, F4)  BY <2>2, <2>3, <2>4, FeedsJoin DEF Evaluates
  <2> QED  BY <2>5 DEF Program
<1>9. Feeds(F4, Program("visualize"), F5)
  <2> DEFINE r == {"observations", "embeddings", "assignments"}
             l == {"tracklets", "clusters", "labels", "tracks"}
  <2>1. r \in SUBSET Files /\ r \cap Derived \subseteq F4 /\ l \in SUBSET Files /\ l \subseteq F4
    BY <1>1
  <2> HIDE DEF F4
  <2>2. Feeds(F4, Frozen("visualize", r), F4)  BY <1>1, <2>1, FeedsFrozen
  <2>3. Feeds(F4, Op("look", "visualize", l), F4)  BY <1>1, <2>1, FeedsRead
  <2>4. Feeds(F4, InPlace("visualize", "overlay"), F5)  BY <1>1, FeedsInPlace
  <2> HIDE DEF F5
  <2>5. Feeds(F4, Visualizes, F5)  BY <2>2, <2>3, <2>4, FeedsJoin DEF Visualizes
  <2> QED  BY <2>5 DEF Program
<1>10. Feeds(F5, Program("benchmark"), F6)
  <2> DEFINE r == {"manifest", "observations", "embeddings"}
  <2>1. r \in SUBSET Files /\ r \cap Derived \subseteq F5  BY <1>1
  <2> HIDE DEF F5
  <2>2. Feeds(F5, Frozen("benchmark", r), F5)  BY <1>1, <2>1, FeedsFrozen
  <2>3. Feeds(F5, InPlace("benchmark", "benchmark"), F6)  BY <1>1, FeedsInPlace
  <2> HIDE DEF F6
  <2>4. Feeds(F5, Benchmarks, F6)  BY <2>2, <2>3, FeedsJoin DEF Benchmarks
  <2> QED  BY <2>4 DEF Program
<1>11. Derived \subseteq F6  BY <1>1
<1> HIDE DEF F1, F2, F3, L3, F4, F5, F6
<1>12. Feeds({}, FullRun(Program("replay")), F6)
  BY <1>2, <1>3, <1>4, <1>5, <1>6, <1>7, <1>8, <1>9, <1>10, FeedsJoin DEF FullRun
<1> QED  BY <1>11, <1>12, FeedsMore

\* What is left of such steps once one is taken: the files it made are good,
\* and one that is no longer good is made by the step that comes next.
LEMMA FeedsTail ==
  ASSUME NEW F, NEW F2, NEW G, NEW t, Feeds(F, t, G), t # <<>>,
         \A f \in F : f \in F2 \/ (Tail(t) # <<>> /\ Makes(Tail(t)[1], f)),
         \A f : Makes(Head(t), f) => f \in F2
  PROVE  Feeds(F2, Tail(t), G) /\ Wants(Head(t)) \subseteq F
<1> DEFINE u == Tail(t)
           n == Len(t)
<1>1. t \in Seq(Ops) /\ n \in Nat \ {0} /\ Head(t) = t[1]  BY DEF Feeds
<1>2. u \in Seq(Ops) /\ Len(u) = n - 1 /\ \A i \in 1..(n - 1) : u[i] = t[i + 1]
  BY <1>1
<1>3. /\ \A i \in 1..n : \A f \in Wants(t[i]) : f \in F \/ \E j \in 1..(i - 1) : Makes(t[j], f)
      /\ \A f \in G : f \in F \/ \E j \in 1..n : Makes(t[j], f)
  BY DEF Feeds
<1>4. u # <<>> => n > 1  BY <1>1, <1>2
<1> HIDE DEF u, n
<1>5. Wants(t[1]) \subseteq F
  <2>1. 1 \in 1..n /\ 1..(1 - 1) = {}  BY <1>1
  <2> QED  BY <1>3, <2>1
<1>6. ASSUME NEW j \in 1..n, NEW f, Makes(t[j], f)
      PROVE  f \in F2 \/ (j - 1 \in 1..(n - 1) /\ Makes(u[j - 1], f))
  <2>1. CASE j = 1  BY <1>1, <1>6, <2>1
  <2>2. CASE j # 1
    <3> DEFINE k == j - 1
    <3>1. k \in 1..(n - 1) /\ j = k + 1  BY <1>1, <2>2
    <3> HIDE DEF k
    <3>2. u[k] = t[j]  BY <1>2, <3>1
    <3> QED  BY <1>6, <3>1, <3>2 DEF k
  <2> QED  BY <2>1, <2>2
<1>7. ASSUME NEW i \in 1..(n - 1), NEW f \in Wants(u[i])
      PROVE  f \in F2 \/ \E j \in 1..(i - 1) : Makes(u[j], f)
  <2>1. i + 1 \in 1..n /\ u[i] = t[i + 1] /\ (i + 1) - 1 = i  BY <1>1, <1>2
  <2>2. f \in F \/ \E j \in 1..i : Makes(t[j], f)  BY <1>3, <2>1
  <2>3. CASE f \in F
    <3>1. CASE f \in F2  BY <3>1
    <3>2. CASE f \notin F2
      <4>1. u # <<>> /\ Makes(u[1], f)  BY <2>3, <3>2 DEF u
      <4>2. i # 1  BY <4>1 DEF Wants, Makes
      <4>3. 1 \in 1..(i - 1)  BY <4>2
      <4> QED  BY <4>1, <4>3
    <3> QED  BY <3>1, <3>2
  <2>4. CASE f \notin F
    <3>1. PICK j \in 1..i : Makes(t[j], f)  BY <2>2, <2>4
    <3>2. j \in 1..n /\ (j - 1 \in 1..(n - 1) => j - 1 \in 1..(i - 1))  BY <1>1, <3>1
    <3> QED  BY <1>6, <3>1, <3>2
  <2> QED  BY <2>3, <2>4
<1>8. ASSUME NEW f \in G  PROVE f \in F2 \/ \E j \in 1..(n - 1) : Makes(u[j], f)
  <2>1. CASE f \in F
    <3>1. CASE f \in F2  BY <3>1
    <3>2. CASE f \notin F2
      <4>1. u # <<>> /\ Makes(u[1], f)  BY <2>1, <3>2 DEF u
      <4>2. 1 \in 1..(n - 1)  BY <1>1, <1>4, <4>1
      <4> QED  BY <4>1, <4>2
    <3> QED  BY <3>1, <3>2
  <2>2. CASE f \notin F
    <3>1. PICK j \in 1..n : Makes(t[j], f)  BY <1>3, <2>2
    <3> QED  BY <1>6, <3>1
  <2> QED  BY <2>1, <2>2
<1>9. Feeds(F2, u, G)  BY <1>2, <1>7, <1>8 DEF Feeds
<1> QED  BY <1>1, <1>5, <1>9 DEF u

-----------------------------------------------------------------------------
(* The inductive invariant of a full run nothing comes between *)

\* The extractions of the labels that no gallery replaces.
Kept == IF gallery THEN {} ELSE disk["labels"].of

\* The extractions a file is to come from, and what a stage has read that writes.
Due(f) == disk["manifest"].of \cup (IF f = "overlay" THEN Kept ELSE {})
ReadWhole == [of |-> disk["manifest"].of, whole |-> TRUE]
ReadAll == [of |-> disk["manifest"].of \cup Kept, whole |-> TRUE]
Reading(stage, all, whole) == IF stage = "visualize" THEN all ELSE whole

\* The files that are as they are to be; without a gallery labels may be anything.
FreshFiles ==
  {f \in Derived : (f = "labels" /\ ~gallery) \/ disk[f] = Content(Due(f), TRUE, FALSE)}

\* The step is one of what stage_gallery does when there is somebody to match with.
Matching(op) ==
  op.stage = "gallery" /\ op.kind \in {"read", "unless", "look", "relabel", "open", "close"}

\* A full run at a step: what it has read is whole and of one extraction, and
\* with what it has still to do every file will be.
Renewing(p) ==
  LET t == proc[p].todo
      h == Head(t)
  IN  /\ proc[p].status = "busy" /\ Linked(Smooth, Fine, t)
      /\ h.kind \in Section \cup {"lock"} => Feeds({}, t, Derived)
      /\ h.kind \notin Section \cup {"lock"} => Valid /\ Feeds(FreshFiles, t, Derived)
      /\ h.kind = "unlock" => Valid
      /\ Matching(h) => gallery
      /\ h.kind \in {"read", "unless", "match"} =>
           proc[p].got[h.stage] \in {NothingRead, ReadWhole}
      /\ h.kind \in {"look", "relabel"} => proc[p].got[h.stage] = ReadWhole
      /\ h.kind \in {"open", "close"} =>
           proc[p].got[h.stage] = Reading(h.stage, ReadAll, ReadWhole)
      /\ h.kind = "close" => ~proc[p].clash

\* Every process closes what it opens before it is done.
Closing(t) == Linked(Tidy, Ops, t) /\ (t # <<>> => t[Len(t)].kind # "open")

Closes(p) ==
  /\ Closing(proc[p].todo)
  /\ proc[p].file # "" => Busy(p) /\ Head(proc[p].todo).kind = "close"

\* Nothing came between this process's command and now.
Alone(p) == proc[p].alone => \A o \in Procs \ {p} : ~Busy(o)

FullRunInv(p) ==
  proc[p].cmd = "run" /\ proc[p].alone =>
    /\ Busy(p) => Renewing(p)
    /\ ~Busy(p) /\ proc[p].status = "ok" => Valid /\ Derived \subseteq FreshFiles

RenewInv == RunInv /\ \A p \in Procs : Closes(p) /\ Alone(p) /\ FullRunInv(p)

\* What a step leaves of a process, and how it goes on.
Moved(p, rest) ==
  /\ proc'[p].todo = rest /\ proc'[p].status = (IF rest = <<>> THEN "ok" ELSE "busy")
  /\ proc'[p].cmd = proc[p].cmd /\ proc'[p].alone = proc[p].alone

LEMMA OnwardRest ==
  ASSUME NEW r \in ProcRecs, NEW rest
  PROVE  LET o == Onward(r, rest)
         IN  /\ o.todo = rest /\ o.status = (IF rest = <<>> THEN "ok" ELSE "busy")
             /\ o.cmd = r.cmd /\ o.alone = r.alone /\ o.got = r.got
             /\ o.file = r.file /\ o.clash = r.clash
BY DEF Onward, ProcRecs

\* A step that only goes on.
Goes(p, rest) ==
  /\ Moved(p, rest)
  /\ proc'[p].got = proc[p].got /\ proc'[p].file = proc[p].file
  /\ proc'[p].clash = proc[p].clash
  /\ \A q \in Procs \ {p} : proc'[q] = proc[q]

LEMMA AdvanceOn ==
  ASSUME RunInv, NEW p \in Procs, Busy(p), Advance(p)
  PROVE  Goes(p, Tail(proc[p].todo))
<1> DEFINE r == Onward(proc[p], Tail(proc[p].todo))
<1>1. r \in ProcRecs /\ proc' = [proc EXCEPT ![p] = r]  BY AdvanceGoes
<1>2. proc[p] \in ProcRecs  BY DEF RunInv, RunTypes
<1>3. /\ r.todo = Tail(proc[p].todo) /\ r.status = (IF Tail(proc[p].todo) = <<>> THEN "ok" ELSE "busy")
      /\ r.cmd = proc[p].cmd /\ r.alone = proc[p].alone /\ r.got = proc[p].got
      /\ r.file = proc[p].file /\ r.clash = proc[p].clash
  BY <1>2, OnwardRest
<1> HIDE DEF r
<1>4. proc'[p] = r /\ \A q \in Procs \ {p} : proc'[q] = proc[q]  BY <1>1, OneGoes
<1> QED  BY <1>3, <1>4 DEF Goes, Moved

LEMMA ExpandOn ==
  ASSUME RunInv, NEW p \in Procs, Busy(p), NEW more \in Seq(Ops), Expand(p, more)
  PROVE  Goes(p, more \o Tail(proc[p].todo))
<1> DEFINE rest == more \o Tail(proc[p].todo)
           r == Onward(proc[p], rest)
<1>1. r \in ProcRecs /\ proc' = [proc EXCEPT ![p] = r]  BY ExpandGoes
<1>2. proc[p] \in ProcRecs  BY DEF RunInv, RunTypes
<1> HIDE DEF rest
<1>3. /\ r.todo = rest /\ r.status = (IF rest = <<>> THEN "ok" ELSE "busy")
      /\ r.cmd = proc[p].cmd /\ r.alone = proc[p].alone /\ r.got = proc[p].got
      /\ r.file = proc[p].file /\ r.clash = proc[p].clash
  BY <1>2, OnwardRest
<1> HIDE DEF r
<1>4. proc'[p] = r /\ \A q \in Procs \ {p} : proc'[q] = proc[q]  BY <1>1, OneGoes
<1> QED  BY <1>3, <1>4 DEF Goes, Moved, rest

LEMMA EndIn ==
  ASSUME NEW S, NEW s \in Seq(S), s # <<>>
  PROVE  s[Len(s)] \in S /\ s[1] \in S
OBVIOUS

LEMMA JoinNothing ==
  ASSUME NEW S, NEW s \in Seq(S)  PROVE s \o <<>> = s /\ <<>> \o s = s
OBVIOUS

LEMMA TidyRest ==
  ASSUME NEW t, Closing(t), t # <<>>
  PROVE  /\ Closing(Tail(t)) /\ Head(t) \in Ops
         /\ Head(t).kind = "open" => Tail(t) # <<>> /\ Head(Tail(t)).kind = "close"
         /\ Tail(t) # <<>> /\ Head(t).kind # "open" => Tail(t)[1].kind # "close"
<1> DEFINE u == Tail(t)
           n == Len(t)
<1>1. Linked(Tidy, Ops, u) /\ Head(t) = t[1] /\ Head(t) \in Ops  BY LinkedTail DEF Closing
<1>2. Len(u) = n - 1 /\ n \in Nat \ {0}  BY LinkedTail DEF Closing
<1>3. \A i \in 1..(n - 1) : u[i] = t[i + 1]  BY LinkedTail DEF Closing
<1>4. u # <<>> => n > 1 /\ Head(u) = u[1] /\ <<Head(t), Head(u)>> \in Tidy
  BY LinkedTail DEF Closing
<1> HIDE DEF u, n
<1>5. n > 1 => u # <<>>
  <2>1. Len(<<>>) = 0  OBVIOUS
  <2> QED  BY <1>2, <2>1
<1>6. u # <<>> => u[Len(u)].kind # "open"
  <2> SUFFICES ASSUME u # <<>> PROVE u[Len(u)].kind # "open"
    OBVIOUS
  <2>1. n > 1  BY <1>4
  <2>2. n - 1 \in 1..(n - 1) /\ (n - 1) + 1 = n  BY <1>2, <2>1
  <2>3. u[Len(u)] = t[n]  BY <1>2, <1>3, <2>2
  <2> QED  BY <2>3 DEF n, Closing
<1>7. ASSUME Head(t).kind = "open"  PROVE u # <<>> /\ Head(u).kind = "close"
  <2>1. n # 1  BY <1>1, <1>7 DEF n, Closing
  <2>2. u # <<>>  BY <1>2, <1>5, <2>1
  <2> QED  BY <1>4, <1>7, <2>2 DEF Tidy
<1>8. u # <<>> /\ Head(t).kind # "open" => u[1].kind # "close"  BY <1>4 DEF Tidy
<1> QED  BY <1>1, <1>6, <1>7, <1>8 DEF u, Closing

LEMMA TidyMore ==
  ASSUME NEW s, TidyProgram(s), NEW t, Closing(t), t # <<>> => t[1].kind # "close"
  PROVE  Closing(s \o t) /\ s \o t # <<>>
<1>1. s \in Seq(Ops) /\ s # <<>> /\ t \in Seq(Ops)  BY DEF TidyProgram, Closing, Linked
<1>2. CASE t = <<>>
  <2>1. s \o t = s  BY <1>1, <1>2, JoinNothing
  <2> QED  BY <1>1, <2>1 DEF Closing, TidyProgram
<1>3. CASE t # <<>>
  <2>1. s[Len(s)] \in Ops /\ t[1] \in Ops  BY <1>1, <1>3, EndIn
  <2>2. <<s[Len(s)], t[1]>> \in Tidy  BY <1>3, <2>1 DEF TidyProgram, Tidy
  <2>3. Linked(Tidy, Ops, s \o t)  BY <2>2, LinkedJoin DEF TidyProgram, Closing
  <2>4. s \o t # <<>> /\ (s \o t)[Len(s \o t)] = t[Len(t)]  BY <1>1, <1>3, JoinEnds
  <2> QED  BY <1>3, <2>3, <2>4 DEF Closing
<1> QED  BY <1>2, <1>3

\* What is opened is closed.
LEMMA ClosesOn ==
  ASSUME NEW p \in Procs, Busy(p), Closes(p), proc'[p].todo = Tail(proc[p].todo),
         proc'[p].file # "" => Head(proc[p].todo).kind = "open"
  PROVE  Closes(p)'
<1>1. Closing(proc[p].todo) /\ proc[p].todo # <<>>  BY DEF Closes, Busy
<1>2. /\ Closing(proc'[p].todo)
      /\ Head(proc[p].todo).kind = "open" =>
           proc'[p].todo # <<>> /\ Head(proc'[p].todo).kind = "close"
  BY <1>1, TidyRest
<1> QED  BY <1>2 DEF Closes, Busy, Closing

LEMMA ClosesMore ==
  ASSUME NEW p \in Procs, Busy(p), Closes(p), NEW more, TidyProgram(more),
         proc'[p].todo = more \o Tail(proc[p].todo),
         proc'[p].file = "", Head(proc[p].todo).kind # "open"
  PROVE  Closes(p)'
<1>1. Closing(proc[p].todo) /\ proc[p].todo # <<>>  BY DEF Closes, Busy
<1>2. Closing(Tail(proc[p].todo))
      /\ (Tail(proc[p].todo) # <<>> => Tail(proc[p].todo)[1].kind # "close")
  BY <1>1, TidyRest
<1>3. Closing(proc'[p].todo)  BY <1>2, TidyMore
<1> QED  BY <1>3 DEF Closes, Closing

\* The steps that go on to the rest, or put a program before it.
LEMMA GoesSteps ==
  ASSUME RunInv, NEW p \in Procs
  PROVE  /\ TakeLock(p) => Ends(p, "failed") \/ Goes(p, Tail(proc[p].todo))
         /\ PutRaw(p) \/ SealManifest(p) \/ WriteChecksums(p) \/ Unlock(p) =>
              Goes(p, Tail(proc[p].todo))
<1>1. TakeLock(p) => Ends(p, "failed") \/ Goes(p, Tail(proc[p].todo))
  BY AdvanceOn DEF TakeLock, At
<1>2. SealManifest(p) \/ WriteChecksums(p) \/ Unlock(p) => Goes(p, Tail(proc[p].todo))
  BY AdvanceOn DEF SealManifest, WriteChecksums, Unlock, At
<1>3. ASSUME PutRaw(p)  PROVE Goes(p, Tail(proc[p].todo))
  <2> DEFINE t == Tail(proc[p].todo)
             o == Onward(proc[p], t)
             mine == IF File(p) = "manifest" THEN begun + 1 ELSE proc[p].mine
             r == [o EXCEPT !.mine = mine]
  <2>1. Busy(p)  BY <1>3 DEF PutRaw, At
  <2>2. proc[p] \in ProcRecs /\ t \in Seq(Ops)  BY <2>1, AtStep
  <2>3. proc' = [proc EXCEPT ![p] = r]  BY <1>3 DEF PutRaw, RunInv, RunTypes
  <2>4. o \in ProcRecs  BY <2>2, OnwardType
  <2>5. /\ o.todo = t /\ o.status = (IF t = <<>> THEN "ok" ELSE "busy")
        /\ o.cmd = proc[p].cmd /\ o.alone = proc[p].alone /\ o.got = proc[p].got
        /\ o.file = proc[p].file /\ o.clash = proc[p].clash
    BY <2>2, OnwardRest
  <2>6. mine \in Nat
    <3>1. begun \in Nat /\ proc[p].mine \in Nat  BY <2>2 DEF ProcRecs, RunInv, RunTypes
    <3> QED  BY <3>1
  <2> HIDE DEF o, mine, t
  <2>7. /\ r \in ProcRecs /\ r.todo = o.todo /\ r.status = o.status /\ r.cmd = o.cmd
        /\ r.alone = o.alone /\ r.got = o.got /\ r.file = o.file /\ r.clash = o.clash
    BY <2>4, <2>6 DEF ProcRecs
  <2> HIDE DEF r
  <2>8. proc'[p] = r /\ \A q \in Procs \ {p} : proc'[q] = proc[q]  BY <2>3, <2>7, OneGoes
  <2> QED  BY <2>5, <2>7, <2>8 DEF Goes, Moved, t
<1> QED  BY <1>1, <1>2, <1>3

LEMMA ProgramSeq == ASSUME NEW t, TidyProgram(t)  PROVE t \in Seq(Ops)
BY DEF TidyProgram, Linked

LEMMA ExpandSteps ==
  ASSUME RunInv, NEW p \in Procs
  PROVE  LET t == Tail(proc[p].todo)
         IN  /\ Reuse(p) => \/ Valid /\ Goes(p, t)
                            \/ ~Valid /\ Goes(p, Writes \o t)
             /\ Unless(p) => \/ Exists(File(p)) /\ Goes(p, t)
                             \/ /\ ~Exists(File(p))
                                /\ \E s : TidyProgram(s) /\ Goes(p, s \o t)
             /\ MatchGallery(p) => \/ ~gallery /\ Goes(p, t)
                                   \/ gallery /\ Goes(p, Matches \o t)
             /\ Relabel(p) =>
                  \/ ~Exists("tracks") /\ Goes(p, t)
                  \/ Goes(p, Relabels \o t)
<1> DEFINE t == Tail(proc[p].todo)
<1>1. ASSUME Busy(p), NEW more, more = <<>> \/ TidyProgram(more), Expand(p, more)
      PROVE  /\ more = <<>> => Goes(p, t)
             /\ Goes(p, more \o t)
  <2>1. t \in Seq(Ops)  BY <1>1, AtStep
  <2>2. <<>> \in Seq(Ops)  OBVIOUS
  <2>3. more \in Seq(Ops)  BY <1>1, <2>2, ProgramSeq
  <2>4. Goes(p, more \o t)  BY <1>1, <2>3, ExpandOn
  <2> HIDE DEF t
  <2> QED  BY <2>1, <2>4, JoinNothing
<1>2. ASSUME Reuse(p)
      PROVE  \/ Valid /\ Goes(p, t)
             \/ ~Valid /\ Goes(p, Writes \o t)
  <2>1. Busy(p) /\ Expand(p, IF Valid THEN <<>> ELSE Writes)  BY <1>2 DEF Reuse, At
  <2> HIDE DEF t
  <2>2. CASE Valid
    <3>1. Expand(p, <<>>)  BY <2>1, <2>2
    <3> QED  BY <1>1, <2>1, <2>2, <3>1
  <2>3. CASE ~Valid
    <3>1. Expand(p, Writes)  BY <2>1, <2>3
    <3> QED  BY <1>1, <2>1, <2>3, <3>1, TidyPrograms
  <2> QED  BY <2>2, <2>3
<1>3. ASSUME Unless(p)
      PROVE  \/ Exists(File(p)) /\ Goes(p, t)
             \/ /\ ~Exists(File(p))
                /\ \E s : TidyProgram(s) /\ Goes(p, s \o t)
  <2>1. /\ Busy(p) /\ Head(proc[p].todo).kind = "unless"
        /\ Expand(p, IF Exists(File(p)) THEN <<>> ELSE Program(Maker(File(p))))
    BY <1>3 DEF Unless, At
  <2>2. File(p) \in {"assignments", "templates", "clusters"}
    <3>1. Head(proc[p].todo) \in Ops  BY <2>1, AtStep
    <3>2. Uses(p) \in {{"assignments"}, {"templates"}, {"clusters"}}
      BY <2>1, <3>1 DEF Ops, Uses
    <3> QED  BY <3>2, TheFile
  <2> HIDE DEF t
  <2>3. CASE Exists(File(p))
    <3>1. Expand(p, <<>>)  BY <2>1, <2>3
    <3> QED  BY <1>1, <2>1, <2>3, <3>1
  <2>4. CASE ~Exists(File(p))
    <3>1. TidyProgram(Program(Maker(File(p))))  BY <2>2, TidyPrograms DEF Maker, Stages
    <3>2. Expand(p, Program(Maker(File(p))))  BY <2>1, <2>4
    <3> QED  BY <1>1, <2>1, <2>4, <3>1, <3>2
  <2> QED  BY <2>3, <2>4
<1>4. ASSUME MatchGallery(p)
      PROVE  (~gallery /\ Goes(p, t)) \/ (gallery /\ Goes(p, Matches \o t))
  <2>1. Busy(p) /\ Expand(p, IF gallery THEN Matches ELSE <<>>)
    BY <1>4 DEF MatchGallery, At
  <2> HIDE DEF t
  <2>2. CASE gallery
    <3>1. Expand(p, Matches)  BY <2>1, <2>2
    <3> QED  BY <1>1, <2>1, <2>2, <3>1, TidyPrograms
  <2>3. CASE ~gallery
    <3>1. Expand(p, <<>>)  BY <2>1, <2>3
    <3> QED  BY <1>1, <2>1, <2>3, <3>1
  <2> QED  BY <2>2, <2>3
<1>5. ASSUME Relabel(p)
      PROVE  \/ ~Exists("tracks") /\ Goes(p, t)
             \/ Goes(p, Relabels \o t)
  <2>1. Busy(p) /\ (Expand(p, Relabels) \/ (~Exists("tracks") /\ Advance(p)))
    BY <1>5 DEF Relabel, At, Relabels
  <2>2. TidyProgram(Relabels)  BY TidyPrograms
  <2> HIDE DEF t
  <2>3. CASE Expand(p, Relabels)  BY <1>1, <2>1, <2>2, <2>3
  <2>4. CASE ~Exists("tracks") /\ Advance(p)
    <3>1. Goes(p, t)  BY <2>1, <2>4, AdvanceOn DEF t
    <3> QED  BY <2>4, <3>1
  <2> QED  BY <2>1, <2>3, <2>4
<1> QED  BY <1>2, <1>3, <1>4, <1>5

\* The steps that read.
Takes(p, seen) ==
  /\ Moved(p, Tail(proc[p].todo)) /\ proc'[p].got = [proc[p].got EXCEPT ![Stage(p)] = seen]
  /\ proc'[p].file = proc[p].file /\ proc'[p].clash = proc[p].clash
  /\ \A q \in Procs \ {p} : proc'[q] = proc[q]
  /\ UNCHANGED <<disk, checksums, lock, begun, given, gallery>>

Seen(p, files) ==
  [of |-> proc[p].got[Stage(p)].of \union UNION {disk[f].of : f \in files},
   whole |-> proc[p].got[Stage(p)].whole /\ \A f \in files : disk[f].whole]

LEMMA TakesSteps ==
  ASSUME RunInv, NEW p \in Procs
  PROVE  /\ Validate(p) => Ends(p, "failed") \/ (Valid /\ Takes(p, NothingRead))
         /\ Read(p) => \/ Ends(p, "failed")
                       \/ (\A f \in Uses(p) : Exists(f)) /\ Takes(p, Seen(p, Uses(p)))
         /\ Look(p) => \/ Ends(p, "failed")
                       \/ /\ Takes(p, Seen(p, {f \in Uses(p) : Exists(f)}))
                          /\ "labels" \in Uses(p) /\ Exists("labels") =>
                               disk["labels"].whole = TRUE
<1>1. ASSUME Busy(p), NEW seen \in Reads,
             proc' = [proc EXCEPT ![p] =
                        [Onward(@, Tail(@.todo)) EXCEPT !.got[Stage(p)] = seen]],
             UNCHANGED <<disk, checksums, lock, begun, given, gallery>>
      PROVE  Takes(p, seen)
  <2> DEFINE t == Tail(proc[p].todo)
             o == Onward(proc[p], t)
             r == [o EXCEPT !.got[Stage(p)] = seen]
  <2>1. proc[p] \in ProcRecs /\ t \in Seq(Ops) /\ Stage(p) \in Stages
    BY <1>1, AtStep DEF Stage, Ops
  <2>2. proc' = [proc EXCEPT ![p] = r]  BY <1>1 DEF RunInv, RunTypes
  <2>3. o \in ProcRecs  BY <2>1, OnwardType
  <2>4. /\ o.todo = t /\ o.status = (IF t = <<>> THEN "ok" ELSE "busy")
        /\ o.cmd = proc[p].cmd /\ o.alone = proc[p].alone /\ o.got = proc[p].got
        /\ o.file = proc[p].file /\ o.clash = proc[p].clash
    BY <2>1, OnwardRest
  <2> HIDE DEF o, t
  <2>5. r \in ProcRecs  BY <1>1, <2>1, <2>3 DEF ProcRecs, Reads
  <2>6. /\ r.todo = o.todo /\ r.status = o.status /\ r.cmd = o.cmd
        /\ r.alone = o.alone /\ r.got = [o.got EXCEPT ![Stage(p)] = seen]
        /\ r.file = o.file /\ r.clash = o.clash
    BY <2>3 DEF ProcRecs
  <2> HIDE DEF r
  <2>7. proc'[p] = r /\ \A q \in Procs \ {p} : proc'[q] = proc[q]  BY <2>2, <2>5, OneGoes
  <2> QED  BY <1>1, <2>4, <2>6, <2>7 DEF Takes, Moved, t
<1>2. NothingRead \in Reads  BY DEF NothingRead, Reads
<1>3. ASSUME Busy(p), NEW files \in SUBSET Files, Absorbs(p, files)
      PROVE  Takes(p, Seen(p, files))
  <2> DEFINE g == proc[p].got[Stage(p)]
  <2>1. Stage(p) \in Stages /\ proc[p] \in ProcRecs  BY <1>3, AtStep DEF Stage, Ops
  <2>2. g \in Reads  BY <2>1 DEF ProcRecs, Reads
  <2>3. \A f \in files : disk[f].of \in SUBSET Nat /\ disk[f].whole \in BOOLEAN
    BY DEF RunInv, RunTypes, Contents
  <2>4. Seen(p, files) \in Reads
    <3>1. g.of \union UNION {disk[f].of : f \in files} \in SUBSET Nat  BY <2>2, <2>3 DEF Reads
    <3>2. (g.whole /\ \A f \in files : disk[f].whole) \in BOOLEAN  OBVIOUS
    <3> QED  BY <3>1, <3>2 DEF Reads, Seen
  <2>5. proc' = [proc EXCEPT ![p] =
                   [Onward(@, Tail(@.todo)) EXCEPT !.got[Stage(p)] = Seen(p, files)]]
    BY <1>3 DEF Absorbs, Seen
  <2>6. UNCHANGED <<disk, checksums, lock, begun, given, gallery>>  BY <1>3 DEF Absorbs
  <2> QED  BY <1>1, <1>3, <2>4, <2>5, <2>6
<1>4. Validate(p) => Ends(p, "failed") \/ (Valid /\ Takes(p, NothingRead))
  BY <1>1, <1>2 DEF Validate, At
<1>5. Busy(p) => Uses(p) \in SUBSET Files  BY AtStep DEF Uses, Ops
<1>6. Busy(p) => {f \in Uses(p) : Exists(f)} \in SUBSET Files  BY <1>5
<1>7. Read(p) => \/ Ends(p, "failed")
                 \/ (\A f \in Uses(p) : Exists(f)) /\ Takes(p, Seen(p, Uses(p)))
  BY <1>3, <1>5 DEF Read, At
<1>8. Look(p) => Ends(p, "failed") \/ Takes(p, Seen(p, {f \in Uses(p) : Exists(f)}))
  BY <1>3, <1>6 DEF Look, At
<1>9. Look(p) /\ "labels" \in Uses(p) /\ Exists("labels") =>
        Ends(p, "failed") \/ disk["labels"].whole = TRUE
  <2>1. "labels" \in Files  BY DEF Files, Derived
  <2>2. disk["labels"].whole \in BOOLEAN  BY <2>1 DEF RunInv, RunTypes, Contents
  <2> QED  BY <2>2 DEF Look, Absorbs
<1> QED  BY <1>4, <1>7, <1>8, <1>9

\* Writing in place.
LEMMA PlaceSteps ==
  ASSUME RunInv, NEW p \in Procs
  PROVE  /\ Open(p) =>
              /\ Moved(p, Tail(proc[p].todo)) /\ proc'[p].got = proc[p].got
              /\ proc'[p].clash = ({q \in Procs \ {p} : proc[q].file = File(p)} # {})
              /\ \A q \in Procs \ {p} : \/ proc'[q] = proc[q]
                                        \/ proc'[q] = [proc[q] EXCEPT !.clash = TRUE]
         /\ Close(p) =>
              /\ Moved(p, Tail(proc[p].todo)) /\ proc'[p].got = proc[p].got
              /\ proc'[p].file = "" /\ \A q \in Procs \ {p} : proc'[q] = proc[q]
<1> DEFINE t == Tail(proc[p].todo)
           o == Onward(proc[p], t)
<1>1. ASSUME Busy(p)
      PROVE  /\ o \in ProcRecs
             /\ o.todo = t /\ o.status = (IF t = <<>> THEN "ok" ELSE "busy")
             /\ o.cmd = proc[p].cmd /\ o.alone = proc[p].alone /\ o.got = proc[p].got
             /\ o.file = proc[p].file /\ o.clash = proc[p].clash
  <2>1. proc[p] \in ProcRecs /\ t \in Seq(Ops)  BY <1>1, AtStep
  <2>2. o \in ProcRecs  BY <2>1, OnwardType
  <2>3. /\ o.todo = t /\ o.status = (IF t = <<>> THEN "ok" ELSE "busy")
        /\ o.cmd = proc[p].cmd /\ o.alone = proc[p].alone /\ o.got = proc[p].got
        /\ o.file = proc[p].file /\ o.clash = proc[p].clash
    BY <2>1, OnwardRest
  <2> QED  BY <2>2, <2>3
<1>2. ASSUME Open(p)
      PROVE  /\ Moved(p, t) /\ proc'[p].got = proc[p].got
             /\ proc'[p].clash = ({q \in Procs \ {p} : proc[q].file = File(p)} # {})
             /\ \A q \in Procs \ {p} : \/ proc'[q] = proc[q]
                                       \/ proc'[q] = [proc[q] EXCEPT !.clash = TRUE]
  <2> DEFINE others == {q \in Procs \ {p} : proc[q].file = File(p)}
             r == [o EXCEPT !.file = File(p), !.clash = others # {}]
  <2>1. Busy(p)  BY <1>2 DEF Open, At
  <2>2. proc' = [q \in Procs |->
                  IF q = p THEN r
                  ELSE IF q \in others THEN [proc[q] EXCEPT !.clash = TRUE] ELSE proc[q]]
    BY <1>2 DEF Open
  <2> HIDE DEF o, others
  <2>3. /\ r.todo = o.todo /\ r.status = o.status /\ r.cmd = o.cmd
        /\ r.alone = o.alone /\ r.got = o.got /\ r.clash = (others # {})
    BY <1>1, <2>1 DEF ProcRecs
  <2> HIDE DEF r
  <2>4. proc'[p] = r  BY <2>2
  <2>5. \A q \in Procs \ {p} : \/ proc'[q] = proc[q]
                               \/ proc'[q] = [proc[q] EXCEPT !.clash = TRUE]
    BY <2>2
  <2> QED  BY <1>1, <2>1, <2>3, <2>4, <2>5 DEF Moved, others
<1>3. ASSUME Close(p)
      PROVE  /\ Moved(p, t) /\ proc'[p].got = proc[p].got
             /\ proc'[p].file = "" /\ \A q \in Procs \ {p} : proc'[q] = proc[q]
  <2> DEFINE r == [o EXCEPT !.file = ""]
  <2>1. Busy(p)  BY <1>3 DEF Close, At
  <2>2. proc' = [proc EXCEPT ![p] = r]  BY <1>3 DEF Close, RunInv, RunTypes
  <2> HIDE DEF o
  <2>3. /\ r \in ProcRecs /\ r.todo = o.todo /\ r.status = o.status /\ r.cmd = o.cmd
        /\ r.alone = o.alone /\ r.got = o.got /\ r.file = ""
    BY <1>1, <2>1 DEF ProcRecs
  <2> HIDE DEF r
  <2>4. proc'[p] = r /\ \A q \in Procs \ {p} : proc'[q] = proc[q]  BY <2>2, <2>3, OneGoes
  <2> QED  BY <1>1, <2>1, <2>3, <2>4 DEF Moved
<1> QED  BY <1>2, <1>3

\* What a step changes of the other processes, and of what this one was told.
Framed(p) ==
  /\ proc'[p].cmd = proc[p].cmd /\ proc'[p].alone = proc[p].alone
  /\ \A q \in Procs \ {p} :
       proc'[q] = proc[q] \/ proc'[q] = [proc[q] EXCEPT !.clash = TRUE]

LEMMA EndsFrame ==
  ASSUME RunInv, NEW p \in Procs, NEW how, Ends(p, how)
  PROVE  /\ Framed(p) /\ proc'[p].todo = <<>> /\ proc'[p].status = how /\ proc'[p].file = ""
<1>1. proc[p] \in ProcRecs  BY DEF RunInv, RunTypes
<1>2. proc' = [proc EXCEPT ![p] = [proc[p] EXCEPT !.todo = <<>>, !.status = how, !.file = ""]]
  BY DEF Ends, RunInv, RunTypes
<1> QED  BY <1>1, <1>2 DEF Framed, ProcRecs, RunInv, RunTypes

\* Each step closes what it opened, and leaves the other processes alone.
LEMMA StepCloses ==
  ASSUME RunInv, NEW p \in Procs, Closes(p), Step(p)
  PROVE  Closes(p)' /\ Framed(p) /\ Busy(p)
<1> DEFINE t == Tail(proc[p].todo)
           h == Head(proc[p].todo)
<1>1. Busy(p)
  BY DEF Step, TakeLock, Reuse, PutRaw, SealManifest, WriteChecksums, Unlock, Validate, Read,
     Look, Unless, MatchGallery, Relabel, Open, Close, At
<1>2. CASE Ends(p, "failed")
  <2>1. Framed(p) /\ proc'[p].todo = <<>> /\ proc'[p].file = ""  BY <1>2, EndsFrame
  <2>2. Closing(<<>>)  BY DEF Closing, Linked
  <2> QED  BY <1>1, <2>1, <2>2 DEF Closes, Closing
<1>3. h.kind # "close" => proc[p].file = ""  BY <1>1 DEF Closes
<1>4. ASSUME Goes(p, t) \/ (\E s : TidyProgram(s) /\ Goes(p, s \o t)),
             h.kind \notin {"open", "close"}
      PROVE  Closes(p)' /\ Framed(p)
  <2>1. proc'[p].file = "" /\ Framed(p)  BY <1>3, <1>4 DEF Goes, Framed, Moved
  <2>2. CASE Goes(p, t)
    <3>1. proc'[p].todo = t  BY <2>2 DEF Goes, Moved
    <3> QED  BY <1>1, <2>1, <3>1, ClosesOn
  <2>3. ASSUME NEW s, TidyProgram(s), Goes(p, s \o t)  PROVE Closes(p)'
    <3>1. proc'[p].todo = s \o t  BY <2>3 DEF Goes, Moved
    <3> QED  BY <1>1, <1>4, <2>1, <2>3, <3>1, ClosesMore
  <2> QED  BY <1>4, <2>1, <2>2, <2>3
<1>5. ASSUME NEW seen, Takes(p, seen), h.kind \notin {"open", "close"}
      PROVE  Closes(p)' /\ Framed(p)
  <2>1. proc'[p].file = "" /\ Framed(p) /\ proc'[p].todo = t
    BY <1>3, <1>5 DEF Takes, Framed, Moved
  <2> QED  BY <1>1, <2>1, ClosesOn
<1>6. CASE TakeLock(p) \/ PutRaw(p) \/ SealManifest(p) \/ WriteChecksums(p) \/ Unlock(p)
  <2>1. h.kind \in {"lock", "put", "seal", "sums", "unlock"}
    BY <1>6 DEF TakeLock, PutRaw, SealManifest, WriteChecksums, Unlock, At
  <2>2. Ends(p, "failed") \/ Goes(p, t)  BY <1>6, GoesSteps
  <2> QED  BY <1>1, <1>2, <1>4, <2>1, <2>2
<1>7. CASE Reuse(p) \/ Unless(p) \/ MatchGallery(p) \/ Relabel(p)
  <2>1. h.kind \in {"reuse", "unless", "match", "relabel"}
    BY <1>7 DEF Reuse, Unless, MatchGallery, Relabel, At
  <2> HIDE DEF t, h
  <2>2. Goes(p, t) \/ \E s : TidyProgram(s) /\ Goes(p, s \o t)
    BY <1>7, ExpandSteps, TidyPrograms DEF t
  <2> QED  BY <1>1, <1>4, <2>1, <2>2
<1>8. CASE Validate(p) \/ Read(p) \/ Look(p)
  <2>1. h.kind \in {"validate", "read", "look"}  BY <1>8 DEF Validate, Read, Look, At
  <2>2. Ends(p, "failed") \/ \E seen : Takes(p, seen)  BY <1>8, TakesSteps
  <2> QED  BY <1>1, <1>2, <1>5, <2>1, <2>2
<1>9. CASE Open(p) \/ Close(p)
  <2>1. /\ Moved(p, t) /\ Framed(p)
        /\ proc'[p].file # "" => h.kind = "open"
    BY <1>9, PlaceSteps DEF Framed, Moved, Open, Close, At
  <2>2. proc'[p].todo = t  BY <2>1 DEF Moved
  <2> QED  BY <1>1, <2>1, <2>2, ClosesOn
<1> QED  BY <1>6, <1>7, <1>8, <1>9 DEF Step

-----------------------------------------------------------------------------
(* The steps of a full run *)

\* A full run that has ended has renewed every file; one that goes on goes on
\* renewing them.
LEMMA Settles ==
  ASSUME NEW p \in Procs,
         proc'[p].todo # <<>> => Renewing(p)',
         proc'[p].todo = <<>> => proc'[p].status # "ok" \/ (Valid' /\ Derived \subseteq FreshFiles')
  PROVE  FullRunInv(p)'
BY DEF FullRunInv, Busy

LEMMA SmoothRest ==
  ASSUME NEW t, Linked(Smooth, Fine, t), t # <<>>
  PROVE  /\ Linked(Smooth, Fine, Tail(t)) /\ Head(t) \in Fine
         /\ Tail(t) # <<>> => /\ <<Head(t), Head(Tail(t))>> \in Smooth
                             /\ Head(Tail(t)) \in Fine /\ Head(Tail(t)) = Tail(t)[1]
BY LinkedTail

LEMMA FeedsNothing ==
  ASSUME NEW F, Feeds(F, <<>>, Derived)  PROVE Derived \subseteq F
<1>1. Len(<<>>) = 0 /\ 1..0 = {}  OBVIOUS
<1> QED  BY <1>1 DEF Feeds

LEMMA DerivedSome == "metrics" \in Derived /\ Derived # {}
BY DEF Derived

\* In the middle of an extraction, the rest of it comes next.
LEMMA MidwayStep ==
  ASSUME RunInv', NEW p \in Procs, Busy(p), Renewing(p),
         Head(proc[p].todo).kind \in Midway,
         Moved(p, Tail(proc[p].todo)),
         Tail(proc[p].todo) # <<>> /\ Head(Tail(proc[p].todo)).kind = "unlock" => Valid'
  PROVE  FullRunInv(p)'
<1> DEFINE t == proc[p].todo
           u == Tail(t)
<1>1. /\ Linked(Smooth, Fine, t) /\ t # <<>> /\ Head(t).kind \in Section \cup {"lock"}
      /\ Feeds({}, t, Derived)
  BY DEF Renewing, Busy, Midway, Section
<1>2. /\ proc'[p].todo = u /\ proc'[p].status = (IF u = <<>> THEN "ok" ELSE "busy")
      /\ Head(t).kind \in Midway /\ (u # <<>> /\ Head(u).kind = "unlock" => Valid')
  BY DEF Moved
<1> HIDE DEF t
<1>3. Feeds({}, u, Derived)
  <2>1. \A f : ~Makes(Head(t), f)  BY <1>2 DEF Makes, Midway
  <2> QED  BY <1>1, <2>1, FeedsTail
<1>4. /\ Linked(Smooth, Fine, u)
      /\ u # <<>> => <<Head(t), Head(u)>> \in Smooth
  BY <1>1, SmoothRest
<1> HIDE DEF u
<1>5. u # <<>>  BY <1>3, FeedsNothing, DerivedSome
<1>6. Head(u).kind \in Section  BY <1>2, <1>4, <1>5 DEF Smooth
<1>7. Renewing(p)'  BY <1>2, <1>3, <1>4, <1>5, <1>6 DEF Renewing, Section, Matching
<1> QED  BY <1>2, <1>5, <1>7, Settles

\* Past the extraction, each step leaves the run valid and what it wrote fresh.
LEMMA FreshStep ==
  ASSUME RunInv', NEW p \in Procs, Busy(p), Renewing(p),
         Chain(proc[p].todo), NEW a, a = Head(proc[p].todo), a.kind \notin Midway,
         Moved(p, Tail(proc[p].todo)),
         Valid', Feeds(FreshFiles', Tail(proc[p].todo), Derived), gallery' = gallery,
         a.kind \in {"validate", "unless"} =>
           proc'[p].got[a.stage] \in {NothingRead, ReadWhole'},
         a.kind \in {"read", "relabel"} => proc'[p].got[a.stage] = ReadWhole',
         a.kind \in {"look", "close", "open"} =>
           proc'[p].got[a.stage] = Reading(a.stage, ReadAll', ReadWhole'),
         a.kind = "open" => ~proc'[p].clash
  PROVE  FullRunInv(p)'
<1> DEFINE t == proc[p].todo
           u == Tail(t)
           b == Head(u)
<1>1. /\ Linked(Smooth, Fine, t) /\ t # <<>> /\ a = Head(t) /\ Chain(t)
      /\ Matching(a) => gallery
  BY DEF Renewing, Busy
<1>2. /\ proc'[p].todo = u /\ proc'[p].status = (IF u = <<>> THEN "ok" ELSE "busy")
      /\ Feeds(FreshFiles', u, Derived)
  BY DEF Moved
<1> HIDE DEF t
<1>3. /\ Linked(Smooth, Fine, u)
      /\ u # <<>> => <<a, b>> \in Smooth
  BY <1>1, SmoothRest
<1>4. u # <<>> => Leads(a, b)  BY <1>1, Rest
<1> HIDE DEF u, b
<1>5. CASE u = <<>>
  <2>1. Derived \subseteq FreshFiles'  BY <1>2, <1>5, FeedsNothing
  <2> QED  BY <1>2, <1>5, <2>1, Settles
<1>6. CASE u # <<>>
  <2>1. b.kind \notin Section \cup {"lock"}  BY <1>3, <1>4, <1>6 DEF Smooth, Leads, Midway, Section
  <2>7. \A stage : stage # "visualize" => Reading(stage, ReadAll', ReadWhole') = ReadWhole'
    BY DEF Reading
  <2>8. b.kind \in {"read", "unless", "match"} =>
          proc'[p].got[b.stage] \in {NothingRead, ReadWhole'}
    BY <1>3, <1>6 DEF Smooth
  <2>9. b \in Fine /\ <<a, b>> \in Smooth /\ a \in Fine  BY <1>3, <1>6 DEF Smooth
  <2>10. b.kind = "look" => proc'[p].got[b.stage] = ReadWhole'
    BY <2>9 DEF Smooth
  <2>11. b.kind = "relabel" => proc'[p].got[b.stage] = ReadWhole'
    <3> SUFFICES ASSUME b.kind = "relabel" PROVE proc'[p].got[b.stage] = ReadWhole'
      OBVIOUS
    <3>1. /\ b.stage = "gallery" /\ a.stage = b.stage
          /\ a.kind \in {"read", "look", "close", "relabel"}
      BY <2>9 DEF Smooth, Fine
    <3>2. Reading(b.stage, ReadAll', ReadWhole') = ReadWhole'  BY <2>7, <3>1
    <3> QED  BY <3>1, <3>2
  <2>12. b.kind = "open" => proc'[p].got[b.stage] = Reading(b.stage, ReadAll', ReadWhole')
    <3> SUFFICES ASSUME b.kind = "open"
                 PROVE  proc'[p].got[b.stage] = Reading(b.stage, ReadAll', ReadWhole')
      OBVIOUS
    <3>1. /\ a.stage = b.stage /\ a.kind \in {"read", "look", "close", "relabel"}
          /\ b.stage = "visualize" => a.kind = "look"
      BY <2>9 DEF Smooth
    <3> QED  BY <2>7, <3>1
  <2>2. Matching(b) => gallery'
    <3> SUFFICES ASSUME Matching(b) PROVE Matching(a)
      BY <1>1
    <3>1. b.kind \in {"read", "unless"} => Matching(a)
      BY <2>9 DEF Smooth, Matching
    <3>2. b.kind \in {"look", "relabel", "open"} => Matching(a)
      BY <2>9 DEF Smooth, Matching
    <3>3. b.kind = "close" => Matching(a)  BY <2>9 DEF Smooth, Tidy, Matching
    <3> QED  BY <3>1, <3>2, <3>3 DEF Matching
  <2>3. b.kind = "close" =>
          /\ proc'[p].got[b.stage] = Reading(b.stage, ReadAll', ReadWhole')
          /\ ~proc'[p].clash
    BY <2>9 DEF Smooth, Tidy
  <2>4. Head(proc'[p].todo) = b /\ proc'[p].status = "busy"  BY <1>2, <1>6 DEF b
  <2>5. b.kind # "unlock"  BY <2>1 DEF Section
  <2>6. Renewing(p)'
    BY <1>2, <1>3, <2>1, <2>2, <2>3, <2>4, <2>5, <2>8, <2>10, <2>11, <2>12 DEF Renewing
  <2> QED  BY <1>2, <1>6, <2>6, Settles
<1> QED  BY <1>5, <1>6

LEMMA Untouched ==
  ASSUME UNCHANGED <<disk, checksums, gallery>>
  PROVE  /\ Valid' = Valid /\ FreshFiles' = FreshFiles /\ ReadWhole' = ReadWhole
         /\ ReadAll' = ReadAll
BY DEF Valid, Complete, Exists, FreshFiles, ReadWhole, ReadAll, Due, Kept

\* Valid raw files are whole and of one extraction.
LEMMA ValidFiles ==
  ASSUME RunInv, Valid
  PROVE  \A f \in RawFiles : disk[f] = Content(disk["manifest"].of, TRUE, FALSE)
<1>1. checksums # NoSums /\ checksums = [f \in RawFiles |-> disk[f]]
  BY DEF Valid, Complete
<1>2. PICK n \in 1..begun : checksums = [f \in RawFiles |-> Content({n}, TRUE, FALSE)]
  BY <1>1 DEF RunInv, SumsFinished
<1>3. \A f \in RawFiles : disk[f] = Content({n}, TRUE, FALSE)  BY <1>1, <1>2
<1>4. disk["manifest"].of = {n}  BY <1>3 DEF RawFiles, Content
<1> QED  BY <1>3, <1>4

\* Reading files of the extraction that is there.
AllWhole(files) ==
  \A f \in files : disk[f].of = disk["manifest"].of /\ disk[f].whole = TRUE

LEMMA SeenWhole ==
  ASSUME NEW p, NEW files, AllWhole(files),
         \/ files # {} /\ proc[p].got[Stage(p)] = NothingRead
         \/ proc[p].got[Stage(p)] = ReadWhole
  PROVE  Seen(p, files) = ReadWhole
<1> DEFINE g == proc[p].got[Stage(p)]
           M == disk["manifest"].of
           U == UNION {disk[f].of : f \in files}
<1>1. U \subseteq M /\ (files # {} => U = M)  BY DEF AllWhole
<1>2. g = NothingRead => g.of = {} /\ g.whole = TRUE  BY DEF NothingRead
<1>3. g = ReadWhole => g.of = M /\ g.whole = TRUE  BY DEF ReadWhole
<1>4. (\A f \in files : disk[f].whole) = TRUE  BY DEF AllWhole
<1> HIDE DEF g, U
<1>5. g.of \cup U = M  BY <1>1, <1>2, <1>3 DEF g
<1>6. (g.whole /\ \A f \in files : disk[f].whole) = TRUE  BY <1>2, <1>3, <1>4 DEF g
<1>7. Seen(p, files) = [of |-> g.of \cup U, whole |-> g.whole /\ \A f \in files : disk[f].whole]
  BY DEF Seen, g, U
<1> QED  BY <1>5, <1>6, <1>7 DEF ReadWhole

\* The last look takes up the labels that are there, of whatever extraction
\* they are when there is no gallery.
LEMMA SeenLabels ==
  ASSUME RunInv, NEW p, NEW files, "labels" \in files,
         \A f \in files \ {"labels"} :
           disk[f].of = disk["manifest"].of /\ disk[f].whole = TRUE,
         Exists("labels") => disk["labels"].whole = TRUE,
         "labels" \in FreshFiles, Stage(p) = "visualize",
         proc[p].got[Stage(p)] = ReadWhole
  PROVE  Seen(p, {f \in files : Exists(f)}) = ReadAll
<1> DEFINE g == proc[p].got[Stage(p)]
           M == disk["manifest"].of
           W == {f \in files : Exists(f)}
           U == UNION {disk[f].of : f \in W}
<1>1. g.of = M /\ g.whole = TRUE  BY DEF ReadWhole
<1>2. Exists("labels") \/ disk["labels"].of = {}  BY DEF Exists, NoFile, Content
<1>3. M \cup U = M \cup disk["labels"].of  BY <1>2
<1>4. (\A f \in W : disk[f].whole) = TRUE  OBVIOUS
<1>5. M \cup disk["labels"].of = M \cup Kept
  <2>1. CASE gallery
    <3>1. disk["labels"] = Content(M, TRUE, FALSE)
      BY <2>1 DEF FreshFiles, Due
    <3>2. disk["labels"].of = M  BY <3>1 DEF Content
    <3> QED  BY <2>1, <3>2 DEF Kept
  <2>2. CASE ~gallery  BY <2>2 DEF Kept
  <2> QED  BY <2>1, <2>2
<1>6. Seen(p, W) = [of |-> g.of \cup U, whole |-> g.whole /\ \A f \in W : disk[f].whole]
  BY DEF Seen
<1> HIDE DEF g, U, W
<1>7. g.of \cup U = M \cup Kept  BY <1>1, <1>3, <1>5
<1>8. (g.whole /\ \A f \in W : disk[f].whole) = TRUE  BY <1>1, <1>4
<1>9. Seen(p, W) = ReadAll  BY <1>6, <1>7, <1>8 DEF ReadAll
<1> QED  BY <1>9 DEF W

\* A full run past its extraction counts on files that are fresh.
LEMMA Counts ==
  ASSUME RunInv, NEW p \in Procs, Busy(p), Renewing(p),
         Head(proc[p].todo).kind \notin Section \cup {"lock"}
  PROVE  /\ Valid /\ Wants(Head(proc[p].todo)) \subseteq FreshFiles
         /\ Feeds(FreshFiles, proc[p].todo, Derived)
         /\ Head(proc[p].todo).kind # "match" =>
              \A f : Makes(Head(proc[p].todo), f) => f \in Uses(p)
<1>1. /\ Valid /\ Feeds(FreshFiles, proc[p].todo, Derived) /\ proc[p].todo # <<>>
  BY DEF Renewing, Busy
<1> DEFINE F2 == FreshFiles \cup Uses(p) \cup {"labels"}
<1>2. \A f : Makes(Head(proc[p].todo), f) => f \in F2  BY DEF Makes, Uses
<1> HIDE DEF F2
<1>3. FreshFiles \subseteq F2  BY DEF F2
<1>4. Wants(Head(proc[p].todo)) \subseteq FreshFiles  BY <1>1, <1>2, <1>3, FeedsTail
<1> QED  BY <1>1, <1>4 DEF Makes, Uses

\* Steps past the extraction that change no file.
LEMMA KeepsFresh ==
  ASSUME RunInv, RunInv', NEW p \in Procs, Busy(p), Renewing(p), NEW a,
         a = Head(proc[p].todo), a.kind \notin Section \cup {"lock", "open", "close"},
         Moved(p, Tail(proc[p].todo)), UNCHANGED <<disk, checksums, gallery>>,
         a.kind = "match" => ~gallery,
         a.kind \in {"validate", "unless"} =>
           proc'[p].got[a.stage] \in {NothingRead, ReadWhole},
         a.kind \in {"read", "relabel"} => proc'[p].got[a.stage] = ReadWhole,
         a.kind = "look" => proc'[p].got[a.stage] = Reading(a.stage, ReadAll, ReadWhole)
  PROVE  FullRunInv(p)'
<1>1. /\ Valid' = Valid /\ FreshFiles' = FreshFiles /\ ReadWhole' = ReadWhole
      /\ ReadAll' = ReadAll
  BY Untouched
<1>2. Valid /\ Feeds(FreshFiles, proc[p].todo, Derived)  BY Counts
<1>3. \A f : Makes(a, f) => f \in FreshFiles
  BY DEF Makes, FreshFiles, Derived
<1>4. proc[p].todo # <<>> /\ Chain(proc[p].todo)  BY DEF Busy, RunInv, Placed
<1>5. Feeds(FreshFiles, Tail(proc[p].todo), Derived)  BY <1>2, <1>3, <1>4, FeedsTail
<1>6. a.kind \notin Midway  BY DEF Midway, Section
<1>7. /\ Valid' /\ Feeds(FreshFiles', Tail(proc[p].todo), Derived)
      /\ a.kind \in {"validate", "unless"} =>
           proc'[p].got[a.stage] \in {NothingRead, ReadWhole'}
      /\ a.kind \in {"read", "relabel"} => proc'[p].got[a.stage] = ReadWhole'
      /\ a.kind \in {"look", "close", "open"} =>
           proc'[p].got[a.stage] = Reading(a.stage, ReadAll', ReadWhole')
  BY <1>1, <1>2, <1>5
<1> QED  BY <1>4, <1>6, <1>7, FreshStep

LEMMA TakesKeeps ==
  ASSUME RunInv, RunInv', NEW p \in Procs, Busy(p), Renewing(p), NEW seen, Takes(p, seen),
         \/ Head(proc[p].todo).kind = "validate" /\ seen = NothingRead
         \/ Head(proc[p].todo).kind = "read" /\ seen = ReadWhole
         \/ Head(proc[p].todo).kind = "look" /\ seen = Reading(Stage(p), ReadAll, ReadWhole)
  PROVE  FullRunInv(p)'
<1> DEFINE a == Head(proc[p].todo)
<1>1. Moved(p, Tail(proc[p].todo)) /\ UNCHANGED <<disk, checksums, gallery>>  BY DEF Takes
<1>2. proc'[p].got[a.stage] = seen /\ a.stage = Stage(p)
  <2>1. a.stage = Stage(p) /\ Stage(p) \in Stages /\ proc[p] \in ProcRecs
    BY AtStep DEF Stage, Ops
  <2>2. proc[p].got \in [Stages -> [of : SUBSET Nat, whole : BOOLEAN]]
    BY <2>1 DEF ProcRecs
  <2>3. proc'[p].got = [proc[p].got EXCEPT ![Stage(p)] = seen]  BY DEF Takes
  <2> QED  BY <2>1, <2>2, <2>3
<1>3. /\ a.kind \notin Section \cup {"lock", "open", "close", "match"}
      /\ a.kind \in {"validate", "unless"} =>
           proc'[p].got[a.stage] \in {NothingRead, ReadWhole}
      /\ a.kind \in {"read", "relabel"} => proc'[p].got[a.stage] = ReadWhole
      /\ a.kind = "look" => proc'[p].got[a.stage] = Reading(a.stage, ReadAll, ReadWhole)
  BY <1>2 DEF Section
<1> QED  BY <1>1, <1>3, KeepsFresh

\* Reading and looking.
LEMMA ReadRenews ==
  ASSUME RunInv, RunInv', NEW p \in Procs, Busy(p), Renewing(p),
         Validate(p) \/ Read(p) \/ Look(p), ~Ends(p, "failed")
  PROVE  FullRunInv(p)'
<1> DEFINE a == Head(proc[p].todo)
<1>1. a.kind \in {"validate", "read", "look"}  BY DEF Validate, Read, Look, At
<1>2. Valid /\ Wants(a) \subseteq FreshFiles /\ Uses(p) = a.files /\ Stage(p) = a.stage
  BY <1>1, Counts DEF Section, Uses, Stage
<1>3. a \in Fine /\ a \in Ops
  <2>1. Linked(Smooth, Fine, proc[p].todo) /\ proc[p].todo # <<>>  BY DEF Renewing, Busy
  <2> QED  BY <2>1, SmoothRest DEF Fine
<1>4. /\ a.kind = "read" => proc[p].got[Stage(p)] \in {NothingRead, ReadWhole}
      /\ a.kind = "look" => proc[p].got[Stage(p)] = ReadWhole
  BY <1>2 DEF Renewing
<1> HIDE DEF a
<1>5. ASSUME NEW f \in a.files \ {"labels"}, a.kind \in {"read", "look"}
      PROVE  disk[f].of = disk["manifest"].of /\ disk[f].whole = TRUE
  <2>1. f \in RawFiles \/ f \in FreshFiles  BY <1>2, <1>3, <1>5 DEF Wants, Ops, Files
  <2>3. f # "overlay" /\ f # "labels"  BY <1>3, <1>5 DEF Fine
  <2>4. f \in FreshFiles => disk[f] = Content(disk["manifest"].of, TRUE, FALSE)
    BY <2>3 DEF FreshFiles, Due
  <2>2. disk[f] = Content(disk["manifest"].of, TRUE, FALSE)
    BY <1>2, <2>1, <2>4, ValidFiles
  <2> QED  BY <2>2 DEF Content
<1>6. CASE Validate(p)
  <2>1. Takes(p, NothingRead) /\ a.kind = "validate"
    BY <1>6, TakesSteps DEF Validate, At, a
  <2> QED  BY <2>1, TakesKeeps DEF a
<1>7. CASE Read(p)
  <2>1. Takes(p, Seen(p, Uses(p))) /\ a.kind = "read"
    BY <1>7, TakesSteps DEF Read, At, a
  <2>2. a.files # {}  BY <1>3, <2>1 DEF Fine
  <2>3. /\ \/ Uses(p) # {} /\ proc[p].got[Stage(p)] = NothingRead
           \/ proc[p].got[Stage(p)] = ReadWhole
        /\ AllWhole(Uses(p))
    BY <1>2, <1>3, <1>4, <1>5, <2>1, <2>2 DEF AllWhole, Fine
  <2>4. Seen(p, Uses(p)) = ReadWhole  BY <2>3, SeenWhole
  <2> QED  BY <2>1, <2>4, TakesKeeps DEF a
<1>8. CASE Look(p)
  <2> DEFINE files == {f \in Uses(p) : Exists(f)}
  <2>1. /\ Takes(p, Seen(p, files)) /\ a.kind = "look"
        /\ "labels" \in Uses(p) /\ Exists("labels") => disk["labels"].whole = TRUE
    BY <1>8, TakesSteps DEF Look, At, a
  <2>3. proc[p].got[Stage(p)] = ReadWhole  BY <1>4, <2>1
  <2>5. CASE Stage(p) # "visualize"
    <3>1. "labels" \notin a.files  BY <1>2, <1>3, <2>1, <2>5 DEF Fine
    <3>2. AllWhole(files)  BY <1>2, <1>5, <2>1, <3>1 DEF AllWhole
    <3> HIDE DEF files
    <3>3. Seen(p, files) = ReadWhole  BY <2>3, <3>2, SeenWhole
    <3>4. Reading(Stage(p), ReadAll, ReadWhole) = ReadWhole  BY <2>5 DEF Reading
    <3> QED  BY <2>1, <3>3, <3>4, TakesKeeps DEF a
  <2>6. CASE Stage(p) = "visualize"
    <3>1. "labels" \in a.files  BY <1>2, <1>3, <2>1, <2>6 DEF Fine
    <3>2. "labels" \in FreshFiles  BY <1>2, <2>1, <3>1 DEF Wants, Derived
    <3>3. \A f \in Uses(p) \ {"labels"} :
            disk[f].of = disk["manifest"].of /\ disk[f].whole = TRUE
      BY <1>2, <1>5, <2>1
    <3>4. Seen(p, files) = ReadAll
      BY <1>2, <2>1, <2>3, <2>6, <3>1, <3>2, <3>3, SeenLabels
    <3>5. Seen(p, files) = Reading(Stage(p), ReadAll, ReadWhole)
      BY <2>6, <3>4 DEF Reading
    <3> HIDE DEF files
    <3> QED  BY <2>1, <3>5, TakesKeeps DEF a
  <2> QED  BY <2>5, <2>6
<1> QED  BY <1>6, <1>7, <1>8

LEMMA FlowBefore ==
  ASSUME NEW s, NEW a, NEW b, Flow(s, a, b), NEW t, Linked(Smooth, Fine, t),
         t # <<>> => <<b, t[1]>> \in Smooth
  PROVE  Linked(Smooth, Fine, s \o t) /\ s \o t # <<>> /\ Head(s \o t) = a
<1>1. s \in Seq(Fine) /\ t \in Seq(Fine) /\ s # <<>> /\ s[1] = a  BY DEF Flow, Linked
<1>2. Linked(Smooth, Fine, s \o t)  BY LinkedJoin DEF Flow
<1>3. s \o t # <<>> /\ (s \o t)[1] = a
  <2>1. CASE t = <<>>  BY <1>1, <2>1, JoinNothing
  <2>2. CASE t # <<>>  BY <1>1, <2>2, JoinEnds
  <2> QED  BY <2>1, <2>2
<1>4. Head(s \o t) = a  BY <1>2, <1>3, LinkedTail
<1> QED  BY <1>2, <1>3, <1>4

\* What a full run has left after a step, before which a program may come.
LEMMA Left ==
  ASSUME RunInv, NEW p \in Procs, Busy(p), Renewing(p)
  PROVE  LET a == Head(proc[p].todo)
             t == Tail(proc[p].todo)
         IN  /\ Linked(Smooth, Fine, t) /\ a \in Fine
             /\ t # <<>> => /\ <<a, t[1]>> \in Smooth /\ t[1] \in Fine /\ Leads(a, t[1])
                           /\ Head(t) = t[1]
<1>1. Linked(Smooth, Fine, proc[p].todo) /\ proc[p].todo # <<>> /\ Chain(proc[p].todo)
  BY DEF Renewing, Busy, RunInv, Placed
<1> QED  BY <1>1, SmoothRest, Rest

\* Extraction keeps a valid run and writes any other anew.
LEMMA ReuseRenews ==
  ASSUME RunInv, RunInv', NEW p \in Procs, Renewing(p), Reuse(p)
  PROVE  FullRunInv(p)'
<1> DEFINE a == Head(proc[p].todo)
           t == Tail(proc[p].todo)
<1>1. Busy(p) /\ a.kind = "reuse" /\ UNCHANGED <<disk, checksums, gallery>>
  BY DEF Reuse, At
<1>2. \/ Valid /\ Goes(p, t)
      \/ ~Valid /\ Goes(p, Writes \o t)
  BY ExpandSteps
<1>3. CASE Valid /\ Goes(p, t)
  <2>1. Valid' /\ Moved(p, t) /\ a.kind \in Midway
    BY <1>1, <1>3, Untouched DEF Goes, Midway
  <2> QED  BY <1>1, <2>1, MidwayStep
<1>4. CASE Goes(p, Writes \o t)
  <2> DEFINE w == Rec("put", "extract", {"manifest"})
             z == Rec("sums", "extract", {})
  <2>1. Feeds({}, proc[p].todo, Derived) /\ proc[p].todo # <<>>
    BY <1>1 DEF Renewing, Section, Busy
  <2>2. \A f : ~Makes(a, f)  BY <1>1 DEF Makes
  <2>3. Feeds({}, t, Derived)  BY <2>1, <2>2, FeedsTail
  <2>4. Feeds({}, Writes \o t, Derived)  BY <2>3, FeedsExtract, FeedsJoin
  <2>5. /\ Linked(Smooth, Fine, t) /\ a \in Fine
        /\ t # <<>> => <<a, t[1]>> \in Smooth /\ t[1] \in Fine
    BY <1>1, Left
  <2>6. Flow(Writes, w, z)  BY FlowExtracts
  <2>7. z \in Fine  BY <2>6 DEF Flow, Linked
  <2>8. w.kind = "put" /\ z.kind = "sums"  BY DEF Rec
  <2>9. proc'[p].todo = Writes \o t /\ (proc'[p].todo # <<>> => proc'[p].status = "busy")
    BY <1>4 DEF Goes, Moved
  <2> HIDE DEF w, z, a, t
  <2>10. t # <<>> => <<z, t[1]>> \in Smooth
    <3> SUFFICES ASSUME t # <<>> PROVE <<z, t[1]>> \in Smooth
      OBVIOUS
    <3>1. t[1].kind \in Section  BY <1>1, <2>5 DEF Smooth, Midway
    <3> QED  BY <2>5, <2>7, <2>8, <3>1, Follows DEF Section
  <2>11. /\ Linked(Smooth, Fine, Writes \o t) /\ Writes \o t # <<>>
         /\ Head(Writes \o t) = w
    BY <2>5, <2>6, <2>10, FlowBefore
  <2>12. Renewing(p)'
    BY <2>4, <2>8, <2>9, <2>11 DEF Renewing, Section, Matching
  <2> QED  BY <2>9, <2>11, <2>12, Settles
<1> QED  BY <1>2, <1>3, <1>4

\* The rest of an extraction.
LEMMA ExtractRenews ==
  ASSUME RunInv, RunInv', NEW p \in Procs, Renewing(p), ~Ends(p, "failed"),
         TakeLock(p) \/ PutRaw(p) \/ SealManifest(p) \/ WriteChecksums(p)
  PROVE  FullRunInv(p)'
<1> DEFINE a == Head(proc[p].todo)
           t == Tail(proc[p].todo)
<1>1. Busy(p) /\ a.kind \in {"lock", "put", "seal", "sums"}
      /\ (a.kind = "sums" => WriteChecksums(p))
  BY DEF TakeLock, PutRaw, SealManifest, WriteChecksums, At
<1>2. Moved(p, t)  BY GoesSteps DEF Goes
<1>3. t # <<>> /\ Head(t).kind = "unlock" => a.kind = "sums"
  <2>1. t # <<>> => Leads(a, t[1]) /\ Head(t) = t[1]  BY <1>1, Left
  <2> HIDE DEF a, t
  <2> QED  BY <1>1, <2>1 DEF Leads
<1>4. a.kind = "sums" => Valid'
  <2> SUFFICES ASSUME a.kind = "sums" PROVE Valid'
    OBVIOUS
  <2>1. checksums' = [f \in RawFiles |-> disk[f]] /\ disk' = disk
    BY <1>1 DEF WriteChecksums
  <2>2. \A f \in RawFiles : Made(p, f)
    <3>1. Filled(p)  BY <1>1, HoldsLock DEF Section
    <3> QED  BY <3>1 DEF Filled
  <2>3. \A f \in RawFiles : disk[f].whole = TRUE  BY <2>2 DEF Made, Content
  <2>4. NoFile.whole = FALSE  BY DEF NoFile, Content
  <2>5. \A f \in RawFiles : disk'[f] # NoFile  BY <2>1, <2>3, <2>4
  <2>6. checksums' # NoSums
    <3>1. "frames" \in RawFiles  BY DEF RawFiles
    <3>2. checksums'["frames"] # NoFile  BY <2>1, <2>5, <3>1
    <3>3. NoSums["frames"] = NoFile  BY <3>1 DEF NoSums
    <3> QED  BY <3>2, <3>3
  <2> QED  BY <2>1, <2>5, <2>6 DEF Valid, Complete, Exists
<1>5. a.kind \in Midway  BY <1>1 DEF Midway
<1> QED  BY <1>1, <1>2, <1>3, <1>4, <1>5, MidwayStep

LEMMA UnlockRenews ==
  ASSUME RunInv, RunInv', NEW p \in Procs, Renewing(p), Unlock(p)
  PROVE  FullRunInv(p)'
<1> DEFINE a == Head(proc[p].todo)
           t == Tail(proc[p].todo)
<1>1. /\ Busy(p) /\ a.kind = "unlock" /\ UNCHANGED <<disk, checksums, gallery>>
      /\ proc[p].todo # <<>> /\ Chain(proc[p].todo)
  BY DEF Unlock, At, Busy, RunInv, Placed
<1>2. Moved(p, t)  BY GoesSteps DEF Goes
<1>3. Valid /\ Feeds({}, proc[p].todo, Derived)  BY <1>1 DEF Renewing, Section
<1>4. Valid'  BY <1>1, <1>3, Untouched
<1>5. \A f : ~Makes(a, f)  BY <1>1 DEF Makes
<1>6. Feeds({}, t, Derived)  BY <1>1, <1>3, <1>5, FeedsTail
<1>7. Feeds(FreshFiles', t, Derived)  BY <1>6, FeedsMore
<1>8. a.kind \notin Midway  BY <1>1 DEF Midway
<1> QED  BY <1>1, <1>2, <1>4, <1>7, <1>8, FreshStep

\* Steps that count on a file of an earlier stage find it.
LEMMA ExpandRenews ==
  ASSUME RunInv, RunInv', NEW p \in Procs, Renewing(p),
         Unless(p) \/ MatchGallery(p) \/ Relabel(p)
  PROVE  FullRunInv(p)'
<1> DEFINE a == Head(proc[p].todo)
           t == Tail(proc[p].todo)
<1>1. /\ Busy(p) /\ a.kind \in {"unless", "match", "relabel"}
      /\ UNCHANGED <<disk, checksums, gallery>> /\ proc[p].todo # <<>>
  BY DEF Unless, MatchGallery, Relabel, At, Busy
<1>2. /\ Valid /\ Wants(a) \subseteq FreshFiles /\ Feeds(FreshFiles, proc[p].todo, Derived)
  BY <1>1, Counts DEF Section
<1>3. \A f \in FreshFiles \ {"labels"} : Exists(f)
  <2>1. NoFile.whole = FALSE  BY DEF NoFile, Content
  <2> QED  BY <2>1 DEF FreshFiles, Exists, Content
<1>4. /\ Linked(Smooth, Fine, t) /\ a \in Fine
      /\ t # <<>> => <<a, t[1]>> \in Smooth /\ t[1] \in Fine
  BY <1>1, Left
<1>5. /\ a.kind \in {"unless", "match"} => proc[p].got[a.stage] \in {NothingRead, ReadWhole}
      /\ a.kind = "relabel" => proc[p].got[a.stage] = ReadWhole
  BY <1>1 DEF Renewing
<1>6. ASSUME NEW F, FreshFiles \subseteq F, a.kind = "match" => "labels" \in F
      PROVE  Feeds(F, t, Derived)
  <2>1. \A f : Makes(a, f) => f \in F  BY <1>1, <1>6 DEF Makes
  <2> QED  BY <1>1, <1>2, <1>6, <2>1, FeedsTail
<1>7. Valid' /\ FreshFiles' = FreshFiles /\ ReadWhole' = ReadWhole  BY <1>1, <1>2, Untouched
<1>8. ASSUME Goes(p, t), a.kind = "match" => ~gallery  PROVE FullRunInv(p)'
  <2>1. Moved(p, t) /\ proc'[p].got = proc[p].got  BY <1>8 DEF Goes
  <2>2. /\ a.kind \notin Section \cup {"lock", "open", "close", "look"}
        /\ a.kind \in {"validate", "unless"} =>
             proc'[p].got[a.stage] \in {NothingRead, ReadWhole}
        /\ a.kind \in {"read", "relabel"} => proc'[p].got[a.stage] = ReadWhole
    BY <1>1, <1>5, <2>1 DEF Section
  <2> QED  BY <1>1, <1>8, <2>1, <2>2, KeepsFresh
<1>9. ASSUME NEW s, NEW b, NEW z, Flow(s, b, z), Goes(p, s \o t),
             NEW F, Feeds(FreshFiles, s, F), Feeds(F, t, Derived), gallery,
             t # <<>> => <<z, t[1]>> \in Smooth,
             b.kind \in {"read", "unless"}, b.stage = a.stage
      PROVE  FullRunInv(p)'
  <2>1. proc'[p].todo = s \o t /\ (proc'[p].todo # <<>> => proc'[p].status = "busy")
        /\ proc'[p].got = proc[p].got
    BY <1>9 DEF Goes, Moved
  <2>2. /\ Linked(Smooth, Fine, s \o t) /\ s \o t # <<>> /\ Head(s \o t) = b
    <3>1. Linked(Smooth, Fine, t) /\ (t # <<>> => <<z, t[1]>> \in Smooth)
      BY <1>4, <1>9
    <3> HIDE DEF a, t
    <3> QED  BY <1>9, <3>1, FlowBefore
  <2>3. Feeds(FreshFiles, s \o t, Derived)  BY <1>9, FeedsJoin
  <2>4. proc'[p].got[b.stage] \in {NothingRead, ReadWhole'}
    BY <1>1, <1>5, <1>7, <1>9, <2>1
  <2>6. gallery'  BY <1>1, <1>9
  <2> HIDE DEF a, t
  <2>5. Renewing(p)'
    BY <1>7, <1>9, <2>1, <2>2, <2>3, <2>4, <2>6 DEF Renewing, Section
  <2> QED  BY <2>1, <2>2, <2>5, Settles
<1>10. CASE Unless(p)
  <2>1. a.kind = "unless" /\ a \in Ops  BY <1>4, <1>10 DEF Unless, At, Fine
  <2>2. PICK f \in Derived : Uses(p) = {f}
    BY <2>1 DEF Ops, Uses, Derived
  <2>3. File(p) = f /\ f \in FreshFiles  BY <1>2, <2>1, <2>2, TheFile DEF Wants, Uses
  <2>5. f # "labels"  BY <2>1, <2>2 DEF Ops, Uses
  <2>4. Goes(p, t)  BY <1>3, <1>10, <2>3, <2>5, ExpandSteps
  <2> QED  BY <1>8, <2>1, <2>4
<1>11. CASE MatchGallery(p)
  <2>1. a.kind = "match" /\ a.stage = "gallery"  BY <1>4, <1>11 DEF MatchGallery, At, Fine
  <2>2. (~gallery /\ Goes(p, t)) \/ (gallery /\ Goes(p, Matches \o t))
    BY <1>11, ExpandSteps
  <2>3. CASE gallery /\ Goes(p, Matches \o t)
    <3>1. PICK b, z : /\ Flow(Matches, b, z) /\ b.kind = "unless" /\ b.stage = "gallery"
                      /\ z.kind \in {"read", "look", "close", "relabel"}
      BY FlowStages DEF Piece
    <3>2. Feeds(FreshFiles, Matches, FreshFiles \cup {"labels"})
      BY <1>2, <2>1, FeedsMatches DEF Wants
    <3>5. Feeds(FreshFiles \cup {"labels"}, t, Derived)  BY <1>6
    <3>3. z \in Fine  BY <3>1 DEF Flow, Linked
    <3> HIDE DEF a, t
    <3>4. t # <<>> => <<z, t[1]>> \in Smooth
      <4> SUFFICES ASSUME t # <<>> PROVE <<z, t[1]>> \in Smooth
        OBVIOUS
      <4>1. t[1].kind \in Kinds  BY <1>4 DEF Fine, Ops
      <4>2. t[1].kind = "validate"
        BY <1>4, <2>1, <4>1 DEF Smooth, Tidy, Section, Kinds
      <4> QED  BY <1>4, <3>1, <3>3, <4>2, Follows DEF Midway
    <3> QED  BY <1>9, <2>1, <2>3, <3>1, <3>2, <3>4, <3>5
  <2> QED  BY <1>8, <2>2, <2>3
<1>12. CASE Relabel(p)
  <2>1. a.kind = "relabel" /\ a.stage = "gallery" /\ a.files = {"tracks"}
    BY <1>4, <1>12 DEF Relabel, At, Fine
  <2>2. "tracks" \in FreshFiles  BY <1>2, <2>1 DEF Wants
  <2>3. Goes(p, Relabels \o t)  BY <1>3, <1>12, <2>2, ExpandSteps
  <2>4. PICK b, z : /\ Flow(Relabels, b, z) /\ b.kind = "read"
                    /\ b.stage = "gallery" /\ z.stage = "gallery"
                    /\ z.kind \in {"read", "look", "close", "relabel"}
    BY FlowRelabels DEF Piece
  <2>5. Feeds(FreshFiles, Relabels, FreshFiles)  BY <2>2, FeedsMatches
  <2>8. Feeds(FreshFiles, t, Derived)  BY <1>6, <2>1
  <2>9. gallery  BY <2>1 DEF Renewing, Matching
  <2>6. z \in Fine  BY <2>4 DEF Flow, Linked
  <2> HIDE DEF a, t
  <2>7. t # <<>> => <<z, t[1]>> \in Smooth
    <3> SUFFICES ASSUME t # <<>> PROVE <<z, t[1]>> \in Smooth
      OBVIOUS
    <3>1. t[1] \in Ops /\ z \in Ops  BY <1>4, <2>6 DEF Fine
    <3>2. /\ t[1].kind \notin Section \cup {"lock", "close", "read", "unless", "match", "look"}
          /\ t[1].kind \in {"relabel", "open"} => t[1].stage = "gallery"
      BY <1>4, <2>1 DEF Smooth, Tidy, Section
    <3>3. <<z, t[1]>> \in Tidy  BY <2>4, <3>1, <3>2 DEF Tidy
    <3> QED  BY <1>4, <2>4, <2>6, <3>2, <3>3 DEF Smooth, Midway
  <2> QED  BY <1>9, <2>1, <2>3, <2>4, <2>5, <2>7, <2>8, <2>9
<1> QED  BY <1>10, <1>11, <1>12

\* What others have open is nothing, when nobody else is at work.
LEMMA OpenRenews ==
  ASSUME RunInv, RunInv', NEW p \in Procs, Renewing(p), Open(p),
         \A q \in Procs : Closes(q), \A q \in Procs \ {p} : ~Busy(q)
  PROVE  FullRunInv(p)'
<1> DEFINE a == Head(proc[p].todo)
           t == Tail(proc[p].todo)
           f == File(p)
<1>1. /\ Busy(p) /\ a.kind = "open" /\ checksums' = checksums /\ gallery' = gallery
      /\ disk' = [disk EXCEPT ![f] = Torn] /\ proc[p].todo # <<>> /\ Chain(proc[p].todo)
  BY DEF Open, At, Busy, RunInv, Placed
<1>2. /\ Valid /\ Feeds(FreshFiles, proc[p].todo, Derived)
  BY <1>1, Counts DEF Section
<1>3. f \in Derived /\ f \in Files /\ f \notin RawFiles /\ a.files = {f}
  <2>1. f \in Derived /\ f \in Files /\ f \notin RawFiles  BY <1>1, InPlaceFile
  <2>2. PICK g \in Derived : Uses(p) = {g}  BY <1>1, AtStep DEF Ops, Uses
  <2>3. f = g  BY <2>2, TheFile
  <2> QED  BY <2>1, <2>2, <2>3 DEF Uses
<1>4. /\ Moved(p, t) /\ proc'[p].got = proc[p].got
      /\ proc'[p].clash = ({q \in Procs \ {p} : proc[q].file = f} # {})
  BY PlaceSteps
<1>5. ~proc'[p].clash
  <2>1. \A q \in Procs \ {p} : proc[q].file = ""  BY DEF Closes
  <2>2. f # ""  BY <1>3 DEF Derived
  <2>3. {q \in Procs \ {p} : proc[q].file = f} = {}  BY <2>1, <2>2
  <2> QED  BY <1>4, <2>3
<1>6. proc[p].got[a.stage] = Reading(a.stage, ReadAll, ReadWhole)  BY <1>1 DEF Renewing
<1>14. /\ f = "labels" => gallery
       /\ a.stage = "visualize" <=> f = "overlay"
  <2>1. a \in Fine /\ (Matching(a) => gallery)  BY <1>1, Left DEF Renewing
  <2> HIDE DEF a, f
  <2>2. /\ f = "labels" => a.stage = "gallery"
        /\ a.stage = "visualize" <=> f = "overlay"
    BY <1>1, <1>3, <2>1 DEF Fine
  <2> QED  BY <1>1, <2>1, <2>2 DEF Matching
<1>7. t # <<>> /\ Makes(t[1], f)
  <2>1. Closing(proc[p].todo)  BY DEF Closes
  <2>2. t # <<>> /\ Head(t).kind = "close"  BY <1>1, <2>1, TidyRest
  <2>3. <<a, t[1]>> \in Smooth /\ Head(t) = t[1]  BY <1>1, <2>2, Left
  <2> HIDE DEF a, t, f
  <2>4. t[1].files = {f}  BY <1>3, <2>2, <2>3 DEF Smooth, Tidy
  <2> QED  BY <2>2, <2>3, <2>4 DEF Makes
<1> HIDE DEF f
<1>8. /\ \A g \in Files \ {f} : disk'[g] = disk[g]
      /\ "manifest" \in RawFiles /\ RawFiles \subseteq Files \ {f} /\ Derived \subseteq Files
  BY <1>1, <1>3, DerivedNotRaw DEF RunInv, RunTypes, RawFiles
<1>15. Kept' = Kept  BY <1>1, <1>8, <1>14 DEF Kept, Derived
<1>9. Valid' /\ ReadAll' = ReadAll /\ ReadWhole' = ReadWhole
  <2>1. [g \in RawFiles |-> disk'[g]] = [g \in RawFiles |-> disk[g]]  BY <1>8
  <2> QED  BY <1>1, <1>2, <1>8, <1>15, <2>1 DEF Valid, Complete, Exists, ReadAll, ReadWhole
<1>10. \A g \in FreshFiles : g \in FreshFiles' \/ g = f
  <2>1. \A g : Due(g)' = Due(g)  BY <1>8, <1>15 DEF Due
  <2> QED  BY <1>1, <1>8, <2>1 DEF FreshFiles
<1>11. Feeds(FreshFiles', t, Derived)
  <2>1. \A g : ~Makes(a, g)  BY <1>1 DEF Makes
  <2>2. \A g \in FreshFiles : g \in FreshFiles' \/ (t # <<>> /\ Makes(t[1], g))
    BY <1>7, <1>10
  <2> QED  BY <1>1, <1>2, <2>1, <2>2, FeedsTail
<1>12. a.kind \notin Midway  BY <1>1 DEF Midway
<1>13. proc'[p].got[a.stage] = Reading(a.stage, ReadAll', ReadWhole')  BY <1>4, <1>6, <1>9
<1> QED  BY <1>1, <1>4, <1>5, <1>9, <1>11, <1>12, <1>13, FreshStep

LEMMA CloseRenews ==
  ASSUME RunInv, RunInv', NEW p \in Procs, Renewing(p), Close(p)
  PROVE  FullRunInv(p)'
<1> DEFINE a == Head(proc[p].todo)
           t == Tail(proc[p].todo)
           f == File(p)
           c == Content(Due(f), TRUE, FALSE)
<1>1. /\ Busy(p) /\ a.kind = "close" /\ checksums' = checksums /\ gallery' = gallery
      /\ disk' = [disk EXCEPT ![f] =
                    Content(proc[p].got[Stage(p)].of,
                            proc[p].got[Stage(p)].whole /\ ~proc[p].clash, FALSE)]
      /\ proc[p].todo # <<>> /\ Chain(proc[p].todo)
  BY DEF Close, At, Busy, RunInv, Placed
<1>2. /\ Valid /\ Feeds(FreshFiles, proc[p].todo, Derived)
      /\ \A g : Makes(a, g) => g \in Uses(p)
  BY <1>1, Counts DEF Section
<1>3. f \in Derived /\ f \in Files /\ f \notin RawFiles /\ Uses(p) = {f}
  <2>1. f \in Derived /\ f \in Files /\ f \notin RawFiles  BY <1>1, InPlaceFile
  <2>2. PICK g \in Derived : Uses(p) = {g}  BY <1>1, AtStep DEF Ops, Uses
  <2>3. f = g  BY <2>2, TheFile
  <2> QED  BY <2>1, <2>2, <2>3
<1>4. Moved(p, t) /\ proc'[p].got = proc[p].got  BY PlaceSteps
<1>5. /\ proc[p].got[a.stage] = Reading(a.stage, ReadAll, ReadWhole)
      /\ ~proc[p].clash /\ Stage(p) = a.stage
  BY <1>1 DEF Renewing, Stage
<1>12. /\ f = "labels" => gallery
       /\ a.stage = "visualize" <=> f = "overlay"
  <2>1. a \in Fine /\ (Matching(a) => gallery) /\ a.files = {f}
    BY <1>1, <1>3, Left DEF Renewing, Uses
  <2> HIDE DEF a, f
  <2>2. /\ f = "labels" => a.stage = "gallery"
        /\ a.stage = "visualize" <=> f = "overlay"
    BY <1>1, <2>1 DEF Fine
  <2> QED  BY <1>1, <2>1, <2>2 DEF Matching
<1>6. disk' = [disk EXCEPT ![f] = c]
  <2>1. /\ proc[p].got[Stage(p)].of = Due(f)
        /\ (proc[p].got[Stage(p)].whole /\ ~proc[p].clash) = TRUE
    BY <1>5, <1>12 DEF Reading, ReadAll, ReadWhole, Due
  <2> QED  BY <1>1, <2>1
<1> HIDE DEF f, c
<1>7. /\ \A g \in Files \ {f} : disk'[g] = disk[g]
      /\ disk'[f] = c
      /\ "manifest" \in RawFiles /\ RawFiles \subseteq Files \ {f} /\ Derived \subseteq Files
  BY <1>3, <1>6, DerivedNotRaw DEF RunInv, RunTypes, RawFiles
<1>13. Kept' = Kept
  <2>1. gallery' = gallery  BY <1>1
  <2>2. ~gallery => disk'["labels"] = disk["labels"]  BY <1>7, <1>12 DEF Derived
  <2> QED  BY <2>1, <2>2 DEF Kept
<1>8. /\ Valid' /\ ReadAll' = ReadAll /\ ReadWhole' = ReadWhole
      /\ disk'["manifest"] = disk["manifest"]
  <2>1. [g \in RawFiles |-> disk'[g]] = [g \in RawFiles |-> disk[g]]  BY <1>7
  <2> QED  BY <1>1, <1>2, <1>7, <1>13, <2>1 DEF Valid, Complete, Exists, ReadAll, ReadWhole
<1>9. FreshFiles \subseteq FreshFiles' /\ f \in FreshFiles'
  <2>1. \A g : Due(g)' = Due(g)  BY <1>8, <1>13 DEF Due
  <2> QED  BY <1>1, <1>3, <1>7, <2>1 DEF FreshFiles, c
<1>10. Feeds(FreshFiles', t, Derived)
  <2>1. \A g : Makes(a, g) => g \in FreshFiles'  BY <1>2, <1>3, <1>9
  <2> QED  BY <1>1, <1>2, <1>9, <2>1, FeedsTail
<1>11. a.kind \notin Midway /\ proc'[p].got[a.stage] = Reading(a.stage, ReadAll', ReadWhole')
  BY <1>1, <1>4, <1>5, <1>8 DEF Midway
<1> QED  BY <1>1, <1>4, <1>8, <1>10, <1>11, FreshStep

\* A full run goes on renewing at each of its steps.
LEMMA StepRenews ==
  ASSUME RunInv, RunInv', NEW p \in Procs, FullRunInv(p), Alone(p), Framed(p), Busy(p),
         \A q \in Procs : Closes(q), Step(p)
  PROVE  FullRunInv(p)'
<1> SUFFICES ASSUME proc'[p].cmd = "run", proc'[p].alone  PROVE FullRunInv(p)'
  BY DEF FullRunInv
<1>1. Renewing(p) /\ \A q \in Procs \ {p} : ~Busy(q)  BY DEF Framed, FullRunInv, Alone
<1>2. CASE Ends(p, "failed")
  <2>1. proc'[p].todo = <<>> /\ proc'[p].status = "failed"  BY <1>2, EndsFrame
  <2> QED  BY <2>1, Settles
<1>3. CASE ~Ends(p, "failed")
  BY <1>1, <1>3, ExtractRenews, ReuseRenews, UnlockRenews, ReadRenews, ExpandRenews,
     OpenRenews, CloseRenews DEF Step
<1> QED  BY <1>2, <1>3

-----------------------------------------------------------------------------
(* A full run nothing came between *)

LEMMA RenewBegins == RunInit => RenewInv
<1> SUFFICES ASSUME RunInit PROVE RenewInv
  OBVIOUS
<1>1. RunInv  BY RunBegins
<1>2. ASSUME NEW p \in Procs  PROVE Closes(p) /\ Alone(p) /\ FullRunInv(p)
  <2>1. /\ proc[p].todo = <<>> /\ proc[p].file = "" /\ proc[p].alone = FALSE
    BY DEF RunInit, Idle
  <2>2. Closing(<<>>)  BY DEF Closing, Linked
  <2> QED  BY <2>1, <2>2 DEF Closes, Closing, Alone, FullRunInv
<1> QED  BY <1>1, <1>2 DEF RenewInv

LEMMA StartRenews ==
  ASSUME RenewInv, RunInv', NEW p \in Procs, NEW cmd \in Commands, Start(p, cmd)
  PROVE  RenewInv'
<1> DEFINE r == [Idle EXCEPT !.cmd = cmd, !.todo = Steps(cmd), !.status = "busy",
                             !.alone = \A o \in Procs \ {p} : ~Busy(o)]
<1>1. RunInv /\ \A q \in Procs : Closes(q) /\ Alone(q) /\ FullRunInv(q)  BY DEF RenewInv
<1>2. /\ r.cmd = cmd /\ r.todo = Steps(cmd) /\ r.status = "busy" /\ r.file = ""
      /\ r.alone = \A o \in Procs \ {p} : ~Busy(o)
  BY DEF Idle
<1>3. proc' = [q \in Procs |-> IF q = p THEN r ELSE [proc[q] EXCEPT !.alone = FALSE]]
  BY DEF Start
<1> HIDE DEF r
<1>4. proc'[p] = r  BY <1>3
<1>5. ASSUME NEW q \in Procs \ {p}
      PROVE  /\ proc'[q].todo = proc[q].todo /\ proc'[q].file = proc[q].file
             /\ proc'[q].alone = FALSE
  <2>1. proc[q] \in ProcRecs /\ proc'[q] = [proc[q] EXCEPT !.alone = FALSE]
    BY <1>1, <1>3 DEF RunInv, RunTypes
  <2> QED  BY <2>1 DEF ProcRecs
<1>6. ASSUME NEW q \in Procs \ {p}  PROVE Closes(q)' /\ Alone(q)' /\ FullRunInv(q)'
  <2>1. Closes(q)  BY <1>1
  <2>2. Closes(q)'  BY <1>5, <2>1 DEF Closes, Closing, Busy
  <2> QED  BY <1>5, <2>2 DEF Alone, FullRunInv
<1>7. Closes(p)' /\ Alone(p)'
  <2>1. TidyProgram(Steps(cmd))  BY TidyPrograms
  <2>2. Closes(p)'  BY <1>2, <1>4, <2>1 DEF Closes, Closing, TidyProgram
  <2>3. Alone(p)'  BY <1>2, <1>4, <1>5 DEF Alone, Busy
  <2> QED  BY <2>2, <2>3
<1>8. FullRunInv(p)'
  <2>1. CASE cmd = "run"
    <3>1. Steps(cmd) = FullRun(Program("replay"))  BY <2>1 DEF Steps
    <3>2. PICK a, b : Flow(FullRun(Program("replay")), a, b) /\ a.kind = "lock"
      BY FlowFullRun
    <3>3. /\ Linked(Smooth, Fine, Steps(cmd)) /\ Steps(cmd) # <<>> /\ Steps(cmd)[1] = a
      BY <3>1, <3>2 DEF Flow
    <3>4. Head(Steps(cmd)) = a  BY <3>3, SmoothRest, LinkedTail
    <3>5. Feeds({}, Steps(cmd), Derived)  BY <3>1, FeedsFullRun
    <3>6. Renewing(p)'
      BY <1>2, <1>4, <3>2, <3>3, <3>4, <3>5 DEF Renewing, Section, Matching
    <3> QED  BY <1>2, <1>4, <3>3, <3>6, Settles
  <2>2. CASE cmd # "run"  BY <1>2, <1>4, <2>2 DEF FullRunInv
  <2> QED  BY <2>1, <2>2
<1>9. \A q \in Procs : Closes(q)' /\ Alone(q)' /\ FullRunInv(q)'  BY <1>6, <1>7, <1>8
<1> QED  BY <1>9 DEF RenewInv

\* What a step or a crash leaves of the others: who was alone has nobody at
\* work beside it, and so this step is its own.
LEMMA FrameKeeps ==
  ASSUME RenewInv, NEW p \in Procs, Busy(p), Framed(p), NEW q \in Procs \ {p}
  PROVE  Closes(q)' /\ Alone(q)' /\ FullRunInv(q)'
<1>1. RunInv /\ Closes(q) /\ Alone(q)  BY DEF RenewInv
<1>2. ASSUME NEW o \in Procs \ {p}
      PROVE  /\ proc'[o].todo = proc[o].todo /\ proc'[o].file = proc[o].file
             /\ proc'[o].alone = proc[o].alone
  <2>1. proc[o] \in ProcRecs  BY <1>1 DEF RunInv, RunTypes
  <2>2. proc'[o] = proc[o] \/ proc'[o] = [proc[o] EXCEPT !.clash = TRUE]  BY DEF Framed
  <2> QED  BY <2>1, <2>2 DEF ProcRecs
<1>3. ~proc[q].alone  BY <1>1 DEF Alone
<1>4. Closes(q)'  BY <1>1, <1>2 DEF Closes, Closing, Busy
<1> QED  BY <1>2, <1>3, <1>4 DEF Alone, FullRunInv

LEMMA FrameAlone ==
  ASSUME RenewInv, NEW p \in Procs, Framed(p)
  PROVE  Alone(p)'
<1>1. RunInv /\ Alone(p)  BY DEF RenewInv
<1>2. ASSUME NEW o \in Procs \ {p}  PROVE proc'[o].todo = proc[o].todo
  <2>1. proc[o] \in ProcRecs  BY <1>1 DEF RunInv, RunTypes
  <2>2. proc'[o] = proc[o] \/ proc'[o] = [proc[o] EXCEPT !.clash = TRUE]  BY DEF Framed
  <2> QED  BY <2>1, <2>2 DEF ProcRecs
<1> QED  BY <1>1, <1>2 DEF Alone, Framed, Busy

LEMMA RenewKept == RenewInv /\ [RunNext]_runVars => RenewInv'
<1> SUFFICES ASSUME RenewInv, [RunNext]_runVars PROVE RenewInv'
  OBVIOUS
<1>1. RunInv /\ RunInv' /\ \A p \in Procs : Closes(p) /\ Alone(p) /\ FullRunInv(p)
  BY RunKept DEF RenewInv
<1>2. CASE UNCHANGED runVars
  <2>1. /\ \A p \in Procs : Closes(p)' /\ Alone(p)'
    BY <1>1, <1>2 DEF runVars, Closes, Closing, Busy, Alone
  <2>2. \A p \in Procs : FullRunInv(p)'
    BY <1>1, <1>2 DEF runVars, FullRunInv, Busy, Renewing, Valid, Complete, Exists,
       FreshFiles, ReadWhole, ReadAll, Due, Kept
  <2> QED  BY <1>1, <2>1, <2>2 DEF RenewInv
<1>3. ASSUME NEW p \in Procs, NEW cmd \in Commands, Start(p, cmd)  PROVE RenewInv'
  BY <1>1, <1>3, StartRenews
<1>4. ASSUME NEW p \in Procs, Crash(p)  PROVE RenewInv'
  <2>1. Busy(p) /\ Ends(p, "crashed")  BY <1>4 DEF Crash
  <2>2. /\ Framed(p) /\ proc'[p].todo = <<>> /\ proc'[p].status = "crashed"
        /\ proc'[p].file = ""
    BY <1>1, <2>1, EndsFrame
  <2>3. Closing(<<>>)  BY DEF Closing, Linked
  <2>4. Closes(p)'  BY <2>2, <2>3 DEF Closes, Closing
  <2>5. FullRunInv(p)'  BY <2>2, Settles
  <2>6. Alone(p)'  BY <2>2, FrameAlone
  <2>7. \A q \in Procs \ {p} : Closes(q)' /\ Alone(q)' /\ FullRunInv(q)'
    BY <2>1, <2>2, FrameKeeps
  <2> QED  BY <1>1, <2>4, <2>5, <2>6, <2>7 DEF RenewInv
<1>5. ASSUME NEW p \in Procs, Step(p)  PROVE RenewInv'
  <2>1. Closes(p)' /\ Framed(p) /\ Busy(p)  BY <1>1, <1>5, StepCloses
  <2>2. FullRunInv(p)'  BY <1>1, <1>5, <2>1, StepRenews
  <2>3. Alone(p)'  BY <2>1, FrameAlone
  <2>4. \A q \in Procs \ {p} : Closes(q)' /\ Alone(q)' /\ FullRunInv(q)'
    BY <2>1, FrameKeeps
  <2> QED  BY <1>1, <2>1, <2>2, <2>3, <2>4 DEF RenewInv
<1> QED  BY <1>2, <1>3, <1>4, <1>5 DEF RunNext

\* A full run that nothing came between stays on its way: its extraction is
\* valid once it is past it, what a stage has read is whole and of that
\* extraction (or, where the pictures are drawn, of the labels that no gallery
\* has replaced), and every file it counts on or has to leave is as it is to be
\* or still ahead of it.
THEOREM FullRunStaysOnItsWay == RunSpec => []RenewInv
<1> QED  BY RenewBegins, RenewKept, PTL DEF RunSpec

\* Whatever earlier commands left in the directory, torn or of an extraction
\* long replaced: a full run that nothing came between leaves every file whole
\* and of the extraction that is there; all but the labels, if the gallery has
\* nobody in it, and the overlay, in which stage_visualize takes those up.
THEOREM FullRunRenewsAll == RunSpec => []RunRenewsAll
<1>1. RenewInv => RunRenewsAll
  <2> SUFFICES ASSUME RenewInv, NEW p \in Procs,
                      proc[p].cmd = "run", proc[p].status = "ok", proc[p].alone
               PROVE  LET now == disk["manifest"].of
                      IN  /\ Valid
                          /\ \A f \in Derived \ {"labels", "overlay"} :
                               disk[f] = Content(now, TRUE, FALSE)
                          /\ gallery => disk["labels"] = Content(now, TRUE, FALSE)
                          /\ disk["overlay"] =
                               Content(now \cup disk["labels"].of, TRUE, FALSE)
    BY DEF RunRenewsAll
  <2> DEFINE now == disk["manifest"].of
  <2>1. FullRunInv(p)  BY DEF RenewInv
  <2>2. ~Busy(p)  BY <2>1 DEF FullRunInv, Renewing
  <2>3. Valid /\ Derived \subseteq FreshFiles  BY <2>1, <2>2 DEF FullRunInv
  <2>4. \A f \in Derived \ {"labels", "overlay"} : disk[f] = Content(now, TRUE, FALSE)
    BY <2>3 DEF FreshFiles, Due
  <2>5. gallery => disk["labels"] = Content(now, TRUE, FALSE)
    BY <2>3 DEF FreshFiles, Due, Derived
  <2>6. disk["overlay"] = Content(now \cup Kept, TRUE, FALSE)
    BY <2>3 DEF FreshFiles, Due, Derived
  <2>7. now \cup Kept = now \cup disk["labels"].of
    <3>1. gallery => disk["labels"].of = now  BY <2>5 DEF Content
    <3> QED  BY <3>1 DEF Kept
  <2> QED  BY <2>3, <2>4, <2>5, <2>6, <2>7
<1> QED  BY <1>1, FullRunStaysOnItsWay, PTL

-----------------------------------------------------------------------------
(* LabTracks: the tracker.  Started numbers the observations of a set by    *)
(* their rank, which meets each of them once.                               *)

Rank(S) == [o \in S |-> Cardinality({n \in S : n <= o})]

LEMMA RankIsOneToOne ==
  ASSUME NEW S \in SUBSET Nat, IsFiniteSet(S)
  PROVE  Rank(S) \in Bijection(S, 1..Cardinality(S))
<1> DEFINE k == Cardinality(S)
           Below(o) == {n \in S : n <= o}
<1>1. k \in Nat
  BY FS_CardinalityType
<1>2. \A o \in S : IsFiniteSet(Below(o)) /\ Cardinality(Below(o)) \in 1..k
  <2> TAKE o \in S
  <2>1. Below(o) \in SUBSET S /\ o \in Below(o)
    OBVIOUS
  <2>2. IsFiniteSet(Below(o)) /\ Cardinality(Below(o)) <= k
    BY <2>1, FS_Subset
  <2>3. Cardinality(Below(o)) \in Nat /\ Cardinality(Below(o)) # 0
    BY <2>1, <2>2, FS_CardinalityType, FS_EmptySet
  <2> HIDE DEF Below, k
  <2> QED BY <2>2, <2>3, <1>1
<1>3. \A o, p \in S : o < p => Cardinality(Below(o)) # Cardinality(Below(p))
  <2> SUFFICES ASSUME NEW o \in S, NEW p \in S, o < p
               PROVE  Cardinality(Below(o)) # Cardinality(Below(p))
    OBVIOUS
  <2>1. Below(o) \in SUBSET Below(p)
    <3>1. \A n \in S : n \in Nat
      OBVIOUS
    <3>2. \A n \in S : n <= o => n <= p
      BY <3>1
    <3> QED BY <3>2
  <2>2. p \in Below(p) /\ p \notin Below(o)
    OBVIOUS
  <2>3. Below(o) # Below(p)
    BY <2>2
  <2> HIDE DEF Below
  <2> QED BY <2>1, <2>3, <1>2, FS_Subset
<1>4. Rank(S) \in [S -> 1..k] /\ \A o \in S : Rank(S)[o] = Cardinality(Below(o))
  BY <1>2 DEF Rank
<1>5. \A o, p \in S : Rank(S)[o] = Rank(S)[p] => o = p
  <2> HIDE DEF Below
  <2> SUFFICES ASSUME NEW o \in S, NEW p \in S, o # p
               PROVE  Rank(S)[o] # Rank(S)[p]
    OBVIOUS
  <2>1. o < p \/ p < o
    OBVIOUS
  <2> QED BY <2>1, <1>3, <1>4
<1>6. Rank(S) \in Injection(S, 1..k)
  BY <1>4, <1>5 DEF Injection, IsInjective
<1>7. IsFiniteSet(1..k) /\ Cardinality(1..k) = k
  BY <1>1, FS_Interval
<1>8. Rank(S) \in Surjection(S, 1..k)
  BY <1>6, <1>7, FS_Injection
<1> QED BY <1>6, <1>8 DEF Bijection

\* Tracklets of their own: one for every observation, and each of one.
LEMMA StartedOnce ==
  ASSUME NEW S \in SUBSET Nat, IsFiniteSet(S)
  PROVE  /\ Cardinality(S) \in Nat
         /\ DOMAIN Started(S) = 1..Cardinality(S) /\ Len(Started(S)) = Cardinality(S)
         /\ Started(S) \in Seq([seen : Seq(Nat), state : {"tracked", "lost", "removed"}])
         /\ \A i \in 1..Cardinality(S) : Started(S)[i].state = "tracked"
         /\ \A i \in 1..Cardinality(S) : \E o \in S : Started(S)[i].seen = <<o>>
         /\ \A i, j \in 1..Cardinality(S) :
              Started(S)[i].seen = Started(S)[j].seen => i = j
         /\ \A o \in S : \E i \in 1..Cardinality(S) : Started(S)[i].seen = <<o>>
<1> DEFINE k == Cardinality(S)
           R == Rank(S)
           Nth(i) == CHOOSE o \in S : Cardinality({n \in S : n <= o}) = i
<1>1. k \in Nat
  BY FS_CardinalityType
<1>2. /\ \A o \in S : R[o] = Cardinality({n \in S : n <= o}) /\ R[o] \in 1..k
      /\ \A o, p \in S : R[o] = R[p] => o = p
      /\ \A i \in 1..k : \E o \in S : R[o] = i
  <2>1. R \in [S -> 1..k] /\ IsInjective(R) /\ \A i \in 1..k : \E o \in S : R[o] = i
    BY RankIsOneToOne DEF Bijection, Injection, Surjection
  <2> QED BY <2>1 DEF Rank, IsInjective
<1>3. \A i \in 1..k : Nth(i) \in S /\ R[Nth(i)] = i
  <2> TAKE i \in 1..k
  <2>1. \E o \in S : Cardinality({n \in S : n <= o}) = i
    BY <1>2
  <2>2. Nth(i) \in S /\ Cardinality({n \in S : n <= Nth(i)}) = i
    BY <2>1
  <2> HIDE DEF Nth
  <2> QED BY <2>2, <1>2
<1>4. Started(S) = [i \in 1..k |-> [seen |-> <<Nth(i)>>, state |-> "tracked"]]
  BY DEF Started
<1> HIDE DEF Nth, R, k
<1>5. DOMAIN Started(S) = 1..k /\ Len(Started(S)) = k /\ \A i \in 1..k : Started(S)[i].seen = <<Nth(i)>>
  BY <1>1, <1>4
<1>6. \A i, j \in 1..k : Started(S)[i].seen = Started(S)[j].seen => i = j
  <2> SUFFICES ASSUME NEW i \in 1..k, NEW j \in 1..k, <<Nth(i)>> = <<Nth(j)>>
               PROVE  i = j
    BY <1>5
  <2>1. Nth(i) = Nth(j)
    OBVIOUS
  <2> QED BY <2>1, <1>3
<1>7. \A o \in S : \E i \in 1..k : Started(S)[i].seen = <<o>>
  <2> SUFFICES ASSUME NEW o \in S PROVE Started(S)[R[o]].seen = <<o>> /\ R[o] \in 1..k
    OBVIOUS
  <2>1. R[o] \in 1..k
    BY <1>2
  <2>2. Nth(R[o]) = o
    BY <2>1, <1>2, <1>3
  <2> QED BY <2>1, <2>2, <1>5
<1>8. Started(S) \in Seq([seen : Seq(Nat), state : {"tracked", "lost", "removed"}])
  <2>1. \A i \in 1..k : <<Nth(i)>> \in Seq(Nat)
    <3> TAKE i \in 1..k
    <3>1. Nth(i) \in Nat
      BY <1>3
    <3> QED BY <3>1
  <2> QED BY <2>1, <1>1, <1>4
<1>10. \A i \in 1..k : Started(S)[i].state = "tracked"
  BY <1>4
<1>9. \A i \in 1..k : \E o \in S : Started(S)[i].seen = <<o>>
  BY <1>3, <1>5
<1> QED BY <1>1, <1>5, <1>6, <1>7, <1>8, <1>9, <1>10 DEF k

-----------------------------------------------------------------------------
(* LabTracks: the invariant of the tracker.                                 *)

FrameRecords == [pts : Nat, cut : BOOLEAN]
FaceRecords == [frame : Nat, pts : Nat, eligible : BOOLEAN,
                score : {"new", "high", "low"}, quality : Nat, vec : Int]
Histories == [seen : Seq(Nat), state : {"tracked", "lost", "removed"}]

TracksTyped ==
  /\ phase \in {"track", "templates", "reconcile", "aggregate", "done"}
  /\ frames \in Seq(FrameRecords)
  /\ observations \in Seq(FaceRecords)
  /\ tracklets \in Seq(Histories)

\* An observation is of a frame of the video, and of its time.
ObservationsDated ==
  \A o \in DOMAIN observations :
    /\ observations[o].frame \in 0..(Len(frames) - 1)
    /\ observations[o].pts = frames[observations[o].frame + 1].pts

\* A tracklet has seen something, and nothing but observations.
HistoriesPlaced ==
  \A t \in DOMAIN tracklets :
    /\ tracklets[t].seen # <<>>
    /\ \A i \in DOMAIN tracklets[t].seen : tracklets[t].seen[i] \in DOMAIN observations

NothingShared ==
  \A t, u \in DOMAIN tracklets :
    \A i \in DOMAIN tracklets[t].seen, k \in DOMAIN tracklets[u].seen :
      tracklets[t].seen[i] = tracklets[u].seen[k] => t = u

NewOnesOwned ==
  \A o \in DOMAIN observations :
    observations[o].eligible /\ observations[o].score = "new" =>
      \E t \in DOMAIN tracklets : o \in ToSet(tracklets[t].seen)

\* Whether a tracklet that has last seen this may still go on after a frame.
Followable(last, fs, index) ==
  /\ \A f \in (last.frame + 1)..index : ~fs[f + 1].cut
  /\ index - last.frame <= MaxLostFrames
  /\ fs[index + 1].pts - last.pts <= MaxLostNs

LastSeen(t) == tracklets[t].seen[Len(tracklets[t].seen)]

OthersGivenUp ==
  \A t \in DOMAIN tracklets :
    tracklets[t].state # "removed" =>
      Followable(observations[LastSeen(t)], frames, Len(frames) - 1)

\* What lies between two observations a tracklet has seen one after the other.
Returned(a, b, fs) ==
  /\ a.frame < b.frame
  /\ \A f \in (a.frame + 1)..b.frame : ~fs[f + 1].cut
  /\ b.frame - 1 - a.frame <= MaxLostFrames
  /\ fs[b.frame].pts - a.pts <= MaxLostNs

ReturnsInTime ==
  \A t \in DOMAIN tracklets : \A i \in 1..(Len(tracklets[t].seen) - 1) :
    Returned(observations[tracklets[t].seen[i]],
             observations[tracklets[t].seen[i + 1]], frames)

AssignmentsAgree ==
  assignments = {a \in (DOMAIN observations) \X (DOMAIN tracklets) :
                   a[1] \in ToSet(tracklets[a[2]].seen)}

TracksInv ==
  /\ TracksTyped
  /\ ObservationsDated
  /\ HistoriesPlaced
  /\ NothingShared
  /\ NewOnesOwned
  /\ OthersGivenUp
  /\ ReturnsInTime
  /\ AssignmentsAgree

-----------------------------------------------------------------------------
(* LabTracks: what one frame changes, whatever the assignment matches.      *)

\* An observation of the frame that is being read.
New(o) == o \in DOMAIN observations' /\ o > Len(observations)

\* A tracklet that is left as it was: it is given up, or may still return.
Waits(t, index, pts, cut) ==
  /\ tracklets'[t].seen = tracklets[t].seen
  /\ tracklets'[t].state # "removed" =>
       /\ ~cut /\ tracklets[t].state # "removed"
       /\ ~TimedOut(observations[LastSeen(t)], index, pts)

\* One that goes on in an observation of the frame.
Resumes(t, cut) ==
  /\ ~cut /\ tracklets[t].state # "removed"
  /\ \E o \in Nat : New(o) /\ tracklets'[t].seen = Append(tracklets[t].seen, o)

\* One that begins with an observation of the frame.
Begins(t) == \E o \in Nat : New(o) /\ tracklets'[t].seen = <<o>>

ReadsFrame(index, pts, cut) ==
  /\ index = Len(frames) /\ pts \in Nat /\ cut \in BOOLEAN
  /\ frames' = Append(frames, [pts |-> pts, cut |-> cut])
  /\ observations' \in Seq(FaceRecords)
  /\ Len(observations) <= Len(observations')
  /\ \A o \in DOMAIN observations : observations'[o] = observations[o]
  /\ \A o \in Nat : New(o) => observations'[o].frame = index /\ observations'[o].pts = pts

Links(index, pts, cut) ==
  /\ tracklets' \in Seq(Histories)
  /\ Len(tracklets) <= Len(tracklets')
  /\ \A t \in DOMAIN tracklets : Waits(t, index, pts, cut) \/ Resumes(t, cut)
  /\ \A t \in DOMAIN tracklets' : t \notin DOMAIN tracklets => Begins(t)
  /\ \A t, u \in DOMAIN tracklets' :
       New(LastSeen(t)') /\ LastSeen(t)' = LastSeen(u)' => t = u
  /\ \A o \in Nat :
       New(o) /\ observations'[o].eligible /\ observations'[o].score = "new" =>
         \E t \in DOMAIN tracklets' : LastSeen(t)' = o

Notes(index) ==
  assignments' = assignments \union
    {<<LastSeen(t)', t>> : t \in {u \in DOMAIN tracklets' : New(LastSeen(u)')}}

Whole(scene, index, pts) ==
  observations \o [i \in 1..Len(scene) |-> Observation(scene[i], index, pts)]

LEMMA Indexed ==
  ASSUME NEW S, NEW s \in Seq(S)
  PROVE  Len(s) \in Nat /\ DOMAIN s = 1..Len(s) /\ \A i \in 1..Len(s) : s[i] \in S
OBVIOUS

LEMMA Concatenated ==
  ASSUME NEW S, NEW s \in Seq(S), NEW t \in Seq(S)
  PROVE  /\ s \o t \in Seq(S)
         /\ Len(s) \in Nat /\ Len(t) \in Nat
         /\ Len(s \o t) = Len(s) + Len(t)
         /\ \A i \in 1..Len(s) : (s \o t)[i] = s[i]
         /\ \A i \in 1..Len(t) : (s \o t)[Len(s) + i] = t[i]
OBVIOUS

LEMMA UpdateReads ==
  ASSUME TracksTyped, NEW scene \in Scenes, NEW step \in Clock, NEW cut \in BOOLEAN,
         NEW index, NEW pts,
         index = Len(frames),
         pts = IF frames = <<>> THEN 0 ELSE Last(frames).pts + step,
         frames' = Append(frames, [pts |-> pts, cut |-> cut]),
         observations' = Whole(scene, index, pts)
  PROVE  ReadsFrame(index, pts, cut) /\ index \in Nat
<1>1. index \in Nat
  BY DEF TracksTyped
<1>2. pts \in Nat
  <2>1. step \in Nat
    BY LabTracksAssumption
  <2>2. CASE frames = <<>>
    BY <2>2
  <2>3. CASE frames # <<>>
    <3>1. Len(frames) \in 1..Len(frames)
      BY <2>3 DEF TracksTyped
    <3>2. frames \in Seq(FrameRecords)
      BY DEF TracksTyped
    <3>3. frames[Len(frames)] \in FrameRecords
      BY <3>1, <3>2
    <3>4. frames[Len(frames)].pts \in Nat
      BY <3>3 DEF FrameRecords
    <3> QED BY <2>1, <2>3, <3>4 DEF Last
  <2> QED BY <2>2, <2>3
<1> DEFINE n == Len(scene)
           added == [i \in 1..n |-> Observation(scene[i], index, pts)]
<1>3. n \in Nat /\ \A i \in 1..n : scene[i] \in Faces
  <2>1. scene \in Seq(Faces)
    BY LabTracksAssumption
  <2> QED BY <2>1
<1>4. \A i \in 1..n : /\ added[i] \in FaceRecords
                      /\ added[i].frame = index /\ added[i].pts = pts
  <2> TAKE i \in 1..n
  <2>1. added[i] = Observation(scene[i], index, pts)
    OBVIOUS
  <2> QED BY <2>1, <1>1, <1>2, <1>3 DEF Observation, FaceRecords, NoVector, Faces
<1>5. added \in Seq(FaceRecords) /\ Len(added) = n
  <2>1. added \in [1..n -> FaceRecords]
    BY <1>4
  <2> HIDE DEF added, n
  <2> QED BY <2>1, <1>3
<1>6. observations' = observations \o added
  BY DEF Whole
<1> HIDE DEF added, n
<1>10. observations \in Seq(FaceRecords)
  BY DEF TracksTyped
<1>11. /\ observations' \in Seq(FaceRecords)
       /\ Len(observations') = Len(observations) + n
       /\ Len(observations) \in Nat
       /\ \A o \in 1..Len(observations) : observations'[o] = observations[o]
       /\ \A i \in 1..n : observations'[Len(observations) + i] = added[i]
  <2> DEFINE both == observations \o added
  <2>1. /\ both \in Seq(FaceRecords)
        /\ Len(observations) \in Nat /\ Len(added) \in Nat
        /\ Len(both) = Len(observations) + Len(added)
        /\ \A i \in 1..Len(observations) : both[i] = observations[i]
        /\ \A i \in 1..Len(added) : both[Len(observations) + i] = added[i]
    <3>1. added \in Seq(FaceRecords)
      BY <1>5
    <3> HIDE DEF FaceRecords
    <3> QED BY <3>1, <1>10, Concatenated
  <2>2. observations' = both
    BY <1>6
  <2> HIDE DEF both
  <2> QED BY <2>1, <2>2, <1>5
<1>7. /\ observations' \in Seq(FaceRecords)
      /\ Len(observations') = Len(observations) + n
      /\ \A o \in DOMAIN observations : observations'[o] = observations[o]
  BY <1>10, <1>11
<1>8. \A o \in Nat : New(o) => observations'[o].frame = index /\ observations'[o].pts = pts
  <2> SUFFICES ASSUME NEW o \in Nat, New(o)
               PROVE  observations'[o].frame = index /\ observations'[o].pts = pts
    OBVIOUS
  <2>1. o \in 1..(Len(observations) + n) /\ o > Len(observations)
    BY <1>7 DEF New
  <2>2. o - Len(observations) \in 1..n /\ observations'[o] = added[o - Len(observations)]
    <3>1. o - Len(observations) \in 1..n /\ Len(observations) + (o - Len(observations)) = o
      BY <2>1, <1>3, <1>11
    <3> QED BY <3>1, <1>11
  <2> QED BY <2>2, <1>4
<1>9. Len(observations) <= Len(observations')
  BY <1>7, <1>3 DEF TracksTyped
<1> QED BY <1>1, <1>2, <1>7, <1>8, <1>9 DEF ReadsFrame

\* Tracklets of a pair go on with its observation, the others as they were or
\* lost.
CarriedOn(c, ts, pairs, dets) ==
  /\ c \in Seq(Histories)
  /\ DOMAIN c = DOMAIN ts
  /\ Len(c) = Len(ts)
  /\ \A t \in DOMAIN ts :
       IF t \in Matched(pairs)
       THEN /\ c[t].state = "tracked"
            /\ \E o \in dets : /\ <<t, o>> \in pairs
                               /\ c[t].seen = Append(ts[t].seen, o)
       ELSE /\ c[t].seen = ts[t].seen
            /\ c[t].state \in {"lost", "removed"}
            /\ c[t].state # "removed" => ts[t].state # "removed"

\* What Continued makes of the tracklets that are kept.
LEMMA Continues ==
  ASSUME NEW ts \in Seq(Histories), NEW dets \in SUBSET Nat,
         NEW pairs \in SUBSET ((DOMAIN ts) \X dets)
  PROVE  CarriedOn(Continued(ts, pairs), ts, pairs, dets)
<1> DEFINE c == Continued(ts, pairs)
           Nth(t) == CHOOSE o \in Taken(pairs) : <<t, o>> \in pairs
<1>1. c = [t \in DOMAIN ts |->
             IF t \in Matched(pairs)
             THEN [seen |-> Append(ts[t].seen, Nth(t)), state |-> "tracked"]
             ELSE IF ts[t].state = "tracked" THEN [ts[t] EXCEPT !.state = "lost"] ELSE ts[t]]
  BY DEF Continued
<1>2. \A t \in DOMAIN ts : t \in Matched(pairs) =>
         Nth(t) \in dets /\ <<t, Nth(t)>> \in pairs
  <2> SUFFICES ASSUME NEW t \in DOMAIN ts, t \in Matched(pairs)
               PROVE  Nth(t) \in dets /\ <<t, Nth(t)>> \in pairs
    OBVIOUS
  <2>1. PICK p \in pairs : p[1] = t
    BY DEF Matched
  <2>2. p = <<t, p[2]>> /\ p[2] \in Taken(pairs)
    BY <2>1 DEF Taken
  <2>3. \E o \in Taken(pairs) : <<t, o>> \in pairs
    BY <2>2
  <2>4. Nth(t) \in Taken(pairs) /\ <<t, Nth(t)>> \in pairs
    BY <2>3
  <2> HIDE DEF Nth
  <2> QED BY <2>4 DEF Taken
<1>3. \A t \in DOMAIN ts : ts[t] \in Histories
  OBVIOUS
<1> HIDE DEF Nth, c
<1>4. \A t \in DOMAIN ts :
        IF t \in Matched(pairs)
        THEN c[t] = [seen |-> Append(ts[t].seen, Nth(t)), state |-> "tracked"]
        ELSE /\ c[t].seen = ts[t].seen
             /\ c[t].state = IF ts[t].state = "tracked" THEN "lost" ELSE ts[t].state
             /\ c[t] \in Histories
  <2> TAKE t \in DOMAIN ts
  <2>1. CASE t \in Matched(pairs)
    BY <2>1, <1>1
  <2>2. CASE t \notin Matched(pairs)
    <3>1. ts[t] \in Histories
      BY <1>3
    <3>2. c[t] = IF ts[t].state = "tracked" THEN [ts[t] EXCEPT !.state = "lost"] ELSE ts[t]
      BY <2>2, <1>1
    <3> QED BY <2>2, <3>1, <3>2 DEF Histories
  <2> QED BY <2>1, <2>2
<1>5. \A t \in DOMAIN ts : c[t] \in Histories
  <2> TAKE t \in DOMAIN ts
  <2>1. CASE t \in Matched(pairs)
    <3>1. Nth(t) \in Nat /\ ts[t].seen \in Seq(Nat)
      BY <2>1, <1>2, <1>3 DEF Histories
    <3>2. Append(ts[t].seen, Nth(t)) \in Seq(Nat)
      BY <3>1
    <3>3. c[t] = [seen |-> Append(ts[t].seen, Nth(t)), state |-> "tracked"]
      BY <2>1, <1>4
    <3> QED BY <3>2, <3>3 DEF Histories
  <2>2. CASE t \notin Matched(pairs)
    BY <2>2, <1>4
  <2> QED BY <2>1, <2>2
<1>6. DOMAIN c = DOMAIN ts
  BY <1>1
<1>7. c \in Seq(Histories) /\ Len(c) = Len(ts)
  <2>1. c \in [1..Len(ts) -> Histories]
    BY <1>1, <1>5
  <2> QED BY <2>1
<1>8. \A t \in DOMAIN ts :
        IF t \in Matched(pairs)
        THEN /\ c[t].state = "tracked"
             /\ \E o \in dets : <<t, o>> \in pairs /\ c[t].seen = Append(ts[t].seen, o)
        ELSE /\ c[t].seen = ts[t].seen
             /\ c[t].state \in {"lost", "removed"}
             /\ c[t].state # "removed" => ts[t].state # "removed"
  <2> TAKE t \in DOMAIN ts
  <2>1. CASE t \in Matched(pairs)
    <3>1. c[t] = [seen |-> Append(ts[t].seen, Nth(t)), state |-> "tracked"]
      BY <2>1, <1>4
    <3>2. Nth(t) \in dets /\ <<t, Nth(t)>> \in pairs
      BY <2>1, <1>2
    <3>3. c[t].state = "tracked" /\ c[t].seen = Append(ts[t].seen, Nth(t))
      BY <3>1
    <3> QED BY <2>1, <3>2, <3>3
  <2>2. CASE t \notin Matched(pairs)
    <3>1. ts[t].state \in {"tracked", "lost", "removed"}
      BY <1>3 DEF Histories
    <3> QED BY <2>2, <3>1, <1>4
  <2> QED BY <2>1, <2>2
<1>9. CarriedOn(c, ts, pairs, dets)
  BY <1>6, <1>7, <1>8 DEF CarriedOn
<1> QED BY <1>9 DEF c

\* The frame begins with the tracklets closed if there was a cut.
LEMMA KeptOverCut ==
  ASSUME NEW ts \in Seq(Histories), NEW cut \in BOOLEAN
  PROVE  /\ AtCut(cut, ts) \in Seq(Histories)
         /\ DOMAIN AtCut(cut, ts) = DOMAIN ts /\ Len(AtCut(cut, ts)) = Len(ts)
         /\ \A t \in DOMAIN ts :
              /\ AtCut(cut, ts)[t].seen = ts[t].seen
              /\ AtCut(cut, ts)[t].state # "removed" => ~cut /\ ts[t].state # "removed"
<1> DEFINE k == AtCut(cut, ts)
<1>1. CASE ~cut
  BY <1>1 DEF AtCut
<1>2. CASE cut
  <2>1. k = [t \in DOMAIN ts |-> [ts[t] EXCEPT !.state = "removed"]]
    BY <1>2 DEF AtCut, Closed
  <2>2. \A t \in DOMAIN ts : ts[t] \in Histories
    OBVIOUS
  <2> HIDE DEF k
  <2>3. \A t \in DOMAIN ts : k[t] \in Histories /\ k[t].seen = ts[t].seen /\ k[t].state = "removed"
    BY <2>1, <2>2 DEF Histories
  <2>4. k \in [1..Len(ts) -> Histories]
    BY <2>1, <2>3
  <2>5. k \in Seq(Histories) /\ Len(k) = Len(ts)
    BY <2>4
  <2>6. DOMAIN k = DOMAIN ts
    BY <2>1
  <2> QED BY <2>3, <2>5, <2>6 DEF k
<1> QED BY <1>1, <1>2

\* Those that are given up keep what they have seen.
LEMMA ExpiresOnly ==
  ASSUME NEW all, NEW ts \in Seq(Histories), NEW index, NEW pts
  PROVE  /\ Expired(all, ts, index, pts) \in Seq(Histories)
         /\ DOMAIN Expired(all, ts, index, pts) = DOMAIN ts
         /\ Len(Expired(all, ts, index, pts)) = Len(ts)
         /\ \A t \in DOMAIN ts :
              /\ Expired(all, ts, index, pts)[t].seen = ts[t].seen
              /\ Expired(all, ts, index, pts)[t].state # "removed" =>
                   /\ ts[t].state # "removed"
                   /\ ts[t].state = "lost" => ~TimedOut(all[Last(ts[t].seen)], index, pts)
<1> DEFINE e == Expired(all, ts, index, pts)
           Out(t) == ts[t].state = "lost" /\ TimedOut(all[Last(ts[t].seen)], index, pts)
<1>1. e = [t \in DOMAIN ts |-> IF Out(t) THEN [ts[t] EXCEPT !.state = "removed"] ELSE ts[t]]
  BY DEF Expired
<1>2. \A t \in DOMAIN ts : ts[t] \in Histories
  OBVIOUS
<1> HIDE DEF e, Out
<1>3. \A t \in DOMAIN ts :
        /\ e[t] \in Histories /\ e[t].seen = ts[t].seen
        /\ e[t].state # "removed" => ~Out(t) /\ ts[t].state # "removed"
  <2> TAKE t \in DOMAIN ts
  <2>1. e[t] = IF Out(t) THEN [ts[t] EXCEPT !.state = "removed"] ELSE ts[t]
    BY <1>1
  <2>2. ts[t] \in Histories
    BY <1>2
  <2>3. CASE Out(t)
    <3>1. e[t] = [ts[t] EXCEPT !.state = "removed"]
      BY <2>1, <2>3
    <3> QED BY <2>2, <3>1 DEF Histories
  <2>4. CASE ~Out(t)
    BY <2>1, <2>2, <2>4
  <2> QED BY <2>3, <2>4
<1>4. e \in [1..Len(ts) -> Histories]
  BY <1>1, <1>3
<1>5. e \in Seq(Histories) /\ Len(e) = Len(ts) /\ DOMAIN e = DOMAIN ts
  <2>1. e \in Seq(Histories) /\ Len(e) = Len(ts)
    BY <1>4
  <2> QED BY <2>1, <1>1
<1> QED BY <1>3, <1>5 DEF e, Out

\* The association of a frame: its detections, those of a score that is not
\* low, the tracklets kept, the two rounds, the starters and the outcome.
Associates(dets, high, kept, first, second, fresh, now, index, pts, cut) ==
  /\ dets = {o \in DOMAIN observations' : o > Len(observations) /\ observations'[o].eligible}
  /\ high = {o \in dets : observations'[o].score # "low"}
  /\ kept = AtCut(cut, tracklets)
  /\ first \in Matchings(InState(kept, {"tracked", "lost"}), high)
  /\ second \in Matchings(InState(kept, {"tracked"}) \ Matched(first), dets \ high)
  /\ fresh = {o \in high \ Taken(first) : observations'[o].score = "new"}
  /\ now = Continued(kept, first \union second) \o Started(fresh)
  /\ tracklets' = Expired(observations', now, index, pts)
  /\ assignments' = assignments \union
       {<<Last(now[t].seen), t>> : t \in
          {u \in InState(now, {"tracked"}) : observations'[Last(now[u].seen)].frame = index}}

\* What the two rounds of matching and the start of tracklets make of those
\* that are kept: every one that goes on or begins takes another observation
\* of the frame, and none that should begin is left out.
LEMMA UpdateLinks ==
  ASSUME TracksTyped, HistoriesPlaced, NEW cut \in BOOLEAN, NEW index \in Nat, NEW pts \in Nat,
         ReadsFrame(index, pts, cut),
         NEW high, NEW dets, NEW kept, NEW first, NEW second, NEW fresh, NEW now,
         Associates(dets, high, kept, first, second, fresh, now, index, pts, cut)
  PROVE  Links(index, pts, cut) /\ Notes(index)
<1> DEFINE pairs == first \union second
           n == Len(tracklets)
           c == Continued(kept, pairs)
           m == Cardinality(fresh)
<1>1. /\ tracklets \in Seq(Histories) /\ n \in Nat /\ DOMAIN tracklets = 1..n
      /\ observations' \in Seq(FaceRecords)
  <2>1. tracklets \in Seq(Histories) /\ observations' \in Seq(FaceRecords)
    BY DEF TracksTyped, ReadsFrame
  <2>2. n \in Nat /\ DOMAIN tracklets = 1..n
    BY <2>1, Indexed
  <2> QED BY <2>1, <2>2
<1>11. Len(observations') \in Nat /\ DOMAIN observations' = 1..Len(observations')
  BY <1>1, Indexed
<1>2. dets \in SUBSET Nat /\ \A o \in dets : New(o)
  <2>1. dets = {o \in DOMAIN observations' : o > Len(observations) /\ observations'[o].eligible}
    BY DEF Associates
  <2> QED BY <2>1, <1>11 DEF New
<1>3. /\ kept \in Seq(Histories) /\ DOMAIN kept = 1..n /\ Len(kept) = n
      /\ \A t \in 1..n : /\ kept[t].seen = tracklets[t].seen
                         /\ kept[t].state # "removed" => ~cut /\ tracklets[t].state # "removed"
  <2> DEFINE k == AtCut(cut, tracklets)
  <2>1. /\ k \in Seq(Histories) /\ DOMAIN k = DOMAIN tracklets /\ Len(k) = Len(tracklets)
        /\ \A t \in DOMAIN tracklets :
             /\ k[t].seen = tracklets[t].seen
             /\ k[t].state # "removed" => ~cut /\ tracklets[t].state # "removed"
    BY <1>1, KeptOverCut
  <2>2. kept = k
    BY DEF Associates
  <2> HIDE DEF k
  <2> QED BY <2>1, <2>2, <1>1
<1>4. /\ first \subseteq (1..n) \X high
      /\ \A p, q \in first : p # q => p[1] # q[1] /\ p[2] # q[2]
      /\ \A p \in first : kept[p[1]].state # "removed"
  BY <1>3 DEF Matchings, InState, Associates
<1>5. /\ second \subseteq (1..n) \X (dets \ high)
      /\ \A p, q \in second : p # q => p[1] # q[1] /\ p[2] # q[2]
      /\ \A p \in second : kept[p[1]].state # "removed" /\ p[1] \notin Matched(first)
  BY <1>3 DEF Matchings, InState, Associates
<1>6. /\ pairs \in SUBSET ((1..n) \X dets)
      /\ \A p \in pairs : kept[p[1]].state # "removed"
      /\ \A p, q \in pairs : p[2] = q[2] => p[1] = q[1]
      /\ \A p, q \in pairs : p[1] = q[1] => p[2] = q[2]
  <2>4. \A p, q \in pairs : p[1] = q[1] => p[2] = q[2]
    <3> SUFFICES ASSUME NEW p \in pairs, NEW q \in pairs, p[1] = q[1]
                 PROVE  p[2] = q[2]
      OBVIOUS
    <3>1. \A r \in first : r[1] \in Matched(first)
      BY DEF Matched
    <3> QED BY <3>1, <1>4, <1>5
  <2>1. \A p, q \in pairs : p[2] = q[2] => p[1] = q[1]
    <3> SUFFICES ASSUME NEW p \in pairs, NEW q \in pairs, p[2] = q[2]
                 PROVE  p[1] = q[1]
      OBVIOUS
    <3>1. CASE p \in first /\ q \in first
      BY <3>1, <1>4
    <3>2. CASE p \in second /\ q \in second
      BY <3>2, <1>5
    <3>3. CASE p \in first /\ q \in second
      <4>1. p[2] \in high /\ q[2] \notin high
        BY <3>3, <1>4, <1>5
      <4> QED BY <4>1
    <3>4. CASE p \in second /\ q \in first
      <4>1. p[2] \notin high /\ q[2] \in high
        BY <3>4, <1>4, <1>5
      <4> QED BY <4>1
    <3> QED BY <3>1, <3>2, <3>3, <3>4
  <2>2. pairs \in SUBSET ((1..n) \X dets)
    <3>1. high \subseteq dets
      BY DEF Associates
    <3> QED BY <3>1, <1>4, <1>5
  <2>3. \A p \in pairs : kept[p[1]].state # "removed"
    BY <1>4, <1>5
  <2> QED BY <2>1, <2>2, <2>3, <2>4
<1>7. fresh \in SUBSET Nat /\ fresh \subseteq dets /\ \A p \in pairs : p[2] \notin fresh
  <2>1. \A p \in first : p[2] \in Taken(first)
    BY DEF Taken
  <2>2. \A p \in second : p[2] \notin high
    BY <1>5
  <2>3. fresh \subseteq high \ Taken(first) /\ high \subseteq dets
    BY DEF Associates
  <2> QED BY <2>1, <2>2, <2>3, <1>2
<1>8. IsFiniteSet(fresh)
  <2>1. fresh \subseteq 1..Len(observations')
    BY <1>2, <1>7, <1>11 DEF New
  <2>2. 1 \in Int /\ Len(observations') \in Int
    BY <1>11
  <2>3. IsFiniteSet(1..Len(observations'))
    BY <2>2, FS_Interval
  <2> QED BY <2>1, <2>3, FS_Subset
<1>9. /\ c \in Seq(Histories) /\ DOMAIN c = 1..n /\ Len(c) = n
      /\ \A t \in 1..n :
           IF t \in Matched(pairs)
           THEN /\ c[t].state = "tracked"
                /\ \E o \in dets : /\ <<t, o>> \in pairs
                                   /\ c[t].seen = Append(kept[t].seen, o)
           ELSE /\ c[t].seen = kept[t].seen
                /\ c[t].state \in {"lost", "removed"}
                /\ c[t].state # "removed" => kept[t].state # "removed"
  <2>1. pairs \in SUBSET ((DOMAIN kept) \X dets)
    BY <1>3, <1>6
  <2>2. kept \in Seq(Histories) /\ dets \in SUBSET Nat
    BY <1>2, <1>3
  <2> HIDE DEF pairs
  <2>3. CarriedOn(Continued(kept, pairs), kept, pairs, dets)
    BY <2>1, <2>2, Continues
  <2> QED BY <2>3, <1>3 DEF CarriedOn
<1>10. /\ m \in Nat /\ DOMAIN Started(fresh) = 1..m /\ Len(Started(fresh)) = m
       /\ Started(fresh) \in Seq(Histories)
       /\ \A i \in 1..m : Started(fresh)[i].state = "tracked"
       /\ \A i \in 1..m : \E o \in fresh : Started(fresh)[i].seen = <<o>>
       /\ \A i, j \in 1..m : Started(fresh)[i].seen = Started(fresh)[j].seen => i = j
       /\ \A o \in fresh : \E i \in 1..m : Started(fresh)[i].seen = <<o>>
  BY <1>7, <1>8, StartedOnce DEF Histories
<1> HIDE DEF pairs, c, m, n
\* now, place by place
<1>12. /\ now \in Seq(Histories) /\ Len(now) = n + m
       /\ \A t \in 1..n : now[t] = c[t]
       /\ \A i \in 1..m : now[n + i] = Started(fresh)[i]
  <2>1. Started(fresh) \in Seq(Histories)
    BY <1>10
  <2>2. Len(Started(fresh)) = m
    BY <1>10
  <2> DEFINE both == c \o Started(fresh)
  <2>3. /\ both \in Seq(Histories)
        /\ Len(both) = Len(c) + Len(Started(fresh))
        /\ \A i \in 1..Len(c) : both[i] = c[i]
        /\ \A i \in 1..Len(Started(fresh)) : both[Len(c) + i] = Started(fresh)[i]
    <3>1. c \in Seq(Histories)
      BY <1>9
    <3> HIDE DEF Histories
    <3> QED BY <2>1, <3>1, Concatenated
  <2>4. now = both
    BY DEF Associates, c, pairs
  <2> HIDE DEF both
  <2> QED BY <2>2, <2>3, <2>4, <1>9
<1>13. /\ tracklets' \in Seq(Histories) /\ DOMAIN tracklets' = 1..(n + m)
       /\ Len(tracklets') = n + m
       /\ \A t \in 1..(n + m) :
            /\ tracklets'[t].seen = now[t].seen
            /\ tracklets'[t].state # "removed" =>
                 /\ now[t].state # "removed"
                 /\ now[t].state = "lost" =>
                      ~TimedOut(observations'[Last(now[t].seen)], index, pts)
  <2> DEFINE e == Expired(observations', now, index, pts)
  <2>1. /\ e \in Seq(Histories) /\ DOMAIN e = DOMAIN now /\ Len(e) = Len(now)
        /\ \A t \in DOMAIN now :
             /\ e[t].seen = now[t].seen
             /\ e[t].state # "removed" =>
                  /\ now[t].state # "removed"
                  /\ now[t].state = "lost" =>
                       ~TimedOut(observations'[Last(now[t].seen)], index, pts)
    BY <1>12, ExpiresOnly
  <2>2. tracklets' = e
    BY DEF Associates
  <2>3. DOMAIN now = 1..(n + m)
    BY <1>12, Indexed
  <2> HIDE DEF e
  <2> QED BY <2>1, <2>2, <2>3, <1>12
\* each tracklet has one of three ends
<1>14. \A t \in 1..n : tracklets[t].seen \in Seq(Nat) /\ tracklets[t].seen # <<>>
  <2> TAKE t \in 1..n
  <2>1. tracklets[t] \in Histories
    BY <1>1
  <2> QED BY <2>1, <1>1 DEF Histories, HistoriesPlaced
<1>15. \A t \in 1..n : t \notin Matched(pairs) => Waits(t, index, pts, cut)
  <2> SUFFICES ASSUME NEW t \in 1..n, t \notin Matched(pairs)
               PROVE  Waits(t, index, pts, cut)
    OBVIOUS
  <2>1. /\ now[t].seen = tracklets[t].seen
        /\ now[t].state \in {"lost", "removed"}
        /\ now[t].state # "removed" => kept[t].state # "removed"
    BY <1>3, <1>9, <1>12
  <2>2. t \in 1..(n + m)
    BY <1>1, <1>10
  <2>3. /\ tracklets'[t].seen = tracklets[t].seen
        /\ tracklets'[t].state # "removed" =>
             /\ now[t].state = "lost"
             /\ ~TimedOut(observations'[Last(now[t].seen)], index, pts)
    BY <2>1, <2>2, <1>13
  <2>4. Last(now[t].seen) = LastSeen(t) /\ LastSeen(t) \in DOMAIN observations
    <3>1. Len(tracklets[t].seen) \in DOMAIN tracklets[t].seen
      BY <1>14
    <3> QED BY <2>1, <3>1, <1>1 DEF Last, LastSeen, HistoriesPlaced
  <2>5. observations'[LastSeen(t)] = observations[LastSeen(t)]
    BY <2>4 DEF ReadsFrame
  <2> QED BY <2>1, <2>3, <2>4, <2>5, <1>3 DEF Waits
<1>16. \A t \in 1..n : t \in Matched(pairs) =>
         \E o \in dets : /\ <<t, o>> \in pairs /\ o \in Nat /\ New(o)
                         /\ tracklets'[t].seen = Append(tracklets[t].seen, o)
                         /\ ~cut /\ tracklets[t].state # "removed"
                         /\ now[t].state = "tracked" /\ LastSeen(t)' = o
  <2> SUFFICES ASSUME NEW t \in 1..n, t \in Matched(pairs)
               PROVE  \E o \in dets :
                         /\ <<t, o>> \in pairs /\ o \in Nat /\ New(o)
                         /\ tracklets'[t].seen = Append(tracklets[t].seen, o)
                         /\ ~cut /\ tracklets[t].state # "removed"
                         /\ now[t].state = "tracked" /\ LastSeen(t)' = o
    OBVIOUS
  <2>1. PICK o \in dets : <<t, o>> \in pairs /\ c[t].seen = Append(kept[t].seen, o)
    BY <1>9
  <2>2. c[t].state = "tracked"
    BY <1>9
  <2>3. t \in 1..(n + m)
    BY <1>1, <1>10
  <2>4. tracklets'[t].seen = Append(tracklets[t].seen, o) /\ now[t].state = "tracked"
    BY <2>1, <2>2, <2>3, <1>3, <1>12, <1>13
  <2>5. kept[<<t, o>>[1]].state # "removed"
    BY <2>1, <1>6
  <2>6. ~cut /\ tracklets[t].state # "removed"
    BY <2>5, <1>3
  <2>7. LastSeen(t)' = o
    <3>1. tracklets[t].seen \in Seq(Nat)
      BY <1>14
    <3> QED BY <2>4, <3>1 DEF LastSeen
  <2> QED BY <2>1, <2>4, <2>6, <2>7, <1>2
<1>18. \A t \in 1..(n + m) : t \notin 1..n => t - n \in 1..m /\ n + (t - n) = t
  BY <1>1, <1>10
<1>17. \A t \in 1..(n + m) : t \notin 1..n =>
         \E o \in fresh :
           /\ Started(fresh)[t - n].seen = <<o>> /\ o \in Nat /\ New(o)
           /\ tracklets'[t].seen = <<o>> /\ now[t].state = "tracked"
           /\ LastSeen(t)' = o
  <2> SUFFICES ASSUME NEW t \in 1..(n + m), t \notin 1..n
               PROVE  \E o \in fresh :
                        /\ Started(fresh)[t - n].seen = <<o>> /\ o \in Nat /\ New(o)
                        /\ tracklets'[t].seen = <<o>> /\ now[t].state = "tracked"
                        /\ LastSeen(t)' = o
    OBVIOUS
  <2>1. PICK o \in fresh : Started(fresh)[t - n].seen = <<o>>
    BY <1>10, <1>18
  <2>2. now[t] = Started(fresh)[t - n] /\ Started(fresh)[t - n].state = "tracked"
    BY <1>10, <1>12, <1>18
  <2>3. tracklets'[t].seen = <<o>> /\ now[t].state = "tracked"
    BY <2>1, <2>2, <1>13
  <2>4. LastSeen(t)' = o
    BY <2>3 DEF LastSeen
  <2> QED BY <2>1, <2>3, <2>4, <1>2, <1>7
<1>19. \A t \in 1..n : Waits(t, index, pts, cut) \/ Resumes(t, cut)
  BY <1>15, <1>16 DEF Resumes
<1>20. \A t \in 1..(n + m) : t \notin 1..n => Begins(t)
  BY <1>17, <1>18 DEF Begins
\* which of them end in an observation of the frame
<1>21. \A t \in 1..n : t \notin Matched(pairs) => ~New(LastSeen(t)') /\ now[t].state # "tracked"
  <2> SUFFICES ASSUME NEW t \in 1..n, t \notin Matched(pairs)
               PROVE  ~New(LastSeen(t)') /\ now[t].state # "tracked"
    OBVIOUS
  <2>1. LastSeen(t)' = LastSeen(t)
    BY <1>15 DEF Waits, LastSeen
  <2>2. LastSeen(t) \in DOMAIN observations
    <3>1. Len(tracklets[t].seen) \in DOMAIN tracklets[t].seen
      BY <1>14
    <3> QED BY <3>1, <1>1 DEF LastSeen, HistoriesPlaced
  <2>3. LastSeen(t) \in 1..Len(observations) /\ Len(observations) \in Nat
    BY <2>2, Indexed DEF TracksTyped
  <2>4. now[t].state # "tracked"
    BY <1>9, <1>12
  <2> QED BY <2>1, <2>3, <2>4 DEF New
<1>22. \A t \in 1..(n + m) : New(LastSeen(t)') <=> now[t].state = "tracked"
  BY <1>16, <1>17, <1>21
<1>23. \A t, u \in 1..(n + m) :
         New(LastSeen(t)') /\ LastSeen(t)' = LastSeen(u)' => t = u
  <2> SUFFICES ASSUME NEW t \in 1..(n + m), NEW u \in 1..(n + m),
                      New(LastSeen(t)'), LastSeen(t)' = LastSeen(u)'
               PROVE  t = u
    OBVIOUS
  <2>1. New(LastSeen(u)')
    OBVIOUS
  <2>2. \A s \in {t, u} : \/ s \in 1..n /\ <<s, LastSeen(s)'>> \in pairs
                          \/ /\ s \notin 1..n /\ LastSeen(s)' \in fresh
                             /\ Started(fresh)[s - n].seen = <<LastSeen(s)'>>
    BY <2>1, <1>16, <1>17, <1>21
  <2>3. CASE t \in 1..n /\ u \in 1..n
    <3>1. <<t, LastSeen(t)'>> \in pairs /\ <<u, LastSeen(t)'>> \in pairs
      BY <2>2, <2>3
    <3> QED BY <3>1, <1>6
  <2>4. CASE t \notin 1..n /\ u \notin 1..n
    <3>1. Started(fresh)[t - n].seen = Started(fresh)[u - n].seen
      BY <2>2, <2>4
    <3>2. t - n = u - n
      BY <3>1, <2>4, <1>10, <1>18
    <3> QED BY <3>2, <1>1
  <2>5. CASE ~(t \in 1..n <=> u \in 1..n)
    <3>1. \E s \in {t, u} : <<s, LastSeen(t)'>> \in pairs /\ LastSeen(t)' \in fresh
      BY <2>2, <2>5
    <3> QED BY <3>1, <1>7
  <2> QED BY <2>3, <2>4, <2>5
<1>24. \A o \in Nat :
         New(o) /\ observations'[o].eligible /\ observations'[o].score = "new" =>
           \E t \in 1..(n + m) : LastSeen(t)' = o
  <2> SUFFICES ASSUME NEW o \in Nat, New(o), observations'[o].eligible,
                      observations'[o].score = "new"
               PROVE  \E t \in 1..(n + m) : LastSeen(t)' = o
    OBVIOUS
  <2>1. o \in high
    BY DEF Associates, New
  <2>2. CASE o \in Taken(first)
    <3>1. PICK p \in first : p[2] = o
      BY <2>2 DEF Taken
    <3>2. p \in pairs /\ p[1] \in 1..n /\ p[1] \in Matched(pairs)
      BY <3>1, <1>4 DEF pairs, Matched
    <3>3. PICK t \in 1..n : t = p[1]
      BY <3>2
    <3>4. PICK q \in dets : <<t, q>> \in pairs /\ LastSeen(t)' = q
      BY <3>2, <3>3, <1>16
    <3>5. <<t, q>>[2] = p[2]
      BY <3>2, <3>3, <3>4, <1>6
    <3> QED BY <3>1, <3>4, <3>5, <1>1, <1>10
  <2>3. CASE o \notin Taken(first)
    <3>1. o \in fresh
      BY <2>1, <2>3 DEF Associates
    <3>2. PICK i \in 1..m : Started(fresh)[i].seen = <<o>>
      BY <3>1, <1>10
    <3>3. PICK t \in 1..(n + m) : t = n + i /\ t \notin 1..n /\ t - n = i
      BY <1>1, <1>10
    <3>4. PICK q \in fresh : Started(fresh)[i].seen = <<q>> /\ LastSeen(t)' = q
      BY <3>3, <1>17
    <3>5. <<q>> = <<o>>
      BY <3>2, <3>4
    <3> QED BY <3>4, <3>5
  <2> QED BY <2>2, <2>3
<1>25. Links(index, pts, cut)
  <2>1. n <= n + m
    BY <1>1, <1>10
  <2> QED BY <2>1, <1>1, <1>13, <1>19, <1>20, <1>23, <1>24 DEF Links, n
<1>26. Notes(index)
  <2> DEFINE A == {t \in DOMAIN tracklets' : New(LastSeen(t)')}
             B == {u \in InState(now, {"tracked"}) : observations'[Last(now[u].seen)].frame = index}
  <2>1. \A t \in 1..(n + m) : Last(now[t].seen) = LastSeen(t)'
    BY <1>13 DEF Last, LastSeen
  <2>2. DOMAIN now = 1..(n + m)
    BY <1>12, Indexed
  <2>3. \A t \in 1..(n + m) : New(LastSeen(t)') => observations'[LastSeen(t)'].frame = index
    <3> SUFFICES ASSUME NEW t \in 1..(n + m), New(LastSeen(t)')
                 PROVE  observations'[LastSeen(t)'].frame = index
      OBVIOUS
    <3>1. LastSeen(t)' \in Nat
      BY <1>11 DEF New
    <3> QED BY <3>1 DEF ReadsFrame
  <2>4. A = B
    BY <2>1, <2>2, <2>3, <1>13, <1>22 DEF InState
  <2>5. assignments' = assignments \union {<<Last(now[t].seen), t>> : t \in B}
    BY DEF Associates
  <2>6. B \subseteq 1..(n + m)
    BY <2>2 DEF InState
  <2> HIDE DEF A, B
  <2>7. {<<Last(now[t].seen), t>> : t \in B} = {<<LastSeen(t)', t>> : t \in A}
    BY <2>1, <2>4, <2>6
  <2> QED BY <2>5, <2>7 DEF Notes, A
<1> QED BY <1>25, <1>26

-----------------------------------------------------------------------------
(* LabTracks: a frame keeps the invariant.                                  *)

TracksFrame(index, pts, cut) ==
  ReadsFrame(index, pts, cut) /\ Links(index, pts, cut) /\ Notes(index)

\* What was read before stays as it was, and the frame is put behind it.
LEMMA FrameAdds ==
  ASSUME TracksTyped, NEW index, NEW pts, NEW cut, ReadsFrame(index, pts, cut)
  PROVE  /\ index = Len(frames) /\ index \in Nat /\ pts \in Nat /\ cut \in BOOLEAN
         /\ DOMAIN frames = 1..index
         /\ frames' \in Seq(FrameRecords) /\ Len(frames') = index + 1
         /\ frames'[index + 1].pts = pts /\ frames'[index + 1].cut = cut
         /\ \A f \in 1..index : frames'[f] = frames[f]
         /\ \A o \in DOMAIN observations : /\ o \in Nat /\ o \in DOMAIN observations'
                                           /\ ~New(o) /\ observations'[o] = observations[o]
         /\ \A o \in DOMAIN observations' : o \in Nat /\ (o \in DOMAIN observations \/ New(o))
         /\ \A o \in Nat : New(o) => /\ observations'[o].frame = index
                                     /\ observations'[o].pts = pts
<1>1. frames \in Seq(FrameRecords) /\ observations \in Seq(FaceRecords)
  BY DEF TracksTyped
<1>2. index = Len(frames) /\ pts \in Nat /\ cut \in BOOLEAN
  BY DEF ReadsFrame
<1>3. index \in Nat /\ DOMAIN frames = 1..index
  BY <1>1, <1>2, Indexed
<1>4. [pts |-> pts, cut |-> cut] \in FrameRecords
  BY <1>2 DEF FrameRecords
<1>5. /\ frames' \in Seq(FrameRecords) /\ Len(frames') = index + 1
      /\ frames'[index + 1] = [pts |-> pts, cut |-> cut]
      /\ \A f \in 1..index : frames'[f] = frames[f]
  <2>1. frames' = Append(frames, [pts |-> pts, cut |-> cut])
    BY DEF ReadsFrame
  <2> HIDE DEF FrameRecords
  <2> QED BY <1>1, <1>2, <1>4, <2>1
<1>6. /\ Len(observations) \in Nat /\ DOMAIN observations = 1..Len(observations)
      /\ Len(observations') \in Nat /\ DOMAIN observations' = 1..Len(observations')
      /\ Len(observations) <= Len(observations')
      /\ \A o \in DOMAIN observations : observations'[o] = observations[o]
  <2>1. observations' \in Seq(FaceRecords)
    BY DEF ReadsFrame
  <2>2. Len(observations) \in Nat /\ DOMAIN observations = 1..Len(observations)
    BY <1>1, Indexed
  <2>3. Len(observations') \in Nat /\ DOMAIN observations' = 1..Len(observations')
    BY <2>1, Indexed
  <2> QED BY <2>2, <2>3 DEF ReadsFrame
<1>7. \A o \in DOMAIN observations : o \in Nat /\ o \in DOMAIN observations' /\ ~New(o)
  BY <1>6 DEF New
<1>8. \A o \in DOMAIN observations' : o \in Nat /\ (o \in DOMAIN observations \/ New(o))
  BY <1>6 DEF New
<1>9. \A o \in Nat : New(o) => observations'[o].frame = index /\ observations'[o].pts = pts
  BY DEF ReadsFrame
<1>10. frames'[index + 1].pts = pts /\ frames'[index + 1].cut = cut
  BY <1>5
<1> QED BY <1>2, <1>3, <1>5, <1>6, <1>7, <1>8, <1>9, <1>10

\* Every place of a history is one it had, or its last and of this frame.
LEMMA FrameHistories ==
  ASSUME TracksTyped, HistoriesPlaced, NEW index, NEW pts, NEW cut, Links(index, pts, cut)
  PROVE  /\ DOMAIN tracklets \subseteq DOMAIN tracklets'
         /\ \A t \in DOMAIN tracklets' :
              /\ tracklets'[t].seen \in Seq(Nat) /\ tracklets'[t].seen # <<>>
              /\ \A i \in DOMAIN tracklets'[t].seen :
                   \/ /\ t \in DOMAIN tracklets /\ i \in DOMAIN tracklets[t].seen
                      /\ tracklets'[t].seen[i] = tracklets[t].seen[i]
                   \/ /\ i = Len(tracklets'[t].seen)
                      /\ New(tracklets'[t].seen[i]) /\ tracklets'[t].seen[i] = LastSeen(t)'
         /\ \A t \in DOMAIN tracklets : \A i \in DOMAIN tracklets[t].seen :
              /\ i \in DOMAIN tracklets'[t].seen
              /\ tracklets'[t].seen[i] = tracklets[t].seen[i]
<1>1. /\ tracklets \in Seq(Histories) /\ tracklets' \in Seq(Histories)
      /\ Len(tracklets) <= Len(tracklets')
  BY DEF TracksTyped, Links
<1>2. DOMAIN tracklets \subseteq DOMAIN tracklets'
  <2>1. Len(tracklets) \in Nat /\ DOMAIN tracklets = 1..Len(tracklets)
    BY <1>1, Indexed
  <2>2. Len(tracklets') \in Nat /\ DOMAIN tracklets' = 1..Len(tracklets')
    BY <1>1, Indexed
  <2> QED BY <2>1, <2>2, <1>1
<1>3. \A t \in DOMAIN tracklets' : tracklets'[t].seen \in Seq(Nat)
  <2> TAKE t \in DOMAIN tracklets'
  <2>1. tracklets'[t] \in Histories
    BY <1>1
  <2> QED BY <2>1 DEF Histories
<1>4. \A t \in DOMAIN tracklets : /\ tracklets[t].seen \in Seq(Nat)
                                  /\ tracklets[t].seen # <<>>
  <2> TAKE t \in DOMAIN tracklets
  <2>1. tracklets[t] \in Histories
    BY <1>1
  <2> QED BY <2>1 DEF Histories, HistoriesPlaced
<1>5. \A t \in DOMAIN tracklets :
        \/ tracklets'[t].seen = tracklets[t].seen
        \/ \E o \in Nat : New(o) /\ tracklets'[t].seen = Append(tracklets[t].seen, o)
  BY DEF Links, Waits, Resumes
<1>6. \A t \in DOMAIN tracklets' : t \notin DOMAIN tracklets =>
        \E o \in Nat : New(o) /\ tracklets'[t].seen = <<o>>
  BY DEF Links, Begins
<1>7. ASSUME NEW t \in DOMAIN tracklets
      PROVE  /\ tracklets'[t].seen # <<>>
             /\ \A i \in DOMAIN tracklets'[t].seen :
                  \/ /\ i \in DOMAIN tracklets[t].seen
                     /\ tracklets'[t].seen[i] = tracklets[t].seen[i]
                  \/ /\ i = Len(tracklets'[t].seen)
                     /\ New(tracklets'[t].seen[i]) /\ tracklets'[t].seen[i] = LastSeen(t)'
             /\ \A i \in DOMAIN tracklets[t].seen :
                  /\ i \in DOMAIN tracklets'[t].seen
                  /\ tracklets'[t].seen[i] = tracklets[t].seen[i]
  <2>1. tracklets[t].seen \in Seq(Nat) /\ tracklets[t].seen # <<>>
    BY <1>4
  <2>2. CASE tracklets'[t].seen = tracklets[t].seen
    BY <2>1, <2>2
  <2>3. CASE \E o \in Nat : New(o) /\ tracklets'[t].seen = Append(tracklets[t].seen, o)
    <3>1. PICK o \in Nat : New(o) /\ tracklets'[t].seen = Append(tracklets[t].seen, o)
      BY <2>3
    <3>2. LastSeen(t)' = o /\ Len(tracklets'[t].seen) = Len(tracklets[t].seen) + 1
      BY <2>1, <3>1 DEF LastSeen
    <3>3. /\ tracklets'[t].seen # <<>>
          /\ \A i \in DOMAIN tracklets'[t].seen :
               \/ i \in DOMAIN tracklets[t].seen /\ tracklets'[t].seen[i] = tracklets[t].seen[i]
               \/ i = Len(tracklets'[t].seen) /\ tracklets'[t].seen[i] = o
          /\ \A i \in DOMAIN tracklets[t].seen :
               /\ i \in DOMAIN tracklets'[t].seen
               /\ tracklets'[t].seen[i] = tracklets[t].seen[i]
      BY <2>1, <3>1
    <3> QED BY <3>1, <3>2, <3>3
  <2> QED BY <1>5, <2>2, <2>3
<1>8. ASSUME NEW t \in DOMAIN tracklets', t \notin DOMAIN tracklets
      PROVE  /\ tracklets'[t].seen # <<>>
             /\ \A i \in DOMAIN tracklets'[t].seen :
                  /\ i = Len(tracklets'[t].seen)
                  /\ New(tracklets'[t].seen[i]) /\ tracklets'[t].seen[i] = LastSeen(t)'
  <2>1. PICK o \in Nat : New(o) /\ tracklets'[t].seen = <<o>>
    BY <1>6, <1>8
  <2>2. LastSeen(t)' = o
    BY <2>1 DEF LastSeen
  <2> QED BY <2>1, <2>2
<1> QED BY <1>2, <1>3, <1>7, <1>8

LEMMA FrameTyped ==
  ASSUME TracksInv, NEW index, NEW pts, NEW cut, TracksFrame(index, pts, cut), phase' = phase
  PROVE  TracksTyped'
<1>1. TracksTyped /\ ReadsFrame(index, pts, cut) /\ Links(index, pts, cut)
  BY DEF TracksInv, TracksFrame
<1>2. frames' \in Seq(FrameRecords)
  BY <1>1, FrameAdds
<1>3. observations' \in Seq(FaceRecords)
  BY <1>1 DEF ReadsFrame
<1>4. tracklets' \in Seq(Histories)
  BY <1>1 DEF Links
<1> QED BY <1>1, <1>2, <1>3, <1>4 DEF TracksTyped

LEMMA FrameDated ==
  ASSUME TracksInv, NEW index, NEW pts, NEW cut, TracksFrame(index, pts, cut)
  PROVE  ObservationsDated'
<1>1. TracksTyped /\ ReadsFrame(index, pts, cut) /\ ObservationsDated
  BY DEF TracksInv, TracksFrame
<1>2. /\ index = Len(frames) /\ index \in Nat
      /\ Len(frames') = index + 1 /\ frames'[index + 1].pts = pts
      /\ \A f \in 1..index : frames'[f] = frames[f]
      /\ \A o \in DOMAIN observations : observations'[o] = observations[o]
      /\ \A o \in DOMAIN observations' : o \in Nat /\ (o \in DOMAIN observations \/ New(o))
      /\ \A o \in Nat : New(o) => observations'[o].frame = index /\ observations'[o].pts = pts
  BY <1>1, FrameAdds
<1> SUFFICES ASSUME NEW o \in DOMAIN observations'
             PROVE  /\ observations'[o].frame \in 0..(Len(frames') - 1)
                    /\ observations'[o].pts = frames'[observations'[o].frame + 1].pts
  BY DEF ObservationsDated
<1>3. CASE o \in DOMAIN observations
  <2>1. /\ observations[o].frame \in 0..(index - 1)
        /\ observations[o].pts = frames[observations[o].frame + 1].pts
    BY <1>1, <1>2, <1>3 DEF ObservationsDated
  <2> QED BY <2>1, <1>2, <1>3
<1>4. CASE New(o)
  BY <1>2, <1>4
<1> QED BY <1>2, <1>3, <1>4

LEMMA FramePlaced ==
  ASSUME TracksInv, NEW index, NEW pts, NEW cut, TracksFrame(index, pts, cut)
  PROVE  HistoriesPlaced'
<1>1. /\ TracksTyped /\ ReadsFrame(index, pts, cut) /\ HistoriesPlaced
      /\ Links(index, pts, cut)
  BY DEF TracksInv, TracksFrame
<1>2. \A o \in DOMAIN observations : o \in DOMAIN observations'
  BY <1>1, FrameAdds
<1>3. \A t \in DOMAIN tracklets' :
        /\ tracklets'[t].seen # <<>>
        /\ \A i \in DOMAIN tracklets'[t].seen :
             \/ /\ t \in DOMAIN tracklets /\ i \in DOMAIN tracklets[t].seen
                /\ tracklets'[t].seen[i] = tracklets[t].seen[i]
             \/ New(tracklets'[t].seen[i])
  BY <1>1, FrameHistories
<1>4. \A t \in DOMAIN tracklets' : \A i \in DOMAIN tracklets'[t].seen :
        tracklets'[t].seen[i] \in DOMAIN observations'
  BY <1>1, <1>2, <1>3 DEF HistoriesPlaced, New
<1> QED BY <1>3, <1>4 DEF HistoriesPlaced

LEMMA FrameShares ==
  ASSUME TracksInv, NEW index, NEW pts, NEW cut, TracksFrame(index, pts, cut)
  PROVE  NothingShared'
<1>1. /\ TracksTyped /\ ReadsFrame(index, pts, cut) /\ HistoriesPlaced
      /\ Links(index, pts, cut) /\ NothingShared
  BY DEF TracksInv, TracksFrame
<1>2. \A o \in DOMAIN observations : ~New(o)
  BY <1>1, FrameAdds
<1>3. \A t \in DOMAIN tracklets' : \A i \in DOMAIN tracklets'[t].seen :
        \/ /\ t \in DOMAIN tracklets /\ i \in DOMAIN tracklets[t].seen
           /\ tracklets'[t].seen[i] = tracklets[t].seen[i]
        \/ New(tracklets'[t].seen[i]) /\ tracklets'[t].seen[i] = LastSeen(t)'
  BY <1>1, FrameHistories
<1> SUFFICES ASSUME NEW t \in DOMAIN tracklets', NEW u \in DOMAIN tracklets',
                    NEW i \in DOMAIN tracklets'[t].seen, NEW k \in DOMAIN tracklets'[u].seen,
                    tracklets'[t].seen[i] = tracklets'[u].seen[k]
             PROVE  t = u
  BY DEF NothingShared
<1>4. CASE New(tracklets'[t].seen[i])
  <2>1. tracklets'[t].seen[i] = LastSeen(t)' /\ tracklets'[u].seen[k] = LastSeen(u)'
    BY <1>1, <1>2, <1>3, <1>4 DEF HistoriesPlaced
  <2> QED BY <2>1, <1>1, <1>4 DEF Links
<1>5. CASE ~New(tracklets'[t].seen[i])
  BY <1>1, <1>3, <1>5 DEF NothingShared
<1> QED BY <1>4, <1>5

LEMMA FrameOwns ==
  ASSUME TracksInv, NEW index, NEW pts, NEW cut, TracksFrame(index, pts, cut)
  PROVE  NewOnesOwned'
<1>1. /\ TracksTyped /\ ReadsFrame(index, pts, cut) /\ HistoriesPlaced
      /\ Links(index, pts, cut) /\ NewOnesOwned
  BY DEF TracksInv, TracksFrame
<1>2. /\ \A o \in DOMAIN observations : observations'[o] = observations[o]
      /\ \A o \in DOMAIN observations' : o \in Nat /\ (o \in DOMAIN observations \/ New(o))
  BY <1>1, FrameAdds
<1>3. /\ DOMAIN tracklets \subseteq DOMAIN tracklets'
      /\ \A t \in DOMAIN tracklets' : tracklets'[t].seen \in Seq(Nat) /\ tracklets'[t].seen # <<>>
      /\ \A t \in DOMAIN tracklets : \A i \in DOMAIN tracklets[t].seen :
           i \in DOMAIN tracklets'[t].seen /\ tracklets'[t].seen[i] = tracklets[t].seen[i]
  BY <1>1, FrameHistories
<1> SUFFICES ASSUME NEW o \in DOMAIN observations',
                    observations'[o].eligible, observations'[o].score = "new"
             PROVE  \E t \in DOMAIN tracklets' : \E i \in DOMAIN tracklets'[t].seen :
                      tracklets'[t].seen[i] = o
  BY DEF NewOnesOwned, ToSet
<1>4. CASE o \in DOMAIN observations
  <2>1. PICK t \in DOMAIN tracklets : o \in ToSet(tracklets[t].seen)
    BY <1>1, <1>2, <1>4 DEF NewOnesOwned
  <2>2. PICK i \in DOMAIN tracklets[t].seen : tracklets[t].seen[i] = o
    BY <2>1 DEF ToSet
  <2> QED BY <2>2, <1>3
<1>5. CASE New(o)
  <2>1. PICK t \in DOMAIN tracklets' : LastSeen(t)' = o
    BY <1>1, <1>2, <1>5 DEF Links
  <2>2. Len(tracklets'[t].seen) \in DOMAIN tracklets'[t].seen
    BY <1>3
  <2> QED BY <2>1, <2>2 DEF LastSeen
<1> QED BY <1>2, <1>4, <1>5

LEMMA FrameGivesUp ==
  ASSUME TracksInv, NEW index, NEW pts, NEW cut, TracksFrame(index, pts, cut)
  PROVE  OthersGivenUp'
<1>1. /\ TracksTyped /\ ReadsFrame(index, pts, cut) /\ HistoriesPlaced
      /\ Links(index, pts, cut) /\ OthersGivenUp /\ ObservationsDated
  BY DEF TracksInv, TracksFrame
<1>2. /\ index = Len(frames) /\ index \in Nat /\ pts \in Nat /\ cut \in BOOLEAN
      /\ Len(frames') = index + 1
      /\ frames'[index + 1].pts = pts /\ frames'[index + 1].cut = cut
      /\ \A f \in 1..index : frames'[f] = frames[f]
      /\ \A o \in DOMAIN observations : observations'[o] = observations[o]
      /\ \A o \in Nat : New(o) => observations'[o].frame = index /\ observations'[o].pts = pts
  BY <1>1, FrameAdds
<1> SUFFICES ASSUME NEW t \in DOMAIN tracklets', tracklets'[t].state # "removed"
             PROVE  Followable(observations'[LastSeen(t)'], frames', index)
  BY <1>2 DEF OthersGivenUp
<1>3. ASSUME NEW o \in Nat, New(o), LastSeen(t)' = o
      PROVE  Followable(observations'[LastSeen(t)'], frames', index)
  <2>1. observations'[o].frame = index /\ observations'[o].pts = pts
    BY <1>2, <1>3
  <2>2. MaxLostFrames \in Nat /\ MaxLostNs \in Nat
    BY LabTracksAssumption
  <2> QED BY <2>1, <2>2, <1>2, <1>3 DEF Followable
<1>4. CASE t \in DOMAIN tracklets /\ Waits(t, index, pts, cut)
  <2>1. /\ LastSeen(t)' = LastSeen(t) /\ ~cut /\ tracklets[t].state # "removed"
        /\ ~TimedOut(observations[LastSeen(t)], index, pts)
    BY <1>4 DEF Waits, LastSeen
  <2>2. tracklets[t].seen \in Seq(Nat) /\ tracklets[t].seen # <<>>
    <3>1. tracklets[t] \in Histories
      BY <1>1, <1>4 DEF TracksTyped
    <3> QED BY <3>1, <1>1, <1>4 DEF Histories, HistoriesPlaced
  <2>3. Len(tracklets[t].seen) \in DOMAIN tracklets[t].seen
    BY <2>2
  <2>4. LastSeen(t) \in DOMAIN observations
    BY <2>3, <1>1, <1>4 DEF LastSeen, HistoriesPlaced
  <2> DEFINE last == observations[LastSeen(t)]
  <2>5. observations'[LastSeen(t)'] = last
    BY <2>1, <2>4, <1>2
  <2>6. last.frame \in 0..(index - 1) /\ last.pts = frames[last.frame + 1].pts
    BY <2>4, <1>1, <1>2 DEF ObservationsDated
  <2>7. last.pts \in Nat
    <3>1. last \in FaceRecords
      BY <2>4, <1>1 DEF TracksTyped
    <3> QED BY <3>1 DEF FaceRecords
  <2>8. \A f \in (last.frame + 1)..(index - 1) : ~frames[f + 1].cut
    BY <2>1, <1>1, <1>2, <1>4 DEF OthersGivenUp, Followable
  <2>9. MaxLostFrames \in Nat /\ MaxLostNs \in Nat
    BY LabTracksAssumption
  <2> HIDE DEF last
  <2>10. \A f \in (last.frame + 1)..index : ~frames'[f + 1].cut
    <3> SUFFICES ASSUME NEW f \in (last.frame + 1)..index PROVE ~frames'[f + 1].cut
      OBVIOUS
    <3>1. CASE f = index
      BY <3>1, <2>1, <1>2
    <3>2. CASE f # index
      <4>1. f \in (last.frame + 1)..(index - 1) /\ f + 1 \in 1..index
        BY <3>2, <2>6, <1>2
      <4> QED BY <4>1, <2>8, <1>2
    <3> QED BY <3>1, <3>2
  <2>11. index - last.frame <= MaxLostFrames /\ pts - last.pts <= MaxLostNs
    BY <2>1, <2>6, <2>7, <2>9, <1>2 DEF TimedOut, last
  <2> QED BY <2>5, <2>10, <2>11, <1>2 DEF Followable
<1>5. CASE t \in DOMAIN tracklets /\ Resumes(t, cut)
  <2>1. PICK o \in Nat : New(o) /\ tracklets'[t].seen = Append(tracklets[t].seen, o)
    BY <1>5 DEF Resumes
  <2>2. tracklets[t].seen \in Seq(Nat)
    <3>1. tracklets[t] \in Histories
      BY <1>1, <1>5 DEF TracksTyped
    <3> QED BY <3>1 DEF Histories
  <2>3. LastSeen(t)' = o
    BY <2>1, <2>2 DEF LastSeen
  <2> QED BY <2>1, <2>3, <1>3
<1>6. CASE t \notin DOMAIN tracklets
  <2>1. PICK o \in Nat : New(o) /\ tracklets'[t].seen = <<o>>
    BY <1>1, <1>6 DEF Links, Begins
  <2>2. LastSeen(t)' = o
    BY <2>1 DEF LastSeen
  <2> QED BY <2>1, <2>2, <1>3
<1> QED BY <1>1, <1>4, <1>5, <1>6 DEF Links

LEMMA FrameReturns ==
  ASSUME TracksInv, NEW index, NEW pts, NEW cut, TracksFrame(index, pts, cut)
  PROVE  ReturnsInTime'
<1>1. /\ TracksTyped /\ ReadsFrame(index, pts, cut) /\ HistoriesPlaced
      /\ Links(index, pts, cut) /\ OthersGivenUp /\ ObservationsDated /\ ReturnsInTime
  BY DEF TracksInv, TracksFrame
<1>2. /\ index = Len(frames) /\ index \in Nat /\ cut \in BOOLEAN
      /\ frames'[index + 1].cut = cut
      /\ \A f \in 1..index : frames'[f] = frames[f]
      /\ \A o \in DOMAIN observations : observations'[o] = observations[o] /\ ~New(o)
      /\ \A o \in Nat : New(o) => observations'[o].frame = index
  BY <1>1, FrameAdds
<1>3. \A t \in DOMAIN tracklets' :
        /\ tracklets'[t].seen \in Seq(Nat)
        /\ \A i \in DOMAIN tracklets'[t].seen :
             \/ /\ t \in DOMAIN tracklets /\ i \in DOMAIN tracklets[t].seen
                /\ tracklets'[t].seen[i] = tracklets[t].seen[i]
             \/ /\ i = Len(tracklets'[t].seen) /\ New(tracklets'[t].seen[i])
  BY <1>1, FrameHistories
<1> SUFFICES ASSUME NEW t \in DOMAIN tracklets', NEW i \in 1..(Len(tracklets'[t].seen) - 1)
             PROVE  Returned(observations'[tracklets'[t].seen[i]],
                             observations'[tracklets'[t].seen[i + 1]], frames')
  BY DEF ReturnsInTime
<1>4. /\ Len(tracklets'[t].seen) \in Nat /\ i \in Nat \ {0}
      /\ i \in DOMAIN tracklets'[t].seen /\ i + 1 \in DOMAIN tracklets'[t].seen
      /\ i # Len(tracklets'[t].seen)
  BY <1>3
<1>5. /\ t \in DOMAIN tracklets /\ i \in DOMAIN tracklets[t].seen
      /\ tracklets'[t].seen[i] = tracklets[t].seen[i]
  BY <1>3, <1>4
<1>6. tracklets[t].seen \in Seq(Nat)
  <2>1. tracklets[t] \in Histories
    BY <1>1, <1>5 DEF TracksTyped
  <2> QED BY <2>1 DEF Histories
<1> DEFINE p == tracklets[t].seen[i]
           q == tracklets'[t].seen[i + 1]
<1>7. p \in DOMAIN observations /\ observations'[p] = observations[p]
  BY <1>1, <1>2, <1>5 DEF HistoriesPlaced
<1>8. observations[p].frame \in 0..(index - 1) /\ index - 1 \in Nat
  <2>1. observations[p].frame \in 0..(index - 1)
    BY <1>1, <1>2, <1>7 DEF ObservationsDated
  <2> HIDE DEF p
  <2> QED BY <2>1, <1>2
<1>9. CASE i + 1 \in DOMAIN tracklets[t].seen /\ q = tracklets[t].seen[i + 1]
  <2>1. i \in 1..(Len(tracklets[t].seen) - 1)
    BY <1>4, <1>6, <1>9
  <2>2. Returned(observations[p], observations[q], frames)
    BY <2>1, <1>1, <1>5, <1>9 DEF ReturnsInTime
  <2>3. q \in DOMAIN observations /\ observations'[q] = observations[q]
    BY <1>1, <1>2, <1>5, <1>9 DEF HistoriesPlaced
  <2>4. observations[q].frame \in 0..(index - 1)
    BY <2>3, <1>1, <1>2 DEF ObservationsDated
  <2> DEFINE a == observations[p]
             b == observations[q]
  <2> HIDE DEF a, b, p, q
  <2>5. a.frame \in 0..(index - 1) /\ b.frame \in 0..(index - 1) /\ Returned(a, b, frames)
    BY <2>2, <2>4, <1>8 DEF a, b
  <2>6. Returned(a, b, frames')
    <3>1. a.frame < b.frame /\ b.frame \in 1..index
      BY <2>5, <1>2 DEF Returned
    <3>2. \A f \in (a.frame + 1)..b.frame : f + 1 \in 1..index
      BY <2>5, <1>2
    <3> QED BY <2>5, <3>1, <3>2, <1>2 DEF Returned
  <2> QED BY <2>3, <2>6, <1>5, <1>7 DEF a, b, p, q
<1>10. CASE i + 1 = Len(tracklets'[t].seen) /\ New(q)
  <2>1. q \in Nat
    BY <1>3, <1>4
  <2>2. observations'[q].frame = index
    BY <2>1, <1>2, <1>10
  <2>3. tracklets'[t].seen # tracklets[t].seen
    BY <1>1, <1>2, <1>4, <1>5, <1>10 DEF HistoriesPlaced
  <2>4. Resumes(t, cut)
    BY <2>3, <1>1, <1>5 DEF Links, Waits
  <2>5. ~cut /\ tracklets[t].state # "removed"
    BY <2>4 DEF Resumes
  <2>6. i = Len(tracklets[t].seen)
    <3>1. PICK o \in Nat : tracklets'[t].seen = Append(tracklets[t].seen, o)
      BY <2>4 DEF Resumes
    <3> QED BY <3>1, <1>4, <1>6, <1>10
  <2>7. Followable(observations[p], frames, index - 1)
    BY <2>5, <2>6, <1>1, <1>2, <1>5 DEF OthersGivenUp, LastSeen
  <2> DEFINE a == observations[p]
             b == observations'[q]
  <2> HIDE DEF a, b, p, q
  <2>8. a.frame \in 0..(index - 1) /\ b.frame = index /\ Followable(a, frames, index - 1)
    BY <2>2, <2>7, <1>8 DEF a, b
  <2>9. \A f \in (a.frame + 1)..index : ~frames'[f + 1].cut
    <3> SUFFICES ASSUME NEW f \in (a.frame + 1)..index PROVE ~frames'[f + 1].cut
      OBVIOUS
    <3>1. CASE f = index
      BY <3>1, <2>5, <1>2
    <3>2. CASE f # index
      <4>1. f \in (a.frame + 1)..(index - 1) /\ f + 1 \in 1..index
        BY <3>2, <2>8, <1>2
      <4> QED BY <4>1, <2>8, <1>2 DEF Followable
    <3> QED BY <3>1, <3>2
  <2>10. index - 1 - a.frame <= MaxLostFrames
    BY <2>8 DEF Followable
  <2>11. frames'[index].pts - a.pts <= MaxLostNs
    <3>1. index \in 1..index /\ index - 1 + 1 = index
      BY <1>2, <1>8
    <3>2. frames'[index] = frames[index]
      BY <3>1, <1>2
    <3> QED BY <3>1, <3>2, <2>8 DEF Followable
  <2>12. Returned(a, b, frames')
    BY <2>8, <2>9, <2>10, <2>11, <1>2 DEF Returned
  <2> QED BY <2>12, <1>5, <1>7 DEF a, b, p, q
<1> QED BY <1>3, <1>4, <1>9, <1>10

LEMMA FrameWrites ==
  ASSUME TracksInv, NEW index, NEW pts, NEW cut, TracksFrame(index, pts, cut)
  PROVE  AssignmentsAgree'
<1>1. /\ TracksTyped /\ ReadsFrame(index, pts, cut) /\ HistoriesPlaced
      /\ Links(index, pts, cut) /\ AssignmentsAgree /\ Notes(index)
  BY DEF TracksInv, TracksFrame
<1>2. \A o \in DOMAIN observations : o \in DOMAIN observations'
  BY <1>1, FrameAdds
<1>3. /\ DOMAIN tracklets \subseteq DOMAIN tracklets'
      /\ \A t \in DOMAIN tracklets' :
           /\ tracklets'[t].seen \in Seq(Nat) /\ tracklets'[t].seen # <<>>
           /\ \A i \in DOMAIN tracklets'[t].seen :
                \/ /\ t \in DOMAIN tracklets /\ i \in DOMAIN tracklets[t].seen
                   /\ tracklets'[t].seen[i] = tracklets[t].seen[i]
                \/ New(tracklets'[t].seen[i]) /\ tracklets'[t].seen[i] = LastSeen(t)'
      /\ \A t \in DOMAIN tracklets : \A i \in DOMAIN tracklets[t].seen :
           i \in DOMAIN tracklets'[t].seen /\ tracklets'[t].seen[i] = tracklets[t].seen[i]
  BY <1>1, FrameHistories
<1> DEFINE Told == {a \in (DOMAIN observations') \X (DOMAIN tracklets') :
                      a[1] \in ToSet(tracklets'[a[2]].seen)}
           Added == {<<LastSeen(t)', t>> : t \in {u \in DOMAIN tracklets' : New(LastSeen(u)')}}
<1>4. assignments' = assignments \union Added
  BY <1>1 DEF Notes
<1>5. ASSUME NEW a \in assignments PROVE a \in Told
  <2>1. /\ a \in (DOMAIN observations) \X (DOMAIN tracklets)
        /\ a[1] \in ToSet(tracklets[a[2]].seen)
    BY <1>1 DEF AssignmentsAgree
  <2>2. PICK i \in DOMAIN tracklets[a[2]].seen : tracklets[a[2]].seen[i] = a[1]
    BY <2>1 DEF ToSet
  <2>3. a[1] \in ToSet(tracklets'[a[2]].seen)
    BY <2>1, <2>2, <1>3 DEF ToSet
  <2> QED BY <2>1, <2>3, <1>2, <1>3
<1>6. ASSUME NEW a \in Added PROVE a \in Told
  <2>1. PICK t \in DOMAIN tracklets' : New(LastSeen(t)') /\ a = <<LastSeen(t)', t>>
    OBVIOUS
  <2>2. Len(tracklets'[t].seen) \in DOMAIN tracklets'[t].seen
    BY <1>3
  <2>3. LastSeen(t)' \in ToSet(tracklets'[t].seen)
    BY <2>2 DEF LastSeen, ToSet
  <2> QED BY <2>1, <2>3 DEF New
<1>7. ASSUME NEW a \in Told PROVE a \in assignments \union Added
  <2>1. PICK o \in DOMAIN observations', t \in DOMAIN tracklets' :
          a = <<o, t>> /\ o \in ToSet(tracklets'[t].seen)
    OBVIOUS
  <2>2. PICK i \in DOMAIN tracklets'[t].seen : tracklets'[t].seen[i] = o
    BY <2>1 DEF ToSet
  <2>3. CASE /\ t \in DOMAIN tracklets /\ i \in DOMAIN tracklets[t].seen
             /\ tracklets'[t].seen[i] = tracklets[t].seen[i]
    <3>1. o \in ToSet(tracklets[t].seen)
      BY <2>2, <2>3 DEF ToSet
    <3>2. o \in DOMAIN observations
      BY <2>2, <2>3, <1>1 DEF HistoriesPlaced
    <3> QED BY <2>1, <2>3, <3>1, <3>2, <1>1 DEF AssignmentsAgree
  <2>4. CASE New(tracklets'[t].seen[i]) /\ tracklets'[t].seen[i] = LastSeen(t)'
    BY <2>1, <2>2, <2>4
  <2> QED BY <1>3, <2>3, <2>4
<1> HIDE DEF Told, Added
<1>8. assignments' = Told
  BY <1>4, <1>5, <1>6, <1>7
<1> QED BY <1>8 DEF AssignmentsAgree, Told

LEMMA TracksKept ==
  ASSUME TracksInv, NEW index, NEW pts, NEW cut, TracksFrame(index, pts, cut), phase' = phase
  PROVE  TracksInv'
BY FrameTyped, FrameDated, FramePlaced, FrameShares, FrameOwns, FrameGivesUp,
   FrameReturns, FrameWrites DEF TracksInv

\* What Update does with the tracklets and the assignments, all observations
\* being known.
Rounds(all, index, pts, cut) ==
  LET dets == {o \in DOMAIN all : o > Len(observations) /\ all[o].eligible}
      high == {o \in dets : all[o].score # "low"}
      kept == AtCut(cut, tracklets)
  IN  \E first \in Matchings(InState(kept, {"tracked", "lost"}), high) :
      \E second \in Matchings(InState(kept, {"tracked"}) \ Matched(first), dets \ high) :
        LET fresh == {o \in high \ Taken(first) : all[o].score = "new"}
            now == Continued(kept, first \union second) \o Started(fresh)
        IN  /\ tracklets' = Expired(all, now, index, pts)
            /\ assignments' = assignments \union
                 {<<Last(now[t].seen), t>> : t \in
                    {u \in InState(now, {"tracked"}) : all[Last(now[u].seen)].frame = index}}

LEMMA UpdateKeeps ==
  ASSUME TracksInv, NEW scene \in Scenes, NEW step \in Clock, NEW cut \in BOOLEAN,
         Update(scene, step, cut)
  PROVE  TracksInv'
<1>1. TracksTyped /\ HistoriesPlaced
  BY DEF TracksInv
<1>2. PICK index : index = Len(frames)
  OBVIOUS
<1>3. PICK pts : pts = IF frames = <<>> THEN 0 ELSE Last(frames).pts + step
  OBVIOUS
<1>4. /\ frames' = Append(frames, [pts |-> pts, cut |-> cut])
      /\ observations' = Whole(scene, index, pts)
      /\ phase' = phase
  BY <1>2, <1>3 DEF Update, Whole
<1>5. ReadsFrame(index, pts, cut) /\ index \in Nat /\ pts \in Nat
  <2>1. ReadsFrame(index, pts, cut) /\ index \in Nat
    BY <1>1, <1>2, <1>3, <1>4, UpdateReads
  <2> QED BY <2>1 DEF ReadsFrame
<1>6. \E dets, high, kept, first, second, fresh, now :
         Associates(dets, high, kept, first, second, fresh, now, index, pts, cut)
  <2>5. Rounds(observations', index, pts, cut)
    <3> DEFINE time == IF frames = <<>> THEN 0 ELSE Last(frames).pts + step
    <3>1. Rounds(Whole(scene, Len(frames), time), Len(frames), time, cut)
      BY DEF Update, Whole, Rounds
    <3> HIDE DEF time
    <3>2. Rounds(Whole(scene, index, pts), index, pts, cut)
      BY <3>1, <1>2, <1>3 DEF time
    <3> QED BY <3>2, <1>4
  <2> DEFINE dets == {o \in DOMAIN observations' :
                        o > Len(observations) /\ observations'[o].eligible}
             high == {o \in dets : observations'[o].score # "low"}
             kept == AtCut(cut, tracklets)
             fresh(first) == {o \in high \ Taken(first) : observations'[o].score = "new"}
             now(first, second) ==
               Continued(kept, first \union second) \o Started(fresh(first))
  <2>1. \E first \in Matchings(InState(kept, {"tracked", "lost"}), high) :
        \E second \in Matchings(InState(kept, {"tracked"}) \ Matched(first), dets \ high) :
          /\ tracklets' = Expired(observations', now(first, second), index, pts)
          /\ assignments' = assignments \union
               {<<Last(now(first, second)[t].seen), t>> : t \in
                  {u \in InState(now(first, second), {"tracked"}) :
                     observations'[Last(now(first, second)[u].seen)].frame = index}}
    BY <2>5 DEF Rounds
  <2>4. PICK first \in Matchings(InState(kept, {"tracked", "lost"}), high) :
        \E second \in Matchings(InState(kept, {"tracked"}) \ Matched(first), dets \ high) :
          /\ tracklets' = Expired(observations', now(first, second), index, pts)
          /\ assignments' = assignments \union
               {<<Last(now(first, second)[t].seen), t>> : t \in
                  {u \in InState(now(first, second), {"tracked"}) :
                     observations'[Last(now(first, second)[u].seen)].frame = index}}
    BY <2>1
  <2>2. PICK second \in Matchings(InState(kept, {"tracked"}) \ Matched(first), dets \ high) :
          /\ tracklets' = Expired(observations', now(first, second), index, pts)
          /\ assignments' = assignments \union
               {<<Last(now(first, second)[t].seen), t>> : t \in
                  {u \in InState(now(first, second), {"tracked"}) :
                     observations'[Last(now(first, second)[u].seen)].frame = index}}
    BY <2>4
  <2>3. Associates(dets, high, kept, first, second, fresh(first), now(first, second),
                   index, pts, cut)
    BY <2>2 DEF Associates
  <2> QED BY <2>3
<1>7. Links(index, pts, cut) /\ Notes(index)
  <2>1. PICK dets, high, kept, first, second, fresh, now :
           Associates(dets, high, kept, first, second, fresh, now, index, pts, cut)
    BY <1>6
  <2> QED BY <2>1, <1>1, <1>5, UpdateLinks
<1>8. TracksFrame(index, pts, cut)
  BY <1>5, <1>7 DEF TracksFrame
<1> QED BY <1>4, <1>8, TracksKept

\* All tracklets are given up, and keep what they have seen.
LEMMA FinalizeKeeps ==
  ASSUME TracksInv, Finalize
  PROVE  TracksInv'
<1>1. /\ TracksTyped /\ ObservationsDated /\ HistoriesPlaced /\ NothingShared
      /\ NewOnesOwned /\ ReturnsInTime /\ AssignmentsAgree
  BY DEF TracksInv
<1>2. /\ tracklets \in Seq(Histories)
      /\ tracklets' = [t \in DOMAIN tracklets |-> [tracklets[t] EXCEPT !.state = "removed"]]
      /\ UNCHANGED <<frames, observations, assignments>> /\ phase' = "templates"
  BY <1>1 DEF Finalize, Closed, TracksTyped
<1>3. \A t \in DOMAIN tracklets : /\ tracklets'[t] \in Histories
                                  /\ tracklets'[t].seen = tracklets[t].seen
                                  /\ tracklets'[t].state = "removed"
  <2> TAKE t \in DOMAIN tracklets
  <2>1. tracklets[t] \in Histories /\ tracklets'[t] = [tracklets[t] EXCEPT !.state = "removed"]
    BY <1>2
  <2> QED BY <2>1 DEF Histories
<1>4. DOMAIN tracklets' = DOMAIN tracklets
  BY <1>2
<1>5. tracklets' \in Seq(Histories)
  <2>1. Len(tracklets) \in Nat /\ DOMAIN tracklets = 1..Len(tracklets)
    BY <1>2, Indexed
  <2>2. tracklets' \in [1..Len(tracklets) -> Histories]
    BY <2>1, <1>2, <1>3
  <2> QED BY <2>1, <2>2
<1>6. TracksTyped'
  BY <1>1, <1>2, <1>5 DEF TracksTyped
<1>7. ObservationsDated' /\ OthersGivenUp'
  BY <1>1, <1>2, <1>3, <1>4 DEF ObservationsDated, OthersGivenUp
<1>8. HistoriesPlaced' /\ NothingShared'
  <2>1. HistoriesPlaced'
    BY <1>1, <1>2, <1>3, <1>4 DEF HistoriesPlaced
  <2>2. NothingShared'
    <3> SUFFICES ASSUME NEW t \in DOMAIN tracklets, NEW u \in DOMAIN tracklets,
                        NEW i \in DOMAIN tracklets[t].seen, NEW k \in DOMAIN tracklets[u].seen,
                        tracklets[t].seen[i] = tracklets[u].seen[k]
                 PROVE  t = u
      BY <1>3, <1>4 DEF NothingShared
    <3> QED BY <1>1 DEF NothingShared
  <2> QED BY <2>1, <2>2
<1>9. NewOnesOwned'
  BY <1>1, <1>2, <1>3, <1>4 DEF NewOnesOwned
<1>10. ReturnsInTime'
  <2> SUFFICES ASSUME NEW t \in DOMAIN tracklets, NEW i \in 1..(Len(tracklets[t].seen) - 1)
               PROVE  Returned(observations[tracklets[t].seen[i]],
                               observations[tracklets[t].seen[i + 1]], frames)
    BY <1>2, <1>3, <1>4 DEF ReturnsInTime
  <2> QED BY <1>1 DEF ReturnsInTime
<1>11. AssignmentsAgree'
  <2>1. \A a \in (DOMAIN observations) \X (DOMAIN tracklets) :
          tracklets'[a[2]].seen = tracklets[a[2]].seen
    BY <1>3
  <2> QED BY <2>1, <1>1, <1>2, <1>4 DEF AssignmentsAgree
<1> QED BY <1>6, <1>7, <1>8, <1>9, <1>10, <1>11 DEF TracksInv

\* The later stages leave the tracker's records alone.
LEMMA LaterKeeps ==
  ASSUME TracksInv, UNCHANGED <<frames, observations, tracklets, assignments>>,
         phase' \in {"track", "templates", "reconcile", "aggregate", "done"}
  PROVE  TracksInv'
<1>1. TracksTyped'
  BY DEF TracksInv, TracksTyped
<1>2. /\ ObservationsDated' /\ HistoriesPlaced' /\ NothingShared' /\ NewOnesOwned'
      /\ ReturnsInTime'
  BY DEF TracksInv, ObservationsDated, HistoriesPlaced, NothingShared, NewOnesOwned,
     ReturnsInTime
<1>3. OthersGivenUp' /\ AssignmentsAgree'
  BY DEF TracksInv, OthersGivenUp, AssignmentsAgree, LastSeen
<1> QED BY <1>1, <1>2, <1>3 DEF TracksInv

LEMMA TracksBegin == Init => TracksInv
<1> SUFFICES ASSUME Init PROVE TracksInv
  OBVIOUS
<1>1. /\ phase = "track" /\ frames = <<>> /\ observations = <<>> /\ tracklets = <<>>
      /\ assignments = {}
  BY DEF Init
<1>2. TracksTyped
  BY <1>1 DEF TracksTyped
<1>3. DOMAIN observations = {} /\ DOMAIN tracklets = {}
  BY <1>1
<1> QED BY <1>1, <1>2, <1>3 DEF TracksInv, ObservationsDated, HistoriesPlaced, NothingShared,
     NewOnesOwned, OthersGivenUp, ReturnsInTime, AssignmentsAgree

\* The tracker's records belong together in every state, for videos of any
\* length, any scenes and any timeouts: whatever the assignment matches, an
\* observation is in one history at most, a tracklet that is not given up was
\* last seen since the last cut and within both timeouts of the frame before,
\* and the assignments the replay wrote are those of the histories.
THEOREM TracksStayInOrder == Spec => []TracksInv
<1>1. TracksInv /\ [Next]_vars => TracksInv'
  <2> SUFFICES ASSUME TracksInv, [Next]_vars PROVE TracksInv'
    OBVIOUS
  <2>1. ASSUME NEW scene \in Scenes, NEW step \in Clock, NEW cut \in BOOLEAN,
               Update(scene, step, cut)
        PROVE  TracksInv'
    BY <2>1, UpdateKeeps
  <2>2. CASE Finalize
    BY <2>2, FinalizeKeeps
  <2>3. CASE BuildTemplates
    BY <2>3, LaterKeeps DEF BuildTemplates
  <2>4. CASE Reconcile
    BY <2>4, LaterKeeps DEF Reconcile
  <2>5. CASE Aggregate
    BY <2>5, LaterKeeps DEF Aggregate
  <2>6. CASE UNCHANGED vars
    <3>1. phase \in {"track", "templates", "reconcile", "aggregate", "done"}
      BY DEF TracksInv, TracksTyped
    <3> QED BY <2>6, <3>1, LaterKeeps DEF vars
  <2> QED BY <2>1, <2>2, <2>3, <2>4, <2>5, <2>6 DEF Next
<1> QED BY <1>1, TracksBegin, PTL DEF Spec

\* What the histories and the assignments tell is the same and is sound: no
\* observation is in two tracklets, one that starts a tracklet is in one, and a
\* tracklet never goes on over a scene cut or after it had timed out.
THEOREM TrackletsStaySound == Spec => []TrackletsSound
<1>1. TracksInv => TrackletsSound
  <2> SUFFICES ASSUME TracksInv PROVE TrackletsSound
    OBVIOUS
  <2>1. /\ TracksTyped /\ HistoriesPlaced /\ NothingShared /\ NewOnesOwned
        /\ ReturnsInTime /\ AssignmentsAgree
    BY DEF TracksInv
  <2>2. \A o \in DOMAIN observations, t \in DOMAIN tracklets :
          <<o, t>> \in assignments <=>
            \E i \in DOMAIN tracklets[t].seen : tracklets[t].seen[i] = o
    BY <2>1 DEF AssignmentsAgree, ToSet
  <2>3. ASSUME NEW o \in DOMAIN observations
        PROVE  LET owners == {t \in DOMAIN tracklets : <<o, t>> \in assignments}
               IN  /\ Cardinality(owners) <= 1
                   /\ observations[o].eligible /\ observations[o].score = "new" => owners # {}
    <3> DEFINE owners == {t \in DOMAIN tracklets : <<o, t>> \in assignments}
    <3>1. \A t, u \in owners : t = u
      BY <2>1, <2>2 DEF NothingShared
    <3>2. Cardinality(owners) <= 1
      <4> HIDE DEF owners
      <4>1. CASE owners = {}
        BY <4>1, FS_EmptySet
      <4>2. CASE owners # {}
        <5>1. PICK t \in owners : TRUE
          BY <4>2
        <5>2. owners = {t}
          BY <3>1, <5>1
        <5>3. Cardinality({t}) = 1
          BY FS_Singleton
        <5> QED BY <5>2, <5>3
      <4> QED BY <4>1, <4>2
    <3>3. observations[o].eligible /\ observations[o].score = "new" => owners # {}
      <4> SUFFICES ASSUME observations[o].eligible, observations[o].score = "new"
                   PROVE  \E t \in DOMAIN tracklets : <<o, t>> \in assignments
        OBVIOUS
      <4>1. PICK t \in DOMAIN tracklets : o \in ToSet(tracklets[t].seen)
        BY <2>1 DEF NewOnesOwned
      <4> QED BY <4>1, <2>2 DEF ToSet
    <3> QED BY <3>2, <3>3
  <2>4. \A t \in DOMAIN tracklets : \A i \in 1..(Len(tracklets[t].seen) - 1) :
          LET a == observations[tracklets[t].seen[i]]
              b == observations[tracklets[t].seen[i + 1]]
          IN  /\ a.frame < b.frame
              /\ \A f \in (a.frame + 1)..b.frame : ~frames[f + 1].cut
              /\ b.frame - 1 - a.frame <= MaxLostFrames
              /\ frames[b.frame].pts - a.pts <= MaxLostNs
    BY <2>1 DEF ReturnsInTime, Returned
  <2> QED BY <2>1, <2>3, <2>4 DEF TrackletsSound, AssignmentsAgree
<1> QED BY <1>1, TracksStayInOrder, PTL

-----------------------------------------------------------------------------
(* Orders, places and lists computed step by step, which the proofs about   *)
(* persons and reports need.                                                *)

\* In a strict order of a finite set, each place is somebody's and everybody
\* has one.
LEMMA Places ==
  ASSUME NEW S, IsFiniteSet(S), NEW before \in [S -> SUBSET S],
         \A i \in S : i \notin before[i],
         \A i \in S : \A j \in before[i] : before[j] \subseteq before[i],
         \A i, j \in S : i # j => i \in before[j] \/ j \in before[i]
  PROVE  /\ Cardinality(S) \in Nat
         /\ \A n \in 1..Cardinality(S) : AtPlace(before, n) \in S
         /\ \A i \in S : \E n \in 1..Cardinality(S) : AtPlace(before, n) = i
         /\ \A n, m \in 1..Cardinality(S) :
              n < m => AtPlace(before, n) \in before[AtPlace(before, m)]
<1> DEFINE k == Cardinality(S)
           rank == [i \in S |-> Cardinality(before[i]) + 1]
<1>1. k \in Nat  BY FS_CardinalityType
<1>2. \A i \in S : /\ IsFiniteSet(before[i]) /\ Cardinality(before[i]) \in Nat
                   /\ Cardinality(before[i]) < k
  <2> SUFFICES ASSUME NEW i \in S
               PROVE  /\ IsFiniteSet(before[i]) /\ Cardinality(before[i]) \in Nat
                      /\ Cardinality(before[i]) < k
    OBVIOUS
  <2>1. before[i] \in SUBSET S /\ before[i] # S  OBVIOUS
  <2>2. IsFiniteSet(before[i]) /\ Cardinality(before[i]) <= k
          /\ Cardinality(before[i]) # k  BY <2>1, FS_Subset
  <2>3. Cardinality(before[i]) \in Nat  BY <2>2, FS_CardinalityType
  <2> QED  BY <1>1, <2>2, <2>3
<1>3. ASSUME NEW i \in S, NEW j \in S, j \in before[i]
      PROVE  Cardinality(before[j]) < Cardinality(before[i])
  <2>1. before[j] \in SUBSET before[i] /\ before[j] # before[i]  BY <1>3
  <2>2. IsFiniteSet(before[i])  BY <1>2
  <2>3. Cardinality(before[j]) <= Cardinality(before[i])
          /\ Cardinality(before[j]) # Cardinality(before[i])  BY <2>1, <2>2, FS_Subset
  <2> QED  BY <2>3, <1>2
<1>4. rank \in Injection(S, 1..k)
  <2>1. rank \in [S -> 1..k]  BY <1>1, <1>2
  <2>2. \A i, j \in S : rank[i] = rank[j] => i = j
    <3> SUFFICES ASSUME NEW i \in S, NEW j \in S, rank[i] = rank[j], i # j PROVE FALSE
      OBVIOUS
    <3>1. Cardinality(before[i]) = Cardinality(before[j])  BY <1>2
    <3> QED  BY <3>1, <1>2, <1>3
  <2> HIDE DEF rank, k
  <2> QED  BY <2>1, <2>2 DEF Injection, IsInjective
<1>5. rank \in Surjection(S, 1..k)
  <2>1. IsFiniteSet(1..k) /\ Cardinality(1..k) = k  BY <1>1, FS_Interval
  <2> HIDE DEF rank
  <2> QED  BY <1>4, <2>1, FS_Injection
<1>6. \A n \in 1..k : /\ AtPlace(before, n) \in S
                      /\ Cardinality(before[AtPlace(before, n)]) = n - 1
  <2> SUFFICES ASSUME NEW n \in 1..k
               PROVE  /\ AtPlace(before, n) \in S
                      /\ Cardinality(before[AtPlace(before, n)]) = n - 1
    OBVIOUS
  <2>1. PICK i \in S : rank[i] = n
    <3> HIDE DEF rank, k
    <3> QED  BY <1>5 DEF Surjection
  <2>2. Cardinality(before[i]) = n - 1  BY <2>1, <1>2
  <2>3. DOMAIN before = S  OBVIOUS
  <2>4. \E j \in DOMAIN before : Cardinality(before[j]) = n - 1  BY <2>2, <2>3
  <2> QED  BY <2>3, <2>4 DEF AtPlace
<1>7. \A i \in S : \E n \in 1..k : AtPlace(before, n) = i
  <2> SUFFICES ASSUME NEW i \in S PROVE \E n \in 1..k : AtPlace(before, n) = i  OBVIOUS
  <2> DEFINE j == AtPlace(before, rank[i])
  <2>1. rank[i] \in 1..k  BY <1>1, <1>2
  <2>2. j \in S /\ Cardinality(before[j]) = rank[i] - 1  BY <1>6, <2>1
  <2>3. Cardinality(before[j]) = Cardinality(before[i])  BY <2>2, <1>2
  <2> HIDE DEF j
  <2>4. j = i  BY <2>2, <2>3, <1>2, <1>3
  <2> QED  BY <2>1, <2>4 DEF j
<1>8. \A n, m \in 1..k : n < m => AtPlace(before, n) \in before[AtPlace(before, m)]
  <2> SUFFICES ASSUME NEW n \in 1..k, NEW m \in 1..k, n < m
               PROVE  AtPlace(before, n) \in before[AtPlace(before, m)]
    OBVIOUS
  <2>1. /\ AtPlace(before, n) \in S /\ Cardinality(before[AtPlace(before, n)]) = n - 1
        /\ AtPlace(before, m) \in S /\ Cardinality(before[AtPlace(before, m)]) = m - 1
    BY <1>6
  <2>2. n - 1 < m - 1  OBVIOUS
  <2> HIDE DEF k
  <2>3. AtPlace(before, n) # AtPlace(before, m)  BY <2>1, <2>2
  <2>4. ~(AtPlace(before, m) \in before[AtPlace(before, n)])
    <3> SUFFICES ASSUME AtPlace(before, m) \in before[AtPlace(before, n)] PROVE FALSE  OBVIOUS
    <3>1. m - 1 < n - 1  BY <1>3, <2>1
    <3>2. n \in Nat /\ m \in Nat  BY DEF k
    <3> QED  BY <3>1, <3>2
  <2> QED  BY <2>1, <2>3, <2>4
<1> QED  BY <1>1, <1>6, <1>7, <1>8

\* A finite set of numbers has a greatest element: of the sets of what lies
\* above an element, a smallest one is empty.
LEMMA Greatest ==
  ASSUME NEW T \in SUBSET Nat, IsFiniteSet(T), T # {}
  PROVE  \E m \in T : \A n \in T : n <= m
<1> DEFINE Above(m) == {n \in T : m < n}
           Tails == {Above(m) : m \in T}
           R == StrictSubsetOrdering(T)
<1>1. IsWellFoundedOn(R, FiniteSubsetsOf(T))  BY FS_StrictSubsetOrderingWellFounded
<1>2. FiniteSubsetsOf(T) = SUBSET T  BY FS_FiniteSubsetsOfFinite
<1>3. Tails \subseteq SUBSET T /\ Tails # {}  OBVIOUS
<1> HIDE DEF R, Tails
<1>4. PICK U \in Tails : \A V \in Tails : ~(<<V, U>> \in R)
  <2>1. Tails \subseteq FiniteSubsetsOf(T)  BY <1>2, <1>3
  <2> QED  BY <1>1, <1>3, <2>1, WFMin
<1>5. PICK m \in T : U = Above(m)  BY <1>4 DEF Tails
<1>6. Above(m) = {}
  <2> SUFFICES ASSUME NEW n \in T, m < n PROVE FALSE  OBVIOUS
  <2>1. \A q \in T : n < q => m < q  OBVIOUS
  <2>2. Above(n) \subseteq Above(m)  BY <2>1
  <2>3. n \in Above(m) /\ n \notin Above(n)  OBVIOUS
  <2>4. Above(n) \in Tails  BY DEF Tails
  <2>5. <<Above(n), Above(m)>> \in R  BY <2>2, <2>3 DEF R, StrictSubsetOrdering
  <2> QED  BY <2>4, <2>5, <1>4, <1>5
<1> QED  BY <1>6

\* What holds at 0 and is passed on from each number to the next holds up to
\* the last one.
LEMMA Climb ==
  ASSUME NEW len \in Nat, NEW T \in SUBSET (0..len), 0 \in T,
         \A n \in T : n < len => n + 1 \in T
  PROVE  \A n \in 0..len : n \in T
<1> DEFINE Run(m) == \A n \in 0..m : n \in T
           R == {m \in 0..len : Run(m)}
<1>1. R \in SUBSET Nat /\ IsFiniteSet(R)
  <2>1. R \in SUBSET (0..len) /\ 0..len \subseteq Nat  OBVIOUS
  <2>2. IsFiniteSet(0..len)  BY FS_Interval
  <2> HIDE DEF R
  <2> QED  BY <2>1, <2>2, FS_Subset
<1>2. 0 \in R  OBVIOUS
<1>3. PICK m \in R : \A k \in R : k <= m
  <2> HIDE DEF R
  <2> QED  BY <1>1, <1>2, Greatest
<1>4. m \in 0..len /\ Run(m)  BY <1>3
<1>5. ASSUME m < len PROVE FALSE
  <2>1. m \in T /\ m + 1 \in T  BY <1>4, <1>5
  <2>2. Run(m + 1)  BY <1>4, <2>1
  <2>3. m + 1 \in R  BY <1>4, <1>5, <2>2
  <2> QED  BY <1>3, <1>4, <2>3
<1> QED  BY <1>4, <1>5

\* Whatever is computed step by step over the positions of a list exists.
Stepwise(A, init, len, step) == init \in A /\ len \in Nat /\ step \in [1..len -> [A -> A]]
Course(A, init, len, step, f) ==
  f \in [0..len -> A] /\ f[0] = init /\ \A n \in 1..len : f[n] = step[n][f[n - 1]]

LEMMA Recursion ==
  ASSUME NEW A, NEW init, NEW len, NEW step, Stepwise(A, init, len, step)
  PROVE  \E f : Course(A, init, len, step, f)
<1> USE DEF Stepwise
<1> DEFINE Upto(m, f) == f[0] = init /\ \A n \in 1..m : f[n] = step[n][f[n - 1]]
           T == {m \in 0..len : \E f \in [0..len -> A] : Upto(m, f)}
<1>1. 0 \in T
  <2>1. Upto(0, [n \in 0..len |-> init])  OBVIOUS
  <2>2. [n \in 0..len |-> init] \in [0..len -> A]  OBVIOUS
  <2> HIDE DEF Upto
  <2> QED  BY <2>1, <2>2
<1>2. ASSUME NEW m \in T, m < len PROVE m + 1 \in T
  <2>1. m \in 0..len /\ m + 1 \in 1..len /\ m + 1 \in 0..len  BY <1>2
  <2>2. PICK f \in [0..len -> A] : Upto(m, f)  BY <1>2
  <2> DEFINE g == [f EXCEPT ![m + 1] = step[m + 1][f[m]]]
  <2>3. f[m] \in A /\ step[m + 1][f[m]] \in A  BY <2>1
  <2>4. g \in [0..len -> A]  BY <2>3
  <2>5. \A n \in 0..m : g[n] = f[n]  BY <2>1
  <2>6. g[m + 1] = step[m + 1][f[m]]  BY <2>1
  <2> HIDE DEF g
  <2>7. ASSUME NEW n \in 1..(m + 1) PROVE g[n] = step[n][g[n - 1]]
    <3>1. CASE n = m + 1
      <4>1. n - 1 = m /\ m \in 0..m  BY <2>1, <3>1
      <4> QED  BY <3>1, <4>1, <2>5, <2>6
    <3>2. CASE n \in 1..m
      <4>1. n - 1 \in 0..m /\ n \in 0..m  BY <3>2
      <4> QED  BY <3>2, <4>1, <2>2, <2>5
    <3> QED  BY <2>1, <3>1, <3>2
  <2>8. g[0] = init  BY <2>1, <2>2, <2>5
  <2>9. Upto(m + 1, g)  BY <2>7, <2>8
  <2> QED  BY <2>1, <2>4, <2>9
<1>3. T \in SUBSET (0..len)  OBVIOUS
<1>4. len \in T
  <2> HIDE DEF T
  <2>1. \A n \in 0..len : n \in T  BY <1>1, <1>2, <1>3, Climb
  <2>2. len \in 0..len  OBVIOUS
  <2> QED  BY <2>1, <2>2
<1> QED  BY <1>4 DEF Course

\* A set of numbers that is not empty has a least element.
LEMMA Least ==
  ASSUME NEW T \in SUBSET Nat, T # {}
  PROVE  \E m \in T : \A n \in T : m <= n
<1>1. SUFFICES ASSUME ~\E m \in T : \A n \in T : m <= n PROVE FALSE  OBVIOUS
<1>2. PICK b \in T : TRUE  OBVIOUS
<1> DEFINE L == {n \in 0..b : \A k \in T : n <= k}
<1>3. 0 \in L  OBVIOUS
<1>4. ASSUME NEW n \in L, n < b PROVE n + 1 \in L
  <2>1. n \in Nat /\ n + 1 \in 0..b /\ \A k \in T : n <= k  BY <1>4
  <2>2. n \notin T  BY <1>1, <2>1
  <2>3. \A k \in T : n # k /\ k \in Nat  BY <2>2
  <2>4. \A k \in T : n + 1 <= k  BY <2>1, <2>3
  <2> QED  BY <2>1, <2>4
<1>5. \A n \in 0..b : n \in L
  <2>1. b \in Nat /\ L \in SUBSET (0..b)  OBVIOUS
  <2> HIDE DEF L
  <2> QED  BY <1>3, <1>4, <2>1, Climb
<1>6. b \in L  BY <1>5
<1> QED  BY <1>1, <1>2, <1>6

-----------------------------------------------------------------------------
(* LabTracks: what reconciliation makes of the tracklets.                   *)

\* A strict order of S.
Orders(S, before) ==
  /\ IsFiniteSet(S) /\ before \in [S -> SUBSET S]
  /\ \A i \in S : i \notin before[i]
  /\ \A i \in S : \A j \in before[i] : before[j] \subseteq before[i]
  /\ \A i, j \in S : i # j => i \in before[j] \/ j \in before[i]

\* In a strict order of S each place is somebody's and everybody has one.
LEMMA OrderedPlaces ==
  ASSUME NEW S, NEW before, Orders(S, before)
  PROVE  /\ Cardinality(S) \in Nat
         /\ \A n \in 1..Cardinality(S) : AtPlace(before, n) \in S
         /\ \A x \in S : \E n \in 1..Cardinality(S) : AtPlace(before, n) = x
         /\ \A n, m \in 1..Cardinality(S) :
              n < m => AtPlace(before, n) \in before[AtPlace(before, m)]
BY Places DEF Orders

\* Ranked lists every member once, in the order given.
LEMMA RankedAll ==
  ASSUME NEW S, NEW before, Orders(S, before)
  PROVE  /\ Cardinality(S) \in Nat /\ DOMAIN Ranked(before) = 1..Cardinality(S)
         /\ \A n \in 1..Cardinality(S) : Ranked(before)[n] \in S
         /\ \A x \in S : \E n \in 1..Cardinality(S) : Ranked(before)[n] = x
         /\ \A n, m \in 1..Cardinality(S) :
              n < m => Ranked(before)[n] \in before[Ranked(before)[m]]
<1>1. DOMAIN before = S
  BY DEF Orders
<1>2. /\ Cardinality(S) \in Nat
      /\ \A n \in 1..Cardinality(S) : AtPlace(before, n) \in S
      /\ \A x \in S : \E n \in 1..Cardinality(S) : AtPlace(before, n) = x
      /\ \A n, m \in 1..Cardinality(S) :
           n < m => AtPlace(before, n) \in before[AtPlace(before, m)]
  BY OrderedPlaces
<1>3. Ranked(before) = [n \in 1..Cardinality(S) |-> AtPlace(before, n)]
  BY <1>1 DEF Ranked
<1> QED BY <1>2, <1>3

\* Lists of tracklets that may be persons: every tracklet is in one of them, and
\* two of a list are alike and never seen in one frame.
Grouped(lists) ==
  /\ IsFiniteSet(lists)
  /\ \A l \in lists : ToSet(l) \subseteq DOMAIN tracklets /\ ToSet(l) # {}
  /\ \A t \in DOMAIN tracklets : \E l \in lists : t \in ToSet(l)
  /\ \A l, m \in lists : l # m => ToSet(l) \intersect ToSet(m) = {}
  /\ \A l \in lists : \A x, y \in ToSet(l) : x # y => ~CannotLink(x, y) /\ Alike(x, y)

Lists == Seq(DOMAIN tracklets)

\* One list behind the other has the elements of both.
LEMMA JoinedAll ==
  ASSUME NEW S, NEW s \in Seq(S), NEW t \in Seq(S)
  PROVE  s \o t \in Seq(S) /\ ToSet(s \o t) = ToSet(s) \union ToSet(t)
<1>1. /\ s \o t \in Seq(S)
      /\ Len(s) \in Nat /\ Len(t) \in Nat /\ Len(s \o t) = Len(s) + Len(t)
      /\ \A i \in 1..Len(s) : (s \o t)[i] = s[i]
      /\ \A i \in 1..Len(t) : (s \o t)[Len(s) + i] = t[i]
  BY Concatenated
<1>2. /\ DOMAIN s = 1..Len(s) /\ DOMAIN t = 1..Len(t)
      /\ DOMAIN (s \o t) = 1..(Len(s) + Len(t))
  <2>1. DOMAIN (s \o t) = 1..Len(s \o t)
    BY <1>1, Indexed
  <2> QED BY <1>1, <2>1, Indexed
<1> DEFINE k == Len(s)
           n == Len(t)
           w == s \o t
<1> HIDE DEF k, n, w
<1>3. /\ k \in Nat /\ n \in Nat
      /\ DOMAIN s = 1..k /\ DOMAIN t = 1..n /\ DOMAIN w = 1..(k + n)
      /\ \A i \in 1..k : w[i] = s[i]
      /\ \A i \in 1..n : w[k + i] = t[i]
  BY <1>1, <1>2 DEF k, n, w
<1>4. ASSUME NEW i \in 1..(k + n) PROVE w[i] \in ToSet(s) \union ToSet(t)
  <2>1. CASE i \in 1..k
    BY <2>1, <1>3 DEF ToSet
  <2>2. CASE i \notin 1..k
    <3>1. i - k \in 1..n /\ k + (i - k) = i
      BY <1>3, <1>4, <2>2
    <3>2. w[k + (i - k)] = t[i - k]
      BY <1>3, <3>1
    <3>3. w[i] = t[i - k]
      BY <3>1, <3>2
    <3> QED BY <3>1, <3>3, <1>3 DEF ToSet
  <2> QED BY <2>1, <2>2
<1>5. \A i \in 1..k : i \in 1..(k + n)
  BY <1>3
<1>6. \A i \in 1..n : k + i \in 1..(k + n)
  BY <1>3
<1>7. ToSet(s) \subseteq ToSet(w)
  BY <1>3, <1>5 DEF ToSet
<1>8. ToSet(t) \subseteq ToSet(w)
  BY <1>3, <1>6 DEF ToSet
<1>9. ToSet(w) \subseteq ToSet(s) \union ToSet(t)
  BY <1>3, <1>4 DEF ToSet
<1> QED BY <1>1, <1>7, <1>8, <1>9 DEF w

\* An edge that merges two lists leaves lists that may be persons.
LEMMA MergeKeeps ==
  ASSUME NEW lists, lists \subseteq Lists, Grouped(lists), NEW edge
  PROVE  Merge(lists, edge) \subseteq Lists /\ Grouped(Merge(lists, edge))
<1> DEFINE joined == {p \in lists \X lists :
                        /\ p[1] # p[2] /\ edge[1] \in ToSet(p[1]) /\ edge[2] \in ToSet(p[2])
                        /\ MayMerge(ToSet(p[1]), ToSet(p[2]))}
           pair == CHOOSE p \in joined : TRUE
           a == pair[1]
           b == pair[2]
           whole == a \o b
           merged == (lists \ {a, b}) \union {whole}
<1>1. CASE joined = {}
  BY <1>1 DEF Merge
<1>2. CASE joined # {}
  <2>1. Merge(lists, edge) = merged
    BY <1>2 DEF Merge
  <2>2. pair \in joined
    BY <1>2
  <2>3. a \in lists /\ b \in lists /\ a # b /\ MayMerge(ToSet(a), ToSet(b))
    BY <2>2
  <2> HIDE DEF joined, pair, a, b
  <2>4. \A x \in ToSet(a), y \in ToSet(b) : ~CannotLink(x, y) /\ Alike(x, y)
    BY <2>3 DEF MayMerge
  <2>5. \A x \in ToSet(b), y \in ToSet(a) : ~CannotLink(x, y) /\ Alike(x, y)
    <3>1. \A x, y : CannotLink(x, y) => CannotLink(y, x)
      BY DEF CannotLink
    <3>2. \A x \in ToSet(b), y \in ToSet(a) : ~CannotLink(x, y)
      BY <2>4, <3>1
    <3>3. ASSUME NEW x \in ToSet(b), NEW y \in ToSet(a) PROVE Alike(x, y)
      <4>1. Alike(y, x)
        BY <2>4
      <4>2. {x, y} = {y, x}
        OBVIOUS
      <4> QED BY <4>1, <4>2 DEF Alike, PairCosine
    <3> QED BY <3>2, <3>3
  <2>6. whole \in Lists /\ ToSet(whole) = ToSet(a) \union ToSet(b)
    BY <2>3, JoinedAll DEF Lists
  <2> HIDE DEF whole
  <2>7. merged \subseteq Lists
    BY <2>6
  <2>8. IsFiniteSet(merged)
    <3>1. IsFiniteSet(lists \ {a, b}) /\ IsFiniteSet({whole})
      BY FS_Subset, FS_Singleton DEF Grouped
    <3> QED BY <3>1, FS_Union
  <2>9. ASSUME NEW l \in merged PROVE ToSet(l) \subseteq DOMAIN tracklets /\ ToSet(l) # {}
    BY <2>3, <2>6 DEF Grouped
  <2>10. ASSUME NEW t \in DOMAIN tracklets PROVE \E l \in merged : t \in ToSet(l)
    <3>1. PICK l \in lists : t \in ToSet(l)
      BY DEF Grouped
    <3> QED BY <3>1, <2>6
  <2>11. \A l, m \in merged : l # m => ToSet(l) \intersect ToSet(m) = {}
    <3>1. \A l \in lists \ {a, b} : ToSet(l) \intersect ToSet(whole) = {}
      BY <2>3, <2>6 DEF Grouped
    <3> QED BY <3>1 DEF Grouped
  <2>12. ASSUME NEW l \in merged, NEW x \in ToSet(l), NEW y \in ToSet(l), x # y
         PROVE  ~CannotLink(x, y) /\ Alike(x, y)
    <3>1. CASE l \in lists
      BY <3>1, <2>12 DEF Grouped
    <3>2. CASE l = whole
      <4>1. (x \in ToSet(a) \/ x \in ToSet(b)) /\ (y \in ToSet(a) \/ y \in ToSet(b))
        BY <3>2, <2>6
      <4>2. CASE x \in ToSet(a) /\ y \in ToSet(a)
        BY <4>2, <2>3, <2>12 DEF Grouped
      <4>3. CASE x \in ToSet(b) /\ y \in ToSet(b)
        BY <4>3, <2>3, <2>12 DEF Grouped
      <4>4. CASE x \in ToSet(a) /\ y \in ToSet(b)
        BY <4>4, <2>4
      <4>5. CASE x \in ToSet(b) /\ y \in ToSet(a)
        BY <4>5, <2>5
      <4> QED BY <4>1, <4>2, <4>3, <4>4, <4>5
    <3> QED BY <3>1, <3>2
  <2> HIDE DEF merged
  <2>13. Grouped(merged)
    BY <2>8, <2>9, <2>10, <2>11, <2>12 DEF Grouped
  <2> QED BY <2>1, <2>7, <2>13
<1> QED BY <1>1, <1>2

\* So do all edges, one after the other, from every tracklet on its own.
LEMMA MergedGrouped ==
  ASSUME TracksTyped
  PROVE  Merged \subseteq Lists /\ Grouped(Merged)
<1> DEFINE single == {<<t>> : t \in DOMAIN tracklets}
           pairs == {e \in (DOMAIN tracklets) \X (DOMAIN tracklets) :
                       e[1] < e[2] /\ ~CannotLink(e[1], e[2]) /\ Alike(e[1], e[2])}
           edges == Edges
           len == Len(edges)
           A == {g \in SUBSET Lists : Grouped(g)}
           step == [n \in 1..len |-> [g \in A |-> Merge(g, edges[n])]]
           Unrolls(after) ==
             after = [n \in 0..len |-> IF n = 0 THEN single ELSE Merge(after[n - 1], edges[n])]
           after == CHOOSE after : Unrolls(after)
<1>1. Merged = after[len]
  BY DEF Merged
<1>2. len \in Nat
  <2>1. IsFiniteSet(DOMAIN tracklets)
    <3>1. DOMAIN tracklets = 1..Len(tracklets) /\ Len(tracklets) \in Nat
      BY Indexed DEF TracksTyped
    <3> QED BY <3>1, FS_Interval
  <2>2. IsFiniteSet((DOMAIN tracklets) \X (DOMAIN tracklets))
    BY <2>1, FS_Product
  <2>3. pairs \subseteq (DOMAIN tracklets) \X (DOMAIN tracklets)
    OBVIOUS
  <2>4. Cardinality(pairs) \in Nat
    BY <2>2, <2>3, FS_Subset, FS_CardinalityType
  <2>5. edges = Ranked([e \in pairs |-> {f \in pairs : Better(f, e)}])
    BY DEF Edges
  <2> HIDE DEF pairs
  <2>6. edges = [n \in 1..Cardinality(pairs) |->
                   AtPlace([e \in pairs |-> {f \in pairs : Better(f, e)}], n)]
    BY <2>5 DEF Ranked
  <2> HIDE DEF edges
  <2> DEFINE k == Cardinality(pairs)
             U == {edges[n] : n \in 1..k}
  <2>7. edges = [n \in 1..k |-> edges[n]]
    BY <2>6
  <2>8. edges \in [1..k -> U]
    BY <2>7
  <2> HIDE DEF k, U
  <2>9. edges \in Seq(U)
    BY <2>4, <2>8 DEF k
  <2> QED BY <2>9
<1>3. single \in A
  <2>1. \A t \in DOMAIN tracklets : <<t>> \in Lists /\ ToSet(<<t>>) = {t}
    BY DEF Lists, ToSet
  <2>2. IsFiniteSet(single)
    <3>1. DOMAIN tracklets = 1..Len(tracklets) /\ Len(tracklets) \in Nat
      BY Indexed DEF TracksTyped
    <3>2. IsFiniteSet(DOMAIN tracklets)
      BY <3>1, FS_Interval
    <3> DEFINE f == [t \in DOMAIN tracklets |-> <<t>>]
    <3>3. f \in Surjection(DOMAIN tracklets, single)
      BY DEF Surjection
    <3> QED BY <3>2, <3>3, FS_Surjection
  <2>3. ASSUME NEW l \in single PROVE \E t \in DOMAIN tracklets : ToSet(l) = {t}
    BY <2>1
  <2>4. \A l, m \in single : l # m => ToSet(l) \intersect ToSet(m) = {}
    BY <2>1
  <2>5. \A t \in DOMAIN tracklets : <<t>> \in single /\ t \in ToSet(<<t>>)
    BY <2>1
  <2>6. single \subseteq Lists
    BY <2>1
  <2> HIDE DEF single
  <2>7. \A l \in single : ToSet(l) \subseteq DOMAIN tracklets /\ ToSet(l) # {}
    BY <2>3
  <2>8. \A t \in DOMAIN tracklets : \E l \in single : t \in ToSet(l)
    BY <2>5
  <2>9. \A l \in single : \A x, y \in ToSet(l) : x # y => ~CannotLink(x, y) /\ Alike(x, y)
    <3> SUFFICES ASSUME NEW l \in single, NEW x \in ToSet(l), NEW y \in ToSet(l), x # y
                 PROVE  FALSE
      OBVIOUS
    <3>1. PICK t \in DOMAIN tracklets : ToSet(l) = {t}
      BY <2>3
    <3> QED BY <3>1
  <2>10. Grouped(single)
    BY <2>2, <2>4, <2>7, <2>8, <2>9 DEF Grouped
  <2> QED BY <2>6, <2>10
<1> HIDE DEF edges, len, single
<1>4. \A g \in A : \A n \in 1..len : Merge(g, edges[n]) \in A
  <2> TAKE g \in A
  <2> TAKE n \in 1..len
  <2>1. Merge(g, edges[n]) \subseteq Lists /\ Grouped(Merge(g, edges[n]))
    BY MergeKeeps
  <2> QED BY <2>1
<1>5. \A g \in A, n \in 1..len : step[n][g] = Merge(g, edges[n])
  OBVIOUS
<1>6. step \in [1..len -> [A -> A]]
  BY <1>4
<1> HIDE DEF A, step
<1>7. PICK f : Course(A, single, len, step, f)
  BY <1>2, <1>3, <1>6, Recursion DEF Stepwise
<1>8. Unrolls(f)
  <2>1. /\ f \in [0..len -> A] /\ f[0] = single
        /\ \A n \in 1..len : f[n] = step[n][f[n - 1]]
    BY <1>7 DEF Course
  <2>2. \A n \in 1..len : n - 1 \in 0..len
    BY <1>2
  <2>3. \A n \in 1..len : f[n - 1] \in A
    BY <2>1, <2>2
  <2>4. \A n \in 1..len : f[n] = Merge(f[n - 1], edges[n])
    BY <2>1, <2>3, <1>5
  <2>5. \A n \in 0..len : n = 0 \/ n \in 1..len
    BY <1>2
  <2>6. \A n \in 0..len : f[n] = IF n = 0 THEN single ELSE Merge(f[n - 1], edges[n])
    BY <2>1, <2>4, <2>5
  <2> QED BY <2>1, <2>6
<1>9. Unrolls(after)
  BY <1>8
<1>10. \A n \in 0..len : after[n] = IF n = 0 THEN single ELSE Merge(after[n - 1], edges[n])
  <2> HIDE DEF after
  <2> QED BY <1>9
<1> HIDE DEF after
<1> DEFINE T == {n \in 0..len : after[n] \in A}
<1>11. 0 \in T
  BY <1>2, <1>3, <1>10
<1>12. ASSUME NEW n \in T, n < len PROVE n + 1 \in T
  <2>1. n \in 0..len /\ after[n] \in A /\ n + 1 \in 1..len /\ (n + 1) - 1 = n /\ n + 1 \in 0..len
        /\ n + 1 # 0
    BY <1>2, <1>12
  <2>2. after[n + 1] = Merge(after[n], edges[n + 1])
    BY <2>1, <1>10
  <2> QED BY <2>1, <2>2, <1>4
<1>13. len \in T
  <2>1. T \in SUBSET (0..len)
    OBVIOUS
  <2> HIDE DEF T
  <2>2. \A n \in 0..len : n \in T
    BY <1>2, <1>11, <1>12, <2>1, Climb
  <2>3. len \in 0..len
    BY <1>2
  <2> QED BY <2>2, <2>3
<1> QED BY <1>1, <1>13 DEF A

-----------------------------------------------------------------------------
(* LabTracks: the lists a template is made from.                            *)

\* To put a list down changes nothing of it.
LEMMA Listing ==
  ASSUME NEW A, NEW s \in Seq(A)
  PROVE  Listed(s) = s
BY DEF Listed

\* Picked lists the elements at the places asked for, one for each place.
LEMMA PickedAll ==
  ASSUME NEW A, NEW s, NEW I \in SUBSET Nat, IsFiniteSet(I), \A i \in I : s[i] \in A
  PROVE  /\ Picked(s, I) \in Seq(A) /\ Cardinality(I) \in Nat
         /\ Len(Picked(s, I)) = Cardinality(I)
         /\ ToSet(Picked(s, I)) = {s[i] : i \in I}
<1> DEFINE before == [i \in I |-> {j \in I : j < i}]
           k == Cardinality(I)
           r == [n \in 1..k |-> s[AtPlace(before, n)]]
<1>1. Picked(s, I) = r
  BY DEF Picked
<1>2. before \in [I -> SUBSET I] /\ \A i, j \in I : j \in before[i] <=> j < i
  OBVIOUS
<1> HIDE DEF before
<1>3. Orders(I, before)
  <2>1. /\ \A i \in I : i \notin before[i]
        /\ \A i, j \in I : i # j => i \in before[j] \/ j \in before[i]
    BY <1>2
  <2>2. \A i \in I : \A j \in before[i] : before[j] \subseteq before[i]
    <3> SUFFICES ASSUME NEW i \in I, NEW j \in before[i], NEW x \in before[j]
                 PROVE  x \in before[i]
      OBVIOUS
    <3>1. j \in I /\ x \in I
      BY <1>2
    <3> QED BY <3>1, <1>2
  <2> QED BY <1>2, <2>1, <2>2 DEF Orders
<1>4. /\ k \in Nat
      /\ \A n \in 1..k : AtPlace(before, n) \in I
      /\ \A i \in I : \E n \in 1..k : AtPlace(before, n) = i
  BY <1>3, OrderedPlaces
<1> HIDE DEF k
<1>5. r \in [1..k -> A]
  BY <1>4
<1>6. \A n \in 1..k : r[n] = s[AtPlace(before, n)]
  OBVIOUS
<1> HIDE DEF r
<1>7. r \in Seq(A) /\ Len(r) = k /\ DOMAIN r = 1..k
  BY <1>4, <1>5
<1>8. ToSet(r) = {s[i] : i \in I}
  <2>1. \A n \in DOMAIN r : r[n] \in {s[i] : i \in I}
    BY <1>4, <1>6, <1>7
  <2>2. \A i \in I : \E n \in DOMAIN r : r[n] = s[i]
    BY <1>4, <1>6, <1>7
  <2> QED BY <2>1, <2>2 DEF ToSet
<1> QED BY <1>1, <1>4, <1>7, <1>8 DEF k

\* SortedBy: the same elements.
LEMMA SortedAll ==
  ASSUME NEW A, NEW s \in Seq(A), NEW keys,
         \A i \in DOMAIN s : keys[i][1] \in Int /\ keys[i][2] \in Int
  PROVE  SortedBy(s, keys) \in Seq(A) /\ Len(SortedBy(s, keys)) = Len(s)
<1> DEFINE I == DOMAIN s
           Ahead(j, i) == Less(keys[j], keys[i]) \/ (~Less(keys[i], keys[j]) /\ j < i)
           before == [i \in I |-> {j \in I : Ahead(j, i)}]
           k == Len(s)
           r == [n \in 1..k |-> s[AtPlace(before, n)]]
<1>1. I = 1..k /\ k \in Nat /\ \A i \in I : s[i] \in A
  OBVIOUS
<1>2. IsFiniteSet(I) /\ Cardinality(I) = k
  <2>1. IsFiniteSet(1..Len(s)) /\ Cardinality(1..Len(s)) = Len(s)
    <3>1. 0 \in Int /\ 1 \in Int /\ Len(s) \in Int /\ (IF 1 > Len(s) THEN 0 ELSE Len(s)) = Len(s)
      BY <1>1
    <3> HIDE DEF k, I
    <3>2. IsFiniteSet(1..Len(s)) /\ Cardinality(1..Len(s)) = IF 1 > Len(s) THEN 0 ELSE Len(s) - 1 + 1
      BY <3>1, FS_Interval
    <3> QED BY <3>1, <3>2, <1>1 DEF k
  <2> QED BY <1>1, <2>1
<1>3. before \in [I -> SUBSET I] /\ \A i, j \in I : j \in before[i] <=> Ahead(j, i)
  OBVIOUS
<1>4. SortedBy(s, keys) = r
  BY <1>1 DEF SortedBy
<1>5. \A i \in I : ~Ahead(i, i)
  BY <1>1 DEF Less
<1>6. \A i, j \in I : i # j => Ahead(i, j) \/ Ahead(j, i)
  BY <1>1 DEF Less
<1>7. \A i, j, x \in I : Ahead(j, i) /\ Ahead(x, j) => Ahead(x, i)
  <2> SUFFICES ASSUME NEW i \in I, NEW j \in I, NEW x \in I, Ahead(j, i), Ahead(x, j)
               PROVE  Ahead(x, i)
    OBVIOUS
  <2> QED BY <1>1 DEF Less
<1> HIDE DEF before, k, I, Ahead
<1>8. \A i \in I : \A j \in before[i] : before[j] \subseteq before[i]
  <2> SUFFICES ASSUME NEW i \in I, NEW j \in before[i], NEW x \in before[j] PROVE x \in before[i]
    OBVIOUS
  <2>1. j \in I /\ x \in I
    BY <1>3
  <2> QED BY <2>1, <1>3, <1>7
<1>9. Orders(I, before)
  BY <1>2, <1>3, <1>5, <1>6, <1>8 DEF Orders
<1>10. \A n \in 1..k : AtPlace(before, n) \in I
  BY <1>2, <1>9, OrderedPlaces
<1>11. r \in [1..k -> A]
  BY <1>1, <1>10
<1> HIDE DEF r
<1>12. r \in Seq(A) /\ Len(r) = k
  BY <1>1, <1>11
<1> QED BY <1>4, <1>12 DEF k

\* The sum of a list, from its beginning.
Sums(numbers, sum) ==
  /\ sum \in [0..Len(numbers) -> Int] /\ sum[0] = 0
  /\ \A n \in 1..Len(numbers) : sum[n] = sum[n - 1] + numbers[n]
  /\ Total(numbers) = sum[Len(numbers)]

\* The sum of a list of numbers has its partial sums.
LEMMA TotalSums ==
  ASSUME NEW numbers \in Seq(Int)
  PROVE  \E sum : Sums(numbers, sum)
<1> DEFINE len == Len(numbers)
           step == [n \in 1..len |-> [a \in Int |-> a + numbers[n]]]
           Unrolls(sum) ==
             sum = [n \in 0..len |-> IF n = 0 THEN 0 ELSE sum[n - 1] + numbers[n]]
           sum == CHOOSE sum : Unrolls(sum)
<1>1. len \in Nat /\ \A n \in 1..len : numbers[n] \in Int
  OBVIOUS
<1>2. step \in [1..len -> [Int -> Int]]
  BY <1>1
<1>3. \A a \in Int, n \in 1..len : step[n][a] = a + numbers[n]
  OBVIOUS
<1>4. Total(numbers) = sum[len]
  BY DEF Total
<1> HIDE DEF len, step
<1>5. PICK f : Course(Int, 0, len, step, f)
  <2>1. 0 \in Int
    OBVIOUS
  <2>2. Stepwise(Int, 0, len, step)
    BY <1>1, <1>2, <2>1 DEF Stepwise
  <2> QED BY <2>2, Recursion
<1>6. /\ f \in [0..len -> Int] /\ f[0] = 0
      /\ \A n \in 1..len : f[n] = f[n - 1] + numbers[n]
  <2>1. /\ f \in [0..len -> Int] /\ f[0] = 0
        /\ \A n \in 1..len : f[n] = step[n][f[n - 1]]
    BY <1>5 DEF Course
  <2>2. \A n \in 1..len : n - 1 \in 0..len
    BY <1>1
  <2>3. \A n \in 1..len : f[n - 1] \in Int
    BY <2>1, <2>2
  <2> QED BY <2>1, <2>3, <1>3
<1>7. Unrolls(f)
  <2>1. \A n \in 0..len : n = 0 \/ n \in 1..len
    BY <1>1
  <2>2. \A n \in 0..len : f[n] = IF n = 0 THEN 0 ELSE f[n - 1] + numbers[n]
    BY <1>6, <2>1
  <2> QED BY <2>2, <1>6
<1>8. Unrolls(sum)
  BY <1>7
<1>9. sum = [n \in 0..len |-> IF n = 0 THEN 0 ELSE sum[n - 1] + numbers[n]]
  <2> HIDE DEF sum
  <2> QED BY <1>8
<1> HIDE DEF sum
<1>10. sum[0] = 0 /\ \A n \in 1..len : sum[n] = sum[n - 1] + numbers[n]
  BY <1>1, <1>9
<1> DEFINE T == {n \in 0..len : sum[n] \in Int}
<1>11. 0 \in T
  BY <1>1, <1>10
<1>12. ASSUME NEW n \in T, n < len PROVE n + 1 \in T
  <2>1. n \in 0..len /\ sum[n] \in Int /\ n + 1 \in 1..len /\ n + 1 \in 0..len /\ (n + 1) - 1 = n
    BY <1>1, <1>12
  <2>2. sum[n + 1] = sum[n] + numbers[n + 1]
    BY <2>1, <1>10
  <2> QED BY <1>1, <2>1, <2>2
<1>13. \A n \in 0..len : sum[n] \in Int
  <2>1. T \in SUBSET (0..len)
    OBVIOUS
  <2> HIDE DEF T
  <2>2. \A n \in 0..len : n \in T
    BY <1>1, <1>11, <1>12, <2>1, Climb
  <2> QED BY <2>2 DEF T
<1>14. sum \in [0..len -> Int]
  BY <1>9, <1>13
<1>15. Sums(numbers, sum)
  BY <1>4, <1>10, <1>14 DEF Sums, len
<1> QED BY <1>15

\* What a tracklet has seen lies in frames one after the other.
LEMMA HistoryRises ==
  ASSUME TracksInv, NEW t \in DOMAIN tracklets,
         NEW i \in DOMAIN tracklets[t].seen, NEW k \in DOMAIN tracklets[t].seen, i < k
  PROVE  observations[tracklets[t].seen[i]].frame < observations[tracklets[t].seen[k]].frame
<1> DEFINE seen == tracklets[t].seen
           at(n) == observations[seen[n]].frame
           len == k - i - 1
           T == {d \in 0..len : at(i) < at(i + d + 1)}
<1>1. seen \in Seq(Nat) /\ DOMAIN seen = 1..Len(seen) /\ Len(seen) \in Nat
  <2>1. tracklets[t] \in Histories
    BY Indexed DEF TracksInv, TracksTyped
  <2> QED BY <2>1, Indexed DEF Histories
<1>2. \A n \in DOMAIN seen : at(n) \in Nat
  <2>1. \A n \in DOMAIN seen : seen[n] \in DOMAIN observations
    BY DEF TracksInv, HistoriesPlaced
  <2>2. \A o \in DOMAIN observations : observations[o] \in FaceRecords
    BY Indexed DEF TracksInv, TracksTyped
  <2> QED BY <2>1, <2>2 DEF FaceRecords
<1>3. \A n \in 1..(Len(seen) - 1) : at(n) < at(n + 1)
  BY DEF TracksInv, ReturnsInTime, Returned
<1> HIDE DEF seen, at
<1>4. i \in Nat /\ k \in Nat /\ i \in 1..Len(seen) /\ k \in 1..Len(seen) /\ len \in Nat
  BY <1>1 DEF seen
<1>5. 0 \in T
  <2>1. i \in 1..(Len(seen) - 1) /\ i + 0 + 1 = i + 1
    BY <1>1, <1>4
  <2> QED BY <2>1, <1>3, <1>4
<1>6. ASSUME NEW d \in T, d < len PROVE d + 1 \in T
  <2>1. d \in 0..len /\ d + 1 \in 0..len /\ at(i) < at(i + d + 1)
    BY <1>4, <1>6
  <2>2. /\ i + d + 1 \in 1..(Len(seen) - 1) /\ i + d + 1 \in 1..Len(seen)
        /\ i + (d + 1) + 1 = (i + d + 1) + 1 /\ (i + d + 1) + 1 \in 1..Len(seen)
    BY <1>1, <1>4, <1>6
  <2>3. at(i + d + 1) < at((i + d + 1) + 1)
    BY <2>2, <1>3
  <2>4. at(i) \in Nat /\ at(i + d + 1) \in Nat /\ at((i + d + 1) + 1) \in Nat
    BY <2>2, <1>1, <1>2, <1>4
  <2>5. at(i) < at(i + (d + 1) + 1)
    BY <2>1, <2>2, <2>3, <2>4
  <2> QED BY <2>1, <2>5
<1>7. len \in T
  <2>1. T \in SUBSET (0..len)
    OBVIOUS
  <2> HIDE DEF T
  <2>2. \A d \in 0..len : d \in T
    <3> HIDE DEF len
    <3> QED BY <1>4, <1>5, <1>6, <2>1, Climb
  <2>3. len \in 0..len
    BY <1>4
  <2> QED BY <2>2, <2>3
<1>8. i + len + 1 = k
  BY <1>4
<1> QED BY <1>7, <1>8 DEF at, seen

\* Two detections of a list are of different frames.
LEMMA MembersApart ==
  ASSUME TracksInv, NEW lists, Grouped(lists), NEW list \in lists,
         NEW o \in Members(ToSet(list)), NEW p \in Members(ToSet(list)), o # p
  PROVE  Frame(o) # Frame(p)
<1> SUFFICES ASSUME Frame(o) = Frame(p) PROVE FALSE
  OBVIOUS
<1>1. /\ o \in DOMAIN observations /\ p \in DOMAIN observations
      /\ \E t \in ToSet(list) : <<o, t>> \in assignments
      /\ \E t \in ToSet(list) : <<p, t>> \in assignments
  BY DEF Members
<1>2. PICK t \in ToSet(list), u \in ToSet(list) : <<o, t>> \in assignments /\ <<p, u>> \in assignments
  BY <1>1
<1>3. t \in DOMAIN tracklets /\ u \in DOMAIN tracklets
  BY DEF Grouped
<1>4. o \in ToSet(tracklets[t].seen) /\ p \in ToSet(tracklets[u].seen)
  BY <1>2 DEF TracksInv, AssignmentsAgree
<1>5. CASE t # u
  <2>1. CannotLink(t, u)
    BY <1>4 DEF CannotLink
  <2> QED BY <2>1, <1>5 DEF Grouped
<1>6. CASE t = u
  <2>1. PICK i \in DOMAIN tracklets[t].seen, k \in DOMAIN tracklets[t].seen :
          tracklets[t].seen[i] = o /\ tracklets[t].seen[k] = p
    BY <1>4, <1>6 DEF ToSet
  <2>2. i \in Nat /\ k \in Nat /\ i # k
    <3>1. tracklets[t] \in Histories
      BY <1>3, Indexed DEF TracksInv, TracksTyped
    <3>2. DOMAIN tracklets[t].seen = 1..Len(tracklets[t].seen)
      BY <3>1 DEF Histories
    <3> QED BY <2>1, <3>2
  <2>3. Frame(o) # Frame(p)
    <3>1. observations[o].frame \in Nat /\ observations[p].frame \in Nat
      BY <1>1 DEF TracksInv, ObservationsDated
    <3>2. CASE i < k
      BY <1>3, <2>1, <3>1, <3>2, HistoryRises DEF Frame
    <3>3. CASE k < i
      BY <1>3, <2>1, <3>1, <3>3, HistoryRises DEF Frame
    <3> QED BY <2>2, <3>2, <3>3
  <2> QED BY <2>3
<1> QED BY <1>5, <1>6

\* The clusters have an order, by the time and then the tracklet they begin with.
LEMMA ClustersOrdered ==
  ASSUME TracksInv, NEW lists, Grouped(lists)
  PROVE  Orders(lists, [g \in lists |-> {h \in lists : ByStart(h, g)}])
<1> DEFINE before == [g \in lists |-> {h \in lists : ByStart(h, g)}]
<1>1. /\ DOMAIN tracklets = 1..Len(tracklets) /\ Len(tracklets) \in Nat
      /\ \A t \in DOMAIN tracklets : tracklets[t] \in Histories
  BY Indexed DEF TracksInv, TracksTyped
<1>2. IsFiniteSet(lists)
  BY DEF Grouped
<1>3. ASSUME NEW g \in lists PROVE Smallest(ToSet(g)) \in ToSet(g) /\ Smallest(ToSet(g)) \in Nat
  <2>1. ToSet(g) \subseteq DOMAIN tracklets /\ ToSet(g) # {}
    BY DEF Grouped
  <2>0. ToSet(g) \in SUBSET Nat
    BY <2>1, <1>1
  <2>2. \E n \in ToSet(g) : \A k \in ToSet(g) : n <= k
    BY <2>0, <2>1, Least
  <2> QED BY <2>0, <2>2 DEF Smallest
<1>4. ASSUME NEW g \in lists PROVE Starts(g) \in Nat
  <2> DEFINE times == {Pts(tracklets[t].seen[1]) : t \in ToSet(g)}
  <2>1. ToSet(g) \subseteq DOMAIN tracklets /\ ToSet(g) # {}
    BY DEF Grouped
  <2>2. ASSUME NEW t \in ToSet(g) PROVE Pts(tracklets[t].seen[1]) \in Nat
    <3>1. tracklets[t].seen # <<>> /\ tracklets[t].seen \in Seq(Nat)
      BY <1>1, <2>1 DEF Histories, TracksInv, HistoriesPlaced
    <3>2. 1 \in DOMAIN tracklets[t].seen
      BY <3>1
    <3>3. tracklets[t].seen[1] \in DOMAIN observations
      BY <2>1, <3>2 DEF TracksInv, HistoriesPlaced
    <3>4. observations[tracklets[t].seen[1]] \in FaceRecords
      BY <3>3, Indexed DEF TracksInv, TracksTyped
    <3> QED BY <3>4 DEF FaceRecords, Pts
  <2>3. times \in SUBSET Nat /\ times # {}
    BY <2>1, <2>2
  <2>4. \E n \in times : \A k \in times : n <= k
    <3> HIDE DEF times
    <3> QED BY <2>3, Least
  <2>5. Smallest(times) \in times
    <3> HIDE DEF times
    <3> QED BY <2>4 DEF Smallest
  <2>6. Starts(g) = Smallest(times)
    BY DEF Starts
  <2> QED BY <2>3, <2>5, <2>6
<1>5. ASSUME NEW g \in lists, NEW h \in lists, g # h PROVE Smallest(ToSet(g)) # Smallest(ToSet(h))
  BY <1>3, <1>5 DEF Grouped
<1>6. \A g, h \in lists : h \in before[g] <=> ByStart(h, g)
  OBVIOUS
<1>7. before \in [lists -> SUBSET lists]
  OBVIOUS
<1> HIDE DEF before
<1>8. \A g \in lists : g \notin before[g]
  <2> SUFFICES ASSUME NEW g \in lists, ByStart(g, g) PROVE FALSE
    BY <1>6
  <2>1. Starts(g) \in Nat /\ Smallest(ToSet(g)) \in Nat
    BY <1>3, <1>4
  <2> QED BY <2>1 DEF ByStart
<1>9. \A g \in lists : \A h \in before[g] : before[h] \subseteq before[g]
  <2> SUFFICES ASSUME NEW g \in lists, NEW h \in lists, NEW i \in lists,
                      ByStart(h, g), ByStart(i, h)
               PROVE  ByStart(i, g)
    BY <1>6, <1>7
  <2>1. /\ Starts(g) \in Nat /\ Starts(h) \in Nat /\ Starts(i) \in Nat
        /\ Smallest(ToSet(g)) \in Nat /\ Smallest(ToSet(h)) \in Nat /\ Smallest(ToSet(i)) \in Nat
    BY <1>3, <1>4
  <2> QED BY <2>1 DEF ByStart
<1>10. \A g, h \in lists : g # h => g \in before[h] \/ h \in before[g]
  <2> SUFFICES ASSUME NEW g \in lists, NEW h \in lists, g # h
               PROVE  ByStart(g, h) \/ ByStart(h, g)
    BY <1>6
  <2>1. /\ Starts(g) \in Nat /\ Starts(h) \in Nat
        /\ Smallest(ToSet(g)) \in Nat /\ Smallest(ToSet(h)) \in Nat /\ Smallest(ToSet(g)) # Smallest(ToSet(h))
    BY <1>3, <1>4, <1>5
  <2> QED BY <2>1 DEF ByStart
<1>11. Orders(lists, before)
  BY <1>2, <1>7, <1>8, <1>9, <1>10 DEF Orders
<1> QED BY <1>11 DEF before

\* The detections of a canonical track, which are those of its tracklets, in
\* the order of time, and of different frames.
LEMMA DetectionsRise ==
  ASSUME TracksInv, NEW lists, lists \subseteq Lists, Grouped(lists), NEW list \in lists
  PROVE  LET os == CanonicalTrack(list).detections
             all == Members(ToSet(list))
         IN  /\ DOMAIN os = 1..Len(os) /\ Len(os) \in Nat
             /\ os \in Seq(all) /\ IsFiniteSet(all)
             /\ all \subseteq DOMAIN observations
             /\ \A n \in DOMAIN os : os[n] \in all
             /\ \A o \in all : \E n \in DOMAIN os : os[n] = o
             /\ \A k, n \in DOMAIN os :
                  k < n => Pts(os[k]) <= Pts(os[n]) /\ Frame(os[k]) # Frame(os[n])
<1> DEFINE members == Members(ToSet(list))
           before == [o \in members |-> {p \in members : Earlier(list, p, o)}]
           os == Ranked(before)
           len == Cardinality(members)
<1>1. CanonicalTrack(list).detections = Listed(os)
  BY DEF CanonicalTrack
<1>2. DOMAIN observations = 1..Len(observations) /\ Len(observations) \in Nat
  BY Indexed DEF TracksInv, TracksTyped
<1>3. members \subseteq DOMAIN observations
  BY DEF Members
<1>4. \A o \in members : o \in Nat /\ Pts(o) \in Nat /\ Place(list, o) \in Nat
  <2>1. \A o \in DOMAIN observations : observations[o] \in FaceRecords
    BY Indexed DEF TracksInv, TracksTyped
  <2>2. DOMAIN list \subseteq Nat
    <3>1. list \in Seq(DOMAIN tracklets)
      BY DEF Lists
    <3> QED BY <3>1, Indexed
  <2>3. ASSUME NEW o \in members PROVE Place(list, o) \in DOMAIN list
    <3>1. PICK t \in ToSet(list) : <<o, t>> \in assignments
      BY <2>3 DEF Members
    <3>2. \E i \in DOMAIN list : <<o, list[i]>> \in assignments
      BY <3>1 DEF ToSet
    <3> QED BY <3>2 DEF Place
  <2> HIDE DEF members
  <2> QED BY <2>1, <2>2, <2>3, <1>2, <1>3 DEF FaceRecords, Pts
<1>5. \A o, p \in members : o # p => Frame(o) # Frame(p)
  BY MembersApart
<1>6. IsFiniteSet(members)
  <2> HIDE DEF members
  <2>1. IsFiniteSet(DOMAIN observations)
    BY <1>2, FS_Interval
  <2> QED BY <2>1, <1>3, FS_Subset
<1> HIDE DEF members
<1>7. \A o, p \in members : p \in before[o] <=> Earlier(list, p, o)
  OBVIOUS
<1>8. before \in [members -> SUBSET members]
  OBVIOUS
<1> HIDE DEF before
<1>9. Orders(members, before)
  <2>1. \A o \in members : o \notin before[o]
    BY <1>4, <1>7 DEF Earlier, Less
  <2>2. \A o \in members : \A p \in before[o] : before[p] \subseteq before[o]
    <3> SUFFICES ASSUME NEW o \in members, NEW p \in before[o], NEW q \in before[p]
                 PROVE  q \in before[o]
      OBVIOUS
    <3>1. p \in members /\ q \in members
      BY <1>8
    <3>2. Earlier(list, q, p) /\ Earlier(list, p, o)
      BY <3>1, <1>7
    <3>3. /\ o \in Nat /\ Pts(o) \in Nat /\ Place(list, o) \in Nat
          /\ p \in Nat /\ Pts(p) \in Nat /\ Place(list, p) \in Nat
          /\ q \in Nat /\ Pts(q) \in Nat /\ Place(list, q) \in Nat
      BY <3>1, <1>4
    <3>4. Earlier(list, q, o)
      BY <3>2, <3>3 DEF Earlier, Less
    <3> QED BY <3>1, <3>4, <1>7
  <2>3. \A o, p \in members : o # p => o \in before[p] \/ p \in before[o]
    <3> SUFFICES ASSUME NEW o \in members, NEW p \in members, o # p
                 PROVE  Earlier(list, o, p) \/ Earlier(list, p, o)
      BY <1>7
    <3>1. /\ o \in Nat /\ Pts(o) \in Nat /\ Place(list, o) \in Nat
          /\ p \in Nat /\ Pts(p) \in Nat /\ Place(list, p) \in Nat
      BY <1>4
    <3> QED BY <3>1 DEF Earlier, Less
  <2> QED BY <1>6, <1>8, <2>1, <2>2, <2>3 DEF Orders
<1>10. /\ len \in Nat /\ DOMAIN os = 1..len
       /\ \A n \in 1..len : os[n] \in members
       /\ \A o \in members : \E n \in 1..len : os[n] = o
       /\ \A n, m \in 1..len : n < m => os[n] \in before[os[m]]
  BY <1>9, RankedAll
<1> HIDE DEF os, len
<1>11. ASSUME NEW n \in 1..len, NEW m \in 1..len, n < m
       PROVE  Pts(os[n]) <= Pts(os[m]) /\ Frame(os[n]) # Frame(os[m])
  <2>1. os[n] \in members /\ os[m] \in members /\ os[n] \in before[os[m]]
    BY <1>10, <1>11
  <2>2. Earlier(list, os[n], os[m])
    BY <2>1, <1>7
  <2>3. Pts(os[n]) \in Nat /\ Pts(os[m]) \in Nat
    BY <2>1, <1>4
  <2>4. os[n] # os[m]
    BY <2>1, <1>9 DEF Orders
  <2>5. Pts(os[n]) <= Pts(os[m])
    BY <2>2, <2>3 DEF Earlier
  <2> QED BY <2>1, <2>4, <2>5, <1>5
<1>12. os \in Seq(members) /\ Len(os) = len
  <2>1. os = [n \in 1..len |-> AtPlace(before, n)]
    <3>1. DOMAIN before = members
      BY <1>8
    <3> QED BY <3>1 DEF Ranked, os, len
  <2>2. os = [n \in 1..len |-> os[n]]
    BY <2>1
  <2>3. os \in [1..len -> members]
    BY <1>10, <2>2
  <2> QED BY <1>10, <2>3
<1>13. CanonicalTrack(list).detections = os
  BY <1>1, <1>12, Listing
<1> QED BY <1>3, <1>6, <1>10, <1>11, <1>12, <1>13 DEF members

\* What PersonsApart says of canonical tracks.
Persons(ts) ==
  /\ UNION {ts[i].tracklets : i \in DOMAIN ts} = DOMAIN tracklets
  /\ \A i, j \in DOMAIN ts : i # j => ts[i].tracklets \intersect ts[j].tracklets = {}
  /\ \A i \in DOMAIN ts :
       /\ \A k, n \in DOMAIN ts[i].detections :
            k < n => /\ Pts(ts[i].detections[k]) <= Pts(ts[i].detections[n])
                     /\ Frame(ts[i].detections[k]) # Frame(ts[i].detections[n])
       /\ \A a, b \in ts[i].tracklets : a # b => Alike(a, b)

\* What Aggregate makes of groups that may be persons are persons.
LEMMA TracksApart ==
  ASSUME TracksInv, NEW lists, lists \subseteq Lists, Grouped(lists), NEW order, NEW ts,
         order = Ranked([g \in lists |-> {h \in lists : ByStart(h, g)}]),
         ts = [i \in DOMAIN order |-> CanonicalTrack(order[i])]
  PROVE  Persons(ts)
<1> DEFINE before == [g \in lists |-> {h \in lists : ByStart(h, g)}]
           len == Cardinality(lists)
<1>1. Orders(lists, before)
  BY ClustersOrdered
<1>2. order = Ranked(before)
  OBVIOUS
<1> HIDE DEF before
<1>3. /\ len \in Nat /\ DOMAIN order = 1..len
      /\ \A i \in 1..len : order[i] \in lists
      /\ \A g \in lists : \E i \in 1..len : order[i] = g
      /\ \A i, j \in 1..len : i < j => order[i] \in before[order[j]]
  <2>1. /\ len \in Nat /\ DOMAIN Ranked(before) = 1..len
        /\ \A i \in 1..len : Ranked(before)[i] \in lists
        /\ \A g \in lists : \E i \in 1..len : Ranked(before)[i] = g
        /\ \A i, j \in 1..len : i < j => Ranked(before)[i] \in before[Ranked(before)[j]]
    BY <1>1, RankedAll
  <2> HIDE DEF len
  <2> QED BY <1>2, <2>1
<1> HIDE DEF len
<1>4. \A i, j \in 1..len : i # j => order[i] # order[j]
  <2> SUFFICES ASSUME NEW i \in 1..len, NEW j \in 1..len, i < j PROVE order[i] # order[j]
    BY <1>3
  <2> QED BY <1>1, <1>3 DEF Orders
<1>5. DOMAIN ts = 1..len
  BY <1>3
<1>6. \A i \in 1..len : ts[i] = CanonicalTrack(order[i])
  BY <1>3
<1>7. \A g : CanonicalTrack(g).tracklets = ToSet(g)
  BY DEF CanonicalTrack
<1>8. \A i \in 1..len : ts[i].tracklets = ToSet(order[i])
  BY <1>6, <1>7
<1>9. UNION {ts[i].tracklets : i \in DOMAIN ts} = DOMAIN tracklets
  <2>1. ASSUME NEW i \in DOMAIN ts PROVE ts[i].tracklets \subseteq DOMAIN tracklets
    <3>1. order[i] \in lists /\ ts[i].tracklets = ToSet(order[i])
      BY <1>3, <1>5, <1>8
    <3> QED BY <3>1 DEF Grouped
  <2>2. ASSUME NEW t \in DOMAIN tracklets PROVE \E i \in DOMAIN ts : t \in ts[i].tracklets
    <3>1. PICK l \in lists : t \in ToSet(l)
      BY DEF Grouped
    <3>2. PICK i \in 1..len : order[i] = l
      BY <1>3
    <3>3. ts[i].tracklets = ToSet(l)
      BY <3>2, <1>8
    <3> QED BY <3>1, <3>3, <1>5
  <2> DEFINE all == {ts[i].tracklets : i \in DOMAIN ts}
  <2>3. \A S \in all : S \subseteq DOMAIN tracklets
    BY <2>1
  <2>4. \A t \in DOMAIN tracklets : \E S \in all : t \in S
    BY <2>2
  <2> HIDE DEF all
  <2>5. UNION all = DOMAIN tracklets
    BY <2>3, <2>4
  <2> QED BY <2>5 DEF all
<1>10. \A i, j \in DOMAIN ts : i # j => ts[i].tracklets \intersect ts[j].tracklets = {}
  <2> SUFFICES ASSUME NEW i \in 1..len, NEW j \in 1..len, i # j
               PROVE  ts[i].tracklets \intersect ts[j].tracklets = {}
    BY <1>5
  <2>1. order[i] \in lists /\ order[j] \in lists /\ order[i] # order[j]
    BY <1>3, <1>4
  <2>2. ToSet(order[i]) \intersect ToSet(order[j]) = {}
    BY <2>1 DEF Grouped
  <2>3. ts[i].tracklets = ToSet(order[i]) /\ ts[j].tracklets = ToSet(order[j])
    BY <1>8
  <2> QED BY <2>2, <2>3
<1>11. ASSUME NEW i \in DOMAIN ts
       PROVE  /\ \A k, n \in DOMAIN ts[i].detections :
                   k < n => /\ Pts(ts[i].detections[k]) <= Pts(ts[i].detections[n])
                            /\ Frame(ts[i].detections[k]) # Frame(ts[i].detections[n])
              /\ \A a, b \in ts[i].tracklets : a # b => Alike(a, b)
  <2>1. order[i] \in lists /\ ts[i] = CanonicalTrack(order[i]) /\ ts[i].tracklets = ToSet(order[i])
    BY <1>3, <1>5, <1>6, <1>8
  <2>2. \A k, n \in DOMAIN ts[i].detections :
          k < n => /\ Pts(ts[i].detections[k]) <= Pts(ts[i].detections[n])
                   /\ Frame(ts[i].detections[k]) # Frame(ts[i].detections[n])
    BY <2>1, DetectionsRise
  <2>3. \A a, b \in ts[i].tracklets : a # b => Alike(a, b)
    BY <2>1 DEF Grouped
  <2> QED BY <2>2, <2>3
<1> QED BY <1>9, <1>10, <1>11 DEF Persons

\* What leads to PersonsApart: groups on the way, persons at the end.
PersonsInv ==
  /\ phase = "aggregate" => clusters \subseteq Lists /\ Grouped(clusters)
  /\ phase = "done" => Persons(tracks)

\* What two tracklets are to each other does not change any more, nor where and
\* when an observation was made.
LEMMA SameLinks ==
  ASSUME UNCHANGED <<observations, tracklets, templates>>
  PROVE  \A x, y : (CannotLink(x, y)' <=> CannotLink(x, y)) /\ (Alike(x, y)' <=> Alike(x, y))
<1>1. \A x, y : CannotLink(x, y)' <=> CannotLink(x, y)
  BY DEF CannotLink, Frame
<1>2. \A x, y : PairCosine(x, y)' = PairCosine(x, y)
  BY DEF PairCosine
<1>3. \A x, y : Alike(x, y)' <=> Alike(x, y)
  BY <1>2 DEF Alike, HasTemplate
<1> QED BY <1>1, <1>3

LEMMA SamePlaces ==
  ASSUME UNCHANGED observations
  PROVE  \A o : Pts(o)' = Pts(o) /\ Frame(o)' = Frame(o)
BY DEF Pts, Frame

\* Every step keeps what is known of persons.
LEMMA PersonsKept ==
  ASSUME TracksInv, PersonsInv, [Next]_vars
  PROVE  PersonsInv'
<1>1. CASE \E scene \in Scenes, step \in Clock, cut \in BOOLEAN : Update(scene, step, cut)
  <2>1. PICK scene \in Scenes, step \in Clock, cut \in BOOLEAN : Update(scene, step, cut)
    BY <1>1
  <2>2. phase' = "track"
    BY <2>1 DEF Update
  <2> QED BY <2>2 DEF PersonsInv
<1>2. CASE Finalize
  BY <1>2 DEF Finalize, PersonsInv
<1>3. CASE BuildTemplates
  BY <1>3 DEF BuildTemplates, PersonsInv
<1>4. CASE Reconcile
  <2>1. /\ clusters' = Merged /\ phase' = "aggregate"
        /\ UNCHANGED <<frames, observations, tracklets, templates>>
    BY <1>4 DEF Reconcile
  <2>2. Merged \subseteq Lists /\ Grouped(Merged)
    BY MergedGrouped DEF TracksInv
  <2>3. Grouped(clusters)'
    BY <2>1, <2>2, SameLinks DEF Grouped
  <2>4. (clusters \subseteq Lists)'
    BY <2>1, <2>2 DEF Lists
  <2> QED BY <2>1, <2>3, <2>4 DEF PersonsInv
<1>5. CASE Aggregate
  <2>1. /\ phase = "aggregate" /\ phase' = "done"
        /\ UNCHANGED <<frames, observations, tracklets, assignments, templates, clusters>>
    BY <1>5 DEF Aggregate
  <2>2. clusters \subseteq Lists /\ Grouped(clusters)
    BY <2>1 DEF PersonsInv
  <2> DEFINE order == Ranked([g \in clusters |-> {h \in clusters : ByStart(h, g)}])
             ts == [i \in DOMAIN order |-> CanonicalTrack(order[i])]
  <2>3. tracks' = ts
    BY <1>5 DEF Aggregate
  <2>4. Persons(ts)
    <3> HIDE DEF order
    <3>1. Persons(ts)
      BY <2>2, TracksApart DEF order
    <3> QED BY <3>1
  <2> HIDE DEF ts
  <2>5. Persons(tracks)'
    BY <2>1, <2>3, <2>4, SameLinks, SamePlaces DEF Persons
  <2> QED BY <2>1, <2>5 DEF PersonsInv
<1>6. CASE UNCHANGED vars
  <2>0. UNCHANGED <<observations, tracklets, templates, clusters, tracks>>
    BY <1>6 DEF vars
  <2>1. Grouped(clusters) => Grouped(clusters)'
    BY <2>0, SameLinks DEF Grouped
  <2>2. clusters \subseteq Lists => (clusters \subseteq Lists)'
    BY <1>6 DEF Lists, vars
  <2>3. Persons(tracks) => Persons(tracks)'
    BY <2>0, SameLinks, SamePlaces DEF Persons
  <2> QED BY <1>6, <2>1, <2>2, <2>3 DEF PersonsInv, vars
<1> QED BY <1>1, <1>2, <1>3, <1>4, <1>5, <1>6 DEF Next

\* The invariant behind PersonsApart.
LEMMA PersonsHold == Spec => []PersonsInv
<1>1. Init => PersonsInv
  BY DEF Init, PersonsInv
<1>2. TracksInv /\ PersonsInv /\ [Next]_vars => PersonsInv'
  BY PersonsKept
<1> QED BY <1>1, <1>2, TracksStayInOrder, PTL DEF Spec

\* The persons a run ends with: every tracklet in one of them, no two detections
\* of one in one frame, in the order of time, and any two of its tracklets alike.
\* Of the time stamps nothing is assumed but that they never go back.
THEOREM PersonsStayApart == Spec => []PersonsApart
<1>1. PersonsInv => PersonsApart
  BY DEF PersonsInv, Persons, PersonsApart
<1> QED BY <1>1, PersonsHold, PTL

-----------------------------------------------------------------------------
(* LabTracks: the appearances of a canonical track.                         *)

\* Detections of D in the order of time.
Rising(D, os) ==
  /\ os \in Seq(D)
  /\ \A o \in D : Pts(o) \in Nat
  /\ \A k, n \in 1..Len(os) : k < n => Pts(os[k]) <= Pts(os[n])

Spanned(o, s) == Pts(s[1]) <= Pts(o) /\ Pts(o) <= Pts(s[2])

\* Intervals of D that follow each other.
Spans(D, iv) ==
  /\ iv \in Seq(D \X D)
  /\ \A k \in 1..Len(iv) : Pts(iv[k][1]) <= Pts(iv[k][2])
  /\ \A j, k \in 1..Len(iv) : j < k => Pts(iv[j][2]) < Pts(iv[k][1])

\* What the intervals tell of the first detections: each lies in one of them,
\* more than the gap is between two intervals, and no more than the gap between
\* two detections of one.
Told(D, os, gap, iv, m) ==
  /\ Spans(D, iv)
  /\ m > 0 => iv # <<>> /\ iv[Len(iv)][2] = os[m]
  /\ m = 0 => iv = <<>>
  /\ \A k \in 1..(Len(iv) - 1) : Pts(iv[k + 1][1]) - Pts(iv[k][2]) > gap
  /\ \A n \in 1..m : \E k \in 1..Len(iv) : Spanned(os[n], iv[k])
  /\ \A n \in 1..(m - 1) : \A k \in 1..Len(iv) :
       Spanned(os[n], iv[k]) /\ Spanned(os[n + 1], iv[k]) => Pts(os[n + 1]) - Pts(os[n]) <= gap

\* The next detection begins an interval.
LEMMA BegunTells ==
  ASSUME NEW D, NEW os, Rising(D, os), NEW gap \in Nat, NEW m \in Nat, m + 1 \in 1..Len(os),
         NEW iv, Told(D, os, gap, iv, m),
         iv = <<>> \/ Pts(os[m + 1]) - Pts(iv[Len(iv)][2]) > gap
  PROVE  Told(D, os, gap, Append(iv, <<os[m + 1], os[m + 1]>>), m + 1)
<1> DEFINE o == os[m + 1]
           new == Append(iv, <<o, o>>)
           L == Len(iv)
<1>1. /\ Len(os) \in Nat /\ \A n \in 1..Len(os) : os[n] \in D
      /\ \A n \in 1..Len(os) : Pts(os[n]) \in Nat
  BY DEF Rising
<1>2. o \in D /\ Pts(o) \in Nat
  BY <1>1
<1>3. /\ iv \in Seq(D \X D) /\ L \in Nat
      /\ \A k \in 1..L : /\ iv[k] \in D \X D /\ iv[k][1] \in D /\ iv[k][2] \in D
                         /\ Pts(iv[k][1]) \in Nat /\ Pts(iv[k][2]) \in Nat
  <2>1. iv \in Seq(D \X D)
    BY DEF Told, Spans
  <2>2. L \in Nat /\ \A k \in 1..L : iv[k] \in D \X D
    BY <2>1
  <2>3. \A p \in D \X D : p[1] \in D /\ p[2] \in D
    OBVIOUS
  <2>4. \A d \in D : Pts(d) \in Nat
    BY DEF Rising
  <2> HIDE DEF L
  <2> QED BY <2>1, <2>2, <2>3, <2>4
<1>4. /\ new \in Seq(D \X D) /\ Len(new) = L + 1
      /\ \A k \in 1..L : new[k] = iv[k]
      /\ new[L + 1] = <<o, o>> /\ new[L + 1][1] = o /\ new[L + 1][2] = o
  <2>1. <<o, o>> \in D \X D
    BY <1>2
  <2> HIDE DEF o
  <2> QED BY <1>3, <2>1
<1>5. \A k \in 1..L : Pts(iv[k][2]) < Pts(o)
  <2> SUFFICES ASSUME NEW k \in 1..L PROVE Pts(iv[k][2]) < Pts(o)
    OBVIOUS
  <2>1. iv # <<>> /\ L \in 1..L /\ m # 0 /\ m > 0
    BY <1>3 DEF Told
  <2>2. iv[L][2] = os[m] /\ m \in 1..Len(os)
    BY <1>1, <2>1 DEF Told
  <2>3. Pts(o) - Pts(iv[L][2]) > gap
    BY <2>1
  <2>4. k = L \/ k < L
    BY <1>3
  <2>5. k < L => Pts(iv[k][2]) < Pts(iv[L][1]) /\ Pts(iv[L][1]) <= Pts(iv[L][2])
    BY <2>1 DEF Told, Spans
  <2> HIDE DEF o, L
  <2>6. /\ Pts(iv[k][2]) \in Nat /\ Pts(iv[L][1]) \in Nat /\ Pts(iv[L][2]) \in Nat
        /\ Pts(o) \in Nat
    BY <1>2, <1>3, <2>1
  <2>7. Pts(iv[k][2]) <= Pts(iv[L][2])
    BY <2>4, <2>5, <2>6
  <2> QED BY <2>3, <2>6, <2>7
<1> HIDE DEF new, L
<1>6. \A k \in 1..(L + 1) : k \in 1..L \/ k = L + 1
  BY <1>3
<1>7. Spans(D, new)
  <2>1. \A k \in 1..(L + 1) : Pts(new[k][1]) <= Pts(new[k][2])
    <3>1. \A k \in 1..L : Pts(new[k][1]) <= Pts(new[k][2])
      BY <1>4 DEF Told, Spans, L
    <3>2. Pts(o) <= Pts(o)
      BY <1>2
    <3> HIDE DEF o
    <3> QED BY <1>4, <1>6, <3>1, <3>2
  <2>2. \A j, k \in 1..(L + 1) : j < k => Pts(new[j][2]) < Pts(new[k][1])
    <3> SUFFICES ASSUME NEW j \in 1..(L + 1), NEW k \in 1..(L + 1), j < k
                 PROVE  Pts(new[j][2]) < Pts(new[k][1])
      OBVIOUS
    <3>1. j \in 1..L
      BY <1>3
    <3>2. CASE k \in 1..L
      BY <3>1, <3>2, <1>4 DEF Told, Spans, L
    <3>3. CASE k = L + 1
      <4> HIDE DEF o
      <4> QED BY <3>1, <3>3, <1>4, <1>5
    <3> QED BY <1>6, <3>2, <3>3
  <2> QED BY <1>4, <2>1, <2>2 DEF Spans
<1>8. new # <<>> /\ new[Len(new)][2] = os[m + 1]
  <2>1. Len(new) # 0
    BY <1>3, <1>4
  <2>2. new # <<>>
    BY <2>1
  <2> QED BY <1>4, <2>2
<1>9. \A k \in 1..(Len(new) - 1) : Pts(new[k + 1][1]) - Pts(new[k][2]) > gap
  <2> SUFFICES ASSUME NEW k \in 1..L PROVE Pts(new[k + 1][1]) - Pts(new[k][2]) > gap
    BY <1>3, <1>4
  <2>1. CASE k = L
    <3>1. iv # <<>>
      BY <1>3, <2>1 DEF L
    <3>2. Pts(o) - Pts(iv[L][2]) > gap
      BY <3>1 DEF L
    <3> HIDE DEF o
    <3> QED BY <2>1, <3>2, <1>4
  <2>2. CASE k # L
    <3>1. k \in 1..(L - 1) /\ k + 1 \in 1..L
      BY <1>3, <2>2
    <3>2. Pts(iv[k + 1][1]) - Pts(iv[k][2]) > gap
      BY <3>1 DEF Told, L
    <3> QED BY <3>1, <3>2, <1>4
  <2> QED BY <2>1, <2>2
<1>10. \A n \in 1..(m + 1) : \E k \in 1..Len(new) : Spanned(os[n], new[k])
  <2> SUFFICES ASSUME NEW n \in 1..(m + 1) PROVE \E k \in 1..(L + 1) : Spanned(os[n], new[k])
    BY <1>4
  <2>1. CASE n = m + 1
    <3>1. Spanned(o, <<o, o>>)
      BY <1>2 DEF Spanned
    <3>2. L + 1 \in 1..(L + 1)
      BY <1>3
    <3> QED BY <2>1, <3>1, <3>2, <1>4
  <2>2. CASE n # m + 1
    <3>1. n \in 1..m
      BY <2>2
    <3>2. PICK k \in 1..L : Spanned(os[n], iv[k])
      BY <3>1 DEF Told, L
    <3>3. k \in 1..(L + 1)
      BY <1>3
    <3> QED BY <3>2, <3>3, <1>4
  <2> QED BY <2>1, <2>2
<1>11. \A n \in 1..((m + 1) - 1) : \A k \in 1..Len(new) :
         Spanned(os[n], new[k]) /\ Spanned(os[n + 1], new[k]) => Pts(os[n + 1]) - Pts(os[n]) <= gap
  <2> SUFFICES ASSUME NEW n \in 1..m, NEW k \in 1..(L + 1),
                      Spanned(os[n], new[k]), Spanned(os[n + 1], new[k])
               PROVE  Pts(os[n + 1]) - Pts(os[n]) <= gap
    BY <1>4
  <2>1. n \in 1..Len(os) /\ n + 1 \in 1..Len(os) /\ n < m + 1
    BY <1>1
  <2>2. Pts(os[n]) < Pts(o)
    <3>1. m \in 1..Len(os) /\ n \in 1..Len(os) /\ (n = m \/ n < m) /\ m # 0
      BY <1>1, <2>1
    <3>2. n < m => Pts(os[n]) <= Pts(os[m])
      BY <3>1 DEF Rising
    <3>3. iv # <<>> /\ iv[L][2] = os[m] /\ L \in 1..L
      BY <1>3, <3>1 DEF Told, L
    <3>4. Pts(os[m]) < Pts(o)
      BY <3>3, <1>5
    <3>5. Pts(os[n]) \in Nat /\ Pts(os[m]) \in Nat /\ Pts(o) \in Nat
      BY <3>1, <1>1, <1>2
    <3> QED BY <3>1, <3>2, <3>4, <3>5
  <2>3. k # L + 1
    <3>1. ~(Pts(o) <= Pts(os[n]))
      BY <1>1, <1>2, <2>1, <2>2
    <3> HIDE DEF o
    <3> QED BY <3>1, <1>4 DEF Spanned
  <2>4. k \in 1..L /\ new[k] = iv[k]
    BY <1>4, <1>6, <2>3
  <2>5. n # m
    <3> SUFFICES ASSUME n = m PROVE FALSE
      OBVIOUS
    <3>1. Pts(o) <= Pts(iv[k][2])
      BY <2>4 DEF Spanned
    <3>2. Pts(iv[k][2]) < Pts(o)
      BY <2>4, <1>5
    <3> HIDE DEF o
    <3> QED BY <3>1, <3>2, <1>2, <1>3, <2>4
  <2>6. n \in 1..(m - 1)
    BY <2>5
  <2> QED BY <2>4, <2>6 DEF Told, L
<1>12. ~(m + 1 = 0)
  OBVIOUS
<1> QED BY <1>7, <1>8, <1>9, <1>10, <1>11, <1>12 DEF Told, new, o

\* The first elements of a list are a list.
LEMMA Shortened ==
  ASSUME NEW S, NEW s \in Seq(S), NEW n \in 0..Len(s)
  PROVE  /\ SubSeq(s, 1, n) \in Seq(S) /\ Len(SubSeq(s, 1, n)) = n
         /\ \A k \in 1..n : SubSeq(s, 1, n)[k] = s[k]
OBVIOUS

\* The next detection ends the last interval.
LEMMA GoneOnTells ==
  ASSUME NEW D, NEW os, Rising(D, os), NEW gap \in Nat, NEW m \in Nat, m + 1 \in 1..Len(os),
         NEW iv, Told(D, os, gap, iv, m),
         iv # <<>>, ~(Pts(os[m + 1]) - Pts(iv[Len(iv)][2]) > gap)
  PROVE  Told(D, os, gap, Append(Front(iv), <<iv[Len(iv)][1], os[m + 1]>>), m + 1)
<1> DEFINE o == os[m + 1]
           L == Len(iv)
           s == <<iv[L][1], o>>
           new == Append(Front(iv), s)
<1>1. /\ Len(os) \in Nat /\ \A n \in 1..Len(os) : os[n] \in D
      /\ \A n \in 1..Len(os) : Pts(os[n]) \in Nat
  BY DEF Rising
<1>2. o \in D /\ Pts(o) \in Nat
  BY <1>1
<1>3. /\ iv \in Seq(D \X D) /\ L \in Nat
      /\ \A k \in 1..L : /\ iv[k] \in D \X D /\ iv[k][1] \in D /\ iv[k][2] \in D
                         /\ Pts(iv[k][1]) \in Nat /\ Pts(iv[k][2]) \in Nat
  <2>1. iv \in Seq(D \X D)
    BY DEF Told, Spans
  <2>2. L \in Nat /\ \A k \in 1..L : iv[k] \in D \X D
    BY <2>1
  <2>3. \A p \in D \X D : p[1] \in D /\ p[2] \in D
    OBVIOUS
  <2>4. \A d \in D : Pts(d) \in Nat
    BY DEF Rising
  <2> HIDE DEF L
  <2> QED BY <2>1, <2>2, <2>3, <2>4
<1>4. L # 0 /\ L \in 1..L
  BY <1>3
<1>5. s \in D \X D /\ s[1] = iv[L][1] /\ s[2] = o
  BY <1>2, <1>3, <1>4
<1>6. /\ new \in Seq(D \X D) /\ Len(new) = L /\ new[L] = s
      /\ \A k \in 1..L : k # L => new[k] = iv[k]
  <2>1. Front(iv) = SubSeq(iv, 1, L - 1)
    BY DEF Front
  <2> HIDE DEF L, s
  <2>2. L - 1 \in 0..Len(iv)
    BY <1>3, <1>4 DEF L
  <2>3. SubSeq(iv, 1, L - 1) \in Seq(D \X D) /\ Len(SubSeq(iv, 1, L - 1)) = L - 1
    BY <1>3, <2>2, Shortened
  <2>4. \A k \in 1..(L - 1) : SubSeq(iv, 1, L - 1)[k] = iv[k]
    BY <1>3, <2>2, Shortened
  <2> DEFINE f == SubSeq(iv, 1, L - 1)
  <2>5. new = Append(f, s)
    BY <2>1
  <2> HIDE DEF f, new
  <2>6. f \in Seq(D \X D) /\ Len(f) = L - 1 /\ \A k \in 1..(L - 1) : f[k] = iv[k]
    BY <2>3, <2>4 DEF f
  <2>7. Append(f, s) \in Seq(D \X D) /\ Len(Append(f, s)) = Len(f) + 1
    BY <1>5, <2>6
  <2>8. /\ Append(f, s)[Len(f) + 1] = s
        /\ \A k \in 1..Len(f) : Append(f, s)[k] = f[k]
    BY <1>5, <2>6
  <2>9. Len(f) + 1 = L /\ \A k \in 1..L : k # L => k \in 1..(L - 1)
    BY <1>3, <1>4, <2>6
  <2> QED BY <2>5, <2>6, <2>7, <2>8, <2>9
<1>7. m # 0 /\ m \in 1..Len(os) /\ iv[L][2] = os[m] /\ Pts(os[m]) <= Pts(o)
  <2>1. m # 0
    BY DEF Told
  <2>2. m \in 1..Len(os) /\ m > 0
    BY <1>1, <2>1
  <2>3. Pts(os[m]) <= Pts(o)
    BY <2>2 DEF Rising
  <2> QED BY <2>1, <2>2, <2>3 DEF Told
<1> HIDE DEF new, s, L
\* The intervals begin where they began, and end no earlier.
<1>8. /\ \A k \in 1..L : new[k][1] = iv[k][1]
      /\ \A k \in 1..L : Pts(iv[k][2]) <= Pts(new[k][2])
      /\ \A k \in 1..L : k # L => new[k][2] = iv[k][2]
      /\ new[L][2] = o
  <2>1. Pts(iv[L][2]) <= Pts(new[L][2])
    <3> HIDE DEF o
    <3> QED BY <1>1, <1>2, <1>5, <1>6, <1>7
  <2>2. \A k \in 1..L : k # L => Pts(iv[k][2]) <= Pts(new[k][2])
    BY <1>3, <1>6
  <2> HIDE DEF o
  <2> QED BY <1>5, <1>6, <2>1, <2>2
<1>9. \A n \in 1..(m + 1), k \in 1..L : n # m + 1 /\ Spanned(os[n], iv[k]) => Spanned(os[n], new[k])
  <2> SUFFICES ASSUME NEW n \in 1..(m + 1), NEW k \in 1..L, n # m + 1, Spanned(os[n], iv[k])
               PROVE  Spanned(os[n], new[k])
    OBVIOUS
  <2>1. n \in 1..Len(os) /\ n < m + 1
    BY <1>1
  <2>2. Pts(os[n]) <= Pts(new[k][2])
    <3>1. CASE k = L
      <4>1. Pts(os[n]) <= Pts(o)
        BY <2>1 DEF Rising
      <4> HIDE DEF o
      <4> QED BY <3>1, <4>1, <1>1, <1>2, <1>8, <2>1
    <3>2. CASE k # L
      BY <3>2, <1>8 DEF Spanned
    <3> QED BY <3>1, <3>2
  <2> QED BY <2>2, <1>8 DEF Spanned
<1>10. Spans(D, new)
  <2>1. \A k \in 1..L : Pts(new[k][1]) <= Pts(new[k][2])
    <3> SUFFICES ASSUME NEW k \in 1..L PROVE Pts(new[k][1]) <= Pts(new[k][2])
      OBVIOUS
    <3>1. Pts(iv[k][1]) <= Pts(iv[k][2])
      BY DEF Told, Spans, L
    <3>2. Pts(iv[k][2]) <= Pts(new[k][2]) /\ new[k][1] = iv[k][1]
      BY <1>8
    <3>3. Pts(new[k][2]) \in Nat
      <4>1. CASE k = L
        <5> HIDE DEF o
        <5> QED BY <4>1, <1>2, <1>8
      <4>2. CASE k # L
        BY <4>2, <1>3, <1>8
      <4> QED BY <4>1, <4>2
    <3> QED BY <3>1, <3>2, <3>3, <1>3
  <2>2. \A j, k \in 1..L : j < k => Pts(new[j][2]) < Pts(new[k][1])
    <3> SUFFICES ASSUME NEW j \in 1..L, NEW k \in 1..L, j < k
                 PROVE  Pts(new[j][2]) < Pts(new[k][1])
      OBVIOUS
    <3>1. j # L
      BY <1>3
    <3>2. Pts(iv[j][2]) < Pts(iv[k][1])
      BY DEF Told, Spans, L
    <3> QED BY <3>1, <3>2, <1>8
  <2> QED BY <1>6, <2>1, <2>2 DEF Spans
<1>11. new # <<>> /\ new[Len(new)][2] = os[m + 1]
  <2>1. new # <<>>
    BY <1>4, <1>6
  <2> QED BY <2>1, <1>6, <1>8
<1>12. \A k \in 1..(Len(new) - 1) : Pts(new[k + 1][1]) - Pts(new[k][2]) > gap
  <2> SUFFICES ASSUME NEW k \in 1..(L - 1) PROVE Pts(new[k + 1][1]) - Pts(new[k][2]) > gap
    BY <1>6
  <2>1. k \in 1..L /\ k # L /\ k + 1 \in 1..L
    BY <1>3
  <2>2. Pts(iv[k + 1][1]) - Pts(iv[k][2]) > gap
    BY DEF Told, L
  <2> QED BY <2>1, <2>2, <1>8
<1>13. \A n \in 1..(m + 1) : \E k \in 1..Len(new) : Spanned(os[n], new[k])
  <2> SUFFICES ASSUME NEW n \in 1..(m + 1) PROVE \E k \in 1..L : Spanned(os[n], new[k])
    BY <1>6
  <2>1. CASE n = m + 1
    <3>1. Pts(iv[L][1]) <= Pts(o)
      <4>1. Pts(iv[L][1]) <= Pts(iv[L][2])
        BY <1>4 DEF Told, Spans, L
      <4> HIDE DEF o
      <4> QED BY <4>1, <1>1, <1>2, <1>3, <1>4, <1>7
    <3>2. Pts(o) <= Pts(o)
      BY <1>2
    <3>3. Spanned(o, new[L])
      <4> HIDE DEF o
      <4> QED BY <3>1, <3>2, <1>4, <1>8 DEF Spanned
    <3> QED BY <2>1, <3>3, <1>4
  <2>2. CASE n # m + 1
    <3>1. n \in 1..m
      BY <2>2
    <3>2. PICK k \in 1..L : Spanned(os[n], iv[k])
      BY <3>1 DEF Told, L
    <3> QED BY <3>2, <2>2, <1>9
  <2> QED BY <2>1, <2>2
<1>14. \A n \in 1..((m + 1) - 1) : \A k \in 1..Len(new) :
         Spanned(os[n], new[k]) /\ Spanned(os[n + 1], new[k]) => Pts(os[n + 1]) - Pts(os[n]) <= gap
  <2> SUFFICES ASSUME NEW n \in 1..m, NEW k \in 1..L,
                      Spanned(os[n], new[k]), Spanned(os[n + 1], new[k])
               PROVE  Pts(os[n + 1]) - Pts(os[n]) <= gap
    BY <1>6
  <2>1. CASE n = m
    <3>1. ~(Pts(o) - Pts(os[m]) > gap)
      BY <1>7 DEF L
    <3> HIDE DEF o
    <3>2. Pts(o) - Pts(os[m]) <= gap
      BY <3>1, <1>1, <1>2, <1>7
    <3> QED BY <3>2, <2>1 DEF o
  <2>2. CASE n # m
    <3>1. n \in 1..(m - 1) /\ n + 1 \in 1..m /\ n \in 1..Len(os) /\ n + 1 \in 1..Len(os)
      BY <2>2, <1>1
    <3>2. Spanned(os[n], iv[k]) /\ Spanned(os[n + 1], iv[k])
      <4>1. CASE k # L
        BY <4>1, <1>8 DEF Spanned
      <4>2. CASE k = L
        <5>1. Pts(iv[L][1]) <= Pts(os[n]) /\ Pts(iv[L][1]) <= Pts(os[n + 1])
          BY <4>2, <1>8 DEF Spanned
        <5>2. \A j \in 1..m : Pts(os[j]) <= Pts(os[m])
          <6> SUFFICES ASSUME NEW j \in 1..m PROVE Pts(os[j]) <= Pts(os[m])
            OBVIOUS
          <6>1. j \in 1..Len(os) /\ Pts(os[j]) \in Nat /\ Pts(os[m]) \in Nat
            BY <1>1, <1>7
          <6>2. j < m => Pts(os[j]) <= Pts(os[m])
            BY <6>1, <1>7 DEF Rising
          <6>3. j = m \/ j < m
            OBVIOUS
          <6> QED BY <6>1, <6>2, <6>3
        <5>3. Pts(os[n]) <= Pts(os[m]) /\ Pts(os[n + 1]) <= Pts(os[m])
          BY <3>1, <5>2
        <5> QED BY <4>2, <5>1, <5>3, <1>7 DEF Spanned
      <4> QED BY <4>1, <4>2
    <3> QED BY <3>1, <3>2 DEF Told, L
  <2> QED BY <2>1, <2>2
<1>15. ~(m + 1 = 0)
  OBVIOUS
<1>16. Told(D, os, gap, new, m + 1)
  BY <1>10, <1>11, <1>12, <1>13, <1>14, <1>15 DEF Told
<1> QED BY <1>16 DEF new, s, L, o

\* So one detection after the other keeps what the intervals tell.
LEMMA ExtendTells ==
  ASSUME NEW D, NEW os, Rising(D, os), NEW gap \in Nat, NEW m \in Nat, m + 1 \in 1..Len(os),
         NEW iv, Told(D, os, gap, iv, m)
  PROVE  Told(D, os, gap, Extend(gap, iv, os[m + 1]), m + 1)
<1>1. Last(iv) = iv[Len(iv)]
  BY DEF Last
<1>2. CASE iv = <<>> \/ Pts(os[m + 1]) - Pts(iv[Len(iv)][2]) > gap
  <2>1. Extend(gap, iv, os[m + 1]) = Append(iv, <<os[m + 1], os[m + 1]>>)
    BY <1>1, <1>2 DEF Extend
  <2> QED BY <1>2, <2>1, BegunTells
<1>3. CASE ~(iv = <<>> \/ Pts(os[m + 1]) - Pts(iv[Len(iv)][2]) > gap)
  <2>1. Extend(gap, iv, os[m + 1]) = Append(Front(iv), <<iv[Len(iv)][1], os[m + 1]>>)
    BY <1>1, <1>3 DEF Extend
  <2> QED BY <1>3, <2>1, GoneOnTells
<1> QED BY <1>2, <1>3

\* The larger of two numbers is one of them, and no less than either.
LEMMA LargestOf ==
  ASSUME NEW a \in Int, NEW b \in Int
  PROVE  Largest({a, b}) \in {a, b} /\ Largest({a, b}) >= a /\ Largest({a, b}) >= b
<1>1. \E n \in {a, b} : \A k \in {a, b} : n >= k
  <2>1. CASE a >= b
    BY <2>1
  <2>2. CASE ~(a >= b)
    BY <2>2
  <2> QED BY <2>1, <2>2
<1> QED BY <1>1 DEF Largest

\* Twice the median of whole numbers is a whole number.
LEMMA TwiceWhole ==
  ASSUME NEW numbers \in Seq(Int), Len(numbers) # 0
  PROVE  Twice(numbers) \in Int
<1> DEFINE keys == [i \in DOMAIN numbers |-> <<numbers[i], 0>>]
           sorted == SortedBy(Listed(numbers), keys)
           n == Len(numbers)
<1>1. Twice(numbers) = sorted[(n + 1) \div 2] + sorted[n \div 2 + 1]
  BY DEF Twice
<1>2. \A i \in DOMAIN numbers : keys[i][1] \in Int /\ keys[i][2] \in Int
  OBVIOUS
<1>3. Listed(numbers) = numbers
  BY Listing
<1> HIDE DEF keys
<1>4. SortedBy(numbers, keys) \in Seq(Int) /\ Len(SortedBy(numbers, keys)) = n
  BY <1>2, SortedAll
<1>5. sorted \in Seq(Int) /\ Len(sorted) = n
  BY <1>3, <1>4
<1>6. n \in Nat /\ n # 0
  OBVIOUS
<1> HIDE DEF n, sorted
<1>7. (n + 1) \div 2 \in 1..n /\ n \div 2 + 1 \in 1..n
  BY <1>6
<1>8. sorted[(n + 1) \div 2] \in Int /\ sorted[n \div 2 + 1] \in Int
  BY <1>5, <1>7
<1> QED BY <1>1, <1>8

\* The gap an appearance may have is a whole number.
LEMMA GapWhole ==
  ASSUME NEW D, NEW os, Rising(D, os)
  PROVE  MaxGap(os) \in Nat
<1>1. Len(os) \in Nat /\ \A n \in 1..Len(os) : Pts(os[n]) \in Nat
  <2>1. os \in Seq(D) /\ \A o \in D : Pts(o) \in Nat
    BY DEF Rising
  <2>2. Len(os) \in Nat /\ \A n \in 1..Len(os) : os[n] \in D
    BY <2>1
  <2> QED BY <2>1, <2>2
<1>2. CASE Len(os) < 2
  BY <1>2 DEF MaxGap
<1>3. CASE ~(Len(os) < 2)
  <2> DEFINE k == Len(os) - 1
             gaps == [i \in 1..k |-> Pts(os[i + 1]) - Pts(os[i])]
             t == Twice(gaps)
             g == (5 * (t \div 2)) \div 2
  <2>1. MaxGap(os) = Largest({1, g})
    BY <1>3 DEF MaxGap
  <2>2. k \in Nat /\ k # 0
    BY <1>1, <1>3
  <2>3. \A i \in 1..k : gaps[i] \in Int
    <3> SUFFICES ASSUME NEW i \in 1..k PROVE gaps[i] \in Int
      OBVIOUS
    <3>1. i \in 1..Len(os) /\ i + 1 \in 1..Len(os)
      BY <1>1
    <3>2. Pts(os[i]) \in Nat /\ Pts(os[i + 1]) \in Nat
      BY <1>1, <3>1
    <3>3. Pts(os[i + 1]) - Pts(os[i]) \in Int
      BY <3>2
    <3> QED BY <3>3
  <2> HIDE DEF k
  <2>4. gaps = [i \in 1..k |-> gaps[i]]
    OBVIOUS
  <2> HIDE DEF gaps
  <2>5. gaps \in [1..k -> Int]
    BY <2>3, <2>4
  <2>6. gaps \in Seq(Int) /\ Len(gaps) = k
    BY <2>2, <2>5
  <2>7. t \in Int
    BY <2>2, <2>6, TwiceWhole
  <2> HIDE DEF t
  <2>8. g \in Int
    BY <2>7
  <2> HIDE DEF g
  <2>9. 1 \in Int
    OBVIOUS
  <2>10. Largest({1, g}) \in {1, g} /\ Largest({1, g}) >= 1
    BY <2>8, <2>9, LargestOf
  <2> QED BY <2>1, <2>8, <2>9, <2>10
<1> QED BY <1>2, <1>3

\* The appearances tell of all detections.
LEMMA AppearancesTell ==
  ASSUME NEW D, NEW os, Rising(D, os)
  PROVE  Told(D, os, MaxGap(os), Appearances(os), Len(os))
<1> DEFINE len == Len(os)
           gap == MaxGap(os)
           A == Seq(D \X D)
           step == [n \in 1..len |-> [iv \in A |-> Extend(gap, iv, os[n])]]
           Unrolls(iv) ==
             iv = [n \in 0..len |-> IF n = 0 THEN <<>> ELSE Extend(gap, iv[n - 1], os[n])]
           iv == CHOOSE iv : Unrolls(iv)
<1>1. Appearances(os) = iv[len]
  BY DEF Appearances
<1>2. len \in Nat /\ \A n \in 1..len : os[n] \in D
  BY DEF Rising
<1>3. gap \in Nat
  BY GapWhole
<1>4. <<>> \in A
  OBVIOUS
<1> HIDE DEF gap, len
<1>5. \A v \in A, n \in 1..len : Extend(gap, v, os[n]) \in A
  <2> SUFFICES ASSUME NEW v \in A, NEW n \in 1..len PROVE Extend(gap, v, os[n]) \in A
    OBVIOUS
  <2>1. os[n] \in D /\ <<os[n], os[n]>> \in D \X D
    BY <1>2
  <2>2. Append(v, <<os[n], os[n]>>) \in A
    BY <2>1
  <2>3. CASE v = <<>> \/ Pts(os[n]) - Pts(Last(v)[2]) > gap
    BY <2>2, <2>3 DEF Extend
  <2>4. CASE ~(v = <<>> \/ Pts(os[n]) - Pts(Last(v)[2]) > gap)
    <3>1. Extend(gap, v, os[n]) = Append(Front(v), <<Last(v)[1], os[n]>>)
      BY <2>4 DEF Extend
    <3>2. Len(v) \in Nat /\ Len(v) # 0
      BY <2>4
    <3>3. Last(v) \in D \X D
      BY <3>2 DEF Last
    <3>4. <<Last(v)[1], os[n]>> \in D \X D
      BY <2>1, <3>3
    <3>5. Len(v) - 1 \in 0..Len(v)
      BY <3>2
    <3>6. SubSeq(v, 1, Len(v) - 1) \in A
      BY <3>5, Shortened
    <3>7. Front(v) \in A
      BY <3>6 DEF Front
    <3> QED BY <3>1, <3>4, <3>7
  <2> QED BY <2>3, <2>4
<1>6. \A v \in A, n \in 1..len : step[n][v] = Extend(gap, v, os[n])
  OBVIOUS
<1>7. step \in [1..len -> [A -> A]]
  BY <1>5
<1> HIDE DEF A, step
<1>8. PICK f : Course(A, <<>>, len, step, f)
  <2>1. Stepwise(A, <<>>, len, step)
    BY <1>2, <1>4, <1>7 DEF Stepwise
  <2> QED BY <2>1, Recursion
<1>9. Unrolls(f)
  <2>1. /\ f \in [0..len -> A] /\ f[0] = <<>>
        /\ \A n \in 1..len : f[n] = step[n][f[n - 1]]
    BY <1>8 DEF Course
  <2>2. \A n \in 1..len : n - 1 \in 0..len
    BY <1>2
  <2>3. \A n \in 1..len : f[n - 1] \in A
    BY <2>1, <2>2
  <2>4. \A n \in 1..len : f[n] = Extend(gap, f[n - 1], os[n])
    BY <2>1, <2>3, <1>6
  <2>5. \A n \in 0..len : n = 0 \/ n \in 1..len
    BY <1>2
  <2>6. \A n \in 0..len : f[n] = IF n = 0 THEN <<>> ELSE Extend(gap, f[n - 1], os[n])
    BY <2>1, <2>4, <2>5
  <2> QED BY <2>1, <2>6
<1>10. Unrolls(iv)
  BY <1>9
<1>11. \A n \in 0..len : iv[n] = IF n = 0 THEN <<>> ELSE Extend(gap, iv[n - 1], os[n])
  <2> HIDE DEF iv
  <2> QED BY <1>10
<1> HIDE DEF iv
<1> DEFINE T == {n \in 0..len : Told(D, os, gap, iv[n], n)}
<1>12. 0 \in T
  <2>1. iv[0] = <<>> /\ 0 \in 0..len
    BY <1>2, <1>11
  <2>2. <<>> \in Seq(D \X D) /\ Len(<<>>) = 0
    OBVIOUS
  <2>3. Spans(D, <<>>)
    BY <2>2 DEF Spans
  <2>4. Told(D, os, gap, <<>>, 0)
    BY <2>2, <2>3 DEF Told
  <2> QED BY <2>1, <2>4
<1>13. ASSUME NEW n \in T, n < len PROVE n + 1 \in T
  <2>1. /\ n \in Nat /\ n \in 0..len /\ n + 1 \in 1..len /\ n + 1 \in 0..len
        /\ (n + 1) - 1 = n /\ n + 1 # 0
    BY <1>2, <1>13
  <2>2. Told(D, os, gap, iv[n], n)
    BY <1>13
  <2>3. n + 1 \in 1..Len(os)
    BY <2>1 DEF len
  <2>4. Told(D, os, gap, Extend(gap, iv[n], os[n + 1]), n + 1)
    BY <2>1, <2>2, <2>3, <1>3, ExtendTells
  <2>5. iv[n + 1] = Extend(gap, iv[n], os[n + 1])
    BY <2>1, <1>11
  <2> QED BY <2>1, <2>4, <2>5
<1>14. len \in T
  <2>1. T \in SUBSET (0..len)
    OBVIOUS
  <2> HIDE DEF T
  <2>2. \A n \in 0..len : n \in T
    BY <1>2, <1>12, <1>13, <2>1, Climb
  <2>3. len \in 0..len
    BY <1>2
  <2> QED BY <2>2, <2>3
<1> QED BY <1>1, <1>14 DEF gap, len

\* What AppearancesCover says of one track.
Covered(os, spans) ==
  /\ \A o \in ToSet(os) : Cardinality({k \in DOMAIN spans : Spanned(o, spans[k])}) = 1
  /\ \A k \in 1..(Len(spans) - 1) :
       \A n \in 1..(Len(os) - 1) :
         (\E s \in ToSet(spans) : Spanned(os[n], s) /\ Spanned(os[n + 1], s)) =>
            Pts(os[n + 1]) - Pts(os[n]) < Pts(spans[k + 1][1]) - Pts(spans[k][2])

\* Intervals that tell of all detections cover them.
LEMMA ToldCovers ==
  ASSUME NEW D, NEW os, Rising(D, os), NEW gap \in Nat, NEW spans,
         Told(D, os, gap, spans, Len(os))
  PROVE  Covered(os, spans)
<1>1. /\ Len(os) \in Nat /\ DOMAIN os = 1..Len(os)
      /\ \A n \in 1..Len(os) : os[n] \in D /\ Pts(os[n]) \in Nat
  <2>1. os \in Seq(D) /\ \A o \in D : Pts(o) \in Nat
    BY DEF Rising
  <2>2. Len(os) \in Nat /\ DOMAIN os = 1..Len(os) /\ \A n \in 1..Len(os) : os[n] \in D
    BY <2>1
  <2> QED BY <2>1, <2>2
<1>2. /\ spans \in Seq(D \X D) /\ Len(spans) \in Nat /\ DOMAIN spans = 1..Len(spans)
      /\ \A k \in 1..Len(spans) : Pts(spans[k][1]) \in Nat /\ Pts(spans[k][2]) \in Nat
  <2>1. spans \in Seq(D \X D)
    BY DEF Told, Spans
  <2>2. /\ Len(spans) \in Nat /\ DOMAIN spans = 1..Len(spans)
        /\ \A k \in 1..Len(spans) : spans[k] \in D \X D
    BY <2>1
  <2>3. \A p \in D \X D : p[1] \in D /\ p[2] \in D
    OBVIOUS
  <2>4. \A d \in D : Pts(d) \in Nat
    BY DEF Rising
  <2> QED BY <2>1, <2>2, <2>3, <2>4
<1>3. ASSUME NEW o \in ToSet(os)
      PROVE  Cardinality({k \in DOMAIN spans : Spanned(o, spans[k])}) = 1
  <2>1. PICK n \in 1..Len(os) : os[n] = o
    BY <1>1 DEF ToSet
  <2>2. PICK k \in 1..Len(spans) : Spanned(o, spans[k])
    BY <2>1 DEF Told
  <2>3. Pts(o) \in Nat
    BY <1>1, <2>1
  <2>4. ASSUME NEW j \in 1..Len(spans), Spanned(o, spans[j]) PROVE j = k
    <3>1. ~(j < k)
      <4> SUFFICES ASSUME j < k PROVE FALSE
        OBVIOUS
      <4>1. Pts(spans[j][2]) < Pts(spans[k][1])
        BY DEF Told, Spans
      <4>2. Pts(o) <= Pts(spans[j][2]) /\ Pts(spans[k][1]) <= Pts(o)
        BY <2>2, <2>4 DEF Spanned
      <4> QED BY <4>1, <4>2, <2>3, <1>2
    <3>2. ~(k < j)
      <4> SUFFICES ASSUME k < j PROVE FALSE
        OBVIOUS
      <4>1. Pts(spans[k][2]) < Pts(spans[j][1])
        BY DEF Told, Spans
      <4>2. Pts(o) <= Pts(spans[k][2]) /\ Pts(spans[j][1]) <= Pts(o)
        BY <2>2, <2>4 DEF Spanned
      <4> QED BY <4>1, <4>2, <2>3, <1>2
    <3> QED BY <3>1, <3>2, <1>2
  <2>5. {j \in DOMAIN spans : Spanned(o, spans[j])} = {k}
    BY <1>2, <2>2, <2>4
  <2> QED BY <2>5, FS_Singleton
<1>4. ASSUME NEW k \in 1..(Len(spans) - 1), NEW n \in 1..(Len(os) - 1), NEW s \in ToSet(spans),
             Spanned(os[n], s), Spanned(os[n + 1], s)
      PROVE  Pts(os[n + 1]) - Pts(os[n]) < Pts(spans[k + 1][1]) - Pts(spans[k][2])
  <2>1. PICK j \in 1..Len(spans) : spans[j] = s
    BY <1>2 DEF ToSet
  <2>2. Pts(os[n + 1]) - Pts(os[n]) <= gap
    BY <1>4, <2>1 DEF Told
  <2>3. Pts(spans[k + 1][1]) - Pts(spans[k][2]) > gap
    BY DEF Told
  <2>4. n \in 1..Len(os) /\ n + 1 \in 1..Len(os) /\ k \in 1..Len(spans) /\ k + 1 \in 1..Len(spans)
    BY <1>1, <1>2
  <2>5. /\ Pts(os[n]) \in Nat /\ Pts(os[n + 1]) \in Nat
        /\ Pts(spans[k + 1][1]) \in Nat /\ Pts(spans[k][2]) \in Nat
    BY <1>1, <1>2, <2>4
  <2> QED BY <2>2, <2>3, <2>5
<1> QED BY <1>3, <1>4 DEF Covered

-----------------------------------------------------------------------------
(* LabTracks: the template of a tracklet.                                   *)

\* Observations whose quality, vector and time are numbers.
Numbered(S) == \A o \in S : Quality(o) \in Nat /\ Vec(o) \in Int /\ Pts(o) \in Nat

\* What is in a list is at one of its places.
LEMMA Elements ==
  ASSUME NEW S, NEW s \in Seq(S)
  PROVE  /\ ToSet(s) \subseteq S /\ s \in Seq(ToSet(s))
         /\ \A i \in 1..Len(s) : s[i] \in ToSet(s)
         /\ \A o \in ToSet(s) : \E i \in 1..Len(s) : s[i] = o
<1>1. Len(s) \in Nat /\ DOMAIN s = 1..Len(s) /\ \A i \in 1..Len(s) : s[i] \in S
  OBVIOUS
<1>2. \A i \in 1..Len(s) : s[i] \in ToSet(s)
  BY <1>1 DEF ToSet
<1>3. \A o \in ToSet(s) : \E i \in 1..Len(s) : s[i] = o
  BY <1>1 DEF ToSet
<1>4. s \in [1..Len(s) -> ToSet(s)]
  BY <1>1, <1>2
<1> QED BY <1>1, <1>2, <1>3, <1>4

\* FirstBest is one of a list: a best quality is there, and a first that has it.
LEMMA FirstBestOf ==
  ASSUME NEW S, Numbered(S), NEW l \in Seq(S), Len(l) # 0
  PROVE  FirstBest(l) \in S
<1> DEFINE len == Len(l)
           qualities == {Quality(l[i]) : i \in 1..len}
<1>1. /\ len \in Nat /\ len # 0 /\ DOMAIN l = 1..len /\ \A i \in 1..len : l[i] \in S
      /\ \A i \in 1..len : Quality(l[i]) \in Nat
  <2>1. len \in Nat /\ len # 0 /\ DOMAIN l = 1..len /\ \A i \in 1..len : l[i] \in S
    OBVIOUS
  <2> QED BY <2>1 DEF Numbered
<1> HIDE DEF len
<1>2. \E m \in qualities : \A q \in qualities : q <= m
  <2>1. qualities \in SUBSET Nat
    BY <1>1
  <2>2. qualities # {}
    <3>1. 1 \in 1..len
      BY <1>1
    <3> QED BY <3>1
  <2>3. IsFiniteSet(qualities)
    <3>1. IsFiniteSet(1..len)
      BY <1>1, FS_Interval
    <3> DEFINE f == [i \in 1..len |-> Quality(l[i])]
    <3>2. f \in Surjection(1..len, qualities)
      <4>1. f \in [1..len -> qualities]
        OBVIOUS
      <4>2. \A q \in qualities : \E i \in 1..len : f[i] = q
        OBVIOUS
      <4> HIDE DEF f, qualities
      <4> QED BY <4>1, <4>2 DEF Surjection
    <3> HIDE DEF f, qualities
    <3> QED BY <3>1, <3>2, FS_Surjection
  <2> HIDE DEF qualities
  <2> QED BY <2>1, <2>2, <2>3, Greatest
<1>3. PICK m \in qualities : \A q \in qualities : q <= m
  BY <1>2
<1> DEFINE P == {i \in 1..len : Quality(l[i]) = m}
<1>4. PICK i \in P : \A k \in P : i <= k
  <2>1. P \in SUBSET Nat /\ P # {}
    BY <1>1, <1>3
  <2> HIDE DEF P
  <2> QED BY <2>1, Least
<1>5. i \in 1..len /\ Quality(l[i]) = m
  BY <1>4
<1>6. \A k \in DOMAIN l : Quality(l[k]) <= Quality(l[i])
  BY <1>1, <1>3, <1>5
<1>7. \A k \in 1..(i - 1) : Quality(l[k]) < Quality(l[i])
  <2> SUFFICES ASSUME NEW k \in 1..(i - 1) PROVE Quality(l[k]) < Quality(l[i])
    OBVIOUS
  <2>1. k \in 1..len /\ ~(i <= k)
    BY <1>1, <1>5
  <2>2. Quality(l[k]) # m
    BY <1>4, <2>1
  <2>3. Quality(l[k]) <= Quality(l[i])
    BY <1>1, <1>6, <2>1
  <2>4. Quality(l[k]) \in Nat /\ Quality(l[i]) \in Nat
    BY <1>1, <1>5, <2>1
  <2> QED BY <1>5, <2>2, <2>3, <2>4
<1> DEFINE best(j) == /\ \A k \in DOMAIN l : Quality(l[k]) <= Quality(l[j])
                      /\ \A k \in 1..(j - 1) : Quality(l[k]) < Quality(l[j])
           j == CHOOSE j \in DOMAIN l : best(j)
<1>8. \E n \in DOMAIN l : best(n)
  BY <1>1, <1>5, <1>6, <1>7
<1> HIDE DEF best
<1>9. j \in DOMAIN l
  BY <1>8
<1>10. FirstBest(l) = l[j]
  BY DEF FirstBest, best
<1> QED BY <1>1, <1>9, <1>10

\* The picks of the bins are candidates, and no more than there are bins.
LEMMA BinsPicked ==
  ASSUME NEW S, Numbered(S), NEW os \in Seq(S)
  PROVE  OfBins(os) \in Seq(S) /\ Len(OfBins(os)) <= MaxSelected
<1> DEFINE from == Pts(os[1])
           span == IF Pts(Last(os)) > from THEN Pts(Last(os)) - from ELSE 1
           edge(k) == from + (span * k) \div MaxSelected
           bin(k) == {i \in DOMAIN os : \/ edge(k - 1) <= Pts(os[i]) /\ Pts(os[i]) < edge(k)
                                        \/ k = MaxSelected /\ Pts(os[i]) = edge(k)}
           filled == {k \in 1..MaxSelected : bin(k) # {}}
           best == [k \in filled |-> FirstBest(Picked(os, bin(k)))]
<1>1. OfBins(os) = Listed(Picked(best, filled))
  BY DEF OfBins
<1>2. \A k : bin(k) \subseteq DOMAIN os
  OBVIOUS
<1> HIDE DEF bin
<1>3. MaxSelected \in Nat
  BY LabTracksAssumption
<1>4. filled \subseteq 1..MaxSelected /\ \A k \in filled : bin(k) # {}
  OBVIOUS
<1>5. ASSUME NEW k \in filled PROVE best[k] \in S
  <2>1. DOMAIN os = 1..Len(os) /\ Len(os) \in Nat /\ \A i \in 1..Len(os) : os[i] \in S
    OBVIOUS
  <2>2. bin(k) \in SUBSET Nat /\ bin(k) # {} /\ bin(k) \subseteq 1..Len(os)
    BY <1>2, <1>4, <1>5, <2>1
  <2> DEFINE B == bin(k)
  <2>3. best[k] = FirstBest(Picked(os, B))
    BY <1>5
  <2>4. IsFiniteSet(B)
    <3> HIDE DEF B
    <3>1. IsFiniteSet(1..Len(os))
      BY <2>1, FS_Interval
    <3> QED BY <2>2, <3>1, FS_Subset DEF B
  <2>5. B \in SUBSET Nat /\ \A i \in B : os[i] \in S
    BY <2>1, <2>2
  <2> HIDE DEF B
  <2>6. /\ Picked(os, B) \in Seq(S) /\ Cardinality(B) \in Nat
        /\ Len(Picked(os, B)) = Cardinality(B)
    BY <2>4, <2>5, PickedAll
  <2>7. Cardinality(B) # 0
    BY <2>2, <2>4, FS_EmptySet DEF B
  <2> QED BY <2>3, <2>6, <2>7, FirstBestOf
<1> HIDE DEF filled, best
<1>6. IsFiniteSet(filled) /\ Cardinality(filled) <= MaxSelected
  <2>1. IsFiniteSet(1..MaxSelected) /\ Cardinality(1..MaxSelected) <= MaxSelected
    BY <1>3, FS_Interval
  <2>2. /\ IsFiniteSet(filled) /\ Cardinality(filled) <= Cardinality(1..MaxSelected)
    BY <1>4, <2>1, FS_Subset
  <2>3. Cardinality(filled) \in Nat /\ Cardinality(1..MaxSelected) \in Nat
    BY <2>1, <2>2, FS_CardinalityType
  <2> QED BY <1>3, <2>1, <2>2, <2>3
<1>7. filled \in SUBSET Nat
  BY <1>3, <1>4
<1>8. Picked(best, filled) \in Seq(S) /\ Len(Picked(best, filled)) = Cardinality(filled)
  BY <1>5, <1>6, <1>7, PickedAll
<1> QED BY <1>1, <1>6, <1>8, Listing

\* The places are filled up with candidates, and none of the picks is dropped.
LEMMA SelectionGrows ==
  ASSUME NEW S, Numbered(S), NEW os \in Seq(S), NEW picked \in Seq(S),
         Len(picked) <= MaxSelected
  PROVE  /\ Selected(os, picked) \in Seq(S)
         /\ Len(Selected(os, picked)) <= MaxSelected
         /\ Len(Selected(os, picked)) >= Len(picked)
<1> DEFINE places == {i \in DOMAIN os : os[i] \notin ToSet(picked)}
           left == Listed(Picked(os, places))
           keys == [i \in DOMAIN left |-> <<-Quality(left[i]), 0>>]
           rest == SortedBy(left, keys)
           len == Len(rest)
           A == {c \in Seq(S) : Len(c) <= MaxSelected /\ Len(c) >= Len(picked)}
           step == [n \in 1..len |-> [c \in A |-> Grown(c, rest[n])]]
           Unrolls(chosen) ==
             chosen = [n \in 0..len |-> IF n = 0 THEN picked ELSE Grown(chosen[n - 1], rest[n])]
           chosen == CHOOSE chosen : Unrolls(chosen)
<1>1. Selected(os, picked) = chosen[len]
  BY DEF Selected
<1>2. /\ MaxSelected \in Nat /\ Len(picked) \in Nat
      /\ DOMAIN os = 1..Len(os) /\ Len(os) \in Nat /\ \A i \in 1..Len(os) : os[i] \in S
  BY LabTracksAssumption
<1>3. left \in Seq(S)
  <2>1. places \subseteq DOMAIN os
    OBVIOUS
  <2> HIDE DEF places
  <2>2. IsFiniteSet(1..Len(os))
    BY <1>2, FS_Interval
  <2>3. places \in SUBSET Nat /\ IsFiniteSet(places) /\ \A i \in places : os[i] \in S
    BY <1>2, <2>1, <2>2, FS_Subset
  <2>4. Picked(os, places) \in Seq(S)
    BY <2>3, PickedAll
  <2> QED BY <2>4, Listing
<1> HIDE DEF left
<1>4. rest \in Seq(S)
  <2>1. \A i \in DOMAIN left : Quality(left[i]) \in Nat
    BY <1>3 DEF Numbered
  <2>2. \A i \in DOMAIN left : keys[i][1] \in Int /\ keys[i][2] \in Int
    BY <2>1
  <2> HIDE DEF keys
  <2> QED BY <1>3, <2>2, SortedAll
<1> HIDE DEF rest, keys
<1>5. len \in Nat /\ \A n \in 1..len : rest[n] \in S
  BY <1>4
<1>6. picked \in A
  BY <1>2
<1> HIDE DEF len
<1>7. \A c \in A, n \in 1..len : Grown(c, rest[n]) \in A
  <2> SUFFICES ASSUME NEW c \in A, NEW n \in 1..len PROVE Grown(c, rest[n]) \in A
    OBVIOUS
  <2>1. c \in Seq(S) /\ Len(c) \in Nat /\ Len(c) <= MaxSelected /\ Len(c) >= Len(picked)
    OBVIOUS
  <2>2. Append(c, rest[n]) \in Seq(S) /\ Len(Append(c, rest[n])) = Len(c) + 1
    BY <1>5, <2>1
  <2>3. CASE Len(c) < MaxSelected /\ Apart(rest[n], c)
    <3>1. Grown(c, rest[n]) = Append(c, rest[n])
      BY <2>3 DEF Grown
    <3>2. Len(c) + 1 <= MaxSelected /\ Len(c) + 1 >= Len(picked)
      BY <1>2, <2>1, <2>3
    <3> QED BY <2>2, <3>1, <3>2
  <2>4. CASE ~(Len(c) < MaxSelected /\ Apart(rest[n], c))
    BY <2>4 DEF Grown
  <2> QED BY <2>3, <2>4
<1>8. \A c \in A, n \in 1..len : step[n][c] = Grown(c, rest[n])
  OBVIOUS
<1>9. step \in [1..len -> [A -> A]]
  BY <1>7
<1> HIDE DEF A, step
<1>10. PICK f : Course(A, picked, len, step, f)
  <2>1. Stepwise(A, picked, len, step)
    BY <1>5, <1>6, <1>9 DEF Stepwise
  <2> QED BY <2>1, Recursion
<1>11. Unrolls(f)
  <2>1. /\ f \in [0..len -> A] /\ f[0] = picked
        /\ \A n \in 1..len : f[n] = step[n][f[n - 1]]
    BY <1>10 DEF Course
  <2>2. \A n \in 1..len : n - 1 \in 0..len
    BY <1>5
  <2>3. \A n \in 1..len : f[n - 1] \in A
    BY <2>1, <2>2
  <2>4. \A n \in 1..len : f[n] = Grown(f[n - 1], rest[n])
    BY <2>1, <2>3, <1>8
  <2>5. \A n \in 0..len : n = 0 \/ n \in 1..len
    BY <1>5
  <2>6. \A n \in 0..len : f[n] = IF n = 0 THEN picked ELSE Grown(f[n - 1], rest[n])
    BY <2>1, <2>4, <2>5
  <2> QED BY <2>1, <2>6
<1>12. Unrolls(chosen)
  BY <1>11
<1>13. \A n \in 0..len : chosen[n] = IF n = 0 THEN picked ELSE Grown(chosen[n - 1], rest[n])
  <2> HIDE DEF chosen
  <2> QED BY <1>12
<1> HIDE DEF chosen
<1> DEFINE T == {n \in 0..len : chosen[n] \in A}
<1>14. 0 \in T
  BY <1>5, <1>6, <1>13
<1>15. ASSUME NEW n \in T, n < len PROVE n + 1 \in T
  <2>1. /\ n \in 0..len /\ chosen[n] \in A /\ n + 1 \in 1..len /\ (n + 1) - 1 = n
        /\ n + 1 \in 0..len /\ n + 1 # 0
    BY <1>5, <1>15
  <2>2. chosen[n + 1] = Grown(chosen[n], rest[n + 1])
    BY <2>1, <1>13
  <2> QED BY <2>1, <2>2, <1>7
<1>16. len \in T
  <2>1. T \in SUBSET (0..len)
    OBVIOUS
  <2> HIDE DEF T
  <2>2. \A n \in 0..len : n \in T
    BY <1>5, <1>14, <1>15, <2>1, Climb
  <2>3. len \in 0..len
    BY <1>5
  <2> QED BY <2>2, <2>3
<1>17. chosen[len] \in A
  BY <1>16
<1> QED BY <1>1, <1>17 DEF A

\* A whole quotient: what it is of, up to a divisor.
LEMMA Quotient ==
  ASSUME NEW s \in Int, NEW w \in Nat \ {0}
  PROVE  /\ s \div w \in Int
         /\ (s \div w) * w <= s
         /\ s < (s \div w + 1) * w
OBVIOUS

\* One more weighted number above a bound, and one more below.
LEMMA More ==
  ASSUME NEW lo \in Int, NEW s \in Int, NEW w \in Nat, NEW v \in Int, NEW x \in Nat,
         lo * w <= s, lo <= v
  PROVE  lo * (w + x) <= s + x * v
<1>1. lo * (w + x) = lo * w + lo * x
  OBVIOUS
<1>2. lo * x <= v * x
  OBVIOUS
<1>3. v * x = x * v
  OBVIOUS
<1>4. lo * w \in Int /\ lo * x \in Int /\ x * v \in Int
  OBVIOUS
<1> QED BY <1>1, <1>2, <1>3, <1>4

LEMMA Fewer ==
  ASSUME NEW hi \in Int, NEW s \in Int, NEW w \in Nat, NEW v \in Int, NEW x \in Nat,
         s <= hi * w, v <= hi
  PROVE  s + x * v <= hi * (w + x)
<1>1. hi * (w + x) = hi * w + hi * x
  OBVIOUS
<1>2. v * x <= hi * x
  OBVIOUS
<1>3. v * x = x * v
  OBVIOUS
<1>4. hi * w \in Int /\ hi * x \in Int /\ x * v \in Int
  OBVIOUS
<1> QED BY <1>1, <1>2, <1>3, <1>4

\* The mean of a template lies between two of the vectors it is made of.
LEMMA CentroidBetween ==
  ASSUME NEW S, Numbered(S), NEW os \in Seq(S), Len(os) # 0
  PROVE  \E o, q \in ToSet(os) : Vec(o) <= Centroid(os) /\ Centroid(os) <= Vec(q)
<1> DEFINE len == Len(os)
           ws == [i \in DOMAIN os |-> Weight(os[i])]
           ps == [i \in DOMAIN os |-> Weight(os[i]) * Vec(os[i])]
           c == Total(ps) \div Total(ws)
<1>1. Centroid(os) = c
  BY DEF Centroid
<1>2. /\ len \in Nat /\ len # 0 /\ DOMAIN os = 1..len
      /\ \A i \in 1..len : os[i] \in ToSet(os) /\ Vec(os[i]) \in Int /\ Quality(os[i]) \in Nat
  <2>1. len \in Nat /\ len # 0 /\ DOMAIN os = 1..len /\ \A i \in 1..len : os[i] \in S
    OBVIOUS
  <2> QED BY <2>1, Elements DEF Numbered
<1>3. \A i \in 1..len : Weight(os[i]) \in Nat /\ Weight(os[i]) >= 1
  <2> SUFFICES ASSUME NEW i \in 1..len PROVE Weight(os[i]) \in Nat /\ Weight(os[i]) >= 1
    OBVIOUS
  <2> DEFINE q == Quality(os[i])
  <2>1. q \in Nat
    BY <1>2
  <2>2. Weight(os[i]) = Largest({q, 1})
    BY DEF Weight
  <2> HIDE DEF q
  <2>3. q \in Int /\ 1 \in Int
    BY <2>1
  <2>4. Largest({q, 1}) \in {q, 1} /\ Largest({q, 1}) >= 1
    BY <2>3, LargestOf
  <2> QED BY <2>1, <2>2, <2>4
<1>4. \A i \in 1..len : Weight(os[i]) * Vec(os[i]) \in Int
  <2> SUFFICES ASSUME NEW i \in 1..len PROVE Weight(os[i]) * Vec(os[i]) \in Int
    OBVIOUS
  <2>1. Weight(os[i]) \in Int /\ Vec(os[i]) \in Int
    BY <1>2, <1>3
  <2> QED BY <2>1
<1> HIDE DEF len
<1>5. /\ ws = [i \in 1..len |-> Weight(os[i])]
      /\ ps = [i \in 1..len |-> Weight(os[i]) * Vec(os[i])]
  BY <1>2
<1> HIDE DEF ws, ps
<1>6. ws \in [1..len -> Int] /\ ps \in [1..len -> Int]
  BY <1>3, <1>4, <1>5
<1>7. ws \in Seq(Int) /\ Len(ws) = len /\ ps \in Seq(Int) /\ Len(ps) = len
  BY <1>2, <1>6
<1>8. PICK w : Sums(ws, w)
  BY <1>7, TotalSums
<1>9. PICK s : Sums(ps, s)
  BY <1>7, TotalSums
<1>10. /\ w \in [0..len -> Int] /\ w[0] = 0 /\ Total(ws) = w[len]
       /\ \A n \in 1..len : w[n] = w[n - 1] + Weight(os[n])
  BY <1>5, <1>7, <1>8 DEF Sums
<1>11. /\ s \in [0..len -> Int] /\ s[0] = 0 /\ Total(ps) = s[len]
       /\ \A n \in 1..len : s[n] = s[n - 1] + Weight(os[n]) * Vec(os[n])
  BY <1>5, <1>7, <1>9 DEF Sums
<1> HIDE DEF c
<1> DEFINE T == {n \in 0..len : w[n] \in Nat /\ w[n] >= n}
<1>12. 0 \in T
  BY <1>2, <1>10
<1>13. ASSUME NEW n \in T, n < len PROVE n + 1 \in T
  <2>1. /\ n \in 0..len /\ w[n] \in Nat /\ w[n] >= n /\ n + 1 \in 1..len /\ (n + 1) - 1 = n
        /\ n + 1 \in 0..len
    BY <1>2, <1>13
  <2>2. w[n + 1] = w[n] + Weight(os[n + 1]) /\ Weight(os[n + 1]) \in Nat /\ Weight(os[n + 1]) >= 1
    BY <2>1, <1>3, <1>10
  <2> QED BY <2>1, <2>2
<1>14. \A n \in 0..len : w[n] \in Nat /\ w[n] >= n
  <2>1. T \in SUBSET (0..len)
    OBVIOUS
  <2> HIDE DEF T
  <2>2. \A n \in 0..len : n \in T
    BY <1>2, <1>12, <1>13, <2>1, Climb
  <2> QED BY <2>2 DEF T
<1>15. len \in 0..len /\ w[len] \in Nat \ {0} /\ s[len] \in Int
  BY <1>2, <1>11, <1>14
<1>16. /\ c = s[len] \div w[len] /\ c \in Int
       /\ c * w[len] <= s[len] /\ s[len] < (c + 1) * w[len]
  <2>1. c = s[len] \div w[len]
    BY <1>10, <1>11 DEF c
  <2> QED BY <2>1, <1>15, Quotient
<1>17. \E o \in ToSet(os) : Vec(o) <= c
  <2> SUFFICES ASSUME \A o \in ToSet(os) : ~(Vec(o) <= c) PROVE FALSE
    OBVIOUS
  <2>1. \A i \in 1..len : c + 1 <= Vec(os[i])
    <3> SUFFICES ASSUME NEW i \in 1..len PROVE c + 1 <= Vec(os[i])
      OBVIOUS
    <3>1. Vec(os[i]) \in Int /\ ~(Vec(os[i]) <= c)
      BY <1>2
    <3> QED BY <3>1, <1>16
  <2> DEFINE lo == c + 1
             U == {n \in 0..len : lo * w[n] <= s[n]}
  <2>2. lo \in Int
    BY <1>16
  <2> HIDE DEF lo
  <2>3. 0 \in U
    <3>1. lo * 0 = 0
      BY <2>2
    <3> QED BY <3>1, <1>2, <1>10, <1>11
  <2>4. ASSUME NEW n \in U, n < len PROVE n + 1 \in U
    <3>1. /\ n \in 0..len /\ n + 1 \in 1..len /\ (n + 1) - 1 = n /\ n + 1 \in 0..len
          /\ lo * w[n] <= s[n]
      BY <1>2, <2>4
    <3>2. /\ w[n + 1] = w[n] + Weight(os[n + 1])
          /\ s[n + 1] = s[n] + Weight(os[n + 1]) * Vec(os[n + 1])
      BY <3>1, <1>10, <1>11
    <3>3. /\ w[n] \in Nat /\ s[n] \in Int
          /\ Weight(os[n + 1]) \in Nat /\ Vec(os[n + 1]) \in Int /\ lo <= Vec(os[n + 1])
      BY <3>1, <1>2, <1>3, <1>11, <1>14, <2>1 DEF lo
    <3>4. lo * (w[n] + Weight(os[n + 1])) <= s[n] + Weight(os[n + 1]) * Vec(os[n + 1])
      BY <3>1, <3>3, <2>2, More
    <3> QED BY <3>1, <3>2, <3>4
  <2>5. len \in U
    <3>1. U \in SUBSET (0..len)
      OBVIOUS
    <3> HIDE DEF U
    <3>2. \A n \in 0..len : n \in U
      BY <1>2, <2>3, <2>4, <3>1, Climb
    <3> QED BY <3>2, <1>15
  <2>6. lo * w[len] <= s[len]
    BY <2>5
  <2>7. s[len] < lo * w[len]
    BY <1>16 DEF lo
  <2>8. lo * w[len] \in Int
    BY <2>2, <1>15
  <2> QED BY <2>6, <2>7, <2>8, <1>15
<1>18. \E q \in ToSet(os) : c <= Vec(q)
  <2> SUFFICES ASSUME \A q \in ToSet(os) : ~(c <= Vec(q)) PROVE FALSE
    OBVIOUS
  <2>1. \A i \in 1..len : Vec(os[i]) <= c - 1
    <3> SUFFICES ASSUME NEW i \in 1..len PROVE Vec(os[i]) <= c - 1
      OBVIOUS
    <3>1. Vec(os[i]) \in Int /\ ~(c <= Vec(os[i]))
      BY <1>2
    <3> QED BY <3>1, <1>16
  <2> DEFINE hi == c - 1
             U == {n \in 0..len : s[n] <= hi * w[n]}
  <2>2. hi \in Int /\ c = hi + 1
    BY <1>16
  <2> HIDE DEF hi
  <2>3. 0 \in U
    <3>1. hi * 0 = 0
      BY <2>2
    <3> QED BY <3>1, <1>2, <1>10, <1>11
  <2>4. ASSUME NEW n \in U, n < len PROVE n + 1 \in U
    <3>1. /\ n \in 0..len /\ n + 1 \in 1..len /\ (n + 1) - 1 = n /\ n + 1 \in 0..len
          /\ s[n] <= hi * w[n]
      BY <1>2, <2>4
    <3>2. /\ w[n + 1] = w[n] + Weight(os[n + 1])
          /\ s[n + 1] = s[n] + Weight(os[n + 1]) * Vec(os[n + 1])
      BY <3>1, <1>10, <1>11
    <3>3. /\ w[n] \in Nat /\ s[n] \in Int
          /\ Weight(os[n + 1]) \in Nat /\ Vec(os[n + 1]) \in Int /\ Vec(os[n + 1]) <= hi
      BY <3>1, <1>2, <1>3, <1>11, <1>14, <2>1 DEF hi
    <3>4. s[n] + Weight(os[n + 1]) * Vec(os[n + 1]) <= hi * (w[n] + Weight(os[n + 1]))
      BY <3>1, <3>3, <2>2, Fewer
    <3> QED BY <3>1, <3>2, <3>4
  <2>5. len \in U
    <3>1. U \in SUBSET (0..len)
      OBVIOUS
    <3> HIDE DEF U
    <3>2. \A n \in 0..len : n \in U
      BY <1>2, <2>3, <2>4, <3>1, Climb
    <3> QED BY <3>2, <1>15
  <2>6. s[len] <= hi * w[len]
    BY <2>5
  <2>7. hi * w[len] < c * w[len]
    <3>1. (hi + 1) * w[len] = hi * w[len] + w[len]
      BY <2>2, <1>15
    <3>2. hi * w[len] \in Int
      BY <2>2, <1>15
    <3> QED BY <3>1, <3>2, <2>2, <1>15
  <2>8. hi * w[len] \in Int /\ c * w[len] \in Int
    BY <2>2, <1>15, <1>16
  <2> QED BY <2>6, <2>7, <2>8, <1>15, <1>16
<1> QED BY <1>1, <1>17, <1>18

\* A template tells of every observation whether it is part of it, of no more
\* than there are places, and lies between two of those it is made of.
Sampled(p, all) ==
  /\ p.kept \intersect p.rejected = {}
  /\ p.kept \union p.rejected = all
  /\ Cardinality(p.kept) <= MaxSelected
  /\ p.vec # NoVector => \E o, q \in p.kept : Vec(o) <= p.vec /\ p.vec <= Vec(q)

\* A template that failed tells of every observation it rejects.
LEMMA FailedSampled ==
  ASSUME NEW all
  PROVE  Sampled(Failed(all), all)
<1>1. MaxSelected \in Nat /\ Cardinality({}) = 0
  BY LabTracksAssumption, FS_EmptySet
<1>2. /\ Failed(all).kept = {} /\ Failed(all).rejected = all
      /\ Failed(all).vec = NoVector
  BY DEF Failed
<1>3. Cardinality(Failed(all).kept) <= MaxSelected
  BY <1>1, <1>2
<1> QED BY <1>2, <1>3 DEF Sampled

\* There are no more elements than places in a list.
LEMMA FewElements ==
  ASSUME NEW S, NEW s \in Seq(S)
  PROVE  /\ IsFiniteSet(ToSet(s)) /\ Cardinality(ToSet(s)) \in Nat
         /\ Cardinality(ToSet(s)) <= Len(s)
<1> DEFINE len == Len(s)
<1>1. len \in Nat /\ DOMAIN s = 1..len /\ s = [i \in 1..len |-> s[i]]
  OBVIOUS
<1>2. IsFiniteSet(1..len) /\ Cardinality(1..len) = len
  <2>1. 1 \in Int /\ len \in Int /\ (IF 1 > len THEN 0 ELSE len - 1 + 1) = len
    BY <1>1
  <2> HIDE DEF len
  <2> QED BY <2>1, FS_Interval
<1>3. s \in Surjection(1..len, ToSet(s))
  <2> HIDE DEF len
  <2>1. s \in [1..len -> ToSet(s)]
    BY <1>1 DEF ToSet
  <2>2. \A o \in ToSet(s) : \E i \in 1..len : s[i] = o
    BY <1>1 DEF ToSet
  <2> QED BY <2>1, <2>2 DEF Surjection
<1> HIDE DEF len
<1>4. IsFiniteSet(ToSet(s)) /\ Cardinality(ToSet(s)) <= Cardinality(1..len)
  BY <1>2, <1>3, FS_Surjection
<1>5. Cardinality(ToSet(s)) \in Nat
  BY <1>4, FS_CardinalityType
<1> QED BY <1>2, <1>4, <1>5 DEF len

\* The candidates are observations of the tracklet.
LEMMA CandidatesOf ==
  ASSUME NEW S, NEW seen \in Seq(S)
  PROVE  Candidates(seen) \in Seq(S) /\ ToSet(Candidates(seen)) \subseteq ToSet(seen)
<1> DEFINE I == {i \in DOMAIN seen : Vec(seen[i]) # NoVector}
<1>1. Candidates(seen) = Listed(Picked(seen, I))
  BY DEF Candidates
<1>2. /\ DOMAIN seen = 1..Len(seen) /\ Len(seen) \in Nat
      /\ \A i \in 1..Len(seen) : seen[i] \in S
  OBVIOUS
<1>3. I \subseteq DOMAIN seen
  OBVIOUS
<1> HIDE DEF I
<1>4. IsFiniteSet(1..Len(seen))
  BY <1>2, FS_Interval
<1>5. I \in SUBSET Nat /\ IsFiniteSet(I) /\ \A i \in I : seen[i] \in S
  BY <1>2, <1>3, <1>4, FS_Subset
<1>6. Picked(seen, I) \in Seq(S) /\ ToSet(Picked(seen, I)) = {seen[i] : i \in I}
  BY <1>5, PickedAll
<1>7. {seen[i] : i \in I} \subseteq ToSet(seen)
  BY <1>3 DEF ToSet
<1> QED BY <1>1, <1>6, <1>7, Listing

\* The inliers are among the chosen.
LEMMA InliersOf ==
  ASSUME NEW S, NEW chosen \in Seq(S)
  PROVE  Inliers(chosen) \in Seq(S) /\ ToSet(Inliers(chosen)) \subseteq ToSet(chosen)
<1> DEFINE medoid == Medoid(chosen)
           near == [i \in DOMAIN chosen |-> Cosine(Vec(chosen[i]), medoid)]
           middle == Twice(near)
           spread == Twice([i \in DOMAIN near |->
                       IF 2 * near[i] > middle THEN 2 * near[i] - middle
                       ELSE middle - 2 * near[i]])
           I == {k \in DOMAIN chosen : 4 * near[k] >= 2 * middle - 3 * spread /\ near[k] >= 200}
<1>1. Inliers(chosen) = Listed(Picked(chosen, I))
  BY DEF Inliers
<1>2. /\ DOMAIN chosen = 1..Len(chosen) /\ Len(chosen) \in Nat
      /\ \A i \in 1..Len(chosen) : chosen[i] \in S
  OBVIOUS
<1>3. I \subseteq DOMAIN chosen
  OBVIOUS
<1> HIDE DEF I
<1>4. IsFiniteSet(1..Len(chosen))
  BY <1>2, FS_Interval
<1>5. I \in SUBSET Nat /\ IsFiniteSet(I) /\ \A i \in I : chosen[i] \in S
  BY <1>2, <1>3, <1>4, FS_Subset
<1>6. Picked(chosen, I) \in Seq(S) /\ ToSet(Picked(chosen, I)) = {chosen[i] : i \in I}
  BY <1>5, PickedAll
<1>7. {chosen[i] : i \in I} \subseteq ToSet(chosen)
  BY <1>3 DEF ToSet
<1> QED BY <1>1, <1>6, <1>7, Listing

\* What a template tells of the observations it is made of.
LEMMA TemplateSampled ==
  ASSUME MinSelected = 1, NEW S, Numbered(S), NEW seen \in Seq(S)
  PROVE  Sampled(Template(seen), ToSet(seen))
<1> DEFINE os == Candidates(seen)
           unfit == ToSet(seen) \ ToSet(os)
           picked == OfBins(os)
           chosen == Selected(os, picked)
           kept == Inliers(chosen)
           p == [vec |-> IF Len(kept) < 1 THEN NoVector ELSE Centroid(kept),
                 kept |-> ToSet(kept),
                 rejected |-> unfit \union (ToSet(os) \ ToSet(kept))]
<1>1. Template(seen) =
        IF Len(os) < 1 THEN Failed(unfit)
        ELSE IF Len(chosen) < 1 THEN Failed(unfit \union (ToSet(os) \ ToSet(picked)))
        ELSE p
  BY DEF Template
<1>2. os \in Seq(S) /\ ToSet(os) \subseteq ToSet(seen)
  BY CandidatesOf
<1> HIDE DEF os
<1> DEFINE O == ToSet(os)
<1>3. os \in Seq(O) /\ O \subseteq S /\ Len(os) \in Nat
  BY <1>2, Elements
<1>4. Numbered(O)
  BY <1>3 DEF Numbered
<1> HIDE DEF O
<1>5. picked \in Seq(O) /\ Len(picked) <= MaxSelected /\ Len(picked) \in Nat
  BY <1>3, <1>4, BinsPicked
<1> HIDE DEF picked
<1>6. /\ chosen \in Seq(O) /\ Len(chosen) <= MaxSelected /\ Len(chosen) >= Len(picked)
      /\ Len(chosen) \in Nat
  <2>1. /\ chosen \in Seq(O) /\ Len(chosen) <= MaxSelected /\ Len(chosen) >= Len(picked)
    BY <1>3, <1>4, <1>5, SelectionGrows
  <2> QED BY <2>1
<1> HIDE DEF chosen
<1>7. /\ kept \in Seq(O) /\ ToSet(kept) \subseteq ToSet(chosen) /\ ToSet(kept) \subseteq O
      /\ Len(kept) \in Nat
  <2>1. kept \in Seq(O) /\ ToSet(kept) \subseteq ToSet(chosen)
    BY <1>6, InliersOf
  <2>2. ToSet(kept) \subseteq O
    BY <2>1, Elements
  <2> QED BY <2>1, <2>2
<1> HIDE DEF kept
<1>8. CASE Len(os) < 1
  <2>1. os = <<>>
    BY <1>3, <1>8
  <2>2. ToSet(os) = {}
    BY <2>1 DEF ToSet
  <2>3. Template(seen) = Failed(ToSet(seen))
    BY <1>1, <1>8, <2>2
  <2> QED BY <2>3, FailedSampled
<1>9. CASE ~(Len(os) < 1) /\ Len(chosen) < 1
  <2>1. picked = <<>>
    BY <1>5, <1>6, <1>9
  <2>2. ToSet(picked) = {}
    BY <2>1 DEF ToSet
  <2>3. unfit \union (ToSet(os) \ ToSet(picked)) = ToSet(seen)
    BY <1>2, <2>2
  <2>4. Template(seen) = Failed(ToSet(seen))
    BY <1>1, <1>9, <2>3
  <2> QED BY <2>4, FailedSampled
<1>10. CASE ~(Len(os) < 1) /\ ~(Len(chosen) < 1)
  <2>1. Template(seen) = p
    BY <1>1, <1>10
  <2>2. /\ p.kept = ToSet(kept) /\ p.rejected = unfit \union (ToSet(os) \ ToSet(kept))
        /\ p.vec = IF Len(kept) < 1 THEN NoVector ELSE Centroid(kept)
    OBVIOUS
  <2> HIDE DEF p
  <2>3. p.kept \intersect p.rejected = {} /\ p.kept \union p.rejected = ToSet(seen)
    <3>1. ToSet(kept) \subseteq ToSet(os)
      BY <1>7 DEF O
    <3> QED BY <3>1, <2>2, <1>2
  <2>4. Cardinality(p.kept) <= MaxSelected
    <3>1. /\ IsFiniteSet(ToSet(chosen)) /\ Cardinality(ToSet(chosen)) \in Nat
          /\ Cardinality(ToSet(chosen)) <= Len(chosen)
      BY <1>6, FewElements
    <3>2. Cardinality(ToSet(kept)) <= Cardinality(ToSet(chosen))
      BY <1>7, <3>1, FS_Subset
    <3>3. Cardinality(ToSet(kept)) \in Nat
      BY <1>7, FewElements
    <3>4. MaxSelected \in Nat
      BY LabTracksAssumption
    <3> QED BY <3>1, <3>2, <3>3, <3>4, <1>6, <2>2
  <2>5. p.vec # NoVector => \E o, q \in p.kept : Vec(o) <= p.vec /\ p.vec <= Vec(q)
    <3> SUFFICES ASSUME p.vec # NoVector
                 PROVE  \E o, q \in p.kept : Vec(o) <= p.vec /\ p.vec <= Vec(q)
      OBVIOUS
    <3>1. ~(Len(kept) < 1)
      BY <2>2
    <3>2. Len(kept) # 0 /\ p.vec = Centroid(kept)
      BY <2>2, <3>1, <1>7
    <3>3. \E o, q \in ToSet(kept) : Vec(o) <= Centroid(kept) /\ Centroid(kept) <= Vec(q)
      BY <3>2, <1>4, <1>7, CentroidBetween
    <3> QED BY <2>2, <3>2, <3>3
  <2> QED BY <2>1, <2>3, <2>4, <2>5 DEF Sampled
<1> QED BY <1>8, <1>9, <1>10

\* What BuildTemplates makes of the tracklets.
LEMMA TemplatesSampled ==
  ASSUME MinSelected = 1, TracksInv, NEW t \in DOMAIN tracklets
  PROVE  Sampled(Template(AssignedTo(t)), ToSet(tracklets[t].seen))
<1> DEFINE S == DOMAIN observations
           I == {o \in S : <<o, t>> \in assignments}
           s == [o \in S |-> o]
<1>1. AssignedTo(t) = Picked(s, I)
  BY DEF AssignedTo
<1>2. /\ S = 1..Len(observations) /\ Len(observations) \in Nat
      /\ \A o \in S : observations[o] \in FaceRecords
  BY Indexed DEF TracksInv, TracksTyped
<1>3. Numbered(S)
  BY <1>2 DEF Numbered, FaceRecords, Quality, Vec, Pts
<1>4. I = ToSet(tracklets[t].seen)
  <2>1. \A i \in DOMAIN tracklets[t].seen : tracklets[t].seen[i] \in S
    BY DEF TracksInv, HistoriesPlaced
  <2>2. ToSet(tracklets[t].seen) \subseteq S
    BY <2>1 DEF ToSet
  <2> HIDE DEF S
  <2>3. \A o \in S : <<o, t>> \in assignments <=> o \in ToSet(tracklets[t].seen)
    BY DEF TracksInv, AssignmentsAgree, S
  <2> QED BY <2>2, <2>3
<1>5. I \subseteq S /\ \A i \in I : s[i] \in S /\ s[i] = i
  OBVIOUS
<1> HIDE DEF S, I, s
<1>6. I \in SUBSET Nat /\ IsFiniteSet(I)
  <2>1. IsFiniteSet(1..Len(observations)) /\ S = 1..Len(observations)
    BY <1>2, FS_Interval
  <2>2. IsFiniteSet(I)
    BY <2>1, <1>5, FS_Subset
  <2>3. I \in SUBSET Nat
    BY <2>1, <1>5
  <2> QED BY <2>2, <2>3
<1>7. Picked(s, I) \in Seq(S) /\ ToSet(Picked(s, I)) = {s[i] : i \in I}
  BY <1>5, <1>6, PickedAll
<1>8. {s[i] : i \in I} = I
  BY <1>5
<1> QED BY <1>1, <1>3, <1>4, <1>7, <1>8, TemplateSampled

\* What is reported is told of finished tracklets: the templates from the end
\* of the tracking on, and the appearances when the run is done.
ReportInv ==
  /\ phase \in {"track", "templates"} => templates = <<>>
  /\ phase # "done" => tracks = <<>>
  /\ \A t \in DOMAIN templates :
       t \in DOMAIN tracklets /\ Sampled(templates[t], ToSet(tracklets[t].seen))
  /\ \A i \in DOMAIN tracks : Covered(tracks[i].detections, tracks[i].appearances)

\* The appearances of a canonical track cover its detections.
LEMMA TracksCovered ==
  ASSUME TracksInv, NEW lists, lists \subseteq Lists, Grouped(lists), NEW list \in lists
  PROVE  Covered(CanonicalTrack(list).detections, CanonicalTrack(list).appearances)
<1> DEFINE os == CanonicalTrack(list).detections
           D == Members(ToSet(list))
<1>1. /\ DOMAIN os = 1..Len(os) /\ os \in Seq(D) /\ D \subseteq DOMAIN observations
      /\ \A k, n \in DOMAIN os : k < n => Pts(os[k]) <= Pts(os[n])
  BY DetectionsRise
<1>2. CanonicalTrack(list).appearances = Appearances(os)
  BY DEF CanonicalTrack
<1> HIDE DEF os, D
<1>3. \A o \in D : Pts(o) \in Nat
  <2>1. \A o \in DOMAIN observations : observations[o] \in FaceRecords
    BY Indexed DEF TracksInv, TracksTyped
  <2> QED BY <2>1, <1>1 DEF FaceRecords, Pts
<1>4. Rising(D, os)
  BY <1>1, <1>3 DEF Rising
<1>5. Told(D, os, MaxGap(os), Appearances(os), Len(os)) /\ MaxGap(os) \in Nat
  BY <1>4, AppearancesTell, GapWhole
<1>6. Covered(os, Appearances(os))
  BY <1>4, <1>5, ToldCovers
<1> QED BY <1>2, <1>6 DEF os

\* Every step keeps what is reported.
LEMMA ReportKept ==
  ASSUME MinSelected = 1, TracksInv, PersonsInv, ReportInv, [Next]_vars
  PROVE  ReportInv'
<1>1. CASE \E scene \in Scenes, step \in Clock, cut \in BOOLEAN : Update(scene, step, cut)
  <2>0. PICK scene \in Scenes, step \in Clock, cut \in BOOLEAN : Update(scene, step, cut)
    BY <1>1
  <2>1. templates' = <<>> /\ tracks' = <<>>
    <3>1. phase = "track" /\ UNCHANGED <<templates, tracks>>
      BY <2>0 DEF Update
    <3> QED BY <3>1 DEF ReportInv
  <2>2. DOMAIN templates' = {} /\ DOMAIN tracks' = {}
    BY <2>1
  <2> QED BY <2>1, <2>2 DEF ReportInv
<1>2. CASE Finalize
  <2>1. templates' = <<>> /\ tracks' = <<>>
    BY <1>2 DEF Finalize, ReportInv
  <2>2. DOMAIN templates' = {} /\ DOMAIN tracks' = {}
    BY <2>1
  <2> QED BY <2>1, <2>2 DEF ReportInv
<1>3. CASE BuildTemplates
  <2>1. /\ phase' = "reconcile" /\ UNCHANGED <<observations, tracklets, tracks>>
        /\ templates' = [t \in DOMAIN tracklets |-> Template(AssignedTo(t))]
        /\ tracks = <<>>
    BY <1>3 DEF BuildTemplates, ReportInv
  <2>2. ASSUME NEW t \in DOMAIN templates'
        PROVE  /\ t \in DOMAIN tracklets'
               /\ Sampled(templates[t], ToSet(tracklets[t].seen))'
    <3>1. t \in DOMAIN tracklets /\ templates'[t] = Template(AssignedTo(t))
      BY <2>1, <2>2
    <3>2. Sampled(templates'[t], ToSet(tracklets[t].seen))
      BY <3>1, TemplatesSampled
    <3> QED BY <2>1, <3>1, <3>2 DEF Sampled, Vec
  <2>3. DOMAIN tracks' = {}
    BY <2>1
  <2> QED BY <2>1, <2>2, <2>3 DEF ReportInv
<1>4. CASE Reconcile
  <2>1. /\ phase' = "aggregate" /\ UNCHANGED <<observations, tracklets, templates, tracks>>
        /\ tracks = <<>>
    BY <1>4 DEF Reconcile, ReportInv
  <2>2. DOMAIN tracks' = {}
    BY <2>1
  <2> QED BY <2>1, <2>2 DEF ReportInv, Sampled, Vec
<1>5. CASE Aggregate
  <2>1. /\ phase = "aggregate" /\ phase' = "done"
        /\ UNCHANGED <<observations, tracklets, templates>>
    BY <1>5 DEF Aggregate
  <2>2. clusters \subseteq Lists /\ Grouped(clusters)
    BY <2>1 DEF PersonsInv
  <2> DEFINE before == [g \in clusters |-> {h \in clusters : ByStart(h, g)}]
             order == Ranked(before)
             ts == [i \in DOMAIN order |-> CanonicalTrack(order[i])]
  <2>3. tracks' = ts
    BY <1>5 DEF Aggregate
  <2>4. \A i \in DOMAIN order : order[i] \in clusters
    <3>1. Orders(clusters, before)
      BY <2>2, ClustersOrdered
    <3> HIDE DEF before
    <3>2. /\ DOMAIN Ranked(before) = 1..Cardinality(clusters)
          /\ \A i \in 1..Cardinality(clusters) : Ranked(before)[i] \in clusters
      BY <3>1, RankedAll
    <3> QED BY <3>2
  <2> HIDE DEF order
  <2>5. ASSUME NEW i \in DOMAIN ts PROVE Covered(ts[i].detections, ts[i].appearances)
    <3>1. ts[i] = CanonicalTrack(order[i]) /\ order[i] \in clusters
      BY <2>4, <2>5
    <3>2. Covered(CanonicalTrack(order[i]).detections, CanonicalTrack(order[i]).appearances)
      BY <2>2, <3>1, TracksCovered
    <3> QED BY <3>1, <3>2
  <2> HIDE DEF ts
  <2>6. ASSUME NEW i \in DOMAIN tracks'
        PROVE  Covered(tracks[i].detections, tracks[i].appearances)'
    <3>1. Covered(tracks'[i].detections, tracks'[i].appearances)
      BY <2>3, <2>5, <2>6
    <3> QED BY <3>1, <2>1 DEF Covered, Spanned, Pts
  <2>7. \A t \in DOMAIN templates' :
          t \in DOMAIN tracklets' /\ Sampled(templates[t], ToSet(tracklets[t].seen))'
    BY <2>1 DEF ReportInv, Sampled, Vec
  <2> QED BY <2>1, <2>6, <2>7 DEF ReportInv
<1>6. CASE UNCHANGED vars
  <2>1. UNCHANGED <<phase, observations, tracklets, templates, tracks>>
    BY <1>6 DEF vars
  <2>2. ASSUME NEW i \in DOMAIN tracks'
        PROVE  Covered(tracks[i].detections, tracks[i].appearances)'
    <3>1. Covered(tracks'[i].detections, tracks'[i].appearances)
      BY <2>1, <2>2 DEF ReportInv
    <3>2. observations' = observations
      BY <2>1
    <3> QED BY <3>1, <3>2 DEF Covered, Spanned, Pts
  <2>3. \A t \in DOMAIN templates' :
          t \in DOMAIN tracklets' /\ Sampled(templates[t], ToSet(tracklets[t].seen))'
    BY <2>1 DEF ReportInv, Sampled, Vec
  <2> QED BY <2>1, <2>2, <2>3 DEF ReportInv
<1> QED BY <1>1, <1>2, <1>3, <1>4, <1>5, <1>6 DEF Next

\* What is reported of the persons, with a template that one sample is enough
\* for, as every configuration of the lab has it: with two or more, the picks of
\* the bins are told of in neither list when too few of them are apart.
THEOREM ReportsAreTrue == MinSelected = 1 => (Spec => []TracksTold)
<1> SUFFICES ASSUME MinSelected = 1 PROVE Spec => []TracksTold
  OBVIOUS
<1>1. Init => ReportInv
  <2> SUFFICES ASSUME Init PROVE ReportInv
    OBVIOUS
  <2>1. templates = <<>> /\ tracks = <<>>
    BY DEF Init
  <2>2. DOMAIN templates = {} /\ DOMAIN tracks = {}
    BY <2>1
  <2> QED BY <2>1, <2>2 DEF ReportInv
<1>2. TracksInv /\ PersonsInv /\ ReportInv /\ [Next]_vars => ReportInv'
  BY ReportKept
<1>3. ReportInv => TracksTold
  <2> SUFFICES ASSUME ReportInv PROVE TracksTold
    OBVIOUS
  <2>1. AppearancesCover
    BY DEF ReportInv, Covered, Spanned, AppearancesCover
  <2>2. SamplesTold
    BY DEF ReportInv, Sampled, SamplesTold
  <2> QED BY <2>1, <2>2 DEF TracksTold
<1> QED BY <1>1, <1>2, <1>3, TracksStayInOrder, PersonsHold, PTL DEF Spec

=============================================================================
