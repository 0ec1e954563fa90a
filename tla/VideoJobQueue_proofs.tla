------------------------ MODULE VideoJobQueue_proofs -------------------------
(***************************************************************************)
(* Proofs about VideoJobQueue for every set of jobs, workers and tokens    *)
(* and every value of the bounds.                                          *)
(***************************************************************************)
EXTENDS VideoJobQueue, TLAPS

-----------------------------------------------------------------------------
(* What the transactions on a row write, column by column.                 *)

LEMMA RowConstants ==
  /\ {"pending", "processing", "cancelling", "completed", "failed", "cancelled"}
       \subseteq States
  /\ "queued" \in Stages /\ "download" \in Stages
  /\ Errors = {"lease_expired", "max_retry_exceeded", "WORKER_EXECUTION_FAILED"}
  BY DEF States, Stages, Errors

LEMMA Counters ==
  ASSUME NEW r \in Rows
  PROVE  r.attempts + 1 \in Nat /\ r.version + 1 \in Nat /\ r.version \in Nat
  BY DEF Rows

LEMMA ClaimedRow ==
  ASSUME NEW r \in Rows, NEW n \in Names, NEW t \in Tokens
  PROVE  LET s == Claimed(r, n, t)
         IN  /\ s \in Rows
             /\ s.state = "processing" /\ s.owner = n /\ s.token = t
             /\ s.cancelReq = r.cancelReq /\ s.version = r.version + 1
             /\ s.completedAt = r.completedAt /\ s.manifest = r.manifest
             /\ s.attempts = r.attempts + 1
  BY RowConstants, Counters DEF Claimed, Rows

LEMMA HeartbeatenRow ==
  ASSUME NEW r \in Rows
  PROVE  LET s == Heartbeaten(r)
         IN  /\ s \in Rows
             /\ s.state = r.state /\ s.owner = r.owner /\ s.token = r.token
             /\ s.cancelReq = r.cancelReq /\ s.version = r.version + 1
             /\ s.completedAt = r.completedAt /\ s.manifest = r.manifest /\ s.failedAt = r.failedAt
             /\ s.cancelledAt = r.cancelledAt /\ s.error = r.error
             /\ ~s.expired
  BY Counters DEF Heartbeaten, Rows

LEMMA StageUpdatedRow ==
  ASSUME NEW r \in Rows, NEW g \in Stages
  PROVE  LET s == StageUpdated(r, g)
         IN  /\ s \in Rows
             /\ s.state = r.state /\ s.owner = r.owner /\ s.token = r.token
             /\ s.cancelReq = r.cancelReq /\ s.version = r.version + 1
             /\ s.completedAt = r.completedAt /\ s.manifest = r.manifest /\ s.failedAt = r.failedAt
             /\ s.cancelledAt = r.cancelledAt /\ s.error = r.error
             /\ s.expired = r.expired
  BY Counters DEF StageUpdated, Rows

LEMMA CancelRequestedRow ==
  ASSUME NEW r \in Rows
  PROVE  LET s == CancelRequested(r)
         IN  /\ s \in Rows
             /\ s.owner = r.owner /\ s.token = r.token
             /\ s.expired = r.expired
             /\ r.state = "pending" =>
                  /\ s.state = "cancelled" /\ s.cancelledAt
                  /\ s.cancelReq = r.cancelReq /\ s.version = r.version + 1
             /\ r.state \in LeasedStates =>
                  /\ s.state = "cancelling" /\ s.cancelReq
                  /\ s.version = r.version + 1
             /\ r.state \notin LeasedStates \cup {"pending"} => s = r
  <1>1. CASE r.state = "pending"
    BY <1>1, RowConstants, Counters DEF CancelRequested, Rows, LeasedStates
  <1>2. CASE r.state \in LeasedStates
    BY <1>2, RowConstants, Counters DEF CancelRequested, Rows, LeasedStates
  <1>3. CASE r.state \notin LeasedStates \cup {"pending"}
    BY <1>3 DEF CancelRequested
  <1> QED BY <1>1, <1>2, <1>3

LEMMA MarkedCancelledRow ==
  ASSUME NEW r \in Rows
  PROVE  LET s == MarkedCancelled(r)
         IN  /\ s \in Rows
             /\ s.state = "cancelled" /\ s.owner = None /\ s.token = None
             /\ ~s.expired /\ s.cancelledAt
             /\ s.cancelReq = r.cancelReq /\ s.version = r.version + 1
             /\ s.manifest = r.manifest /\ s.attempts = r.attempts
  BY RowConstants, Counters DEF MarkedCancelled, ClearLease, Rows

LEMMA MarkedFailedRow ==
  ASSUME NEW r \in Rows, NEW e \in Errors
  PROVE  LET s == MarkedFailed(r, e)
         IN  /\ s \in Rows
             /\ s.state = "failed" /\ s.owner = None /\ s.token = None
             /\ ~s.expired /\ s.failedAt /\ s.error = e
             /\ s.cancelReq = r.cancelReq /\ s.version = r.version + 1
             /\ s.manifest = r.manifest /\ s.attempts = r.attempts
  BY RowConstants, Counters DEF MarkedFailed, ClearLease, Rows

LEMMA RequeuedRow ==
  ASSUME NEW r \in Rows, NEW e \in Errors, NEW due \in BOOLEAN
  PROVE  LET s == Requeued(r, e, due)
         IN  /\ s \in Rows
             /\ s.state = "pending" /\ s.owner = None /\ s.token = None
             /\ ~s.expired
             /\ s.cancelReq = r.cancelReq /\ s.version = r.version + 1
             /\ s.manifest = r.manifest /\ s.attempts = r.attempts
  BY RowConstants, Counters DEF Requeued, ClearLease, Rows

-----------------------------------------------------------------------------
(* One row: what every transaction preserves.                              *)

\* A row the table accepts, whose cancellation flag agrees with its state.
RowInv(r) ==
  /\ r \in Rows
  /\ ChecksOK(r)
  /\ r.cancelReq => r.state \in {"cancelling", "cancelled", "failed"}
  /\ r.state = "cancelling" => r.cancelReq

\* What any transaction but a claim may do to a row.
Evolves(r, s) ==
  /\ Terminal(r) => s = r
  /\ \/ s.version = r.version + 1
     \/ s.version = r.version /\ s.cancelReq = r.cancelReq
  /\ \/ s.owner = r.owner /\ s.token = r.token /\ s.state = r.state
     \/ /\ s.owner = r.owner /\ s.token = r.token
        /\ r.state = "processing" /\ s.state = "cancelling"
     \/ /\ s.owner = None /\ s.token = None
        /\ \/ r.state = "pending" /\ s.state = "cancelled"
           \/ r.state = "processing" /\ s.state \in {"pending", "failed"}
           \/ r.state = "cancelling" /\ s.state \in {"cancelled", "failed"}

Sound(r, s) == RowInv(s) /\ Evolves(r, s)

LEMMA HeldIsLeased ==
  ASSUME NEW r, RowInv(r), NEW n \in Names, NEW t, HeldBy(r, n, t)
  PROVE  Leased(r)
  BY NoneAssumption DEF RowInv, HeldBy, ChecksOK

LEMMA NewRowInv == RowInv(NewRow)
  <1>1. NewRow \in Rows
    BY RowConstants DEF NewRow, Rows
  <1> QED BY <1>1 DEF RowInv, NewRow, ChecksOK, Leased, LeasedStates

LEMMA StaysSound ==
  ASSUME NEW r, RowInv(r)
  PROVE  Sound(r, r)
  BY DEF Sound, RowInv, Evolves

LEMMA ClaimedInv ==
  ASSUME NEW r, RowInv(r), NEW n \in Names, NEW t \in Tokens, Claimable(r)
  PROVE  RowInv(Claimed(r, n, t))
  BY ClaimedRow, NoneAssumption
  DEF RowInv, Claimable, ChecksOK, Leased, LeasedStates

LEMMA HeartbeatenSound ==
  ASSUME NEW r, RowInv(r), Leased(r)
  PROVE  Sound(r, Heartbeaten(r))
  BY HeartbeatenRow
  DEF Sound, Evolves, RowInv, ChecksOK, Leased, LeasedStates, Terminal, TerminalStates

LEMMA StageUpdatedSound ==
  ASSUME NEW r, RowInv(r), Leased(r), NEW g \in Stages
  PROVE  Sound(r, StageUpdated(r, g))
  BY StageUpdatedRow
  DEF Sound, Evolves, RowInv, ChecksOK, Leased, LeasedStates, Terminal, TerminalStates

LEMMA CancelRequestedSound ==
  ASSUME NEW r, RowInv(r)
  PROVE  Sound(r, CancelRequested(r))
  BY CancelRequestedRow
  DEF Sound, Evolves, RowInv, ChecksOK, Leased, LeasedStates, Terminal, TerminalStates

LEMMA MarkedCancelledSound ==
  ASSUME NEW r, RowInv(r), r.state = "cancelling"
  PROVE  Sound(r, MarkedCancelled(r))
  BY MarkedCancelledRow
  DEF Sound, Evolves, RowInv, ChecksOK, Leased, LeasedStates, Terminal, TerminalStates

LEMMA MarkedFailedSound ==
  ASSUME NEW r, RowInv(r), Leased(r), NEW e \in Errors
  PROVE  Sound(r, MarkedFailed(r, e))
  <1>1. e # "none"
    BY RowConstants
  <1> QED BY <1>1, MarkedFailedRow
  DEF Sound, Evolves, RowInv, ChecksOK, Leased, LeasedStates, Terminal, TerminalStates

LEMMA RequeuedSound ==
  ASSUME NEW r, RowInv(r), r.state = "processing",
         NEW e \in Errors, NEW due \in BOOLEAN
  PROVE  Sound(r, Requeued(r, e, due))
  BY RequeuedRow
  DEF Sound, Evolves, RowInv, ChecksOK, Leased, LeasedStates, Terminal, TerminalStates

LEMMA RecoveredSound ==
  ASSUME NEW r, RowInv(r), Recoverable(r)
  PROVE  Sound(r, Recovered(r))
  <1>1. r.state \in LeasedStates
    BY DEF Recoverable, Leased
  <1>2. CASE r.state = "cancelling"
    BY <1>2, MarkedCancelledSound DEF Recovered
  <1>3. CASE r.state # "cancelling"
    <2>1. r.state = "processing" /\ ~r.cancelReq
      BY <1>1, <1>3 DEF LeasedStates, RowInv
    <2>2. /\ Sound(r, MarkedFailed(r, "max_retry_exceeded"))
          /\ Sound(r, Requeued(r, "lease_expired", TRUE))
      BY <1>1, <2>1, RowConstants, MarkedFailedSound, RequeuedSound DEF Leased
    <2> QED BY <2>1, <2>2 DEF Recovered
  <1> QED BY <1>2, <1>3

\* Time passing changes neither version, lease nor state.
LEMMA TimeSound ==
  ASSUME NEW r, RowInv(r)
  PROVE  /\ Leased(r) => Sound(r, [r EXCEPT !.expired = TRUE])
         /\ r.state = "pending" => Sound(r, [r EXCEPT !.due = TRUE])
  <1>1. /\ [r EXCEPT !.expired = TRUE] \in Rows
        /\ [r EXCEPT !.due = TRUE] \in Rows
    BY DEF RowInv, Rows
  <1> QED BY <1>1
  DEF Sound, Evolves, RowInv, Rows, ChecksOK, Leased, LeasedStates, Terminal, TerminalStates

-----------------------------------------------------------------------------
(* One step of the table and of the workers' memories.                     *)

\* A worker that looked at its row in this step knows it as it now is.
Looked(w) ==
  /\ held[w].job \in Jobs
  /\ held'[w].job = held[w].job /\ held'[w].token = held[w].token
  /\ held'[w].version = rows'[held[w].job].version
  /\ held'[w].sawCancel = rows'[held[w].job].cancelReq

\* Every step but a claim: rows evolve, memories keep their claim or drop it.
Quiet ==
  /\ rows' \in [Jobs -> Rows]
  /\ \A j \in Jobs : Sound(rows[j], rows'[j])
  /\ held' \in [Workers -> Claims]
  /\ \A w \in Workers :
       held'[w] = Idle \/ held'[w] = held[w] \/ Looked(w)

LEMMA IdleClaim == Idle \in Claims
  BY DEF Idle, Claims

LEMMA RowsInv ==
  ASSUME IInv
  PROVE  /\ \A j \in Jobs : RowInv(rows[j])
         /\ rows \in [Jobs -> Rows]
         /\ held \in [Workers -> Claims]
  BY DEF IInv, TypeOK, RowsValid, CancelSticks, RowInv

LEMMA HoldingRow ==
  ASSUME IInv, NEW w \in Workers, Holding(w)
  PROVE  /\ held[w].job \in Jobs
         /\ held[w].token \in Tokens
         /\ RowInv(RowOf(w))
         /\ NameOf[w] \in Names
  <1>1. held[w].job \in Jobs
    BY RowsInv DEF Holding, Claims
  <1>2. held[w].token \in Tokens
    BY RowsInv DEF Holding, Claims, IInv, TokensDistinct
  <1> QED BY <1>1, <1>2, RowsInv, NameAssumption DEF RowOf

\* Writing one row with a sound transaction is a quiet step of the table.
LEMMA WriteRow ==
  ASSUME IInv, NEW j \in Jobs, NEW s, Sound(rows[j], s),
         rows' = [rows EXCEPT ![j] = s]
  PROVE  /\ rows' \in [Jobs -> Rows]
         /\ \A k \in Jobs : Sound(rows[k], rows'[k])
  <1>1. s \in Rows
    BY DEF Sound, RowInv
  <1>2. \A k \in Jobs : rows'[k] = IF k = j THEN s ELSE rows[k]
    BY RowsInv
  <1> QED BY <1>1, <1>2, RowsInv, StaysSound

LEMMA UnchangedRows ==
  ASSUME IInv, UNCHANGED rows
  PROVE  /\ rows' \in [Jobs -> Rows]
         /\ \A k \in Jobs : Sound(rows[k], rows'[k])
  BY RowsInv, StaysSound

\* A worker letting go of its claim is a quiet step of the memories.
LEMMA LetGoMemories ==
  ASSUME IInv, NEW w \in Workers, LetGo(w)
  PROVE  /\ held' \in [Workers -> Claims]
         /\ \A v \in Workers : held'[v] = IF v = w THEN Idle ELSE held[v]
  BY RowsInv, IdleClaim DEF LetGo

LEMMA HeartbeatQuiet ==
  ASSUME IInv, NEW w \in Workers, Heartbeat(w)
  PROVE  Quiet
  <1>1. Holding(w) /\ HeldBy(RowOf(w), NameOf[w], held[w].token)
    BY DEF Heartbeat, Current
  <1>2. Sound(RowOf(w), Heartbeaten(RowOf(w)))
    BY <1>1, HoldingRow, HeldIsLeased, HeartbeatenSound
  <1>3. /\ rows' \in [Jobs -> Rows]
        /\ \A k \in Jobs : Sound(rows[k], rows'[k])
    BY <1>1, <1>2, HoldingRow, WriteRow DEF Heartbeat, RowOf
  <1>4. /\ held' = [held EXCEPT ![w].version = @ + 1]
        /\ held \in [Workers -> Claims]
    BY RowsInv DEF Heartbeat
  <1>5. /\ held' \in [Workers -> Claims]
        /\ \A v \in Workers : v # w => held'[v] = held[v]
        /\ held'[w].job = held[w].job /\ held'[w].token = held[w].token
        /\ held'[w].version = held[w].version + 1
        /\ held'[w].sawCancel = held[w].sawCancel
    BY <1>4 DEF Claims
  <1>6. /\ rows'[held[w].job] = Heartbeaten(RowOf(w))
        /\ RowOf(w) \in Rows
    BY <1>1, HoldingRow, RowsInv DEF Heartbeat, RowOf
  <1>7. /\ held[w].version = RowOf(w).version
        /\ held[w].sawCancel = RowOf(w).cancelReq
    BY <1>1 DEF Heartbeat, Current, IInv, VersionsSeen, HeldBy
  <1>8. Looked(w)
    BY <1>1, <1>5, <1>6, <1>7, HoldingRow, HeartbeatenRow DEF Looked
  <1> QED BY <1>3, <1>5, <1>8 DEF Quiet

LEMMA UpdateStageQuiet ==
  ASSUME IInv, NEW w \in Workers, NEW g \in WorkStages, UpdateStage(w, g)
  PROVE  Quiet
  <1>1. Holding(w) /\ HeldBy(RowOf(w), NameOf[w], held[w].token)
    BY DEF UpdateStage, Current
  <1>2. Sound(RowOf(w), StageUpdated(RowOf(w), g))
    BY <1>1, HoldingRow, HeldIsLeased, StageUpdatedSound, WorkStagesAssumption
  <1>3. /\ rows' \in [Jobs -> Rows]
        /\ \A k \in Jobs : Sound(rows[k], rows'[k])
    BY <1>1, <1>2, HoldingRow, WriteRow DEF UpdateStage, RowOf
  <1>4. /\ held' = [held EXCEPT ![w].version = @ + 1,
                                ![w].sawCancel = RowOf(w).cancelReq]
        /\ held \in [Workers -> Claims]
        /\ RowOf(w).cancelReq \in BOOLEAN
        /\ held[w].version + 1 \in Nat
    BY <1>1, RowsInv, HoldingRow DEF UpdateStage, RowInv, Rows, Claims
  <1>5. /\ held' \in [Workers -> Claims]
        /\ \A v \in Workers : v # w => held'[v] = held[v]
        /\ held'[w].job = held[w].job /\ held'[w].token = held[w].token
        /\ held'[w].version = held[w].version + 1
        /\ held'[w].sawCancel = RowOf(w).cancelReq
    BY <1>4 DEF Claims
  <1>6. /\ rows'[held[w].job] = StageUpdated(RowOf(w), g)
        /\ RowOf(w) \in Rows
        /\ held[w].version = RowOf(w).version
    BY <1>1, HoldingRow, RowsInv DEF UpdateStage, RowOf, Current
  <1>7. Looked(w)
    BY <1>1, <1>5, <1>6, HoldingRow, StageUpdatedRow, WorkStagesAssumption
    DEF Looked
  <1> QED BY <1>3, <1>5, <1>7 DEF Quiet

LEMMA RereadQuiet ==
  ASSUME IInv, NEW w \in Workers, Reread(w)
  PROVE  Quiet
  <1>1. /\ held' = [held EXCEPT ![w].version = RowOf(w).version,
                                ![w].sawCancel = RowOf(w).cancelReq]
        /\ held \in [Workers -> Claims]
        /\ RowOf(w).version \in Nat /\ RowOf(w).cancelReq \in BOOLEAN
    BY RowsInv, HoldingRow DEF Reread, RowInv, Rows
  <1>2. /\ held' \in [Workers -> Claims]
        /\ \A v \in Workers : v # w => held'[v] = held[v]
        /\ held'[w].job = held[w].job /\ held'[w].token = held[w].token
        /\ held'[w].version = RowOf(w).version
        /\ held'[w].sawCancel = RowOf(w).cancelReq
    BY <1>1 DEF Claims
  <1>3. Looked(w)
    BY <1>2, HoldingRow DEF Looked, Reread, RowOf
  <1> QED BY <1>2, <1>3, UnchangedRows DEF Quiet, Reread

LEMMA LettingGoQuiet ==
  ASSUME IInv, NEW w \in Workers,
         MarkCancelled(w) \/ MarkFailed(w) \/ ReleaseForRetry(w) \/ WorkerStops(w)
  PROVE  Quiet
  <1>1. Holding(w) /\ LetGo(w)
    BY DEF MarkCancelled, MarkFailed, ReleaseForRetry, WorkerStops
  <1>2. /\ held' \in [Workers -> Claims]
        /\ \A v \in Workers : held'[v] = Idle \/ held'[v] = held[v]
    BY <1>1, LetGoMemories
  <1>3. CASE MarkCancelled(w)
    <2>1. Leased(RowOf(w)) /\ RowOf(w).state = "cancelling"
      <3>1. Leased(RowOf(w))
        BY <1>1, <1>3, HoldingRow, HeldIsLeased DEF MarkCancelled, MayMarkCancelled
      <3> QED BY <1>3, <3>1 DEF MarkCancelled, MayMarkCancelled, Leased, LeasedStates
    <2>2. Sound(RowOf(w), MarkedCancelled(RowOf(w)))
      BY <1>1, <2>1, HoldingRow, MarkedCancelledSound
    <2> QED BY <1>1, <1>2, <1>3, <2>2, HoldingRow, WriteRow
            DEF MarkCancelled, RowOf, Quiet
  <1>4. CASE MarkFailed(w)
    <2>1. Sound(RowOf(w), MarkedFailed(RowOf(w), "WORKER_EXECUTION_FAILED"))
      BY <1>1, <1>4, HoldingRow, HeldIsLeased, MarkedFailedSound, RowConstants
      DEF MarkFailed
    <2> QED BY <1>1, <1>2, <1>4, <2>1, HoldingRow, WriteRow
            DEF MarkFailed, RowOf, Quiet
  <1>5. CASE ReleaseForRetry(w)
    <2>1. Sound(RowOf(w), Released(RowOf(w)))
      BY <1>1, <1>5, HoldingRow, RequeuedSound, RowConstants
      DEF ReleaseForRetry, MayRelease, Released
    <2> QED BY <1>1, <1>2, <1>5, <2>1, HoldingRow, WriteRow
            DEF ReleaseForRetry, RowOf, Quiet
  <1>6. CASE WorkerStops(w)
    BY <1>2, <1>6, UnchangedRows DEF WorkerStops, Quiet
  <1> QED BY <1>3, <1>4, <1>5, <1>6

LEMMA TablesQuiet ==
  ASSUME IInv,
         \/ \E j \in Jobs : JobStep(j)
         \/ RecoverExpiredLeases
  PROVE  Quiet
  <1>1. UNCHANGED held
    BY DEF JobStep, RequestCancellation, LeaseExpires, BackoffElapses,
           RecoverExpiredLeases
  <1>2. CASE \E j \in Jobs : RequestCancellation(j)
    <2>1. PICK j \in Jobs : RequestCancellation(j)
      BY <1>2
    <2>2. Sound(rows[j], CancelRequested(rows[j]))
      BY RowsInv, CancelRequestedSound
    <2> QED BY <1>1, <2>1, <2>2, WriteRow, RowsInv DEF RequestCancellation, Quiet
  <1>3. CASE \E j \in Jobs : LeaseExpires(j)
    <2>1. PICK j \in Jobs : LeaseExpires(j)
      BY <1>3
    <2>2. Sound(rows[j], [rows[j] EXCEPT !.expired = TRUE])
      BY <2>1, RowsInv, TimeSound DEF LeaseExpires
    <2>3. rows' = [rows EXCEPT ![j] = [rows[j] EXCEPT !.expired = TRUE]]
      BY <2>1 DEF LeaseExpires
    <2> QED BY <1>1, <2>2, <2>3, WriteRow, RowsInv DEF Quiet
  <1>4. CASE \E j \in Jobs : BackoffElapses(j)
    <2>1. PICK j \in Jobs : BackoffElapses(j)
      BY <1>4
    <2>2. Sound(rows[j], [rows[j] EXCEPT !.due = TRUE])
      BY <2>1, RowsInv, TimeSound DEF BackoffElapses
    <2>3. rows' = [rows EXCEPT ![j] = [rows[j] EXCEPT !.due = TRUE]]
      BY <2>1 DEF BackoffElapses
    <2> QED BY <1>1, <2>2, <2>3, WriteRow, RowsInv DEF Quiet
  <1>5. CASE RecoverExpiredLeases
    <2>1. PICK batch \in SUBSET {j \in Jobs : Recoverable(rows[j])} :
            rows' = [j \in Jobs |->
                       IF j \in batch THEN Recovered(rows[j]) ELSE rows[j]]
      BY <1>5 DEF RecoverExpiredLeases
    <2>2. \A j \in batch : Sound(rows[j], Recovered(rows[j]))
      BY RowsInv, RecoveredSound
    <2>3. \A j \in Jobs : Sound(rows[j], rows'[j])
      BY <2>1, <2>2, RowsInv, StaysSound
    <2>4. \A j \in Jobs : rows'[j] \in Rows
      BY <2>3 DEF Sound, RowInv
    <2> QED BY <1>1, <2>1, <2>3, <2>4, RowsInv DEF Quiet
  <1> QED BY <1>2, <1>3, <1>4, <1>5 DEF JobStep

\* Every step is quiet, a claim, or nothing at all.
LEMMA StepKinds ==
  ASSUME IInv, [Next]_vars
  PROVE  \/ Quiet
         \/ \E w \in Workers, j \in Jobs, t \in Tokens : ClaimNext(w, j, t)
  <1>1. CASE UNCHANGED vars
    BY <1>1, UnchangedRows, RowsInv DEF vars, Quiet
  <1>2. CASE \E w \in Workers : WorkerStep(w)
    <2>1. PICK w \in Workers : WorkerStep(w)
      BY <1>2
    <2> QED BY <2>1, HeartbeatQuiet, UpdateStageQuiet, RereadQuiet, LettingGoQuiet
            DEF WorkerStep
  <1>3. CASE (\E j \in Jobs : JobStep(j)) \/ RecoverExpiredLeases
    BY <1>3, TablesQuiet
  <1> QED BY <1>1, <1>2, <1>3 DEF Next

\* What a claim does to the row and to the worker's memory.
LEMMA ClaimEffect ==
  ASSUME IInv, NEW w \in Workers, NEW j \in Jobs, NEW t \in Tokens,
         ClaimNext(w, j, t)
  PROVE  /\ rows' \in [Jobs -> Rows]
         /\ held' \in [Workers -> Claims]
         /\ rows[j].state = "pending"
         /\ \A k \in Jobs : rows'[k] = IF k = j THEN Claimed(rows[j], NameOf[w], t)
                                       ELSE rows[k]
         /\ \A v \in Workers : v # w => held'[v] = held[v]
         /\ held'[w].job = j /\ held'[w].token = t
         /\ held'[w].version = rows[j].version + 1
         /\ held'[w].sawCancel = rows[j].cancelReq
         /\ RowInv(Claimed(rows[j], NameOf[w], t))
  <1>1. RowInv(Claimed(rows[j], NameOf[w], t))
    BY RowsInv, ClaimedInv, NameAssumption DEF ClaimNext
  <1> DEFINE c == [job |-> j, token |-> t, version |-> rows[j].version + 1,
                   sawCancel |-> rows[j].cancelReq]
  <1>2. c \in Claims
    BY RowsInv DEF Claims, Rows
  <1>3. held' = [held EXCEPT ![w] = c]
    BY DEF ClaimNext
  <1>4. rows' = [rows EXCEPT ![j] = Claimed(rows[j], NameOf[w], t)]
    BY DEF ClaimNext
  <1>5. Claimed(rows[j], NameOf[w], t) \in Rows
    BY <1>1 DEF RowInv
  <1>6. rows[j].state = "pending"
    BY DEF ClaimNext, Claimable
  <1> QED BY <1>1, <1>2, <1>3, <1>4, <1>5, <1>6, RowsInv

-----------------------------------------------------------------------------
(* The inductive invariant.                                                *)

LEMMA InitIInv == Init => IInv
  <1> SUFFICES ASSUME Init PROVE IInv
    OBVIOUS
  <1>1. \A j \in Jobs : rows[j] = NewRow
    BY DEF Init
  <1>2. \A w \in Workers : held[w] = Idle
    BY DEF Init
  <1>3. TypeOK
    BY NewRowInv, IdleClaim DEF Init, TypeOK, RowInv
  <1>4. RowsValid /\ CancelSticks
    BY <1>1, NewRowInv DEF RowsValid, CancelSticks, RowInv
  <1>5. TokensDistinct
    BY <1>1, <1>2 DEF TokensDistinct, NewRow, Idle
  <1>6. VersionsSeen
    BY <1>2 DEF VersionsSeen, Holding, Idle
  <1> QED BY <1>3, <1>4, <1>5, <1>6 DEF IInv

LEMMA QuietIInv ==
  ASSUME IInv, Quiet
  PROVE  IInv'
  <1>1. TypeOK'
    BY DEF Quiet, TypeOK
  <1>2. (RowsValid /\ CancelSticks)'
    BY DEF Quiet, Sound, RowInv, RowsValid, CancelSticks
  <1>3. \A j \in Jobs :
          \/ rows'[j].token = rows[j].token /\ rows'[j].owner = rows[j].owner
          \/ rows'[j].token = None
    BY DEF Quiet, Sound, Evolves
  <1>4. \A w \in Workers :
          \/ held'[w].token = held[w].token /\ held'[w].job = held[w].job
          \/ held'[w].token = None /\ held'[w].job = None
    BY DEF Quiet, Looked, Idle
  <1>5. TokensDistinct'
    BY <1>3, <1>4 DEF IInv, TokensDistinct
  <1>6. VersionsSeen'
    <2> SUFFICES ASSUME NEW w \in Workers,
                        Holding(w)', (held[w].token = RowOf(w).token)'
                 PROVE  /\ held'[w].version <= RowOf(w)'.version
                        /\ held'[w].version = RowOf(w)'.version
                             => held'[w].sawCancel = RowOf(w)'.cancelReq
      BY DEF VersionsSeen
    <2> DEFINE j == held[w].job
    <2>1. CASE held'[w] = Idle
      BY <2>1 DEF Holding, Idle
    <2>2. CASE Looked(w)
      <3>1. rows'[j].version \in Nat
        BY <2>2 DEF Quiet, Looked, Rows
      <3> QED BY <2>2, <3>1 DEF Looked, RowOf
    <2>3. CASE held'[w] = held[w]
      <3>1. /\ Holding(w) /\ j \in Jobs
            /\ held'[w].job = j /\ RowOf(w)' = rows'[j] /\ RowOf(w) = rows[j]
            /\ held[w].token \in Tokens
        BY <2>3, HoldingRow DEF Holding, RowOf
      <3>2. rows[j].token = held[w].token
        BY <1>3, <2>3, <3>1, NoneAssumption
      <3>3. /\ held[w].version <= rows[j].version
            /\ held[w].version = rows[j].version
                 => held[w].sawCancel = rows[j].cancelReq
        BY <3>1, <3>2 DEF IInv, VersionsSeen
      <3>4. \/ rows'[j].version = rows[j].version + 1
            \/ /\ rows'[j].version = rows[j].version
               /\ rows'[j].cancelReq = rows[j].cancelReq
        BY <3>1 DEF Quiet, Sound, Evolves
      <3>5. held[w].version \in Nat /\ rows[j].version \in Nat
        BY <3>1, RowsInv DEF Claims, Rows
      <3> QED BY <2>3, <3>1, <3>3, <3>4, <3>5
    <2> QED BY <2>1, <2>2, <2>3 DEF Quiet
  <1> QED BY <1>1, <1>2, <1>5, <1>6 DEF IInv

LEMMA ClaimIInv ==
  ASSUME IInv, NEW w \in Workers, NEW j \in Jobs, NEW t \in Tokens,
         ClaimNext(w, j, t)
  PROVE  IInv'
  <1> DEFINE s == Claimed(rows[j], NameOf[w], t)
  <1>1. /\ s \in Rows /\ s.token = t /\ s.owner = NameOf[w]
        /\ s.version = rows[j].version + 1 /\ s.version \in Nat
        /\ s.cancelReq = rows[j].cancelReq
    BY RowsInv, ClaimedRow, NameAssumption, Counters
  <1>2. TypeOK'
    BY ClaimEffect DEF TypeOK
  <1>3. \A k \in Jobs : RowInv(rows'[k])
    BY ClaimEffect, RowsInv
  <1>4. (RowsValid /\ CancelSticks)'
    BY <1>3 DEF RowInv, RowsValid, CancelSticks
  <1>5. TokensDistinct'
    <2>1. /\ \A k \in Jobs : rows[k].token # t
          /\ \A v \in Workers : held[v].token # t
          /\ t # None /\ j # None
      BY NoneAssumption, NoJobAssumption DEF ClaimNext, Fresh
    <2>2. \A k \in Jobs : /\ k # j => rows'[k] = rows[k]
                          /\ k = j => /\ rows'[k].token = t
                                      /\ rows'[k].owner = NameOf[w]
      BY <1>1, ClaimEffect
    <2>3. \A v \in Workers : /\ v # w => held'[v] = held[v]
                             /\ v = w => held'[v].token = t /\ held'[v].job = j
      BY ClaimEffect
    <2> QED BY <2>1, <2>2, <2>3 DEF IInv, TokensDistinct
  <1>6. VersionsSeen'
    <2> SUFFICES ASSUME NEW v \in Workers,
                        Holding(v)', (held[v].token = RowOf(v).token)'
                 PROVE  /\ held'[v].version <= RowOf(v)'.version
                        /\ held'[v].version = RowOf(v)'.version
                             => held'[v].sawCancel = RowOf(v)'.cancelReq
      BY DEF VersionsSeen
    <2>1. CASE v = w
      BY <1>1, <2>1, ClaimEffect DEF RowOf
    <2>2. CASE v # w
      <3>1. held'[v] = held[v] /\ Holding(v)
        BY <2>2, ClaimEffect DEF Holding
      <3>2. held[v].job \in Jobs /\ held[v].job # j
        BY <1>1, <2>2, <3>1, HoldingRow, ClaimEffect DEF RowOf, ClaimNext, Fresh
      <3>3. RowOf(v)' = RowOf(v)
        BY <3>1, <3>2, ClaimEffect DEF RowOf
      <3> QED BY <3>1, <3>3 DEF IInv, VersionsSeen
    <2> QED BY <2>1, <2>2
  <1> QED BY <1>2, <1>4, <1>5, <1>6 DEF IInv

LEMMA NextIInv == IInv /\ [Next]_vars => IInv'
  BY StepKinds, QuietIInv, ClaimIInv

LEMMA Inductive == Spec => []IInv
  BY InitIInv, NextIInv, PTL DEF Spec

-----------------------------------------------------------------------------
(* The theorems.                                                           *)

\* Rows and memories stay well formed whatever the workers do.
THEOREM TypeCorrect == Spec => []TypeOK
  BY Inductive, PTL DEF IInv

\* No transaction of the queue is ever refused by a CHECK of the table.
THEOREM RowsAlwaysValid == Spec => []RowsValid
  BY Inductive, PTL DEF IInv

\* A requested cancellation is never undone by a retry or by the sweep.
THEOREM CancellationSticks == Spec => []CancelSticks
  BY Inductive, PTL DEF IInv

\* A worker with a good lease and the current version knows of a cancellation.
THEOREM CancellationSeen == Spec => []CancelSeen
  <1>1. IInv => CancelSeen
    BY DEF IInv, VersionsSeen, CancelSeen, Current, HeldBy
  <1> QED BY <1>1, Inductive, PTL

\* Nothing is ever written to a row that has reached a terminal state.
THEOREM TerminalRowsFrozen == Spec => TerminalFrozen
  <1>1. IInv /\ [Next]_vars =>
          [\A j \in Jobs : Terminal(rows[j]) => rows'[j] = rows[j]]_vars
    <2> SUFFICES ASSUME IInv, [Next]_vars, NEW j \in Jobs, Terminal(rows[j])
                 PROVE  rows'[j] = rows[j]
      OBVIOUS
    <2>1. CASE Quiet
      BY <2>1 DEF Quiet, Sound, Evolves
    <2>2. CASE \E w \in Workers, k \in Jobs, t \in Tokens : ClaimNext(w, k, t)
      BY <2>2, ClaimEffect DEF Terminal, TerminalStates
    <2> QED BY <2>1, <2>2, StepKinds
  <1> QED BY <1>1, Inductive, PTL DEF Spec, TerminalFrozen

\* Only its holder ends a lease that has not run out.
EndsOwnLease(j) ==
  \E w \in Workers : /\ held[w].job = j
                     /\ held[w].token = rows[j].token
                     /\ held'[w] = Idle

LEMMA LettingGoEndsOwn ==
  ASSUME IInv, NEW w \in Workers, NEW j \in Jobs,
         MarkCancelled(w) \/ MarkFailed(w) \/ ReleaseForRetry(w) \/ WorkerStops(w),
         rows'[j].token # rows[j].token
  PROVE  EndsOwnLease(j)
  <1>1. Holding(w) /\ LetGo(w) /\ ~WorkerStops(w)
    BY DEF MarkCancelled, MarkFailed, ReleaseForRetry, WorkerStops
  <1>2. held[w].job = j
    BY <1>1, RowsInv DEF MarkCancelled, MarkFailed, ReleaseForRetry
  <1>3. held[w].token = rows[j].token
    BY <1>1, <1>2
    DEF MarkCancelled, MarkFailed, ReleaseForRetry, MayMarkCancelled,
        MayRelease, HeldBy, RowOf, WorkerStops
  <1>4. held'[w] = Idle
    BY <1>1, LetGoMemories
  <1> QED BY <1>2, <1>3, <1>4 DEF EndsOwnLease

THEOREM LeaseNeverStolen == Spec => LeaseNotStolen
  <1>1. IInv /\ [Next]_vars =>
          [\A j \in Jobs : /\ Leased(rows[j])
                           /\ ~rows[j].expired
                           /\ rows'[j].token # rows[j].token
                           => EndsOwnLease(j)]_vars
    <2> SUFFICES ASSUME IInv, [Next]_vars, NEW j \in Jobs,
                        Leased(rows[j]), ~rows[j].expired,
                        rows'[j].token # rows[j].token
                 PROVE  EndsOwnLease(j)
      OBVIOUS
    <2>1. RowInv(rows[j]) /\ rows[j] \in Rows
      BY RowsInv
    <2>2. CASE UNCHANGED vars
      BY <2>2 DEF vars
    <2>3. CASE \E w \in Workers : WorkerStep(w)
      <3>1. PICK w \in Workers : WorkerStep(w)
        BY <2>3
      <3>2. CASE \E k \in Jobs, t \in Tokens : ClaimNext(w, k, t)
        BY <3>2, ClaimEffect DEF Leased, LeasedStates
      <3>3. CASE Heartbeat(w)
        <4>1. /\ rows'[held[w].job] = Heartbeaten(rows[held[w].job])
              /\ \A k \in Jobs : k # held[w].job => rows'[k] = rows[k]
          BY <3>3, RowsInv, HoldingRow DEF Heartbeat
        <4> QED BY <2>1, <4>1, HeartbeatenRow
      <3>4. CASE \E g \in WorkStages : UpdateStage(w, g)
        <4>1. PICK g \in WorkStages : UpdateStage(w, g)
          BY <3>4
        <4>2. /\ rows'[held[w].job] = StageUpdated(rows[held[w].job], g)
              /\ \A k \in Jobs : k # held[w].job => rows'[k] = rows[k]
          BY <4>1, RowsInv, HoldingRow DEF UpdateStage
        <4> QED BY <2>1, <4>2, StageUpdatedRow, WorkStagesAssumption
      <3>5. CASE Reread(w)
        BY <3>5 DEF Reread
      <3> QED BY <3>1, <3>2, <3>3, <3>4, <3>5, LettingGoEndsOwn DEF WorkerStep
    <2>4. CASE \E k \in Jobs : JobStep(k)
      <3>1. PICK k \in Jobs : JobStep(k)
        BY <2>4
      <3>2. CASE RequestCancellation(k)
        <4>1. rows'[j] = IF j = k THEN CancelRequested(rows[j]) ELSE rows[j]
          BY <3>2, RowsInv DEF RequestCancellation
        <4> QED BY <2>1, <4>1, CancelRequestedRow
      <3>3. CASE LeaseExpires(k)
        <4>1. rows'[j] = IF j = k THEN [rows[j] EXCEPT !.expired = TRUE] ELSE rows[j]
          BY <3>3, RowsInv DEF LeaseExpires
        <4> QED BY <2>1, <4>1 DEF Rows
      <3>4. CASE BackoffElapses(k)
        <4>1. rows'[j] = IF j = k THEN [rows[j] EXCEPT !.due = TRUE] ELSE rows[j]
          BY <3>4, RowsInv DEF BackoffElapses
        <4> QED BY <2>1, <4>1 DEF Rows
      <3> QED BY <3>1, <3>2, <3>3, <3>4 DEF JobStep
    <2>5. CASE RecoverExpiredLeases
      BY <2>5 DEF RecoverExpiredLeases, Recoverable
    <2> QED BY <2>2, <2>3, <2>4, <2>5 DEF Next
  <1> QED BY <1>1, Inductive, PTL DEF Spec, LeaseNotStolen, EndsOwnLease

\* A step that changes what a worker remembers and its job's row is one of its
\* own calls, and those find no row under a token that is over.
WritesOnlyOwn(w) ==
  Holding(w) /\ held'[w] # held[w] /\ held[w].token # RowOf(w).token
    => rows'[held[w].job] = RowOf(w)

\* No call with a token that is over is let through.
LEMMA StaleRefused ==
  ASSUME NEW w \in Workers, held[w].token # RowOf(w).token
  PROVE  /\ ~Heartbeat(w) /\ ~MarkCancelled(w) /\ ~MarkFailed(w) /\ ~ReleaseForRetry(w)
         /\ \A g \in WorkStages : ~UpdateStage(w, g)
  BY DEF Heartbeat, UpdateStage, MarkCancelled, MarkFailed, ReleaseForRetry,
         Current, MayMarkCancelled, MayRelease, HeldBy

\* A step of one worker leaves the memory of the others alone.
LEMMA OthersRemember ==
  ASSUME IInv, NEW w \in Workers, NEW v \in Workers, v # w, WorkerStep(v)
  PROVE  held'[w] = held[w]
  BY RowsInv
  DEF WorkerStep, ClaimNext, Heartbeat, UpdateStage, Reread, MarkCancelled,
      MarkFailed, ReleaseForRetry, WorkerStops, LetGo

\* A worker that has lost its lease can no longer write the job, whatever it
\* calls and however often it reads the version anew.
THEOREM StaleHoldersFenced == Spec => StaleHolderFenced
  <1>1. IInv /\ [Next]_vars => [\A w \in Workers : WritesOnlyOwn(w)]_vars
    <2> SUFFICES ASSUME IInv, [Next]_vars, NEW w \in Workers,
                        Holding(w), held'[w] # held[w], held[w].token # RowOf(w).token
                 PROVE  rows'[held[w].job] = RowOf(w)
      BY DEF WritesOnlyOwn
    <2>1. CASE UNCHANGED vars \/ (\E j \in Jobs : JobStep(j)) \/ RecoverExpiredLeases
      BY <2>1 DEF vars, JobStep, RequestCancellation, LeaseExpires, BackoffElapses,
                  RecoverExpiredLeases
    <2>2. CASE \E v \in Workers : WorkerStep(v)
      <3>1. PICK v \in Workers : WorkerStep(v)
        BY <2>2
      <3>2. v = w
        BY <3>1, OthersRemember
      <3>3. Reread(w) \/ WorkerStops(w)
        BY <3>1, <3>2, StaleRefused DEF WorkerStep, ClaimNext
      <3> QED BY <3>3 DEF Reread, WorkerStops, RowOf
    <2> QED BY <2>1, <2>2 DEF Next
  <1> QED BY <1>1, Inductive, PTL DEF Spec, StaleHolderFenced, WritesOnlyOwn

-----------------------------------------------------------------------------
(* The queue implements JobLifecycle.                                      *)

Abstract == [j \in Jobs |-> [phase |-> PhaseOf(rows[j]), holder |-> rows[j].token]]

\* A sound change of a row is one of the moves of the lifecycle, or none.
LEMMA SoundMoves ==
  ASSUME IInv, NEW j \in Jobs, Sound(rows[j], rows'[j])
  PROVE  \/ Abstract'[j] = Abstract[j]
         \/ Lifecycle!HandBack(j) \/ Lifecycle!AskToStop(j) \/ Lifecycle!End(j)
  <1> DEFINE r == rows[j]
             s == rows'[j]
  <1>1. /\ Abstract[j] = [phase |-> PhaseOf(r), holder |-> r.token]
        /\ Abstract'[j] = [phase |-> PhaseOf(s), holder |-> s.token]
    BY DEF Abstract
  <1>2. CASE s.state = r.state /\ s.token = r.token
    BY <1>1, <1>2 DEF PhaseOf
  <1>3. CASE /\ s.token = r.token
             /\ r.state = "processing" /\ s.state = "cancelling"
    BY <1>3 DEF Lifecycle!AskToStop, PhaseOf
  <1>4. CASE s.token = None /\ r.state = "pending" /\ s.state = "cancelled"
    BY <1>4 DEF Lifecycle!AskToStop, Lifecycle!Ended, PhaseOf
  <1>5. CASE s.token = None /\ r.state = "processing" /\ s.state = "pending"
    BY <1>5 DEF Lifecycle!HandBack, Lifecycle!Waiting, PhaseOf
  <1>6. CASE /\ s.token = None
             /\ \/ r.state = "processing" /\ s.state = "failed"
                \/ r.state = "cancelling" /\ s.state \in {"cancelled", "failed"}
    BY <1>6 DEF Lifecycle!End, Lifecycle!Ended, PhaseOf
  <1> QED BY <1>2, <1>3, <1>4, <1>5, <1>6 DEF Sound, Evolves

LEMMA ClaimStarts ==
  ASSUME IInv, NEW w \in Workers, NEW j \in Jobs, NEW t \in Tokens,
         ClaimNext(w, j, t)
  PROVE  \A k \in Jobs : Abstract'[k] = Abstract[k] \/ Lifecycle!Start(k)
  <1>1. \A k \in Jobs : k # j => rows'[k] = rows[k]
    BY ClaimEffect
  <1>2. rows'[j].state = "processing" /\ rows'[j].token = t
    BY RowsInv, ClaimEffect, ClaimedRow, NameAssumption
  <1>3. rows[j].state = "pending" /\ \A k \in Jobs : rows[k].token # t
    BY DEF ClaimNext, Claimable, Fresh
  <1>4. Lifecycle!Start(j)
    BY <1>2, <1>3 DEF Lifecycle!Start, PhaseOf
  <1> QED BY <1>1, <1>4 DEF Abstract, PhaseOf

\* The queue with its leases, versions and sweeps does only what JobLifecycle
\* allows: one holder at a time, stop requests that stick, a single end.
THEOREM ImplementsLifecycle == Spec => LifecycleSpec
  <1>1. Init => Lifecycle!Init
    BY DEF Init, Lifecycle!Init, Lifecycle!Waiting, NewRow, PhaseOf
  <1>2. IInv /\ [Next]_vars => [Lifecycle!Next]_Abstract
    <2> SUFFICES ASSUME IInv, [Next]_vars PROVE Lifecycle!Next
      OBVIOUS
    <2>1. CASE Quiet
      BY <2>1, SoundMoves DEF Quiet, Lifecycle!Next, Abstract
    <2>2. CASE \E w \in Workers, j \in Jobs, t \in Tokens : ClaimNext(w, j, t)
      BY <2>2, ClaimStarts DEF Lifecycle!Next, Abstract
    <2> QED BY <2>1, <2>2, StepKinds
  <1> QED BY <1>1, <1>2, Inductive, PTL DEF Spec, LifecycleSpec, Lifecycle!Spec, Abstract
=============================================================================
