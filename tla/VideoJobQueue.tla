---------------------------- MODULE VideoJobQueue ----------------------------
(***************************************************************************)
(* SqlAlchemyVideoJobQueue: the eight transactions on the video_job table, *)
(* called by workers that may be slow, stop without a word, or come back   *)
(* with a lease somebody else has since taken.  Every transaction locks    *)
(* the row it changes (SELECT ... FOR UPDATE), so each is one step.        *)
(*                                                                         *)
(* claim_next orders the due rows and skips the ones a concurrent          *)
(* transaction has locked, so any due row may be the one it takes.         *)
(***************************************************************************)
EXTENDS VideoJobRow, FiniteSets

CONSTANTS
  Jobs,
  Workers,      \* worker processes
  NameOf,       \* the WORKER_ID each process was started with
  BatchSize,    \* batch_size of recover_expired_leases
  WorkStages,   \* the stages a worker reports with update_stage
  MaxClaims,    \* state-space bound: claims of one job
  MaxVersion    \* state-space bound: heartbeats, stage updates and repeated
                \* cancellation requests stop at this version

ASSUME BatchSizeAssumption == BatchSize \in Nat \ {0}
ASSUME NameAssumption == NameOf \in [Workers -> Names]
ASSUME WorkStagesAssumption == WorkStages \subseteq Stages
ASSUME NoJobAssumption == None \notin Jobs

VARIABLES
  rows,   \* the video_job table
  held    \* what each worker process remembers of its claim

vars == <<rows, held>>

\* The lease a worker believes it has, and the row version it last saw.
Claims == [job : Jobs \cup {None}, token : Tokens \cup {None},
           version : Nat, sawCancel : BOOLEAN]
Idle == [job |-> None, token |-> None, version |-> 0, sawCancel |-> FALSE]

Holding(w) == held[w].job # None
RowOf(w) == rows[held[w].job]

\* A UUID nobody holds: what generate_uuid7 returns.
Fresh(t) == /\ \A j \in Jobs : rows[j].token # t
            /\ \A w \in Workers : held[w].token # t

Init == /\ rows = [j \in Jobs |-> NewRow]
        /\ held = [w \in Workers |-> Idle]

-----------------------------------------------------------------------------
ClaimNext(w, j, t) ==
  /\ ~Holding(w)
  /\ Claimable(rows[j])
  /\ rows[j].attempts < MaxClaims
  /\ Fresh(t)
  /\ rows' = [rows EXCEPT ![j] = Claimed(@, NameOf[w], t)]
  /\ held' = [held EXCEPT ![w] =
                [job |-> j, token |-> t, version |-> rows[j].version + 1,
                 sawCancel |-> rows[j].cancelReq]]

\* heartbeat answers only yes or no; the caller counts the version on.
Heartbeat(w) ==
  /\ Holding(w)
  /\ Current(RowOf(w), NameOf[w], held[w].token, held[w].version)
  /\ RowOf(w).version < MaxVersion
  /\ rows' = [rows EXCEPT ![held[w].job] = Heartbeaten(@)]
  /\ held' = [held EXCEPT ![w].version = @ + 1]

\* update_stage returns the row it wrote.
UpdateStage(w, s) ==
  /\ Holding(w)
  /\ Current(RowOf(w), NameOf[w], held[w].token, held[w].version)
  /\ RowOf(w).version < MaxVersion
  /\ rows' = [rows EXCEPT ![held[w].job] = StageUpdated(@, s)]
  /\ held' = [held EXCEPT ![w].version = @ + 1,
                          ![w].sawCancel = RowOf(w).cancelReq]

\* video_jobs.get_by_id after a refused call.
Reread(w) ==
  /\ Holding(w)
  /\ held' = [held EXCEPT ![w].version = RowOf(w).version,
                          ![w].sawCancel = RowOf(w).cancelReq]
  /\ UNCHANGED rows

RequestCancellation(j) ==
  /\ rows[j].state = "cancelling" => rows[j].version < MaxVersion
  /\ rows' = [rows EXCEPT ![j] = CancelRequested(@)]
  /\ UNCHANGED held

LetGo(w) == held' = [held EXCEPT ![w] = Idle]

MarkCancelled(w) ==
  /\ Holding(w)
  /\ MayMarkCancelled(RowOf(w), NameOf[w], held[w].token)
  /\ rows' = [rows EXCEPT ![held[w].job] = MarkedCancelled(@)]
  /\ LetGo(w)

MarkFailed(w) ==
  /\ Holding(w)
  /\ HeldBy(RowOf(w), NameOf[w], held[w].token)
  /\ rows' = [rows EXCEPT ![held[w].job] =
                MarkedFailed(@, "WORKER_EXECUTION_FAILED")]
  /\ LetGo(w)

ReleaseForRetry(w) ==
  /\ Holding(w)
  /\ MayRelease(RowOf(w), NameOf[w], held[w].token)
  /\ rows' = [rows EXCEPT ![held[w].job] = Released(@)]
  /\ LetGo(w)

\* The worker process dies, or its last call found no row and it moves on.
WorkerStops(w) ==
  /\ Holding(w)
  /\ LetGo(w)
  /\ UNCHANGED rows

\* LIMIT batch_size, no ORDER BY: any expired rows, up to the batch.
RecoverExpiredLeases ==
  \E batch \in SUBSET {j \in Jobs : Recoverable(rows[j])} :
    /\ batch # {}
    /\ Cardinality(batch) <= BatchSize
    /\ rows' = [j \in Jobs |->
                  IF j \in batch THEN Recovered(rows[j]) ELSE rows[j]]
    /\ UNCHANGED held

-----------------------------------------------------------------------------
(* Time passing.                                                           *)

LeaseExpires(j) ==
  /\ Leased(rows[j])
  /\ ~rows[j].expired
  /\ rows' = [rows EXCEPT ![j].expired = TRUE]
  /\ UNCHANGED held

BackoffElapses(j) ==
  /\ rows[j].state = "pending"
  /\ ~rows[j].due
  /\ rows' = [rows EXCEPT ![j].due = TRUE]
  /\ UNCHANGED held

WorkerStep(w) ==
  \/ \E j \in Jobs, t \in Tokens : ClaimNext(w, j, t)
  \/ Heartbeat(w)
  \/ \E s \in WorkStages : UpdateStage(w, s)
  \/ Reread(w)
  \/ MarkCancelled(w)
  \/ MarkFailed(w)
  \/ ReleaseForRetry(w)
  \/ WorkerStops(w)

JobStep(j) ==
  \/ RequestCancellation(j)
  \/ LeaseExpires(j)
  \/ BackoffElapses(j)

Next ==
  \/ \E w \in Workers : WorkerStep(w)
  \/ \E j \in Jobs : JobStep(j)
  \/ RecoverExpiredLeases

Spec == Init /\ [][Next]_vars

-----------------------------------------------------------------------------
(* Properties.                                                             *)

\* Every row and every worker's memory is well formed.
TypeOK == rows \in [Jobs -> Rows] /\ held \in [Workers -> Claims]

\* No sequence of transactions writes a row the table's CHECK constraints
\* refuse: a lease is there exactly while the job is processing or
\* cancelling, and a terminal state has its timestamp and its error.
RowsValid == \A j \in Jobs : ChecksOK(rows[j])

\* A cancellation that was asked for is never forgotten: from then on the job
\* is cancelling, cancelled, or failed by its holder, and is never queued or
\* claimed again, whatever release_for_retry and the recovery sweep do.
CancelSticks ==
  \A j \in Jobs :
    /\ rows[j].cancelReq => rows[j].state \in {"cancelling", "cancelled", "failed"}
    /\ rows[j].state = "cancelling" => rows[j].cancelReq

\* The version is how a worker learns of a cancellation: one whose lease is
\* good and whose version is current knows whether the flag is set, because
\* request_cancellation moves the version on.
CancelSeen ==
  \A w \in Workers :
    Holding(w) /\ Current(RowOf(w), NameOf[w], held[w].token, held[w].version)
      => held[w].sawCancel = RowOf(w).cancelReq

\* A lease that has not run out is only ever ended by the worker that holds
\* it: neither another worker, a cancellation nor the sweep takes it away.
LeaseNotStolen ==
  [][\A j \in Jobs :
       /\ Leased(rows[j])
       /\ ~rows[j].expired
       /\ rows'[j].token # rows[j].token
       => \E w \in Workers : /\ held[w].job = j
                             /\ held[w].token = rows[j].token
                             /\ held'[w] = Idle]_vars

\* A worker that has lost its lease is fenced: whatever it does next - renew,
\* report a stage, give up, hand the job back, each after reading the row's
\* version anew - leaves the row as it is.  The sweep may have handed the job to
\* another worker of the same WORKER_ID, so that nothing but the token in the
\* WHERE of each statement tells the two apart.
StaleHolderFenced ==
  [][\A w \in Workers :
       Holding(w) /\ held'[w] # held[w] /\ held[w].token # RowOf(w).token
         => rows'[held[w].job] = RowOf(w)]_vars

\* A completed, failed or cancelled row is never written again, by a late
\* worker, a cancellation request or the sweep.
TerminalFrozen ==
  [][\A j \in Jobs : Terminal(rows[j]) => rows'[j] = rows[j]]_vars

\* What makes the invariants above inductive.  A token stands for one claim:
\* at most one row and one worker have it, and they agree on job and owner.
TokensDistinct ==
  /\ \A j, k \in Jobs :
       rows[j].token # None /\ rows[j].token = rows[k].token => j = k
  /\ \A v, w \in Workers :
       held[v].token # None /\ held[v].token = held[w].token => v = w
  /\ \A j \in Jobs, w \in Workers :
       rows[j].token # None /\ held[w].token = rows[j].token
         => held[w].job = j /\ rows[j].owner = NameOf[w]
  /\ \A w \in Workers : held[w].job = None <=> held[w].token = None

\* A worker with a good lease has seen no later version than the row's, and
\* if it has seen that one it knows the cancellation flag.
VersionsSeen ==
  \A w \in Workers :
    Holding(w) /\ held[w].token = RowOf(w).token =>
      /\ held[w].version <= RowOf(w).version
      /\ held[w].version = RowOf(w).version
           => held[w].sawCancel = RowOf(w).cancelReq

IInv == TypeOK /\ RowsValid /\ CancelSticks /\ TokensDistinct /\ VersionsSeen

\* The queue keeps the promise of JobLifecycle: the phase is read off the
\* state and the holder is the lease token.
PhaseOf(r) == CASE r.state = "pending"    -> "waiting"
                [] r.state = "processing" -> "running"
                [] r.state = "cancelling" -> "stopping"
                [] OTHER                  -> r.state

Lifecycle == INSTANCE JobLifecycle
  WITH job <- [j \in Jobs |-> [phase |-> PhaseOf(rows[j]), holder |-> rows[j].token]]

LifecycleSpec == Lifecycle!Spec
=============================================================================
