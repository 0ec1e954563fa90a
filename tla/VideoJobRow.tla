----------------------------- MODULE VideoJobRow -----------------------------
(***************************************************************************)
(* One row of the video_job table and what each transaction of             *)
(* SqlAlchemyVideoJobQueue, and the entity's own method, does to it.       *)
(*                                                                         *)
(* Time is kept as the two questions the code asks of it: whether          *)
(* available_at has been reached ("due") and whether lease_expires_at has  *)
(* passed ("expired").  lease_owner, lease_token, lease_expires_at and     *)
(* heartbeat_at are always written together; the row keeps the owner, the  *)
(* token and the expiry.  Progress and the counters go with the stage.     *)
(***************************************************************************)
EXTENDS Naturals

CONSTANTS
  Names,        \* values of WORKER_ID; several processes may share one
  Tokens,       \* lease tokens, a fresh UUID per claim
  MaxAttempts,  \* max_attempts of every job
  None          \* SQL NULL

ASSUME MaxAttemptsAssumption == MaxAttempts \in Nat \ {0}
ASSUME NoneAssumption == None \notin Names \cup Tokens

States == {"pending", "processing", "cancelling",
           "completed", "failed", "cancelled"}
Stages == {"queued", "download", "probe", "decode_infer",
           "track_reconcile", "persist", "finalize", "cleanup"}
Errors == {"lease_expired", "max_retry_exceeded", "WORKER_EXECUTION_FAILED"}
LeasedStates == {"processing", "cancelling"}
TerminalStates == {"completed", "failed", "cancelled"}

Rows == [state       : States,
         stage       : Stages,
         due         : BOOLEAN,
         owner       : Names \cup {None},
         token       : Tokens \cup {None},
         expired     : BOOLEAN,
         attempts    : Nat,
         cancelReq   : BOOLEAN,
         error       : Errors \cup {"none"},
         completedAt : BOOLEAN,
         failedAt    : BOOLEAN,
         cancelledAt : BOOLEAN,
         manifest    : Tokens \cup {None},  \* whose manifest is the result
         version     : Nat]

\* The row add() inserts for a new job.
NewRow == [state |-> "pending", stage |-> "queued", due |-> TRUE,
           owner |-> None, token |-> None, expired |-> FALSE,
           attempts |-> 0, cancelReq |-> FALSE, error |-> "none",
           completedAt |-> FALSE, failedAt |-> FALSE, cancelledAt |-> FALSE,
           manifest |-> None, version |-> 1]

Leased(r) == r.state \in LeasedStates
Terminal(r) == r.state \in TerminalStates

\* The CHECK constraints that relate the state to the other columns.
ChecksOK(r) ==
  /\ Leased(r) => r.owner # None /\ r.token # None
  /\ ~Leased(r) => r.owner = None /\ r.token = None /\ ~r.expired
  /\ r.state = "completed" => r.completedAt /\ r.manifest # None
  /\ r.state = "failed" => r.failedAt /\ r.error # "none"
  /\ r.state = "cancelled" => r.cancelledAt

\* Fault: the name alone.
NamedBy(r, name, t) == r.owner = name

\* WHERE lease_owner = worker_id AND lease_token = lease_token.
HeldBy(r, name, t) == r.owner = name /\ r.token = t

ClearLease(r) == [r EXCEPT !.owner = None, !.token = None, !.expired = FALSE]

-----------------------------------------------------------------------------
(* What each transaction selects, and the row it writes.                   *)

\* Fault: the state is not looked at.
AnyStateClaimable(r) == r.due

Claimable(r) == r.state = "pending" /\ r.due

\* Fault: the attempt is not counted.
UncountedClaimed(r, name, t) ==
  [r EXCEPT !.state = "processing", !.stage = "download",
            !.owner = name, !.token = t, !.expired = FALSE, !.version = @ + 1]

Claimed(r, name, t) ==
  [r EXCEPT !.state = "processing", !.stage = "download",
            !.owner = name, !.token = t, !.expired = FALSE,
            !.attempts = @ + 1, !.version = @ + 1]

\* heartbeat and update_stage: the lease and the version the caller expects.
Current(r, name, t, v) == HeldBy(r, name, t) /\ r.version = v

Heartbeaten(r) == [r EXCEPT !.expired = FALSE, !.version = @ + 1]

StageUpdated(r, s) == [r EXCEPT !.stage = s, !.version = @ + 1]

\* Fault: a cancellation that leaves the version alone.
SilentCancelRequested(r) ==
  CASE r.state = "pending" ->
         [r EXCEPT !.state = "cancelled", !.cancelledAt = TRUE]
    [] r.state \in LeasedStates ->
         [r EXCEPT !.state = "cancelling", !.cancelReq = TRUE]
    [] OTHER -> r

\* request_cancellation: a terminal row is returned as it is.
CancelRequested(r) ==
  CASE r.state = "pending" ->
         [r EXCEPT !.state = "cancelled", !.cancelledAt = TRUE,
                   !.version = @ + 1]
    [] r.state \in LeasedStates ->
         [r EXCEPT !.state = "cancelling", !.cancelReq = TRUE,
                   !.version = @ + 1]
    [] OTHER -> r

MayMarkCancelled(r, name, t) ==
  HeldBy(r, name, t) /\ r.state \in {"cancelling", "pending"}

MarkedCancelled(r) ==
  [ClearLease(r) EXCEPT !.state = "cancelled", !.cancelledAt = TRUE,
                        !.version = @ + 1]

\* Fault: the lease columns are left set.
LeasedMarkedFailed(r, e) ==
  [r EXCEPT !.state = "failed", !.error = e, !.failedAt = TRUE,
            !.version = @ + 1]

MarkedFailed(r, e) ==
  [ClearLease(r) EXCEPT !.state = "failed", !.error = e, !.failedAt = TRUE,
                        !.version = @ + 1]

\* Fault: the state is not looked at.
AnyStateMayRelease(r, name, t) == HeldBy(r, name, t)

MayRelease(r, name, t) == HeldBy(r, name, t) /\ r.state = "processing"

\* Back to pending; the caller's available_at decides whether it is due.
Requeued(r, e, due) ==
  [ClearLease(r) EXCEPT !.state = "pending", !.stage = "queued",
                        !.due = due, !.error = e, !.version = @ + 1]

Released(r) == Requeued(r, "WORKER_EXECUTION_FAILED", FALSE)

\* Fault: the expiry is not looked at.
UnexpiredRecoverable(r) == Leased(r)

Recoverable(r) == Leased(r) /\ r.expired

\* Fault: the cancellation branch is missing.
UncancelledRecovered(r) ==
  IF r.attempts >= MaxAttempts THEN MarkedFailed(r, "max_retry_exceeded")
  ELSE Requeued(r, "lease_expired", TRUE)

\* The three branches of recover_expired_leases, in their order.
Recovered(r) ==
  IF r.state = "cancelling" \/ r.cancelReq THEN MarkedCancelled(r)
  ELSE IF r.attempts >= MaxAttempts THEN MarkedFailed(r, "max_retry_exceeded")
  ELSE Requeued(r, "lease_expired", TRUE)
=============================================================================
