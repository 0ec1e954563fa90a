---------------------------- MODULE JobLifecycle -----------------------------
(***************************************************************************)
(* What the job queue promises, without leases, clocks or versions: a job  *)
(* waits, is run by at most one holder at a time, may be handed back to    *)
(* wait again unless someone asked it to stop, and ends once and for ever. *)
(* One transaction may move several jobs, each by one of the moves below.  *)
(***************************************************************************)
CONSTANTS Jobs, Tokens, None

VARIABLE job   \* job[j].phase and the token of its holder

Phases == {"waiting", "running", "stopping", "failed", "cancelled"}
JobStates == [phase : Phases, holder : Tokens \cup {None}]

Waiting == [phase |-> "waiting", holder |-> None]
Ended(outcome) == [phase |-> outcome, holder |-> None]

Init == job = [j \in Jobs |-> Waiting]

\* A holder nobody else is starts a waiting job.
Start(j) ==
  /\ job[j].phase = "waiting"
  /\ \E t \in Tokens :
       /\ \A k \in Jobs : job[k].holder # t
       /\ job'[j] = [phase |-> "running", holder |-> t]

\* A running job is handed back.
HandBack(j) == job[j].phase = "running" /\ job'[j] = Waiting

\* Someone asks the job to stop: a waiting one ends there and then.
AskToStop(j) ==
  \/ job[j].phase = "waiting" /\ job'[j] = Ended("cancelled")
  \/ /\ job[j].phase = "running"
     /\ job'[j] = [phase |-> "stopping", holder |-> job[j].holder]

\* A held job ends; only one that was asked to stop ends cancelled.
End(j) ==
  \/ /\ job[j].phase \in {"running", "stopping"}
     /\ job'[j] = Ended("failed")
  \/ job[j].phase = "stopping" /\ job'[j] = Ended("cancelled")

Next ==
  \A j \in Jobs :
    job'[j] = job[j] \/ Start(j) \/ HandBack(j) \/ AskToStop(j) \/ End(j)

Spec == Init /\ [][Next]_job
=============================================================================
