--------------------------- MODULE ReportLifecycle ---------------------------
(***************************************************************************)
(* What the report service promises its callers: the life of a report_jobs *)
(* row as GET /reports/{id} shows it, with no worker, queue or file in     *)
(* sight.  ReportJobs implements it.                                       *)
(***************************************************************************)
CONSTANT Jobs

VARIABLES
    state,    \* the life-cycle state of each job
    report    \* the jobs whose finished report can be fetched

lifecycleVars == <<state, report>>

LifecycleStates ==
    {"absent", "queued", "processing", "completed", "failed", "deleted"}

LifecycleTypeOK ==
    /\ state \in [Jobs -> LifecycleStates]
    /\ report \in SUBSET Jobs

LifecycleInit ==
    /\ state = [j \in Jobs |-> "absent"]
    /\ report = {}

Submit(j) ==
    /\ state[j] = "absent"
    /\ state' = [state EXCEPT ![j] = "queued"]
    /\ UNCHANGED report

\* A job may be begun again after a failure or an interruption, never once it
\* is completed.
Begin(j) ==
    /\ state[j] \in {"queued", "processing", "failed"}
    /\ state' = [state EXCEPT ![j] = "processing"]
    /\ UNCHANGED report

\* A job completes in the very step that makes its report available.
Deliver(j) ==
    /\ state[j] = "processing"
    /\ state' = [state EXCEPT ![j] = "completed"]
    /\ report' = report \cup {j}

GiveUp(j) ==
    /\ state[j] = "processing"
    /\ state' = [state EXCEPT ![j] = "failed"]
    /\ UNCHANGED report

\* Deleting an assessment removes all the jobs that were created from it.
Remove(J) ==
    /\ \A j \in J : state[j] \notin {"absent", "deleted"}
    /\ state' = [j \in Jobs |-> IF j \in J THEN "deleted" ELSE state[j]]
    /\ report' = report \ J

LifecycleNext ==
    \/ \E j \in Jobs : Submit(j) \/ Begin(j) \/ Deliver(j) \/ GiveUp(j)
    \/ \E J \in SUBSET Jobs : Remove(J)

LifecycleSpec == LifecycleInit /\ [][LifecycleNext]_lifecycleVars
=============================================================================
