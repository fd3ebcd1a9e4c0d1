------------------------------ MODULE ReportJobs ------------------------------
(***************************************************************************)
(* Report generation, end to end: the API handler that records a job and   *)
(* enqueues it, the ARQ queue that delivers it, the worker functions       *)
(* generate_html_report, generate_pdf_report and generate_sarif_export,    *)
(* the storage they write to, and DELETE /assessments/{id}, whose cascade  *)
(* removes rows under a running worker.                                    *)
(*                                                                         *)
(* A run is one execution of a worker function.  Its pc names the next     *)
(* await of that function, so that every interleaving of two runs and of   *)
(* the API at an await is a behaviour.                                     *)
(***************************************************************************)
EXTENDS Naturals, FiniteSets

CONSTANTS
    Jobs,         \* ids of report jobs; each is created by one POST /reports/
    Assessments,  \* imported assessment sessions
    Runs,         \* task slots of the worker processes
    Formats,      \* the formats that requests ask for
    Backend,      \* STORAGE_BACKEND: "local" or "s3"
    Weasyprint,   \* whether weasyprint can be imported in the worker
    MaxTries,     \* ARQ's max_tries
    Faults,       \* the kinds of failure that may strike
    MaxFaults     \* bound: how many failures strike in one behaviour

FormatNames == {"html", "pdf", "sarif", "json"}
FaultKinds == {"crash", "shutdown", "timeout", "db", "storage", "redis",
               "expiry", "block"}

ASSUME FormatsAssumption == Formats \subseteq FormatNames
ASSUME BackendAssumption == Backend \in {"local", "s3"}
ASSUME WeasyprintAssumption == Weasyprint \in BOOLEAN
ASSUME BoundsAssumption == MaxTries \in Nat \ {0} /\ MaxFaults \in Nat
ASSUME FaultsAssumption == Faults \subseteq FaultKinds
ASSUME RunsAssumption == IsFiniteSet(Runs)
ASSUME NoneAssumption == "none" \notin Jobs \cup Assessments

VARIABLES
    assessment,   \* assessment_sessions: "completed" (what import writes) or "deleted"
    request,      \* progress of the POST that creates each job
    format,       \* the requested format
    session,      \* the assessment the job was requested for
    status,       \* report_jobs.status, or "absent" / "deleted" with no row
    output_path,  \* report_jobs.output_path: the suffix of the storage key
    attempts,     \* report_jobs.attempts
    file,         \* storage: content under {tenant}/{job}.{suffix}
    arq,          \* the ARQ queue's entry for each job
    in_progress,  \* ARQ's in-progress key of each job
    tries,        \* ARQ's retry counter of each job
    pc,           \* the next await of each run
    job,          \* the job of each run
    rendered,     \* what each run has fetched: "none", "empty", "full"
    faults        \* failures so far (bounded by MaxFaults)

apiVars == <<assessment, request, format, session>>
rowVars == <<status, output_path, attempts>>
arqVars == <<arq, in_progress, tries>>
runVars == <<pc, job, rendered>>
vars == <<apiVars, rowVars, file, arqVars, runVars, faults>>

Keys == {"html", "pdf", "sarif"}
Contents == {"absent", "partial", "empty", "full"}
RowStates == {"queued", "processing", "completed", "failed"}
PCs == {"idle", "check", "exists", "mark", "fetch", "data", "upload",
        "writing", "complete", "fail", "finish"}

TypeOK ==
    /\ assessment \in [Assessments -> {"completed", "deleted"}]
    /\ request \in [Jobs -> {"none", "verified", "inserted", "done"}]
    /\ format \in [Jobs -> FormatNames \cup {"none"}]
    /\ session \in [Jobs -> Assessments \cup {"none"}]
    /\ status \in [Jobs -> RowStates \cup {"absent", "deleted"}]
    /\ output_path \in [Jobs -> Keys \cup {"none"}]
    /\ attempts \in [Jobs -> Nat]
    /\ file \in [Jobs -> [Keys -> Contents]]
    /\ arq \in [Jobs -> {"none", "queued", "done"}]
    /\ in_progress \in [Jobs -> BOOLEAN]
    /\ tries \in [Jobs -> Nat]
    /\ pc \in [Runs -> PCs]
    /\ job \in [Runs -> Jobs \cup {"none"}]
    /\ rendered \in [Runs -> {"none", "empty", "full"}]
    /\ faults \in Nat

Init ==
    /\ assessment = [a \in Assessments |-> "completed"]
    /\ request = [j \in Jobs |-> "none"]
    /\ format = [j \in Jobs |-> "none"]
    /\ session = [j \in Jobs |-> "none"]
    /\ status = [j \in Jobs |-> "absent"]
    /\ output_path = [j \in Jobs |-> "none"]
    /\ attempts = [j \in Jobs |-> 0]
    /\ file = [j \in Jobs |-> [k \in Keys |-> "absent"]]
    /\ arq = [j \in Jobs |-> "none"]
    /\ in_progress = [j \in Jobs |-> FALSE]
    /\ tries = [j \in Jobs |-> 0]
    /\ pc = [r \in Runs |-> "idle"]
    /\ job = [r \in Runs |-> "none"]
    /\ rendered = [r \in Runs |-> "none"]
    /\ faults = 0

-----------------------------------------------------------------------------
HasRow(j) == status[j] \in RowStates

\* The assessment that job j was requested for still exists.
Present(j) == assessment[session[j]] = "completed"

\* A column after UPDATE report_jobs SET column = value WHERE id = j, which
\* changes nothing when the row is gone.
Updated(column, j, value) ==
    [column EXCEPT ![j] = IF HasRow(j) THEN value ELSE @]

\* The key the idempotency check looks for, which each worker function fixes
\* before it does anything else ("json" is served by the SARIF function).
CheckedKey(f) == IF f \in {"sarif", "json"} THEN "sarif" ELSE f

\* The key the output is really stored under: without weasyprint the PDF
\* function stores its HTML.
WrittenKey(f) == IF f = "pdf" /\ ~Weasyprint THEN "html" ELSE CheckedKey(f)

\* The await after the row is marked: the HTML and PDF functions first read the
\* assessment, the SARIF function goes straight to its findings.
FirstFetch(f) == IF CheckedKey(f) = "sarif" THEN "data" ELSE "fetch"

\* One failure of kind f.
Strike(f) ==
    /\ f \in Faults
    /\ faults < MaxFaults
    /\ faults' = faults + 1

-----------------------------------------------------------------------------
(* The API. *)

\* create_report_job reads the assessment; a missing one is a 404.
VerifyAssessment(j) ==
    /\ request[j] = "none"
    /\ \E a \in Assessments, f \in Formats :
          /\ assessment[a] = "completed"
          /\ session' = [session EXCEPT ![j] = a]
          /\ format' = [format EXCEPT ![j] = f]
    /\ request' = [request EXCEPT ![j] = "verified"]
    /\ UNCHANGED <<assessment, rowVars, file, arqVars, runVars, faults>>

\* Mutant: the foreign-key error is swallowed and the job enqueued anyway.
InsertRowUnchecked(j) ==
    /\ request[j] = "verified"
    /\ request' = [request EXCEPT ![j] = "inserted"]
    /\ status' = [status EXCEPT ![j] =
                    IF Present(j) THEN "queued" ELSE @]
    /\ UNCHANGED <<assessment, format, session, output_path, attempts, file,
                   arqVars, runVars, faults>>

\* It commits the row.  The foreign key refuses it when the assessment went
\* since it was read: the request fails with nothing written.
InsertRow(j) ==
    /\ request[j] = "verified"
    /\ status' = [status EXCEPT ![j] = IF Present(j) THEN "queued" ELSE @]
    /\ request' = [request EXCEPT ![j] = IF Present(j) THEN "inserted" ELSE "done"]
    /\ UNCHANGED <<assessment, format, session, output_path, attempts, file,
                   arqVars, runVars, faults>>

Enqueue(j) ==
    /\ request[j] = "inserted"
    /\ request' = [request EXCEPT ![j] = "done"]
    /\ arq' = [arq EXCEPT ![j] = "queued"]
    /\ UNCHANGED <<assessment, format, session, rowVars, file, in_progress,
                   tries, runVars, faults>>

\* Redis is unreachable, or the API process dies here: the exception is
\* logged, the caller still gets the job, and nothing enqueues it later.
EnqueueFails(j) ==
    /\ request[j] = "inserted"
    /\ Strike("redis")
    /\ request' = [request EXCEPT ![j] = "done"]
    /\ UNCHANGED <<assessment, format, session, rowVars, file, arqVars, runVars>>

\* Mutant: report_jobs does not cascade.
DeleteAssessmentOnly(a) ==
    /\ assessment[a] = "completed"
    /\ assessment' = [assessment EXCEPT ![a] = "deleted"]
    /\ UNCHANGED <<request, format, session, rowVars, file, arqVars, runVars,
                   faults>>

\* delete_assessment: the row goes and its report_jobs with it, in one
\* statement.  No stored file is touched.
DeleteAssessment(a) ==
    /\ assessment[a] = "completed"
    /\ assessment' = [assessment EXCEPT ![a] = "deleted"]
    /\ status' = [j \in Jobs |-> IF session[j] = a /\ HasRow(j)
                                   THEN "deleted" ELSE status[j]]
    /\ UNCHANGED <<request, format, session, output_path, attempts, file,
                   arqVars, runVars, faults>>

\* get_presigned_url: the object under the key that the row records, if any.
Presigned(j) == file[j][output_path[j]]

\* GET /reports/{id}/download, a read: what the caller gets.  Local storage has a
\* FileResponse open output_path itself, which is a key relative to
\* REPORT_STORAGE_PATH and names no file where the API runs.
DownloadOutcome(j) ==
    CASE ~HasRow(j) -> "not found"
      [] HasRow(j) /\ (status[j] # "completed" \/ output_path[j] = "none")
             -> "forbidden"
      [] OTHER -> IF Backend = "s3" THEN Presigned(j) ELSE "error"

-----------------------------------------------------------------------------
(* ARQ, as configured by WorkerSettings. *)

\* A worker picks a queued job whose in-progress key is not set.  Past
\* max_tries, or when the job's data has expired, ARQ drops the job without
\* calling the function.
StartRun(r, j) ==
    /\ pc[r] = "idle"
    /\ arq[j] = "queued"
    /\ ~in_progress[j]
    /\ in_progress' = [in_progress EXCEPT ![j] = TRUE]
    /\ tries' = [tries EXCEPT ![j] = @ + 1]
    /\ job' = [job EXCEPT ![r] = j]
    /\ \/ /\ pc' = [pc EXCEPT ![r] = IF tries[j] < MaxTries
                                       THEN "check" ELSE "finish"]
          /\ UNCHANGED faults
       \/ /\ Strike("expiry")
          /\ pc' = [pc EXCEPT ![r] = "finish"]
    /\ UNCHANGED <<apiVars, rowVars, file, arq, rendered>>

\* The function returned or raised: ARQ forgets the job.  A plain exception is
\* not retried.
FinishRun(r) ==
    /\ pc[r] = "finish"
    /\ pc' = [pc EXCEPT ![r] = "idle"]
    /\ job' = [job EXCEPT ![r] = "none"]
    /\ rendered' = [rendered EXCEPT ![r] = "none"]
    /\ arq' = [arq EXCEPT ![job[r]] = "done"]
    /\ in_progress' = [in_progress EXCEPT ![job[r]] = FALSE]
    /\ UNCHANGED <<apiVars, rowVars, file, tries, faults>>

\* A worker that is asked to stop cancels its runs; ARQ releases the
\* in-progress key and leaves the job in the queue.  The writing of a local
\* file has no await and cannot be cancelled.
ShutdownRun(r) ==
    /\ pc[r] \notin {"idle", "writing"}
    /\ Strike("shutdown")
    /\ pc' = [pc EXCEPT ![r] = "idle"]
    /\ job' = [job EXCEPT ![r] = "none"]
    /\ rendered' = [rendered EXCEPT ![r] = "none"]
    /\ in_progress' = [in_progress EXCEPT ![job[r]] = FALSE]
    /\ UNCHANGED <<apiVars, rowVars, file, arq, tries>>

\* The worker process dies: its run is gone, the in-progress key is not.
CrashRun(r) ==
    /\ pc[r] # "idle"
    /\ Strike("crash")
    /\ pc' = [pc EXCEPT ![r] = "idle"]
    /\ job' = [job EXCEPT ![r] = "none"]
    /\ rendered' = [rendered EXCEPT ![r] = "none"]
    /\ UNCHANGED <<apiVars, rowVars, file, arqVars>>

\* write_pdf is synchronous: while it runs no timeout can fire, so the run
\* may outlive its in-progress key.
Blocked(r) ==
    /\ "block" \in Faults
    /\ Weasyprint
    /\ pc[r] = "upload"
    /\ format[job[r]] = "pdf"

\* Mutant: the key's TTL is shorter than job_timeout.
InProgressExpiresEarly(j) ==
    /\ in_progress[j]
    /\ in_progress' = [in_progress EXCEPT ![j] = FALSE]
    /\ UNCHANGED <<apiVars, rowVars, file, arq, tries, runVars, faults>>

\* The in-progress key lives for job_timeout + 10 s.  job_timeout ends every
\* run before that, unless the run has gone or blocks the event loop.
InProgressExpires(j) ==
    /\ in_progress[j]
    /\ \A r \in Runs : pc[r] # "idle" /\ job[r] = j => Blocked(r)
    /\ in_progress' = [in_progress EXCEPT ![j] = FALSE]
    /\ UNCHANGED <<apiVars, rowVars, file, arq, tries, runVars, faults>>

-----------------------------------------------------------------------------
(* The worker functions. *)

\* Mutant: no idempotency check.
CheckRowNever(r) ==
    /\ pc[r] = "check"
    /\ pc' = [pc EXCEPT ![r] = "mark"]
    /\ UNCHANGED <<apiVars, rowVars, file, arqVars, job, rendered, faults>>

\* SELECT status, output_path.
CheckRow(r) ==
    /\ pc[r] = "check"
    /\ pc' = [pc EXCEPT ![r] =
                IF status[job[r]] = "completed" /\ output_path[job[r]] # "none"
                  THEN "exists" ELSE "mark"]
    /\ UNCHANGED <<apiVars, rowVars, file, arqVars, job, rendered, faults>>

\* storage.exists(storage_key).  The S3 one answers False to any error.
CheckFile(r) ==
    /\ pc[r] = "exists"
    /\ \/ /\ pc' = [pc EXCEPT ![r] =
                      IF file[job[r]][CheckedKey(format[job[r]])] # "absent"
                        THEN "finish" ELSE "mark"]
          /\ UNCHANGED faults
       \/ /\ Backend = "s3"
          /\ Strike("storage")
          /\ pc' = [pc EXCEPT ![r] = "mark"]
    /\ UNCHANGED <<apiVars, rowVars, file, arqVars, job, rendered>>

\* Mutant: attempts is not incremented.
MarkProcessingUncounted(r) ==
    /\ pc[r] = "mark"
    /\ pc' = [pc EXCEPT ![r] = FirstFetch(format[job[r]])]
    /\ status' = Updated(status, job[r], "processing")
    /\ UNCHANGED <<apiVars, output_path, attempts, file, arqVars, job, rendered,
                   faults>>

\* UPDATE ... SET status = 'processing', attempts = attempts + 1 WHERE id.
MarkProcessing(r) ==
    /\ pc[r] = "mark"
    /\ pc' = [pc EXCEPT ![r] = FirstFetch(format[job[r]])]
    /\ status' = Updated(status, job[r], "processing")
    /\ attempts' = Updated(attempts, job[r], attempts[job[r]] + 1)
    /\ UNCHANGED <<apiVars, output_path, file, arqVars, job, rendered, faults>>

\* Without the assessment the function raises.
FetchAssessment(r) ==
    /\ pc[r] = "fetch"
    /\ pc' = [pc EXCEPT ![r] = IF Present(job[r]) THEN "data" ELSE "fail"]
    /\ UNCHANGED <<apiVars, rowVars, file, arqVars, job, rendered, faults>>

\* The last SELECT of findings and assets.  They go with their assessment: the
\* report is whole only if it is still there.
FetchData(r) ==
    /\ pc[r] = "data"
    /\ pc' = [pc EXCEPT ![r] = "upload"]
    /\ rendered' = [rendered EXCEPT ![r] =
                      IF Present(job[r]) THEN "full" ELSE "empty"]
    /\ UNCHANGED <<apiVars, rowVars, file, arqVars, job, faults>>

\* The storage with content c under the key that job j writes.
Stored(j, c) == [file EXCEPT ![j] = [@ EXCEPT ![WrittenKey(format[j])] = c]]

\* LocalStorage.upload truncates the file and then fills it, so a death in
\* between leaves part of it.
BeginLocalWrite(r) ==
    /\ Backend = "local"
    /\ pc[r] = "upload"
    /\ pc' = [pc EXCEPT ![r] = "writing"]
    /\ file' = Stored(job[r], "partial")
    /\ UNCHANGED <<apiVars, rowVars, arqVars, job, rendered, faults>>

\* The end of a local write, or S3's put_object, which is all or nothing.
StoreFile(r) ==
    /\ pc[r] = (IF Backend = "local" THEN "writing" ELSE "upload")
    /\ pc' = [pc EXCEPT ![r] = "complete"]
    /\ file' = Stored(job[r], rendered[r])
    /\ UNCHANGED <<apiVars, rowVars, arqVars, job, rendered, faults>>

\* The upload raises: no directory, a full disk during a write, an S3 error.
UploadFails(r) ==
    /\ pc[r] \in {"upload", "writing"}
    /\ Strike("storage")
    /\ pc' = [pc EXCEPT ![r] = "fail"]
    /\ UNCHANGED <<apiVars, rowVars, file, arqVars, job, rendered>>

\* Mutant: the key that was checked is recorded, not the one that was written.
MarkCompletedCheckedKey(r) ==
    /\ pc[r] = "complete"
    /\ pc' = [pc EXCEPT ![r] = "finish"]
    /\ status' = Updated(status, job[r], "completed")
    /\ output_path' = Updated(output_path, job[r], CheckedKey(format[job[r]]))
    /\ UNCHANGED <<apiVars, attempts, file, arqVars, job, rendered, faults>>

\* UPDATE ... SET status = 'completed', output_path WHERE id.
MarkCompleted(r) ==
    /\ pc[r] = "complete"
    /\ pc' = [pc EXCEPT ![r] = "finish"]
    /\ status' = Updated(status, job[r], "completed")
    /\ output_path' = Updated(output_path, job[r], WrittenKey(format[job[r]]))
    /\ UNCHANGED <<apiVars, attempts, file, arqVars, job, rendered, faults>>

\* Mutant: the exception is re-raised without marking the row.
MarkFailedNowhere(r) ==
    /\ pc[r] = "fail"
    /\ pc' = [pc EXCEPT ![r] = "finish"]
    /\ UNCHANGED <<apiVars, rowVars, file, arqVars, job, rendered, faults>>

\* The except branch: UPDATE ... SET status = 'failed' WHERE id; re-raise.
MarkFailed(r) ==
    /\ pc[r] = "fail"
    /\ pc' = [pc EXCEPT ![r] = "finish"]
    /\ status' = Updated(status, job[r], "failed")
    /\ UNCHANGED <<apiVars, output_path, attempts, file, arqVars, job, rendered,
                   faults>>

\* The function ends without touching its row.  job_timeout cancels it with a
\* CancelledError that "except Exception" does not catch; or a statement
\* fails, and the except branch's own UPDATE fails with it because nothing
\* rolls the aborted transaction back.  ARQ drops the job in both cases.
AbandonRun(r) ==
    /\ \/ /\ pc[r] \notin {"idle", "finish", "writing"}
          /\ Strike("timeout")
       \/ /\ pc[r] \in {"check", "mark", "fetch", "data", "complete", "fail"}
          /\ Strike("db")
    /\ pc' = [pc EXCEPT ![r] = "finish"]
    /\ UNCHANGED <<apiVars, rowVars, file, arqVars, job, rendered>>

RunStep(r) ==
    \/ CheckRow(r) \/ CheckFile(r) \/ MarkProcessing(r)
    \/ FetchAssessment(r) \/ FetchData(r) \/ BeginLocalWrite(r)
    \/ StoreFile(r) \/ UploadFails(r) \/ MarkCompleted(r) \/ MarkFailed(r) \/ FinishRun(r)

RunFault(r) == ShutdownRun(r) \/ CrashRun(r) \/ AbandonRun(r)

ApiStep(j) ==
    VerifyAssessment(j) \/ InsertRow(j) \/ Enqueue(j) \/ EnqueueFails(j)

Next ==
    \/ \E j \in Jobs : ApiStep(j) \/ InProgressExpires(j)
    \/ \E a \in Assessments : DeleteAssessment(a)
    \/ \E r \in Runs : RunStep(r) \/ RunFault(r)
    \/ \E r \in Runs, j \in Jobs : StartRun(r, j)

Spec == Init /\ [][Next]_vars

\* A request that has begun goes on, the workers poll the queue, an await
\* returns, and a Redis key with a TTL expires.  Users and failures owe nothing.
Fairness ==
    /\ \A j \in Jobs : /\ WF_vars(InsertRow(j))
                       /\ WF_vars(Enqueue(j))
                       /\ WF_vars(InProgressExpires(j))
                       /\ WF_vars(\E r \in Runs : StartRun(r, j))
    /\ \A r \in Runs : WF_vars(RunStep(r))

FairSpec == Spec /\ Fairness
-----------------------------------------------------------------------------
(* Properties. *)

\* A row says "completed" only while the report it names is stored, whole, and
\* was rendered while its assessment existed: no crash during a write, no
\* redelivery and no deletion during the fetch leaves a completed row with a
\* partial or empty report.
CompletedHasOutput ==
    \A j \in Jobs :
        status[j] = "completed" =>
            /\ output_path[j] \in Keys
            /\ file[j][output_path[j]] = "full"

\* ARQ's in-progress key keeps two runs of one job apart, which the worker
\* functions rely on: they have no lock of their own.
OneRunPerJob ==
    \A r1, r2 \in Runs :
        r1 # r2 /\ pc[r1] # "idle" /\ pc[r2] # "idle" => job[r1] # job[r2]

\* report_jobs.attempts tells how often processing began: never more often
\* than ARQ delivered the job, nor more than max_tries, and not at all exactly
\* while the row is still "queued".
AttemptsCounted ==
    \A j \in Jobs :
        /\ attempts[j] <= tries[j]
        /\ attempts[j] <= MaxTries
        /\ HasRow(j) => (attempts[j] = 0 <=> status[j] = "queued")

\* A job reaches the queue only after its row was committed: a worker that
\* finds no row can only have lost it to a deletion.
DeliveredJobHasRow ==
    \A j \in Jobs : arq[j] # "none" => status[j] # "absent"

\* The row, read together with the stored report, lives the life the abstract
\* service promises; in particular a completed job is never taken up again.
ReportsInPlace ==
    {j \in Jobs : /\ status[j] = "completed"
                  /\ output_path[j] \in Keys
                  /\ file[j][output_path[j]] = "full"}

Lifecycle == INSTANCE ReportLifecycle WITH state <- status, report <- ReportsInPlace

RefinesLifecycle == Lifecycle!LifecycleSpec

\* Where the storage is S3, whoever downloads a completed report gets it.
CompletedDownloads ==
    \A j \in Jobs : status[j] = "completed" => DownloadOutcome(j) = "full"

\* Every enqueued job ends with a row that says how it ended (or with none,
\* after a deletion), whatever storage refuses, as long as fewer workers die or
\* stop than ARQ has tries.  A timeout, a failing statement or a blocked event
\* loop can leave the row "processing" for good: it is not claimed for these.
Settled(j) == status[j] \in {"completed", "failed", "deleted"} /\ arq[j] = "done"

EnqueuedJobSettles == \A j \in Jobs : arq[j] = "queued" ~> Settled(j)
=============================================================================
