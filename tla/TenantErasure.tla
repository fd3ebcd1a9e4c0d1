---------------------------- MODULE TenantErasure ----------------------------
(***************************************************************************)
(* The end of a tenant: the admin API marks it deleted and exports its     *)
(* data, the cleanup job removes its rows and then its files once the      *)
(* grace period is over, while report and export runs still write files.   *)
(* api/src/admin and worker/src/jobs/{tenant_cleanup,data_export}.py.      *)
(*                                                                         *)
(* Deleting a row of tenants deletes all rows of the tenant (ON DELETE     *)
(* CASCADE), so that its report jobs and export jobs are there as long as  *)
(* it is.  Only the foreign key of audit_log has no CASCADE (schema.sql,   *)
(* which docker-compose.yml loads): its rows hold the tenant.              *)
(*                                                                         *)
(* No function list or cron list names the two jobs.  What they do once    *)
(* they are called is modelled here, and Next says only that they may be;  *)
(* that the cleanup is called daily, as its header asks, is the separate   *)
(* assumption Daily.                                                       *)
(***************************************************************************)
EXTENDS Naturals, FiniteSets

CONSTANTS
    Tenants,
    Exports,      \* ids of data_export_jobs
    Cleaners,     \* runs of cleanup_deleted_tenants that can overlap
    OwnerOf,      \* the tenant of each export job
    MaxTries,     \* bound: deliveries of an export job (Retries: 2)
    MaxFaults     \* bound: crashes and failing statements or disk operations

ASSUME ErasureAssumption ==
    /\ OwnerOf \in [Exports -> Tenants]
    /\ MaxTries \in Nat /\ MaxFaults \in Nat
    /\ "none" \notin Tenants

VARIABLES
    tenant,    \* its row: "expired" is deleted_at more than 30 days ago
    owing,     \* tenants for which handlers have yet to write their audit entry
    logged,    \* tenants with rows in audit_log
    report,    \* row status of a report job of the tenant, and its run
    reports,   \* tenants with a file in the report directory
    export,    \* row, run and deliveries of each export job
    zip,       \* exports/<tenant>/<job>.zip
    cleaner,   \* next step of a cleanup, its tenant, and those still to do
    faults,
    excused    \* history: tenants whose files a crash, an ignored error or a
               \* late write left behind

apiVars == <<owing, logged>>
vars == <<tenant, apiVars, report, reports, export, zip, cleaner, faults, excused>>

RowStates == {"queued", "processing", "completed", "failed"}
ExportSteps == {"check", "mark", "zip", "zipping", "complete"}

TypeOK ==
    /\ tenant \in [Tenants -> {"active", "deleted", "expired", "gone"}]
    /\ owing \subseteq Tenants /\ logged \subseteq Tenants
    /\ report \in [Tenants -> [row : RowStates \cup {"absent"}, running : BOOLEAN]]
    /\ reports \subseteq Tenants
    /\ export \in [Exports -> [row : RowStates \cup {"absent"},
                               at : ExportSteps \cup {"idle"}, left : 0 .. MaxTries]]
    /\ zip \in [Exports -> {"absent", "partial", "whole"}]
    /\ cleaner \in [Cleaners -> [at : {"idle", "next", "reports", "exports"},
                                 todo : SUBSET Tenants, now : Tenants \cup {"none"}]]
    /\ faults \in 0 .. MaxFaults
    /\ excused \subseteq Tenants

Resting == [at |-> "idle", todo |-> {}, now |-> "none"]
ZipsOf(t) == {x \in Exports : OwnerOf[x] = t}

Init ==
    /\ tenant = [t \in Tenants |-> "active"]
    /\ owing = {} /\ logged = {}
    /\ report = [t \in Tenants |-> [row |-> "absent", running |-> FALSE]]
    /\ reports = {}
    /\ export = [x \in Exports |-> [row |-> "absent", at |-> "idle", left |-> 0]]
    /\ zip = [x \in Exports |-> "absent"]
    /\ cleaner = [c \in Cleaners |-> Resting]
    /\ faults = 0 /\ excused = {}

\* A fault strikes.
Fault == faults < MaxFaults /\ faults' = faults + 1

\* A cleanup that is going to remove the directory after deleting the rows.
WillRemoveReports(t) == \E c \in Cleaners : cleaner[c].at = "reports" /\ cleaner[c].now = t
WillRemoveExports(t) ==
    \E c \in Cleaners : cleaner[c].at \in {"reports", "exports"} /\ cleaner[c].now = t

-----------------------------------------------------------------------------
(* The admin API: a change and its audit entry are two transactions. *)

DeleteTenant(t) ==
    /\ tenant[t] = "active"
    /\ tenant' = [tenant EXCEPT ![t] = "deleted"]
    /\ owing' = owing \cup {t}
    /\ UNCHANGED <<logged, report, reports, export, zip, cleaner, faults, excused>>

RequestExport(x) ==
    /\ tenant[OwnerOf[x]] = "active"
    /\ export[x].row = "absent"
    /\ export' = [export EXCEPT ![x].row = "queued", ![x].left = MaxTries]
    /\ owing' = owing \cup {OwnerOf[x]}
    /\ UNCHANGED <<tenant, logged, report, reports, zip, cleaner, faults, excused>>

\* create_audit_entry.  The tenant is there, as no request runs for thirty days.
WriteAuditEntry(t) ==
    /\ t \in owing
    /\ owing' = owing \ {t}
    /\ logged' = logged \cup {t}
    /\ UNCHANGED <<tenant, report, reports, export, zip, cleaner, faults, excused>>

AuditEntryFails(t) ==
    /\ t \in owing /\ Fault
    /\ owing' = owing \ {t}
    /\ UNCHANGED <<tenant, logged, report, reports, export, zip, cleaner, excused>>

\* Thirty days pass.
GraceEnds(t) ==
    /\ tenant[t] = "deleted" /\ t \notin owing
    /\ tenant' = [tenant EXCEPT ![t] = "expired"]
    /\ UNCHANGED <<apiVars, report, reports, export, zip, cleaner, faults, excused>>

-----------------------------------------------------------------------------
(* Report runs, of which ReportJobs has the details: any member may ask for *)
(* a report until the tenant is gone.                                       *)

BeginReport(t) ==
    /\ tenant[t] # "gone" /\ ~report[t].running /\ report[t].row # "completed"
    /\ report' = [report EXCEPT ![t] = [row |-> "processing", running |-> TRUE]]
    /\ UNCHANGED <<tenant, apiVars, reports, export, zip, cleaner, faults, excused>>

\* storage.upload makes the directory again when it is gone.
StoreReport(t) ==
    /\ report[t].running /\ t \notin reports
    /\ reports' = reports \cup {t}
    /\ excused' = IF tenant[t] = "gone" /\ ~WillRemoveReports(t)
                  THEN excused \cup {t} ELSE excused
    /\ UNCHANGED <<tenant, apiVars, report, export, zip, cleaner, faults>>

\* The last UPDATE matches no row once the tenant is gone.
EndReport(t) ==
    /\ report[t].running /\ (t \in reports \/ tenant[t] = "gone")
    /\ report' = [report EXCEPT ![t].running = FALSE,
                                ![t].row = IF @ = "absent" THEN "absent" ELSE "completed"]
    /\ UNCHANGED <<tenant, apiVars, reports, export, zip, cleaner, faults, excused>>

-----------------------------------------------------------------------------
(* export_tenant_data. *)

\* The run x goes on at step s.
Proceed(x, s) == export' = [export EXCEPT ![x].at = s]

\* An UPDATE of the job's row, if it is still there.
Marked(x, s) == IF export[x].row = "absent" THEN "absent" ELSE s

\* A delivery, the first one too, may come after the row is gone.
StartExport(x) ==
    /\ export[x].at = "idle" /\ export[x].left > 0
    /\ export' = [export EXCEPT ![x].at = "check", ![x].left = @ - 1]
    /\ UNCHANGED <<tenant, apiVars, report, reports, zip, cleaner, faults, excused>>

\* Idempotency check: a completed job whose file exists is left alone.
CheckExport(x) ==
    /\ export[x].at = "check"
    /\ Proceed(x, IF export[x].row = "completed" /\ zip[x] # "absent" THEN "idle" ELSE "mark")
    /\ UNCHANGED <<tenant, apiVars, report, reports, zip, cleaner, faults, excused>>

MarkExport(x) ==
    /\ export[x].at = "mark"
    /\ export' = [export EXCEPT ![x].at = "zip", ![x].row = Marked(x, "processing")]
    /\ UNCHANGED <<tenant, apiVars, report, reports, zip, cleaner, faults, excused>>

\* mkdir, a SELECT for each table, and ZipFile(zip_path, "w"), which truncates
\* what is there.
OpenZip(x) ==
    /\ export[x].at = "zip"
    /\ zip' = [zip EXCEPT ![x] = "partial"]
    /\ excused' = IF tenant[OwnerOf[x]] = "gone" /\ ~WillRemoveExports(OwnerOf[x])
                  THEN excused \cup {OwnerOf[x]} ELSE excused
    /\ Proceed(x, "zipping")
    /\ UNCHANGED <<tenant, apiVars, report, reports, cleaner, faults>>

\* The archive is written to an open file, which rmtree can unlink meanwhile.
CloseZip(x) ==
    /\ export[x].at = "zipping"
    /\ zip' = [zip EXCEPT ![x] = IF @ = "absent" THEN "absent" ELSE "whole"]
    /\ Proceed(x, "complete")
    /\ UNCHANGED <<tenant, apiVars, report, reports, cleaner, faults, excused>>

CompleteExport(x) ==
    /\ export[x].at = "complete"
    /\ export' = [export EXCEPT ![x].at = "idle", ![x].row = Marked(x, "completed")]
    /\ UNCHANGED <<tenant, apiVars, report, reports, zip, cleaner, faults, excused>>

\* A disk operation fails: the except branch records the failure.
ExportDiskFails(x) ==
    /\ export[x].at \in {"zip", "zipping"} /\ Fault
    /\ export' = [export EXCEPT ![x].at = "idle", ![x].left = 0, ![x].row = Marked(x, "failed")]
    /\ UNCHANGED <<tenant, apiVars, report, reports, zip, cleaner, excused>>

\* A statement fails: so does the UPDATE of the except branch, which runs in
\* the aborted transaction, and the row stays as it is.
ExportStatementFails(x) ==
    /\ export[x].at \in {"check", "mark", "zip", "complete"} /\ Fault
    /\ export' = [export EXCEPT ![x].at = "idle", ![x].left = 0]
    /\ UNCHANGED <<tenant, apiVars, report, reports, zip, cleaner, excused>>

\* The worker dies; ARQ delivers the job again.
ExportCrashes(x) ==
    /\ export[x].at # "idle" /\ Fault
    /\ Proceed(x, "idle")
    /\ UNCHANGED <<tenant, apiVars, report, reports, zip, cleaner, excused>>

-----------------------------------------------------------------------------
(* cleanup_deleted_tenants. *)

\* SELECT of the tenants whose grace period is over.
SelectTenants(c) ==
    /\ cleaner[c].at = "idle"
    /\ \E t \in Tenants : tenant[t] = "expired"
    /\ cleaner' = [cleaner EXCEPT ![c] =
           [at |-> "next", todo |-> {t \in Tenants : tenant[t] = "expired"}, now |-> "none"]]
    /\ UNCHANGED <<tenant, apiVars, report, reports, export, zip, faults, excused>>

\* The foreign key of audit_log keeps the row.
Held(t) == t \in logged /\ tenant[t] # "gone"

\* DELETE and COMMIT with all that cascades.  A second cleanup that selected
\* the tenant too deletes nothing and goes on to the files.
DeleteRows(c) == \E t \in cleaner[c].todo :
    /\ cleaner[c].at = "next"
    /\ ~Held(t)
    /\ tenant' = [tenant EXCEPT ![t] = "gone"]
    /\ report' = [report EXCEPT ![t].row = "absent"]
    /\ export' = [x \in Exports |->
           IF OwnerOf[x] = t THEN [export[x] EXCEPT !.row = "absent"] ELSE export[x]]
    /\ cleaner' = [cleaner EXCEPT ![c].at = "reports", ![c].now = t]
    /\ UNCHANGED <<apiVars, reports, zip, faults, excused>>

\* Mutant: the except branch goes on to the files of the tenant it kept.
FailAndRemove(c) == \E t \in cleaner[c].todo :
    /\ cleaner[c].at = "next"
    /\ IF Held(t) THEN UNCHANGED faults ELSE Fault
    /\ cleaner' = [cleaner EXCEPT ![c].at = "reports", ![c].now = t]
    /\ UNCHANGED <<tenant, apiVars, report, reports, export, zip, excused>>

\* Mutant: the failure of one tenant ends the loop.
SkipAll(c) == \E t \in cleaner[c].todo :
    /\ cleaner[c].at = "next"
    /\ IF Held(t) THEN UNCHANGED faults ELSE Fault
    /\ cleaner' = [cleaner EXCEPT ![c].todo = {}]
    /\ UNCHANGED <<tenant, apiVars, report, reports, export, zip, excused>>

\* The foreign key of audit_log or another failure of the statement: the
\* tenant is skipped.
SkipTenant(c) == \E t \in cleaner[c].todo :
    /\ cleaner[c].at = "next"
    /\ IF Held(t) THEN UNCHANGED faults ELSE Fault
    /\ cleaner' = [cleaner EXCEPT ![c].todo = @ \ {t}]
    /\ UNCHANGED <<tenant, apiVars, report, reports, export, zip, excused>>

\* Mutant: only the report directory is removed.
RemoveReportsOnly(c) ==
    /\ cleaner[c].at = "reports"
    /\ reports' = reports \ {cleaner[c].now}
    /\ cleaner' = [cleaner EXCEPT ![c] =
                      [at |-> "next", todo |-> @.todo \ {@.now}, now |-> "none"]]
    /\ UNCHANGED <<tenant, apiVars, report, export, zip, faults, excused>>

\* shutil.rmtree(report_dir, ignore_errors=True)
RemoveReports(c) ==
    /\ cleaner[c].at = "reports"
    /\ \/ reports' = reports \ {cleaner[c].now} /\ UNCHANGED <<faults, excused>>
       \/ /\ Fault /\ cleaner[c].now \in reports
          /\ excused' = excused \cup {cleaner[c].now}
          /\ UNCHANGED reports
    /\ cleaner' = [cleaner EXCEPT ![c].at = "exports"]
    /\ UNCHANGED <<tenant, apiVars, report, export, zip>>

\* shutil.rmtree(export_dir, ignore_errors=True), and on to the next tenant.
RemoveExports(c) ==
    /\ cleaner[c].at = "exports"
    /\ \/ /\ zip' = [x \in Exports |->
                        IF OwnerOf[x] = cleaner[c].now THEN "absent" ELSE zip[x]]
          /\ UNCHANGED <<faults, excused>>
       \/ /\ Fault /\ \E x \in ZipsOf(cleaner[c].now) : zip[x] # "absent"
          /\ excused' = excused \cup {cleaner[c].now}
          /\ UNCHANGED zip
    /\ cleaner' = [cleaner EXCEPT ![c] =
                      [at |-> "next", todo |-> @.todo \ {@.now}, now |-> "none"]]
    /\ UNCHANGED <<tenant, apiVars, report, reports, export>>

EndCleanup(c) ==
    /\ cleaner[c].at = "next" /\ cleaner[c].todo = {}
    /\ cleaner' = [cleaner EXCEPT ![c] = Resting]
    /\ UNCHANGED <<tenant, apiVars, report, reports, export, zip, faults, excused>>

\* The worker dies: no later run selects a tenant whose row is gone.
CleanupCrashes(c) ==
    /\ cleaner[c].at # "idle" /\ Fault
    /\ cleaner' = [cleaner EXCEPT ![c] = Resting]
    /\ excused' = IF cleaner[c].now # "none" THEN excused \cup {cleaner[c].now} ELSE excused
    /\ UNCHANGED <<tenant, apiVars, report, reports, export, zip>>

-----------------------------------------------------------------------------
ExportRun(x) ==
    \/ CheckExport(x) \/ MarkExport(x) \/ OpenZip(x) \/ CloseZip(x) \/ CompleteExport(x)

CleanupRun(c) ==
    \/ DeleteRows(c) \/ SkipTenant(c) \/ RemoveReports(c) \/ RemoveExports(c) \/ EndCleanup(c)

Next ==
    \/ \E t \in Tenants :
           \/ DeleteTenant(t) \/ WriteAuditEntry(t) \/ AuditEntryFails(t) \/ GraceEnds(t)
           \/ BeginReport(t) \/ StoreReport(t) \/ EndReport(t)
    \/ \E x \in Exports :
           \/ RequestExport(x) \/ StartExport(x) \/ ExportRun(x)
           \/ ExportDiskFails(x) \/ ExportStatementFails(x) \/ ExportCrashes(x)
    \/ \E c \in Cleaners : SelectTenants(c) \/ CleanupRun(c) \/ CleanupCrashes(c)

Spec == Init /\ [][Next]_vars

\* Time passes, and handlers and a cleanup that has begun go on.
Fairness ==
    /\ \A t \in Tenants : WF_vars(GraceEnds(t)) /\ WF_vars(WriteAuditEntry(t))
    /\ \A c \in Cleaners : WF_vars(CleanupRun(c))

FairSpec == Spec /\ Fairness

\* "Schedule: daily cron", which no settings of the worker register.
Daily == \A c \in Cleaners : WF_vars(SelectTenants(c))

DailySpec == FairSpec /\ Daily

-----------------------------------------------------------------------------
(* What the database records as completed can be downloaded: no cleanup, no *)
(* repeated or failed run takes the file from under a row that names it.    *)
RecordedFilesStay ==
    /\ \A t \in Tenants : report[t].row = "completed" => t \in reports
    /\ \A x \in Exports : export[x].row = "completed" => zip[x] = "whole"

\* Files outlive their tenant only while a cleanup is about to remove them,
\* or when it crashed or met an error after the rows had gone, or when a run
\* stored a file after the directory had been removed.
LeftoversHaveCauses ==
    \A t \in Tenants : tenant[t] = "gone" /\ t \notin excused =>
        /\ t \in reports => WillRemoveReports(t)
        /\ \A x \in ZipsOf(t) : zip[x] # "absent" => WillRemoveExports(t)

\* "Don't let one failure stop all": a tenant that a cleanup selected goes, unless
\* its own audit rows hold it or a failure strikes meanwhile, however many other
\* tenants of the run are held.
SelectedTenantsGo ==
    \A c \in Cleaners, t \in Tenants, f \in 0 .. MaxFaults :
        t \in cleaner[c].todo /\ ~Held(t) /\ faults = f
            ~> tenant[t] = "gone" \/ faults > f

\* "After 30 days, a worker cron job hard-deletes the tenant and all associated
\* data": what the admin API says of delete_tenant.
DeletedTenantsGo ==
    \A t \in Tenants : tenant[t] = "deleted" ~> tenant[t] = "gone"

=============================================================================
