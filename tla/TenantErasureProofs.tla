------------------------ MODULE TenantErasureProofs ------------------------
(***************************************************************************)
(* Theorems about TenantErasure, for any tenants, export jobs and          *)
(* overlapping cleanups, and any number of deliveries and faults.          *)
(***************************************************************************)
EXTENDS TenantErasure, TLAPS

ExportStates == [row : RowStates \cup {"absent"},
                 at : ExportSteps \cup {"idle"}, left : 0 .. MaxTries]
ReportStates == [row : RowStates \cup {"absent"}, running : BOOLEAN]
CleanerStates == [at : {"idle", "next", "reports", "exports"},
                  todo : SUBSET Tenants, now : Tenants \cup {"none"}]

\* What DeleteRows does to the tenant t.
DeletesRowsOf(c, t) ==
    /\ cleaner[c].at = "next"
    /\ tenant' = [tenant EXCEPT ![t] = "gone"]
    /\ report' = [report EXCEPT ![t].row = "absent"]
    /\ export' = [x \in Exports |->
           IF OwnerOf[x] = t THEN [export[x] EXCEPT !.row = "absent"] ELSE export[x]]
    /\ cleaner' = [cleaner EXCEPT ![c].at = "reports", ![c].now = t]
    /\ UNCHANGED <<apiVars, reports, zip, faults, excused>>

LEMMA TypeInit == Init => TypeOK
BY ErasureAssumption DEF Init, TypeOK, Resting, RowStates, ExportSteps

LEMMA ExportChange ==
  ASSUME TypeOK, NEW x \in Exports, NEW e \in ExportStates
  PROVE  [export EXCEPT ![x] = e] \in [Exports -> ExportStates]
BY DEF TypeOK, ExportStates

LEMMA MarkedType ==
  ASSUME TypeOK, NEW x \in Exports, NEW s \in RowStates
  PROVE  Marked(x, s) \in RowStates \cup {"absent"}
BY DEF Marked

LEMMA TypeStep == TypeOK /\ [Next]_vars => TypeOK'
<1> SUFFICES ASSUME TypeOK, [Next]_vars
             PROVE  TypeOK'
  OBVIOUS
<1> USE ErasureAssumption
<1>1. ASSUME NEW t \in Tenants, DeleteTenant(t)
      PROVE  TypeOK'
  BY <1>1 DEF DeleteTenant, TypeOK, RowStates, ExportSteps
<1>2. ASSUME NEW t \in Tenants, WriteAuditEntry(t)
      PROVE  TypeOK'
  BY <1>2 DEF WriteAuditEntry, TypeOK, RowStates, ExportSteps
<1>3. ASSUME NEW t \in Tenants, AuditEntryFails(t)
      PROVE  TypeOK'
  BY <1>3 DEF AuditEntryFails, TypeOK, Fault, RowStates, ExportSteps
<1>4. ASSUME NEW t \in Tenants, GraceEnds(t)
      PROVE  TypeOK'
  BY <1>4 DEF GraceEnds, TypeOK, apiVars, RowStates, ExportSteps
<1>5. ASSUME NEW t \in Tenants, BeginReport(t)
      PROVE  TypeOK'
  BY <1>5 DEF BeginReport, TypeOK, apiVars, RowStates, ExportSteps
<1>6. ASSUME NEW t \in Tenants, StoreReport(t)
      PROVE  TypeOK'
  BY <1>6 DEF StoreReport, TypeOK, apiVars, RowStates, ExportSteps
<1>7. ASSUME NEW t \in Tenants, EndReport(t)
      PROVE  TypeOK'
  <2> DEFINE r == [report[t] EXCEPT !.running = FALSE,
                                !.row = IF @ = "absent" THEN "absent" ELSE "completed"]
  <2>1. report[t] \in ReportStates
    BY DEF TypeOK, ReportStates
  <2>2. r \in ReportStates
    BY <2>1 DEF ReportStates, RowStates
  <2>3. report' = [report EXCEPT ![t] = r]
    BY <1>7 DEF EndReport
  <2>4. report' \in [Tenants -> ReportStates]
    BY <2>2, <2>3 DEF TypeOK, ReportStates
  <2> QED
    BY <1>7, <2>4 DEF EndReport, TypeOK, ReportStates, apiVars
<1>8. ASSUME NEW x \in Exports, RequestExport(x)
      PROVE  TypeOK'
  <2> DEFINE e == [export[x] EXCEPT !.row = "queued", !.left = MaxTries]
  <2>1. export[x] \in ExportStates /\ MaxTries \in Nat
    BY DEF TypeOK, ExportStates
  <2>3. e \in ExportStates
    <3>1. MaxTries \in 0 .. MaxTries
      BY <2>1
    <3> QED
      BY <2>1, <3>1 DEF ExportStates, RowStates
  <2>4. export' = [export EXCEPT ![x] = e]
    BY <1>8 DEF RequestExport
  <2>5. export' \in [Exports -> ExportStates]
    BY <2>3, <2>4, ExportChange
  <2> QED
    BY <1>8, <2>5 DEF RequestExport, TypeOK, ExportStates
<1>9. ASSUME NEW x \in Exports, StartExport(x)
      PROVE  TypeOK'
  <2> DEFINE e == [export[x] EXCEPT !.at = "check", !.left = @ - 1]
  <2>1. export[x] \in ExportStates /\ MaxTries \in Nat
    BY DEF TypeOK, ExportStates
  <2>3. e \in ExportStates
    <3>1. export[x].left - 1 \in 0 .. MaxTries
      BY <1>9, <2>1 DEF StartExport, ExportStates
    <3> QED
      BY <2>1, <3>1 DEF ExportStates, ExportSteps
  <2>4. export' = [export EXCEPT ![x] = e]
    BY <1>9 DEF StartExport
  <2>5. export' \in [Exports -> ExportStates]
    BY <2>3, <2>4, ExportChange
  <2> QED
    BY <1>9, <2>5 DEF StartExport, TypeOK, ExportStates, apiVars
<1>10. ASSUME NEW x \in Exports, CheckExport(x)
      PROVE  TypeOK'
  <2> DEFINE s == IF export[x].row = "completed" /\ zip[x] # "absent" THEN "idle" ELSE "mark"
  <2>1. export[x] \in ExportStates
    BY DEF TypeOK, ExportStates
  <2>2. s \in {"idle", "mark"}
    OBVIOUS
  <2>3. [export[x] EXCEPT !.at = s] \in ExportStates
    BY <2>1, <2>2 DEF ExportStates, ExportSteps
  <2>4. export' = [export EXCEPT ![x] = [export[x] EXCEPT !.at = s]]
    BY <1>10 DEF CheckExport, Proceed
  <2>5. export' \in [Exports -> ExportStates]
    BY <2>3, <2>4, ExportChange
  <2> QED
    BY <1>10, <2>5 DEF CheckExport, TypeOK, ExportStates, apiVars
<1>11. ASSUME NEW x \in Exports, MarkExport(x)
      PROVE  TypeOK'
  <2> DEFINE e == [export[x] EXCEPT !.at = "zip", !.row = Marked(x, "processing")]
  <2>1. export[x] \in ExportStates /\ MaxTries \in Nat
    BY DEF TypeOK, ExportStates
  <2>2. Marked(x, "processing") \in RowStates \cup {"absent"}
    BY MarkedType DEF RowStates
  <2>3. e \in ExportStates
    BY <1>11, <2>1, <2>2 DEF ExportStates, ExportSteps
  <2>4. export' = [export EXCEPT ![x] = e]
    BY <1>11 DEF MarkExport
  <2>5. export' \in [Exports -> ExportStates]
    BY <2>3, <2>4, ExportChange
  <2> QED
    BY <1>11, <2>5 DEF MarkExport, TypeOK, ExportStates, apiVars
<1>12. ASSUME NEW x \in Exports, OpenZip(x)
      PROVE  TypeOK'
  <2>1. export[x] \in ExportStates
    BY DEF TypeOK, ExportStates
  <2>2. [export[x] EXCEPT !.at = "zipping"] \in ExportStates
    BY <2>1 DEF ExportStates, ExportSteps
  <2>3. export' = [export EXCEPT ![x] = [export[x] EXCEPT !.at = "zipping"]]
    BY <1>12 DEF OpenZip, Proceed
  <2>4. export' \in [Exports -> ExportStates]
    BY <2>2, <2>3, ExportChange
  <2> QED
    BY <1>12, <2>4, ErasureAssumption DEF OpenZip, TypeOK, ExportStates, apiVars
<1>13. ASSUME NEW x \in Exports, CloseZip(x)
      PROVE  TypeOK'
  <2>1. export[x] \in ExportStates
    BY DEF TypeOK, ExportStates
  <2>2. [export[x] EXCEPT !.at = "complete"] \in ExportStates
    BY <2>1 DEF ExportStates, ExportSteps
  <2>3. export' = [export EXCEPT ![x] = [export[x] EXCEPT !.at = "complete"]]
    BY <1>13 DEF CloseZip, Proceed
  <2>4. export' \in [Exports -> ExportStates]
    BY <2>2, <2>3, ExportChange
  <2> QED
    BY <1>13, <2>4 DEF CloseZip, TypeOK, ExportStates, apiVars
<1>14. ASSUME NEW x \in Exports, CompleteExport(x)
      PROVE  TypeOK'
  <2> DEFINE e == [export[x] EXCEPT !.at = "idle", !.row = Marked(x, "completed")]
  <2>1. export[x] \in ExportStates /\ MaxTries \in Nat
    BY DEF TypeOK, ExportStates
  <2>2. Marked(x, "completed") \in RowStates \cup {"absent"}
    BY MarkedType DEF RowStates
  <2>3. e \in ExportStates
    BY <1>14, <2>1, <2>2 DEF ExportStates, ExportSteps
  <2>4. export' = [export EXCEPT ![x] = e]
    BY <1>14 DEF CompleteExport
  <2>5. export' \in [Exports -> ExportStates]
    BY <2>3, <2>4, ExportChange
  <2> QED
    BY <1>14, <2>5 DEF CompleteExport, TypeOK, ExportStates, apiVars
<1>15. ASSUME NEW x \in Exports, ExportDiskFails(x)
      PROVE  TypeOK'
  <2> DEFINE e == [export[x] EXCEPT !.at = "idle", !.left = 0, !.row = Marked(x, "failed")]
  <2>1. export[x] \in ExportStates /\ MaxTries \in Nat
    BY DEF TypeOK, ExportStates
  <2>2. Marked(x, "failed") \in RowStates \cup {"absent"}
    BY MarkedType DEF RowStates
  <2>3. e \in ExportStates
    <3>1. 0 \in 0 .. MaxTries
      BY <2>1
    <3> QED
      BY <2>1, <2>2, <3>1 DEF ExportStates, ExportSteps
  <2>4. export' = [export EXCEPT ![x] = e]
    BY <1>15 DEF ExportDiskFails
  <2>5. export' \in [Exports -> ExportStates]
    BY <2>3, <2>4, ExportChange
  <2> QED
    BY <1>15, <2>5 DEF ExportDiskFails, TypeOK, ExportStates, apiVars, Fault
<1>16. ASSUME NEW x \in Exports, ExportStatementFails(x)
      PROVE  TypeOK'
  <2> DEFINE e == [export[x] EXCEPT !.at = "idle", !.left = 0]
  <2>1. export[x] \in ExportStates /\ MaxTries \in Nat
    BY DEF TypeOK, ExportStates
  <2>3. e \in ExportStates
    <3>1. 0 \in 0 .. MaxTries
      BY <2>1
    <3> QED
      BY <2>1, <3>1 DEF ExportStates, ExportSteps
  <2>4. export' = [export EXCEPT ![x] = e]
    BY <1>16 DEF ExportStatementFails
  <2>5. export' \in [Exports -> ExportStates]
    BY <2>3, <2>4, ExportChange
  <2> QED
    BY <1>16, <2>5 DEF ExportStatementFails, TypeOK, ExportStates, apiVars, Fault
<1>17. ASSUME NEW x \in Exports, ExportCrashes(x)
      PROVE  TypeOK'
  <2>1. export[x] \in ExportStates
    BY DEF TypeOK, ExportStates
  <2>2. [export[x] EXCEPT !.at = "idle"] \in ExportStates
    BY <2>1 DEF ExportStates
  <2>3. export' = [export EXCEPT ![x] = [export[x] EXCEPT !.at = "idle"]]
    BY <1>17 DEF ExportCrashes, Proceed
  <2>4. export' \in [Exports -> ExportStates]
    BY <2>2, <2>3, ExportChange
  <2> QED
    BY <1>17, <2>4 DEF ExportCrashes, TypeOK, ExportStates, apiVars, Fault
<1>18. ASSUME NEW c \in Cleaners, SelectTenants(c)
      PROVE  TypeOK'
  BY <1>18 DEF SelectTenants, TypeOK, apiVars, RowStates, ExportSteps
<1>19. ASSUME NEW c \in Cleaners, DeleteRows(c)
      PROVE  TypeOK'
  <2>1. PICK t \in cleaner[c].todo : DeletesRowsOf(c, t)
    BY <1>19 DEF DeleteRows, DeletesRowsOf
  <2>2. t \in Tenants /\ cleaner[c] \in CleanerStates
    BY DEF TypeOK, CleanerStates
  <2>3. cleaner' \in [Cleaners -> CleanerStates]
    BY <2>1, <2>2 DEF DeletesRowsOf, TypeOK, CleanerStates
  <2>4. export' \in [Exports -> ExportStates]
    <3>1. \A e \in ExportStates : [e EXCEPT !.row = "absent"] \in ExportStates
      BY DEF ExportStates
    <3>2. \A x \in Exports : export[x] \in ExportStates
      BY DEF TypeOK, ExportStates
    <3> QED
      BY <2>1, <3>1, <3>2 DEF DeletesRowsOf
  <2>5. report' \in [Tenants -> ReportStates]
    BY <2>1, <2>2 DEF DeletesRowsOf, TypeOK, ReportStates
  <2> QED
    BY <2>1, <2>2, <2>3, <2>4, <2>5
       DEF DeletesRowsOf, TypeOK, CleanerStates, ExportStates, ReportStates, apiVars
<1>20. ASSUME NEW c \in Cleaners, SkipTenant(c)
      PROVE  TypeOK'
  <2>1. PICK t \in cleaner[c].todo : cleaner' = [cleaner EXCEPT ![c].todo = @ \ {t}]
    BY <1>20 DEF SkipTenant
  <2>2. cleaner' \in [Cleaners -> CleanerStates]
    BY <2>1 DEF TypeOK, CleanerStates
  <2> QED
    BY <1>20, <2>2 DEF SkipTenant, TypeOK, CleanerStates, apiVars, Fault
<1>21. ASSUME NEW c \in Cleaners, RemoveReports(c)
      PROVE  TypeOK'
  BY <1>21 DEF RemoveReports, TypeOK, apiVars, Fault, RowStates, ExportSteps
<1>22. ASSUME NEW c \in Cleaners, RemoveExports(c)
      PROVE  TypeOK'
  <2>1. cleaner[c] \in CleanerStates
    BY DEF TypeOK, CleanerStates
  <2>2. cleaner' = [cleaner EXCEPT ![c] = [at |-> "next", todo |-> cleaner[c].todo \ {cleaner[c].now}, now |-> "none"]]
    BY <1>22, <2>1 DEF RemoveExports, TypeOK, CleanerStates
  <2>3. cleaner' \in [Cleaners -> CleanerStates]
    BY <2>1, <2>2 DEF TypeOK, CleanerStates
  <2> QED
    <3>1. zip' \in [Exports -> {"absent", "partial", "whole"}]
      BY <1>22 DEF RemoveExports, TypeOK
    <3>2. faults' \in 0 .. MaxFaults /\ excused' \subseteq Tenants
      BY <1>22, <2>1 DEF RemoveExports, TypeOK, Fault, CleanerStates, ZipsOf
    <3> QED
      BY <1>22, <2>3, <3>1, <3>2 DEF RemoveExports, TypeOK, CleanerStates, apiVars
<1>23. ASSUME NEW c \in Cleaners, EndCleanup(c)
      PROVE  TypeOK'
  BY <1>23 DEF EndCleanup, TypeOK, apiVars, RowStates, ExportSteps, Resting
<1>24. ASSUME NEW c \in Cleaners, CleanupCrashes(c)
      PROVE  TypeOK'
  BY <1>24
     DEF CleanupCrashes, TypeOK, apiVars, Fault, RowStates, ExportSteps, Resting
<1>25. CASE UNCHANGED vars
  BY <1>25 DEF vars, apiVars, TypeOK
<1> QED
  BY <1>1, <1>2, <1>3, <1>4, <1>5, <1>6, <1>7, <1>8, <1>9, <1>10, <1>11, <1>12,
     <1>13, <1>14, <1>15, <1>16, <1>17, <1>18, <1>19, <1>20, <1>21, <1>22,
     <1>23, <1>24, <1>25
     DEF Next, ExportRun, CleanupRun

\* Every component has its type: report_jobs.status and data_export_jobs.status
\* keep to their values, and a job is delivered at most MaxTries times.
THEOREM TypeCorrect == Spec => []TypeOK
<1> QED
  BY TypeInit, TypeStep, PTL DEF Spec

-----------------------------------------------------------------------------
(* The files of recorded reports and exports. *)

\* A cleanup gets to the files of a tenant after its rows.
CleanerInv ==
    \A c \in Cleaners : cleaner[c].at \in {"reports", "exports"} =>
        cleaner[c].now \in Tenants /\ tenant[cleaner[c].now] = "gone"

\* The rows of a tenant go with it.
GoneInv ==
    /\ \A t \in Tenants : tenant[t] = "gone" => report[t].row = "absent"
    /\ \A x \in Exports : tenant[OwnerOf[x]] = "gone" => export[x].row = "absent"

\* While its archive is being made, a job's row says so.
ExportInv ==
    \A x \in Exports :
        /\ export[x].row = "absent" => \/ tenant[OwnerOf[x]] = "gone"
                                       \/ export[x].at = "idle" /\ export[x].left = 0
        /\ export[x].at \in {"zip", "zipping", "complete"} => export[x].row \in {"processing", "absent"}
        /\ export[x].at = "zipping" => zip[x] = "partial" \/ export[x].row = "absent"
        /\ export[x].at = "complete" => zip[x] = "whole" \/ export[x].row = "absent"

FileInv == CleanerInv /\ GoneInv /\ ExportInv /\ RecordedFilesStay

LEMMA FileInit == Init => FileInv
BY ErasureAssumption
   DEF Init, FileInv, CleanerInv, GoneInv, ExportInv, RecordedFilesStay, Resting

LEMMA FileStep == TypeOK /\ FileInv /\ [Next]_vars => FileInv'
<1> SUFFICES ASSUME TypeOK, FileInv, [Next]_vars
             PROVE  FileInv'
  OBVIOUS
<1> USE ErasureAssumption DEF FileInv
<1>1. ASSUME NEW t \in Tenants, DeleteTenant(t)
      PROVE  FileInv'
  BY <1>1
     DEF DeleteTenant, TypeOK, CleanerInv, GoneInv, ExportInv,
         RecordedFilesStay, RowStates, ExportSteps
<1>2. ASSUME NEW t \in Tenants, WriteAuditEntry(t)
      PROVE  FileInv'
  BY <1>2
     DEF WriteAuditEntry, TypeOK, CleanerInv, GoneInv, ExportInv,
         RecordedFilesStay, RowStates, ExportSteps
<1>3. ASSUME NEW t \in Tenants, AuditEntryFails(t)
      PROVE  FileInv'
  BY <1>3
     DEF AuditEntryFails, TypeOK, CleanerInv, GoneInv, ExportInv,
         RecordedFilesStay, Fault, RowStates, ExportSteps
<1>4. ASSUME NEW t \in Tenants, GraceEnds(t)
      PROVE  FileInv'
  BY <1>4
     DEF GraceEnds, TypeOK, CleanerInv, GoneInv, ExportInv, RecordedFilesStay,
         apiVars, RowStates, ExportSteps
<1>5. ASSUME NEW t \in Tenants, BeginReport(t)
      PROVE  FileInv'
  BY <1>5
     DEF BeginReport, TypeOK, CleanerInv, GoneInv, ExportInv, RecordedFilesStay,
         apiVars, RowStates, ExportSteps
<1>6. ASSUME NEW t \in Tenants, StoreReport(t)
      PROVE  FileInv'
  BY <1>6
     DEF StoreReport, TypeOK, CleanerInv, GoneInv, ExportInv, RecordedFilesStay,
         apiVars, RowStates, ExportSteps
<1>7. ASSUME NEW t \in Tenants, EndReport(t)
      PROVE  FileInv'
  BY <1>7
     DEF EndReport, TypeOK, CleanerInv, GoneInv, ExportInv, RecordedFilesStay,
         apiVars, RowStates, ExportSteps
<1>8. ASSUME NEW x \in Exports, RequestExport(x)
      PROVE  FileInv'
  BY <1>8
     DEF RequestExport, TypeOK, CleanerInv, GoneInv, ExportInv,
         RecordedFilesStay, RowStates, ExportSteps
<1>9. ASSUME NEW x \in Exports, StartExport(x)
      PROVE  FileInv'
  BY <1>9
     DEF StartExport, TypeOK, CleanerInv, GoneInv, ExportInv, RecordedFilesStay,
         apiVars, RowStates, ExportSteps
<1>10. ASSUME NEW x \in Exports, CheckExport(x)
      PROVE  FileInv'
  BY <1>10
     DEF CheckExport, TypeOK, CleanerInv, GoneInv, ExportInv, RecordedFilesStay,
         apiVars, Proceed, RowStates, ExportSteps
<1>11. ASSUME NEW x \in Exports, MarkExport(x)
      PROVE  FileInv'
  BY <1>11
     DEF MarkExport, TypeOK, CleanerInv, GoneInv, ExportInv, RecordedFilesStay,
         apiVars, Marked, RowStates, ExportSteps
<1>12. ASSUME NEW x \in Exports, OpenZip(x)
      PROVE  FileInv'
  BY <1>12
     DEF OpenZip, TypeOK, CleanerInv, GoneInv, ExportInv, RecordedFilesStay,
         apiVars, Proceed, RowStates, ExportSteps
<1>13. ASSUME NEW x \in Exports, CloseZip(x)
      PROVE  FileInv'
  BY <1>13
     DEF CloseZip, TypeOK, CleanerInv, GoneInv, ExportInv, RecordedFilesStay,
         apiVars, Proceed, RowStates, ExportSteps
<1>14. ASSUME NEW x \in Exports, CompleteExport(x)
      PROVE  FileInv'
  BY <1>14
     DEF CompleteExport, TypeOK, CleanerInv, GoneInv, ExportInv,
         RecordedFilesStay, apiVars, Marked, RowStates, ExportSteps
<1>15. ASSUME NEW x \in Exports, ExportDiskFails(x)
      PROVE  FileInv'
  BY <1>15
     DEF ExportDiskFails, TypeOK, CleanerInv, GoneInv, ExportInv,
         RecordedFilesStay, apiVars, Fault, Marked, RowStates, ExportSteps
<1>16. ASSUME NEW x \in Exports, ExportStatementFails(x)
      PROVE  FileInv'
  BY <1>16
     DEF ExportStatementFails, TypeOK, CleanerInv, GoneInv, ExportInv,
         RecordedFilesStay, apiVars, Fault, RowStates, ExportSteps
<1>17. ASSUME NEW x \in Exports, ExportCrashes(x)
      PROVE  FileInv'
  BY <1>17
     DEF ExportCrashes, TypeOK, CleanerInv, GoneInv, ExportInv,
         RecordedFilesStay, apiVars, Fault, Proceed, RowStates, ExportSteps
<1>18. ASSUME NEW c \in Cleaners, SelectTenants(c)
      PROVE  FileInv'
  BY <1>18
     DEF SelectTenants, TypeOK, CleanerInv, GoneInv, ExportInv,
         RecordedFilesStay, apiVars, RowStates, ExportSteps
<1>19. ASSUME NEW c \in Cleaners, DeleteRows(c)
      PROVE  FileInv'
  <2>1. PICK t \in cleaner[c].todo : DeletesRowsOf(c, t)
    BY <1>19 DEF DeleteRows, DeletesRowsOf
  <2>2. t \in Tenants /\ cleaner[c].now \in Tenants \cup {"none"}
    BY DEF TypeOK
  <2>3. /\ \A s \in Tenants : tenant'[s] = (IF s = t THEN "gone" ELSE tenant[s])
        /\ \A s \in Tenants : report'[s].row = (IF s = t THEN "absent" ELSE report[s].row)
        /\ \A x \in Exports : /\ export'[x].row = (IF OwnerOf[x] = t THEN "absent" ELSE export[x].row)
                              /\ export'[x].at = export[x].at
                              /\ export'[x].left = export[x].left
        /\ \A d \in Cleaners : /\ cleaner'[d].at = (IF d = c THEN "reports" ELSE cleaner[d].at)
                               /\ cleaner'[d].now = (IF d = c THEN t ELSE cleaner[d].now)
        /\ UNCHANGED <<reports, zip, excused>>
    BY <2>1, <2>2 DEF DeletesRowsOf, TypeOK
  <2>4. CleanerInv'
    BY <2>2, <2>3 DEF CleanerInv
  <2>5. GoneInv'
    BY <2>2, <2>3 DEF GoneInv
  <2>6. ExportInv'
    <3> SUFFICES ASSUME NEW x \in Exports
                 PROVE  ExportInv!(x)'
      BY DEF ExportInv
    <3>1. CASE OwnerOf[x] = t
      <4>1. export'[x].row = "absent" /\ tenant'[OwnerOf[x]] = "gone"
        BY <2>2, <2>3, <3>1
      <4> QED
        BY <4>1 DEF ExportInv
    <3>2. CASE OwnerOf[x] # t
      <4>1. export'[x].row = export[x].row /\ tenant'[OwnerOf[x]] = tenant[OwnerOf[x]]
        BY <2>3, <3>2
      <4> QED
        BY <2>3, <3>2, <4>1 DEF ExportInv
    <3> QED
      BY <3>1, <3>2
  <2>7. RecordedFilesStay'
    BY <2>2, <2>3 DEF RecordedFilesStay
  <2> QED
    BY <2>4, <2>5, <2>6, <2>7
<1>20. ASSUME NEW c \in Cleaners, SkipTenant(c)
      PROVE  FileInv'
  BY <1>20
     DEF SkipTenant, TypeOK, CleanerInv, GoneInv, ExportInv, RecordedFilesStay,
         apiVars, Fault, RowStates, ExportSteps
<1>21. ASSUME NEW c \in Cleaners, RemoveReports(c)
      PROVE  FileInv'
  BY <1>21
     DEF RemoveReports, TypeOK, CleanerInv, GoneInv, ExportInv,
         RecordedFilesStay, apiVars, Fault, RowStates, ExportSteps
<1>22. ASSUME NEW c \in Cleaners, RemoveExports(c)
      PROVE  FileInv'
  BY <1>22
     DEF RemoveExports, TypeOK, CleanerInv, GoneInv, ExportInv,
         RecordedFilesStay, apiVars, Fault, RowStates, ExportSteps
<1>23. ASSUME NEW c \in Cleaners, EndCleanup(c)
      PROVE  FileInv'
  BY <1>23
     DEF EndCleanup, TypeOK, CleanerInv, GoneInv, ExportInv, RecordedFilesStay,
         apiVars, RowStates, ExportSteps, Resting
<1>24. ASSUME NEW c \in Cleaners, CleanupCrashes(c)
      PROVE  FileInv'
  BY <1>24
     DEF CleanupCrashes, TypeOK, CleanerInv, GoneInv, ExportInv,
         RecordedFilesStay, apiVars, Fault, RowStates, ExportSteps, Resting
<1>25. CASE UNCHANGED vars
  BY <1>25 DEF vars, apiVars, CleanerInv, GoneInv, ExportInv, RecordedFilesStay
<1> QED
  BY <1>1, <1>2, <1>3, <1>4, <1>5, <1>6, <1>7, <1>8, <1>9, <1>10, <1>11, <1>12,
     <1>13, <1>14, <1>15, <1>16, <1>17, <1>18, <1>19, <1>20, <1>21, <1>22,
     <1>23, <1>24, <1>25
     DEF Next, ExportRun, CleanupRun

\* RecordedFilesStay: the file of a completed row is not taken away by a
\* cleanup, however many overlap, nor by a repeated, failed or dying run.
THEOREM RecordsKeepFiles == Spec => []RecordedFilesStay
<1>1. FileInv => RecordedFilesStay
  BY DEF FileInv
<1> QED
  BY <1>1, TypeInit, TypeStep, FileInit, FileStep, PTL DEF Spec

-----------------------------------------------------------------------------
(* The files that outlive their tenant. *)

LEMMA LeftoverInit == Init => LeftoversHaveCauses
BY DEF Init, LeftoversHaveCauses

LEMMA LeftoverStep ==
  TypeOK /\ FileInv /\ LeftoversHaveCauses /\ [Next]_vars => LeftoversHaveCauses'
<1> SUFFICES ASSUME TypeOK, FileInv, LeftoversHaveCauses, [Next]_vars
             PROVE  LeftoversHaveCauses'
  OBVIOUS
<1> USE ErasureAssumption
<1>1. ASSUME NEW t \in Tenants, DeleteTenant(t)
      PROVE  LeftoversHaveCauses'
  BY <1>1
     DEF DeleteTenant, TypeOK, LeftoversHaveCauses, WillRemoveReports,
         WillRemoveExports
<1>2. ASSUME NEW t \in Tenants, WriteAuditEntry(t)
      PROVE  LeftoversHaveCauses'
  BY <1>2
     DEF WriteAuditEntry, TypeOK, LeftoversHaveCauses, WillRemoveReports,
         WillRemoveExports
<1>3. ASSUME NEW t \in Tenants, AuditEntryFails(t)
      PROVE  LeftoversHaveCauses'
  BY <1>3
     DEF AuditEntryFails, TypeOK, LeftoversHaveCauses, WillRemoveReports,
         WillRemoveExports, Fault
<1>4. ASSUME NEW t \in Tenants, GraceEnds(t)
      PROVE  LeftoversHaveCauses'
  BY <1>4
     DEF GraceEnds, TypeOK, LeftoversHaveCauses, WillRemoveReports,
         WillRemoveExports, apiVars
<1>5. ASSUME NEW t \in Tenants, BeginReport(t)
      PROVE  LeftoversHaveCauses'
  BY <1>5
     DEF BeginReport, TypeOK, LeftoversHaveCauses, WillRemoveReports,
         WillRemoveExports, apiVars
<1>6. ASSUME NEW t \in Tenants, StoreReport(t)
      PROVE  LeftoversHaveCauses'
  BY <1>6
     DEF StoreReport, TypeOK, LeftoversHaveCauses, WillRemoveReports,
         WillRemoveExports, apiVars
<1>7. ASSUME NEW t \in Tenants, EndReport(t)
      PROVE  LeftoversHaveCauses'
  BY <1>7
     DEF EndReport, TypeOK, LeftoversHaveCauses, WillRemoveReports,
         WillRemoveExports, apiVars
<1>8. ASSUME NEW x \in Exports, RequestExport(x)
      PROVE  LeftoversHaveCauses'
  BY <1>8
     DEF RequestExport, TypeOK, LeftoversHaveCauses, WillRemoveReports,
         WillRemoveExports
<1>9. ASSUME NEW x \in Exports, StartExport(x)
      PROVE  LeftoversHaveCauses'
  BY <1>9
     DEF StartExport, TypeOK, LeftoversHaveCauses, WillRemoveReports,
         WillRemoveExports, apiVars
<1>10. ASSUME NEW x \in Exports, CheckExport(x)
      PROVE  LeftoversHaveCauses'
  BY <1>10
     DEF CheckExport, TypeOK, LeftoversHaveCauses, WillRemoveReports,
         WillRemoveExports, apiVars, Proceed
<1>11. ASSUME NEW x \in Exports, MarkExport(x)
      PROVE  LeftoversHaveCauses'
  BY <1>11
     DEF MarkExport, TypeOK, LeftoversHaveCauses, WillRemoveReports,
         WillRemoveExports, apiVars, Marked
<1>12. ASSUME NEW x \in Exports, OpenZip(x)
      PROVE  LeftoversHaveCauses'
  BY <1>12
     DEF OpenZip, TypeOK, LeftoversHaveCauses, WillRemoveReports,
         WillRemoveExports, ZipsOf, apiVars, Proceed
<1>13. ASSUME NEW x \in Exports, CloseZip(x)
      PROVE  LeftoversHaveCauses'
  BY <1>13
     DEF CloseZip, TypeOK, LeftoversHaveCauses, WillRemoveReports,
         WillRemoveExports, apiVars, Proceed
<1>14. ASSUME NEW x \in Exports, CompleteExport(x)
      PROVE  LeftoversHaveCauses'
  BY <1>14
     DEF CompleteExport, TypeOK, LeftoversHaveCauses, WillRemoveReports,
         WillRemoveExports, apiVars, Marked
<1>15. ASSUME NEW x \in Exports, ExportDiskFails(x)
      PROVE  LeftoversHaveCauses'
  BY <1>15
     DEF ExportDiskFails, TypeOK, LeftoversHaveCauses, WillRemoveReports,
         WillRemoveExports, apiVars, Fault, Marked
<1>16. ASSUME NEW x \in Exports, ExportStatementFails(x)
      PROVE  LeftoversHaveCauses'
  BY <1>16
     DEF ExportStatementFails, TypeOK, LeftoversHaveCauses, WillRemoveReports,
         WillRemoveExports, apiVars, Fault
<1>17. ASSUME NEW x \in Exports, ExportCrashes(x)
      PROVE  LeftoversHaveCauses'
  BY <1>17
     DEF ExportCrashes, TypeOK, LeftoversHaveCauses, WillRemoveReports,
         WillRemoveExports, apiVars, Fault, Proceed
<1>18. ASSUME NEW c \in Cleaners, SelectTenants(c)
      PROVE  LeftoversHaveCauses'
  BY <1>18
     DEF SelectTenants, TypeOK, LeftoversHaveCauses, WillRemoveReports,
         WillRemoveExports, apiVars
<1>19. ASSUME NEW c \in Cleaners, DeleteRows(c)
      PROVE  LeftoversHaveCauses'
  <2>1. PICK t \in cleaner[c].todo : DeletesRowsOf(c, t)
    BY <1>19 DEF DeleteRows, DeletesRowsOf
  <2>2. t \in Tenants /\ cleaner[c].now \in Tenants \cup {"none"}
    BY DEF TypeOK
  <2>3. /\ \A s \in Tenants : tenant'[s] = (IF s = t THEN "gone" ELSE tenant[s])
        /\ \A s \in Tenants : report'[s].row = (IF s = t THEN "absent" ELSE report[s].row)
        /\ \A x \in Exports : /\ export'[x].row = (IF OwnerOf[x] = t THEN "absent" ELSE export[x].row)
                              /\ export'[x].at = export[x].at
                              /\ export'[x].left = export[x].left
        /\ \A d \in Cleaners : /\ cleaner'[d].at = (IF d = c THEN "reports" ELSE cleaner[d].at)
                               /\ cleaner'[d].now = (IF d = c THEN t ELSE cleaner[d].now)
        /\ UNCHANGED <<reports, zip, excused>>
    BY <2>1, <2>2 DEF DeletesRowsOf, TypeOK
  <2>4. WillRemoveReports(t)' /\ WillRemoveExports(t)'
    BY <2>2, <2>3 DEF WillRemoveReports, WillRemoveExports
  <2> QED
    <3> SUFFICES ASSUME NEW s \in Tenants, tenant'[s] = "gone", s \notin excused'
                 PROVE  /\ s \in reports' => WillRemoveReports(s)'
                        /\ \A x \in ZipsOf(s) : zip'[x] # "absent" => WillRemoveExports(s)'
      BY DEF LeftoversHaveCauses, ZipsOf
    <3>1. CASE s = t
      BY <2>4, <3>1
    <3>2. CASE s # t
      <4>1. tenant[s] = "gone" /\ s \notin excused /\ reports' = reports /\ zip' = zip
        BY <2>3, <3>2
      <4>2. /\ s \in reports => WillRemoveReports(s)
            /\ \A x \in ZipsOf(s) : zip[x] # "absent" => WillRemoveExports(s)
        BY <4>1 DEF LeftoversHaveCauses
      <4>3. /\ WillRemoveReports(s) => WillRemoveReports(s)'
            /\ WillRemoveExports(s) => WillRemoveExports(s)'
        BY <2>1, <2>2, <2>3 DEF WillRemoveReports, WillRemoveExports, DeletesRowsOf
      <4> QED
        BY <4>1, <4>2, <4>3
    <3> QED
      BY <3>1, <3>2
<1>20. ASSUME NEW c \in Cleaners, SkipTenant(c)
      PROVE  LeftoversHaveCauses'
  BY <1>20
     DEF SkipTenant, TypeOK, LeftoversHaveCauses, WillRemoveReports,
         WillRemoveExports, apiVars, Fault
<1>21. ASSUME NEW c \in Cleaners, RemoveReports(c)
      PROVE  LeftoversHaveCauses'
  BY <1>21
     DEF RemoveReports, TypeOK, LeftoversHaveCauses, WillRemoveReports,
         WillRemoveExports, apiVars, Fault
<1>22. ASSUME NEW c \in Cleaners, RemoveExports(c)
      PROVE  LeftoversHaveCauses'
  BY <1>22
     DEF RemoveExports, TypeOK, LeftoversHaveCauses, WillRemoveReports,
         WillRemoveExports, ZipsOf, apiVars, Fault
<1>23. ASSUME NEW c \in Cleaners, EndCleanup(c)
      PROVE  LeftoversHaveCauses'
  BY <1>23
     DEF EndCleanup, TypeOK, LeftoversHaveCauses, WillRemoveReports,
         WillRemoveExports, apiVars, Resting
<1>24. ASSUME NEW c \in Cleaners, CleanupCrashes(c)
      PROVE  LeftoversHaveCauses'
  BY <1>24
     DEF CleanupCrashes, TypeOK, LeftoversHaveCauses, WillRemoveReports,
         WillRemoveExports, apiVars, Fault, Resting
<1>25. CASE UNCHANGED vars
  BY <1>25
     DEF vars, apiVars, LeftoversHaveCauses, WillRemoveReports,
         WillRemoveExports
<1> QED
  BY <1>1, <1>2, <1>3, <1>4, <1>5, <1>6, <1>7, <1>8, <1>9, <1>10, <1>11, <1>12,
     <1>13, <1>14, <1>15, <1>16, <1>17, <1>18, <1>19, <1>20, <1>21, <1>22,
     <1>23, <1>24, <1>25
     DEF Next, ExportRun, CleanupRun

\* LeftoversHaveCauses: only a crash, an ignored error or a late write leaves
\* files of a tenant that is gone.
THEOREM LeftoversExplained == Spec => []LeftoversHaveCauses
<1> QED
  BY TypeInit, TypeStep, FileInit, FileStep, LeftoverInit, LeftoverStep, PTL
     DEF Spec

=============================================================================
