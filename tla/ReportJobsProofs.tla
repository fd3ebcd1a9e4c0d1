-------------------------- MODULE ReportJobsProofs --------------------------
(***************************************************************************)
(* Theorems about ReportJobs, for any number of jobs, assessments, runs    *)
(* and failures.  Those about overlapping runs suppose that no run blocks  *)
(* its event loop beyond its in-progress key.                              *)
(***************************************************************************)
EXTENDS ReportJobs, FiniteSetTheorems, TLAPS

\* A live run has a job that ARQ still knows.
RunsWellFormed ==
    \A r \in Runs :
        pc[r] # "idle" =>
            /\ job[r] \in Jobs
            /\ arq[job[r]] # "none"

\* A job is enqueued after its row is inserted, by a request that named an
\* assessment and a format.
RequestsWellFormed ==
    \A j \in Jobs :
        /\ request[j] # "none" => session[j] \in Assessments /\ format[j] \in FormatNames
        /\ request[j] \in {"none", "verified"} => status[j] = "absent"
        /\ status[j] = "absent" => attempts[j] = 0
        /\ request[j] = "inserted" => status[j] # "absent"
        /\ arq[j] # "none" => request[j] = "done" /\ status[j] # "absent"

\* What a run is about to store has been rendered.
RenderedBeforeStored ==
    \A r \in Runs : pc[r] \in {"upload", "writing"} => rendered[r] # "none"

\* The part of the inductive invariant that needs no assumption on failures.
BaseInv ==
    /\ TypeOK
    /\ RunsWellFormed
    /\ RequestsWellFormed
    /\ RenderedBeforeStored

USE DEF apiVars, rowVars, arqVars, runVars

-----------------------------------------------------------------------------
\* Each function writes under a key of the storage.
LEMMA WrittenKeyType == ASSUME NEW f \in FormatNames PROVE WrittenKey(f) \in Keys
  BY DEF FormatNames, Keys, WrittenKey, CheckedKey

LEMMA BaseInit == Init => BaseInv
  BY DEF Init, BaseInv, TypeOK, RunsWellFormed, RequestsWellFormed,
         RenderedBeforeStored, RowStates, Contents, PCs

LEMMA BaseStep == BaseInv /\ [Next]_vars => BaseInv'
<1> SUFFICES ASSUME BaseInv, [Next]_vars PROVE BaseInv'
  OBVIOUS
<1> USE DEF BaseInv, TypeOK, RunsWellFormed, RequestsWellFormed,
            RenderedBeforeStored, RowStates, Contents, PCs, HasRow, Present, Updated, Stored, Strike
<1>1. ASSUME NEW j \in Jobs, VerifyAssessment(j) PROVE BaseInv'
  BY <1>1, FormatsAssumption DEF VerifyAssessment
<1>2. ASSUME NEW j \in Jobs, InsertRow(j) PROVE BaseInv'
  <2>1. TypeOK'
    <3>1. status' \in [Jobs -> RowStates \cup {"absent", "deleted"}]
      BY <1>2 DEF InsertRow
    <3>2. request' \in [Jobs -> {"none", "verified", "inserted", "done"}]
      BY <1>2 DEF InsertRow
    <3> QED
      BY <3>1, <3>2, <1>2 DEF InsertRow
  <2>2. RunsWellFormed'
    BY <1>2 DEF InsertRow
  <2>3. RequestsWellFormed'
    BY <1>2 DEF InsertRow
  <2>4. RenderedBeforeStored'
    BY <1>2 DEF InsertRow
  <2> QED
    BY <2>1, <2>2, <2>3, <2>4
<1>3. ASSUME NEW j \in Jobs, Enqueue(j) PROVE BaseInv'
  BY <1>3 DEF Enqueue
<1>4. ASSUME NEW j \in Jobs, EnqueueFails(j) PROVE BaseInv'
  BY <1>4 DEF EnqueueFails
<1>5. ASSUME NEW j \in Jobs, InProgressExpires(j) PROVE BaseInv'
  BY <1>5 DEF InProgressExpires
<1>6. ASSUME NEW a \in Assessments, DeleteAssessment(a) PROVE BaseInv'
  BY <1>6 DEF DeleteAssessment
<1>7. ASSUME NEW r \in Runs, NEW j \in Jobs, StartRun(r, j) PROVE BaseInv'
  <2>1. TypeOK'
    <3>1. pc' \in [Runs -> PCs]
      <4>1. PICK v \in {"check", "finish"} : pc' = [pc EXCEPT ![r] = v]
        BY <1>7 DEF StartRun
      <4> QED
        BY <4>1
    <3>2. tries' \in [Jobs -> Nat] /\ faults' \in Nat
      BY <1>7 DEF StartRun
    <3>3. job' \in [Runs -> Jobs \cup {"none"}] /\ in_progress' \in [Jobs -> BOOLEAN]
      BY <1>7 DEF StartRun
    <3> QED
      BY <3>1, <3>2, <3>3, <1>7 DEF StartRun
  <2>2. RunsWellFormed'
    BY <1>7 DEF StartRun
  <2>3. RequestsWellFormed'
    BY <1>7 DEF StartRun
  <2>4. RenderedBeforeStored'
    BY <1>7 DEF StartRun
  <2> QED
    BY <2>1, <2>2, <2>3, <2>4
<1>8. ASSUME NEW r \in Runs, FinishRun(r) PROVE BaseInv'
  BY <1>8 DEF FinishRun
<1>9. ASSUME NEW r \in Runs, ShutdownRun(r) PROVE BaseInv'
  BY <1>9 DEF ShutdownRun
<1>10. ASSUME NEW r \in Runs, CrashRun(r) PROVE BaseInv'
  BY <1>10 DEF CrashRun
<1>11. ASSUME NEW r \in Runs, AbandonRun(r) PROVE BaseInv'
  BY <1>11 DEF AbandonRun
<1>12. ASSUME NEW r \in Runs, CheckRow(r) PROVE BaseInv'
  BY <1>12 DEF CheckRow
<1>13. ASSUME NEW r \in Runs, CheckFile(r) PROVE BaseInv'
  <2>0. job[r] \in Jobs /\ format[job[r]] \in FormatNames /\ arq[job[r]] # "none"
    BY <1>13 DEF CheckFile
  <2>1. TypeOK'
    <3>1. pc' \in [Runs -> PCs]
      <4>1. PICK v \in {"finish", "mark"} : pc' = [pc EXCEPT ![r] = v]
        BY <1>13 DEF CheckFile
      <4> QED
        BY <4>1
    <3>2. faults' \in Nat
      BY <1>13 DEF CheckFile
    <3> QED
      BY <3>1, <3>2, <1>13 DEF CheckFile
  <2>2. RunsWellFormed'
    BY <2>0, <1>13 DEF CheckFile
  <2>3. RequestsWellFormed'
    BY <2>0, <1>13 DEF CheckFile
  <2>4. RenderedBeforeStored'
    BY <2>0, <1>13 DEF CheckFile
  <2> QED
    BY <2>1, <2>2, <2>3, <2>4
<1>14. ASSUME NEW r \in Runs, MarkProcessing(r) PROVE BaseInv'
  <2>0. job[r] \in Jobs /\ format[job[r]] \in FormatNames /\ arq[job[r]] # "none"
    BY <1>14 DEF MarkProcessing, FirstFetch
  <2>1. TypeOK'
    <3>1. status' \in [Jobs -> RowStates \cup {"absent", "deleted"}]
      BY <2>0, <1>14 DEF MarkProcessing, FirstFetch
    <3>2. attempts' \in [Jobs -> Nat]
      BY <2>0, <1>14 DEF MarkProcessing, FirstFetch
    <3> QED
      BY <3>1, <3>2, <2>0, <1>14 DEF MarkProcessing, FirstFetch
  <2>2. RunsWellFormed'
    BY <2>0, <1>14 DEF MarkProcessing, FirstFetch
  <2>3. RequestsWellFormed'
    BY <2>0, <1>14 DEF MarkProcessing, FirstFetch
  <2>4. RenderedBeforeStored'
    BY <2>0, <1>14 DEF MarkProcessing, FirstFetch
  <2> QED
    BY <2>1, <2>2, <2>3, <2>4
<1>15. ASSUME NEW r \in Runs, FetchData(r) PROVE BaseInv'
  <2>0. job[r] \in Jobs /\ format[job[r]] \in FormatNames /\ arq[job[r]] # "none"
    BY <1>15 DEF FetchData
  <2>1. TypeOK'
    <3>1. pc' \in [Runs -> PCs]
      BY <2>0, <1>15 DEF FetchData
    <3>2. rendered' \in [Runs -> {"none", "empty", "full"}]
      BY <2>0, <1>15 DEF FetchData
    <3> QED
      BY <3>1, <3>2, <2>0, <1>15 DEF FetchData
  <2>2. RunsWellFormed'
    BY <2>0, <1>15 DEF FetchData
  <2>3. RequestsWellFormed'
    BY <2>0, <1>15 DEF FetchData
  <2>4. RenderedBeforeStored'
    BY <2>0, <1>15 DEF FetchData
  <2> QED
    BY <2>1, <2>2, <2>3, <2>4
<1>16. ASSUME NEW r \in Runs, BeginLocalWrite(r) PROVE BaseInv'
  <2>0. job[r] \in Jobs /\ format[job[r]] \in FormatNames /\ arq[job[r]] # "none"
    BY <1>16 DEF BeginLocalWrite
  <2>1. TypeOK'
    BY <2>0, <1>16, WrittenKeyType DEF BeginLocalWrite
  <2>2. RunsWellFormed'
    BY <2>0, <1>16, WrittenKeyType DEF BeginLocalWrite
  <2>3. RequestsWellFormed'
    BY <2>0, <1>16, WrittenKeyType DEF BeginLocalWrite
  <2>4. RenderedBeforeStored'
    BY <2>0, <1>16, WrittenKeyType DEF BeginLocalWrite
  <2> QED
    BY <2>1, <2>2, <2>3, <2>4
<1>17. ASSUME NEW r \in Runs, StoreFile(r) PROVE BaseInv'
  <2>0. job[r] \in Jobs /\ format[job[r]] \in FormatNames /\ arq[job[r]] # "none"
    BY <1>17 DEF StoreFile
  <2>1. TypeOK'
    BY <2>0, <1>17, BackendAssumption, WrittenKeyType DEF StoreFile
  <2>2. RunsWellFormed'
    BY <2>0, <1>17, BackendAssumption, WrittenKeyType DEF StoreFile
  <2>3. RequestsWellFormed'
    BY <2>0, <1>17, BackendAssumption, WrittenKeyType DEF StoreFile
  <2>4. RenderedBeforeStored'
    BY <2>0, <1>17, BackendAssumption, WrittenKeyType DEF StoreFile
  <2> QED
    BY <2>1, <2>2, <2>3, <2>4
<1>18. ASSUME NEW r \in Runs, UploadFails(r) PROVE BaseInv'
  BY <1>18 DEF UploadFails
<1>19. ASSUME NEW r \in Runs, MarkCompleted(r) PROVE BaseInv'
  <2>0. job[r] \in Jobs /\ format[job[r]] \in FormatNames /\ arq[job[r]] # "none"
    BY <1>19 DEF MarkCompleted
  <2>1. TypeOK'
    <3>1. status' \in [Jobs -> RowStates \cup {"absent", "deleted"}]
      BY <2>0, <1>19, WrittenKeyType DEF MarkCompleted
    <3>2. output_path' \in [Jobs -> Keys \cup {"none"}]
      BY <2>0, <1>19, WrittenKeyType DEF MarkCompleted
    <3> QED
      BY <3>1, <3>2, <2>0, <1>19, WrittenKeyType DEF MarkCompleted
  <2>2. RunsWellFormed'
    BY <2>0, <1>19, WrittenKeyType DEF MarkCompleted
  <2>3. RequestsWellFormed'
    BY <2>0, <1>19, WrittenKeyType DEF MarkCompleted
  <2>4. RenderedBeforeStored'
    BY <2>0, <1>19, WrittenKeyType DEF MarkCompleted
  <2> QED
    BY <2>1, <2>2, <2>3, <2>4
<1>20. ASSUME NEW r \in Runs, MarkFailed(r) PROVE BaseInv'
  <2>0. job[r] \in Jobs /\ format[job[r]] \in FormatNames /\ arq[job[r]] # "none"
    BY <1>20 DEF MarkFailed
  <2>1. TypeOK'
    <3>1. status' \in [Jobs -> RowStates \cup {"absent", "deleted"}]
      BY <2>0, <1>20 DEF MarkFailed
    <3> QED
      BY <3>1, <2>0, <1>20 DEF MarkFailed
  <2>2. RunsWellFormed'
    BY <2>0, <1>20 DEF MarkFailed
  <2>3. RequestsWellFormed'
    BY <2>0, <1>20 DEF MarkFailed
  <2>4. RenderedBeforeStored'
    BY <2>0, <1>20 DEF MarkFailed
  <2> QED
    BY <2>1, <2>2, <2>3, <2>4
<1>21. CASE UNCHANGED vars
  BY <1>21 DEF vars
<1>22. ASSUME NEW r \in Runs, FetchAssessment(r) PROVE BaseInv'
  BY <1>22 DEF FetchAssessment
<1> QED
  BY <1>1, <1>2, <1>3, <1>4, <1>5, <1>6, <1>7, <1>8, <1>9, <1>10, <1>11,
     <1>12, <1>13, <1>14, <1>15, <1>16, <1>17, <1>18, <1>19, <1>20, <1>21, <1>22
     DEF Next, ApiStep, RunStep, RunFault

\* Every variable keeps its type, whatever fails and whenever.
THEOREM TypeCorrect == Spec => []TypeOK
<1>1. BaseInv => TypeOK
  BY DEF BaseInv
<1> QED
  BY <1>1, BaseInit, BaseStep, PTL DEF Spec

-----------------------------------------------------------------------------
\* While no run can block its event loop, a live run holds its job's
\* in-progress key.
RunsHoldKey == \A r \in Runs : pc[r] # "idle" => in_progress[job[r]]

\* The cascade: no row outlives its assessment.
RowHasAssessment == \A j \in Jobs : HasRow(j) => Present(j)

\* What a run relies on between its awaits: nobody else moves its row, except
\* a deletion; what it has rendered is the whole report, or its row is gone;
\* and what it is about to record is what it has stored.
RunOwnsRow ==
    \A r \in Runs :
        /\ pc[r] \in {"fetch", "data", "upload", "writing", "complete", "fail"} =>
              status[job[r]] \in {"processing", "deleted"}
        /\ pc[r] \in {"upload", "writing", "complete"} /\ HasRow(job[r]) =>
              rendered[r] = "full"
        /\ pc[r] = "complete" =>
              file[job[r]][WrittenKey(format[job[r]])] = rendered[r]

SafetyInv ==
    /\ BaseInv
    /\ RunsHoldKey
    /\ OneRunPerJob
    /\ RowHasAssessment
    /\ RunOwnsRow
    /\ CompletedHasOutput

\* A job that was completed is only found again by a run that leaves it alone.
CompletedLeftAlone ==
    /\ \A j \in Jobs :
          /\ format[j] \in Formats \cup {"none"}
          /\ status[j] = "completed" => output_path[j] = WrittenKey(format[j])
    /\ \A r \in Runs :
          /\ pc[r] = "exists" => status[job[r]] \in {"completed", "deleted"}
          /\ pc[r] = "mark" => status[job[r]] # "completed"

\* No run blocks its event loop for longer than job_timeout + 10 s.
NoOverlap == "block" \notin Faults

LEMMA SafetyInit == Init => SafetyInv
  BY BaseInit, BoundsAssumption DEF Init, SafetyInv, RunsHoldKey, OneRunPerJob, RowHasAssessment,
     RunOwnsRow, CompletedHasOutput, HasRow, RowStates

LEMMA SafetyStep ==
  ASSUME NoOverlap PROVE SafetyInv /\ [Next]_vars => SafetyInv'
<1> SUFFICES ASSUME SafetyInv, [Next]_vars PROVE SafetyInv'
  OBVIOUS
<1>0. BaseInv /\ BaseInv'
  BY BaseStep DEF SafetyInv
<1> DEFINE Rest == /\ RunsHoldKey /\ OneRunPerJob /\ RowHasAssessment
                   /\ RunOwnsRow /\ CompletedHasOutput
<1> SUFFICES Rest'
  BY <1>0 DEF SafetyInv
<1> USE <1>0
<1> USE DEF SafetyInv, BaseInv, TypeOK, RunsWellFormed, RequestsWellFormed,
            RunsHoldKey, OneRunPerJob, RowHasAssessment, RunOwnsRow,
            CompletedHasOutput,
            RowStates, HasRow, Present, Updated, Stored, Strike
<1>1. ASSUME NEW j \in Jobs, VerifyAssessment(j) PROVE Rest'
  <2>1. RunsHoldKey'
    BY <1>1 DEF VerifyAssessment
  <2>2. OneRunPerJob'
    BY <1>1 DEF VerifyAssessment
  <2>3. RowHasAssessment'
    BY <1>1 DEF VerifyAssessment
  <2>4. RunOwnsRow'
    BY <1>1 DEF VerifyAssessment
  <2>5. CompletedHasOutput'
    BY <1>1 DEF VerifyAssessment
  <2> QED
    BY <2>1, <2>2, <2>3, <2>4, <2>5
<1>2. ASSUME NEW j \in Jobs, InsertRow(j) PROVE Rest'
  <2>1. RunsHoldKey'
    BY <1>2 DEF InsertRow
  <2>2. OneRunPerJob'
    BY <1>2 DEF InsertRow
  <2>3. RowHasAssessment'
    BY <1>2 DEF InsertRow
  <2>4. RunOwnsRow'
    BY <1>2 DEF InsertRow
  <2>5. CompletedHasOutput'
    BY <1>2 DEF InsertRow
  <2> QED
    BY <2>1, <2>2, <2>3, <2>4, <2>5
<1>3. ASSUME NEW j \in Jobs, Enqueue(j) PROVE Rest'
  <2>1. RunsHoldKey'
    BY <1>3 DEF Enqueue
  <2>2. OneRunPerJob'
    BY <1>3 DEF Enqueue
  <2>3. RowHasAssessment'
    BY <1>3 DEF Enqueue
  <2>4. RunOwnsRow'
    BY <1>3 DEF Enqueue
  <2>5. CompletedHasOutput'
    BY <1>3 DEF Enqueue
  <2> QED
    BY <2>1, <2>2, <2>3, <2>4, <2>5
<1>4. ASSUME NEW j \in Jobs, EnqueueFails(j) PROVE Rest'
  <2>1. RunsHoldKey'
    BY <1>4 DEF EnqueueFails
  <2>2. OneRunPerJob'
    BY <1>4 DEF EnqueueFails
  <2>3. RowHasAssessment'
    BY <1>4 DEF EnqueueFails
  <2>4. RunOwnsRow'
    BY <1>4 DEF EnqueueFails
  <2>5. CompletedHasOutput'
    BY <1>4 DEF EnqueueFails
  <2> QED
    BY <2>1, <2>2, <2>3, <2>4, <2>5
<1>5. ASSUME NEW j \in Jobs, InProgressExpires(j) PROVE Rest'
  <2>1. RunsHoldKey'
    BY <1>5, NoOverlap DEF InProgressExpires, Blocked, NoOverlap
  <2>2. OneRunPerJob'
    BY <1>5, NoOverlap DEF InProgressExpires, Blocked, NoOverlap
  <2>3. RowHasAssessment'
    BY <1>5, NoOverlap DEF InProgressExpires, Blocked, NoOverlap
  <2>4. RunOwnsRow'
    BY <1>5, NoOverlap DEF InProgressExpires, Blocked, NoOverlap
  <2>5. CompletedHasOutput'
    BY <1>5, NoOverlap DEF InProgressExpires, Blocked, NoOverlap
  <2> QED
    BY <2>1, <2>2, <2>3, <2>4, <2>5
<1>6. ASSUME NEW a \in Assessments, DeleteAssessment(a) PROVE Rest'
  <2>1. RunsHoldKey'
    BY <1>6 DEF DeleteAssessment
  <2>2. OneRunPerJob'
    BY <1>6 DEF DeleteAssessment
  <2>3. RowHasAssessment'
    BY <1>6 DEF DeleteAssessment
  <2>4. RunOwnsRow'
    BY <1>6 DEF DeleteAssessment
  <2>5. CompletedHasOutput'
    BY <1>6 DEF DeleteAssessment
  <2> QED
    BY <2>1, <2>2, <2>3, <2>4, <2>5
<1>7. ASSUME NEW r \in Runs, NEW j \in Jobs, StartRun(r, j) PROVE Rest'
  <2>1. RunsHoldKey'
    BY <1>7 DEF StartRun
  <2>2. OneRunPerJob'
    BY <1>7 DEF StartRun
  <2>3. RowHasAssessment'
    BY <1>7 DEF StartRun
  <2>4. RunOwnsRow'
    BY <1>7, BoundsAssumption DEF StartRun
  <2>5. CompletedHasOutput'
    BY <1>7 DEF StartRun
  <2> QED
    BY <2>1, <2>2, <2>3, <2>4, <2>5
<1>8. ASSUME NEW r \in Runs, FinishRun(r) PROVE Rest'
  <2>1. RunsHoldKey'
    BY <1>8 DEF FinishRun
  <2>2. OneRunPerJob'
    BY <1>8 DEF FinishRun
  <2>3. RowHasAssessment'
    BY <1>8 DEF FinishRun
  <2>4. RunOwnsRow'
    BY <1>8 DEF FinishRun
  <2>5. CompletedHasOutput'
    BY <1>8 DEF FinishRun
  <2> QED
    BY <2>1, <2>2, <2>3, <2>4, <2>5
<1>9. ASSUME NEW r \in Runs, ShutdownRun(r) PROVE Rest'
  <2>1. RunsHoldKey'
    BY <1>9 DEF ShutdownRun
  <2>2. OneRunPerJob'
    BY <1>9 DEF ShutdownRun
  <2>3. RowHasAssessment'
    BY <1>9 DEF ShutdownRun
  <2>4. RunOwnsRow'
    BY <1>9 DEF ShutdownRun
  <2>5. CompletedHasOutput'
    BY <1>9 DEF ShutdownRun
  <2> QED
    BY <2>1, <2>2, <2>3, <2>4, <2>5
<1>10. ASSUME NEW r \in Runs, CrashRun(r) PROVE Rest'
  <2>1. RunsHoldKey'
    BY <1>10 DEF CrashRun
  <2>2. OneRunPerJob'
    BY <1>10 DEF CrashRun
  <2>3. RowHasAssessment'
    BY <1>10 DEF CrashRun
  <2>4. RunOwnsRow'
    BY <1>10 DEF CrashRun
  <2>5. CompletedHasOutput'
    BY <1>10 DEF CrashRun
  <2> QED
    BY <2>1, <2>2, <2>3, <2>4, <2>5
<1>11. ASSUME NEW r \in Runs, AbandonRun(r) PROVE Rest'
  <2>1. RunsHoldKey'
    BY <1>11 DEF AbandonRun
  <2>2. OneRunPerJob'
    BY <1>11 DEF AbandonRun
  <2>3. RowHasAssessment'
    BY <1>11 DEF AbandonRun
  <2>4. RunOwnsRow'
    BY <1>11 DEF AbandonRun
  <2>5. CompletedHasOutput'
    BY <1>11 DEF AbandonRun
  <2> QED
    BY <2>1, <2>2, <2>3, <2>4, <2>5
<1>12. ASSUME NEW r \in Runs, CheckRow(r) PROVE Rest'
  <2>1. RunsHoldKey'
    BY <1>12 DEF CheckRow
  <2>2. OneRunPerJob'
    BY <1>12 DEF CheckRow
  <2>3. RowHasAssessment'
    BY <1>12 DEF CheckRow
  <2>4. RunOwnsRow'
    BY <1>12 DEF CheckRow
  <2>5. CompletedHasOutput'
    BY <1>12 DEF CheckRow
  <2> QED
    BY <2>1, <2>2, <2>3, <2>4, <2>5
<1>13. ASSUME NEW r \in Runs, CheckFile(r) PROVE Rest'
  <2>1. RunsHoldKey'
    BY <1>13 DEF CheckFile
  <2>2. OneRunPerJob'
    BY <1>13 DEF CheckFile
  <2>3. RowHasAssessment'
    BY <1>13 DEF CheckFile
  <2>4. RunOwnsRow'
    BY <1>13 DEF CheckFile
  <2>5. CompletedHasOutput'
    BY <1>13 DEF CheckFile
  <2> QED
    BY <2>1, <2>2, <2>3, <2>4, <2>5
<1>14. ASSUME NEW r \in Runs, MarkProcessing(r) PROVE Rest'
  <2>1. RunsHoldKey'
    BY <1>14 DEF MarkProcessing, FirstFetch
  <2>2. OneRunPerJob'
    BY <1>14 DEF MarkProcessing, FirstFetch
  <2>3. RowHasAssessment'
    BY <1>14 DEF MarkProcessing, FirstFetch
  <2>4. RunOwnsRow'
    BY <1>14 DEF MarkProcessing, FirstFetch
  <2>5. CompletedHasOutput'
    BY <1>14 DEF MarkProcessing, FirstFetch
  <2> QED
    BY <2>1, <2>2, <2>3, <2>4, <2>5
<1>15. ASSUME NEW r \in Runs, FetchData(r) PROVE Rest'
  <2>1. RunsHoldKey'
    BY <1>15 DEF FetchData
  <2>2. OneRunPerJob'
    BY <1>15 DEF FetchData
  <2>3. RowHasAssessment'
    BY <1>15 DEF FetchData
  <2>4. RunOwnsRow'
    BY <1>15 DEF FetchData
  <2>5. CompletedHasOutput'
    BY <1>15 DEF FetchData
  <2> QED
    BY <2>1, <2>2, <2>3, <2>4, <2>5
<1>16. ASSUME NEW r \in Runs, BeginLocalWrite(r) PROVE Rest'
  <2>1. RunsHoldKey'
    BY <1>16 DEF BeginLocalWrite
  <2>2. OneRunPerJob'
    BY <1>16 DEF BeginLocalWrite
  <2>3. RowHasAssessment'
    BY <1>16 DEF BeginLocalWrite
  <2>4. RunOwnsRow'
    BY <1>16 DEF BeginLocalWrite
  <2>5. CompletedHasOutput'
    <3> SUFFICES ASSUME NEW j \in Jobs, status[j] = "completed"
                 PROVE  file'[j] = file[j]
      BY <1>16 DEF BeginLocalWrite
    <3>1. j # job[r]
      BY <1>16 DEF BeginLocalWrite
    <3> QED
      BY <3>1, <1>16 DEF BeginLocalWrite
  <2> QED
    BY <2>1, <2>2, <2>3, <2>4, <2>5
<1>17. ASSUME NEW r \in Runs, StoreFile(r) PROVE Rest'
  <2>1. RunsHoldKey'
    BY <1>17 DEF StoreFile
  <2>2. OneRunPerJob'
    BY <1>17 DEF StoreFile
  <2>3. RowHasAssessment'
    BY <1>17 DEF StoreFile
  <2>4. RunOwnsRow'
    BY <1>17 DEF StoreFile
  <2>5. CompletedHasOutput'
    BY <1>17 DEF StoreFile
  <2> QED
    BY <2>1, <2>2, <2>3, <2>4, <2>5
<1>18. ASSUME NEW r \in Runs, UploadFails(r) PROVE Rest'
  <2>1. RunsHoldKey'
    BY <1>18 DEF UploadFails
  <2>2. OneRunPerJob'
    BY <1>18 DEF UploadFails
  <2>3. RowHasAssessment'
    BY <1>18 DEF UploadFails
  <2>4. RunOwnsRow'
    BY <1>18 DEF UploadFails
  <2>5. CompletedHasOutput'
    BY <1>18 DEF UploadFails
  <2> QED
    BY <2>1, <2>2, <2>3, <2>4, <2>5
<1>19. ASSUME NEW r \in Runs, MarkCompleted(r) PROVE Rest'
  <2>1. RunsHoldKey'
    BY <1>19 DEF MarkCompleted
  <2>2. OneRunPerJob'
    BY <1>19 DEF MarkCompleted
  <2>3. RowHasAssessment'
    BY <1>19 DEF MarkCompleted
  <2>4. RunOwnsRow'
    BY <1>19 DEF MarkCompleted
  <2>5. CompletedHasOutput'
    BY <1>19, WrittenKeyType DEF MarkCompleted
  <2> QED
    BY <2>1, <2>2, <2>3, <2>4, <2>5
<1>20. ASSUME NEW r \in Runs, MarkFailed(r) PROVE Rest'
  <2>1. RunsHoldKey'
    BY <1>20 DEF MarkFailed
  <2>2. OneRunPerJob'
    BY <1>20 DEF MarkFailed
  <2>3. RowHasAssessment'
    BY <1>20 DEF MarkFailed
  <2>4. RunOwnsRow'
    BY <1>20 DEF MarkFailed
  <2>5. CompletedHasOutput'
    BY <1>20 DEF MarkFailed
  <2> QED
    BY <2>1, <2>2, <2>3, <2>4, <2>5
<1>21. CASE UNCHANGED vars
  BY <1>21 DEF vars
<1>22. ASSUME NEW r \in Runs, FetchAssessment(r) PROVE Rest'
  <2>1. RunsHoldKey'
    BY <1>22 DEF FetchAssessment
  <2>2. OneRunPerJob'
    BY <1>22 DEF FetchAssessment
  <2>3. RowHasAssessment'
    BY <1>22 DEF FetchAssessment
  <2>4. RunOwnsRow'
    BY <1>22 DEF FetchAssessment
  <2>5. CompletedHasOutput'
    BY <1>22 DEF FetchAssessment
  <2> QED
    BY <2>1, <2>2, <2>3, <2>4, <2>5
<1> QED
  BY <1>1, <1>2, <1>3, <1>4, <1>5, <1>6, <1>7, <1>8, <1>9, <1>10, <1>11, <1>12, <1>13, <1>14, <1>15, <1>16, <1>17, <1>18, <1>19, <1>20, <1>21, <1>22
     DEF Next, ApiStep, RunStep, RunFault

LEMMA Safety == ASSUME NoOverlap PROVE Spec => []SafetyInv
  BY SafetyInit, SafetyStep, PTL DEF Spec

\* Two runs of one job never overlap.
THEOREM MutualExclusion == ASSUME NoOverlap PROVE Spec => []OneRunPerJob
<1>1. SafetyInv => OneRunPerJob
  BY DEF SafetyInv
<1> QED
  BY <1>1, Safety, PTL

\* Every job in the queue has had its row committed, whatever fails.
THEOREM DeliveredJobsHaveRows == Spec => []DeliveredJobHasRow
<1>1. BaseInv => DeliveredJobHasRow
  BY DEF BaseInv, RequestsWellFormed, DeliveredJobHasRow
<1> QED
  BY <1>1, BaseInit, BaseStep, PTL DEF Spec

-----------------------------------------------------------------------------
(* Overlapping runs: what is left when a run may block its event loop beyond   *)
(* its in-progress key.  Any number of runs may then hold the same job.        *)

\* The runs of job j that have still to mark its row.
Pending(j) == {r \in Runs : job[r] = j /\ pc[r] \in {"check", "exists", "mark"}}

\* Every run that has yet to mark the row has been counted by ARQ already, and
\* a row that a run has marked is not "queued" any more.
CountInv ==
    /\ \A j \in Jobs :
          /\ attempts[j] + Cardinality(Pending(j)) <= tries[j]
          /\ attempts[j] + Cardinality(Pending(j)) <= MaxTries
          /\ HasRow(j) => (attempts[j] = 0 <=> status[j] = "queued")
    /\ \A r \in Runs :
          pc[r] \in {"fetch", "data", "upload", "writing", "complete", "fail"} =>
              status[job[r]] # "queued"

LEMMA PendingIsFinite ==
  ASSUME NEW S \in SUBSET Runs, NEW T \in SUBSET S
  PROVE  /\ IsFiniteSet(S) /\ Cardinality(S) \in Nat
         /\ Cardinality(T) \in Nat /\ Cardinality(T) <= Cardinality(S)
BY RunsAssumption, FS_Subset, FS_CardinalityType

\* A step starts a run, or has a run mark its row, or leaves nobody new to mark.
LEMMA PendingStep ==
  ASSUME BaseInv, Next, NEW j \in Jobs
  PROVE  \/ \E r \in Runs : StartRun(r, j)
         \/ \E r \in Runs : MarkProcessing(r) /\ job[r] = j
         \/ Pending(j)' \subseteq Pending(j) /\ UNCHANGED <<attempts[j], tries[j]>>
<1> USE DEF BaseInv, TypeOK, Pending, PCs
<1>1. CASE \E i \in Jobs : ApiStep(i) \/ InProgressExpires(i)
  BY <1>1 DEF ApiStep, VerifyAssessment, InsertRow, Enqueue, EnqueueFails,
              InProgressExpires
<1>2. CASE \E a \in Assessments : DeleteAssessment(a)
  BY <1>2 DEF DeleteAssessment
<1>3. ASSUME NEW r \in Runs, MarkProcessing(r)
      PROVE  \/ job[r] = j
             \/ Pending(j)' \subseteq Pending(j) /\ UNCHANGED <<attempts[j], tries[j]>>
  BY <1>3 DEF MarkProcessing, FirstFetch, Updated
<1>4. ASSUME NEW r \in Runs,
             CheckRow(r) \/ CheckFile(r) \/ FetchAssessment(r) \/ FetchData(r)
      PROVE  Pending(j)' \subseteq Pending(j) /\ UNCHANGED <<attempts[j], tries[j]>>
  BY <1>4 DEF CheckRow, CheckFile, FetchAssessment, FetchData
<1>5. ASSUME NEW r \in Runs, BeginLocalWrite(r) \/ StoreFile(r) \/ UploadFails(r)
      PROVE  Pending(j)' \subseteq Pending(j) /\ UNCHANGED <<attempts[j], tries[j]>>
  BY <1>5 DEF BeginLocalWrite, StoreFile, UploadFails
<1>6. ASSUME NEW r \in Runs, MarkCompleted(r) \/ MarkFailed(r) \/ FinishRun(r)
      PROVE  Pending(j)' \subseteq Pending(j) /\ UNCHANGED <<attempts[j], tries[j]>>
  BY <1>6 DEF MarkCompleted, MarkFailed, FinishRun
<1>7. ASSUME NEW r \in Runs, RunFault(r)
      PROVE  Pending(j)' \subseteq Pending(j) /\ UNCHANGED <<attempts[j], tries[j]>>
  BY <1>7 DEF RunFault, ShutdownRun, CrashRun, AbandonRun
<1>8. ASSUME NEW r \in Runs, NEW i \in Jobs, i # j, StartRun(r, i)
      PROVE  Pending(j)' \subseteq Pending(j) /\ UNCHANGED <<attempts[j], tries[j]>>
  BY <1>8 DEF StartRun
<1> QED
  BY <1>1, <1>2, <1>3, <1>4, <1>5, <1>6, <1>7, <1>8 DEF Next, RunStep

LEMMA CountStep == BaseInv /\ CountInv /\ [Next]_vars => CountInv'
<1> SUFFICES ASSUME BaseInv, CountInv, [Next]_vars PROVE CountInv'
  OBVIOUS
<1>0. CASE UNCHANGED vars
  BY <1>0 DEF vars, CountInv, Pending, HasRow
<1> SUFFICES ASSUME Next PROVE CountInv'
  BY <1>0
<1>1. ASSUME NEW j \in Jobs
      PROVE  /\ (attempts[j] + Cardinality(Pending(j)))' <= tries'[j]
             /\ (attempts[j] + Cardinality(Pending(j)))' <= MaxTries
  <2>1. /\ attempts[j] \in Nat /\ tries[j] \in Nat /\ MaxTries \in Nat
        /\ attempts[j] + Cardinality(Pending(j)) <= tries[j]
        /\ attempts[j] + Cardinality(Pending(j)) <= MaxTries
    BY BoundsAssumption DEF BaseInv, TypeOK, CountInv
  <2>2. Pending(j) \in SUBSET Runs /\ Pending(j)' \in SUBSET Runs
    BY DEF Pending
  <2>3. /\ IsFiniteSet(Pending(j)) /\ Cardinality(Pending(j)) \in Nat
        /\ Cardinality(Pending(j)') \in Nat
    BY <2>2, PendingIsFinite
  <2>4. ASSUME NEW r \in Runs, StartRun(r, j)
        PROVE  /\ attempts'[j] + Cardinality(Pending(j)') <= tries'[j]
               /\ attempts'[j] + Cardinality(Pending(j)') <= MaxTries
    <3>1. /\ tries'[j] = tries[j] + 1 /\ attempts'[j] = attempts[j]
          /\ pc[r] = "idle"
          /\ pc'[r] = "check" => tries[j] < MaxTries
          /\ pc'[r] \in {"check", "finish"}
          /\ \A q \in Runs \ {r} : pc'[q] = pc[q] /\ job'[q] = job[q]
      BY <2>4 DEF StartRun, BaseInv, TypeOK
    <3>2. CASE pc'[r] = "check"
      <4>1. Pending(j)' \subseteq Pending(j) \cup {r} /\ r \notin Pending(j)
        BY <3>1 DEF Pending
      <4>2. Cardinality(Pending(j) \cup {r}) = Cardinality(Pending(j)) + 1
        BY <2>3, <4>1, FS_AddElement
      <4>3. Cardinality(Pending(j)') <= Cardinality(Pending(j) \cup {r})
        BY <2>2, <4>1, PendingIsFinite
      <4> QED
        BY <2>1, <2>3, <3>1, <3>2, <4>2, <4>3
    <3>3. CASE pc'[r] = "finish"
      <4>1. Pending(j)' \in SUBSET Pending(j)
        BY <3>1, <3>3 DEF Pending
      <4>2. Cardinality(Pending(j)') <= Cardinality(Pending(j))
        BY <2>2, <4>1, PendingIsFinite
      <4> QED
        BY <2>1, <2>3, <3>1, <4>2
    <3> QED
      BY <3>1, <3>2, <3>3
  <2>5. ASSUME NEW r \in Runs, MarkProcessing(r), job[r] = j
        PROVE  /\ attempts'[j] + Cardinality(Pending(j)') <= tries'[j]
               /\ attempts'[j] + Cardinality(Pending(j)') <= MaxTries
    <3>1. /\ attempts'[j] \in {attempts[j], attempts[j] + 1} /\ tries'[j] = tries[j]
          /\ pc[r] = "mark" /\ pc'[r] \in {"data", "fetch"}
          /\ \A q \in Runs \ {r} : pc'[q] = pc[q] /\ job'[q] = job[q]
      BY <2>5 DEF MarkProcessing, FirstFetch, Updated, BaseInv, TypeOK
    <3>2. Pending(j)' \subseteq Pending(j) \ {r} /\ r \in Pending(j)
      BY <2>5, <3>1 DEF Pending
    <3>3. Cardinality(Pending(j) \ {r}) = Cardinality(Pending(j)) - 1
      BY <2>3, <3>2, FS_RemoveElement
    <3>4. Cardinality(Pending(j)') <= Cardinality(Pending(j) \ {r})
      BY <2>2, <3>2, PendingIsFinite
    <3> QED
      BY <2>1, <2>3, <3>1, <3>3, <3>4
  <2>6. CASE Pending(j)' \subseteq Pending(j) /\ UNCHANGED <<attempts[j], tries[j]>>
    <3>1. Cardinality(Pending(j)') <= Cardinality(Pending(j))
      BY <2>2, <2>6, PendingIsFinite
    <3> QED
      BY <2>1, <2>3, <2>6, <3>1
  <2> QED
    BY <2>4, <2>5, <2>6, PendingStep
<1> DEFINE Marked ==
      /\ \A j \in Jobs : HasRow(j) => (attempts[j] = 0 <=> status[j] = "queued")
      /\ \A r \in Runs :
            pc[r] \in {"fetch", "data", "upload", "writing", "complete", "fail"} =>
                status[job[r]] # "queued"
<1>2. Marked'
  <2> USE DEF BaseInv, TypeOK, RunsWellFormed, RequestsWellFormed, CountInv, RowStates,
              HasRow, Updated, PCs
  <2>1. ASSUME NEW j \in Jobs, ApiStep(j) \/ InProgressExpires(j) PROVE Marked'
    <3>1. CASE VerifyAssessment(j)
      BY <3>1 DEF VerifyAssessment
    <3>2. CASE InsertRow(j)
      BY <3>2 DEF InsertRow
    <3>3. CASE Enqueue(j) \/ EnqueueFails(j) \/ InProgressExpires(j)
      BY <3>3 DEF Enqueue, EnqueueFails, InProgressExpires
    <3> QED
      BY <2>1, <3>1, <3>2, <3>3 DEF ApiStep
  <2>2. ASSUME NEW a \in Assessments, DeleteAssessment(a) PROVE Marked'
    BY <2>2 DEF DeleteAssessment
  <2>3. ASSUME NEW r \in Runs, MarkProcessing(r) PROVE Marked'
    BY <2>3 DEF MarkProcessing, FirstFetch
  <2>4. ASSUME NEW r \in Runs, CheckRow(r) \/ CheckFile(r) PROVE Marked'
    BY <2>4 DEF CheckRow, CheckFile
  <2>5. ASSUME NEW r \in Runs, FetchAssessment(r) \/ FetchData(r) PROVE Marked'
    BY <2>5 DEF FetchAssessment, FetchData
  <2>6. ASSUME NEW r \in Runs, BeginLocalWrite(r) \/ StoreFile(r) \/ UploadFails(r)
        PROVE  Marked'
    BY <2>6, BackendAssumption DEF BeginLocalWrite, StoreFile, UploadFails
  <2>7. ASSUME NEW r \in Runs, MarkCompleted(r) PROVE Marked'
    BY <2>7 DEF MarkCompleted
  <2>8. ASSUME NEW r \in Runs, MarkFailed(r) PROVE Marked'
    BY <2>8 DEF MarkFailed
  <2>9. ASSUME NEW r \in Runs, FinishRun(r) \/ RunFault(r) PROVE Marked'
    <3>1. CASE FinishRun(r)
      BY <3>1 DEF FinishRun
    <3>2. CASE ShutdownRun(r)
      BY <3>2 DEF ShutdownRun
    <3>3. CASE CrashRun(r)
      BY <3>3 DEF CrashRun
    <3>4. CASE AbandonRun(r)
      BY <3>4 DEF AbandonRun
    <3> QED
      BY <2>9, <3>1, <3>2, <3>3, <3>4 DEF RunFault
  <2>10. ASSUME NEW r \in Runs, NEW j \in Jobs, StartRun(r, j) PROVE Marked'
    BY <2>10 DEF StartRun
  <2> QED
    BY <2>1, <2>2, <2>3, <2>4, <2>5, <2>6, <2>7, <2>8, <2>9, <2>10 DEF Next, RunStep
<1> QED
  BY <1>1, <1>2 DEF CountInv

\* attempts tells how often processing began, never more often than ARQ
\* delivered the job nor than max_tries, however many runs of a job overlap
\* (AttemptsCounted).
THEOREM AttemptsAreCounted == Spec => []AttemptsCounted
<1>1. Init => CountInv
  <2>1. ASSUME Init, NEW j \in Jobs PROVE Pending(j) = {}
    BY <2>1 DEF Init, Pending
  <2> QED
    BY <2>1, FS_EmptySet, BoundsAssumption DEF Init, CountInv, HasRow, RowStates
<1>2. BaseInv /\ CountInv => AttemptsCounted
  <2> SUFFICES ASSUME BaseInv, CountInv, NEW j \in Jobs
               PROVE  attempts[j] <= tries[j] /\ attempts[j] <= MaxTries
    BY DEF AttemptsCounted, CountInv
  <2>1. Cardinality(Pending(j)) \in Nat
    BY PendingIsFinite DEF Pending
  <2> QED
    BY <2>1, BoundsAssumption DEF BaseInv, TypeOK, CountInv
<1> QED
  BY <1>1, <1>2, BaseInit, BaseStep, CountStep, PTL DEF Spec

\* On S3 a put is all or nothing: a run that still has a row has rendered the
\* whole report, and what another run of the job stores is whole as well.
StoredWholeInv ==
    /\ RowHasAssessment
    /\ \A r \in Runs : HasRow(job[r]) =>
          /\ pc[r] \in {"upload", "complete"} => rendered[r] = "full"
          /\ pc[r] = "complete" => file[job[r]][WrittenKey(format[job[r]])] = "full"
    /\ \A r \in Runs : pc[r] # "writing"
    /\ CompletedHasOutput

LEMMA StoredWholeStep ==
  ASSUME Backend = "s3"
  PROVE  BaseInv /\ StoredWholeInv /\ [Next]_vars => StoredWholeInv'
<1> SUFFICES ASSUME BaseInv, StoredWholeInv, [Next]_vars PROVE StoredWholeInv'
  OBVIOUS
<1>0. BaseInv'
  BY BaseStep
<1> USE <1>0 DEF BaseInv, TypeOK, RunsWellFormed, RequestsWellFormed, RenderedBeforeStored,
            RowHasAssessment, StoredWholeInv, CompletedHasOutput, RowStates, HasRow,
            Present, Updated
<1>1. ASSUME NEW j \in Jobs, VerifyAssessment(j) PROVE StoredWholeInv'
  BY <1>1 DEF VerifyAssessment
<1>2. ASSUME NEW j \in Jobs, InsertRow(j) PROVE StoredWholeInv'
  BY <1>2 DEF InsertRow
<1>3. ASSUME NEW j \in Jobs, Enqueue(j) \/ EnqueueFails(j) \/ InProgressExpires(j)
      PROVE  StoredWholeInv'
  BY <1>3 DEF Enqueue, EnqueueFails, InProgressExpires
<1>4. ASSUME NEW a \in Assessments, DeleteAssessment(a) PROVE StoredWholeInv'
  BY <1>4 DEF DeleteAssessment
<1>5. ASSUME NEW r \in Runs, NEW j \in Jobs, StartRun(r, j) PROVE StoredWholeInv'
  BY <1>5 DEF StartRun
<1>6. ASSUME NEW r \in Runs, CheckRow(r) \/ CheckFile(r) PROVE StoredWholeInv'
  BY <1>6 DEF CheckRow, CheckFile
<1>7. ASSUME NEW r \in Runs, MarkProcessing(r) PROVE StoredWholeInv'
  BY <1>7 DEF MarkProcessing, FirstFetch
<1>8. ASSUME NEW r \in Runs, FetchAssessment(r) \/ FetchData(r) PROVE StoredWholeInv'
  BY <1>8 DEF FetchAssessment, FetchData
<1>9. ASSUME NEW r \in Runs, StoreFile(r) PROVE StoredWholeInv'
  BY <1>9, WrittenKeyType DEF StoreFile, Stored
<1>10. ASSUME NEW r \in Runs, UploadFails(r) \/ MarkFailed(r) PROVE StoredWholeInv'
  BY <1>10 DEF UploadFails, MarkFailed
<1>11. ASSUME NEW r \in Runs, MarkCompleted(r) PROVE StoredWholeInv'
  BY <1>11, WrittenKeyType DEF MarkCompleted
<1>12. ASSUME NEW r \in Runs, FinishRun(r) \/ RunFault(r) PROVE StoredWholeInv'
  BY <1>12 DEF FinishRun, RunFault, ShutdownRun, CrashRun, AbandonRun
<1>13. CASE UNCHANGED vars
  BY <1>13 DEF vars
<1> QED
  BY <1>1, <1>2, <1>3, <1>4, <1>5, <1>6, <1>7, <1>8, <1>9, <1>10, <1>11, <1>12, <1>13
     DEF Next, ApiStep, RunStep, BeginLocalWrite

LEMMA StoredWhole == ASSUME Backend = "s3" PROVE Spec => []StoredWholeInv
<1>1. Init => StoredWholeInv
  BY DEF Init, StoredWholeInv, RowHasAssessment, CompletedHasOutput, HasRow, RowStates
<1> QED
  BY <1>1, BaseInit, BaseStep, StoredWholeStep, PTL DEF Spec

\* A completed row always names a whole report (CompletedHasOutput), unless runs of
\* one job overlap on a local disk, where one truncates what the other has stored.
THEOREM CompletedReportsExist ==
  ASSUME NoOverlap \/ Backend = "s3" PROVE Spec => []CompletedHasOutput
<1>1. CASE NoOverlap
  <2>1. SafetyInv => CompletedHasOutput
    BY DEF SafetyInv
  <2> QED
    BY <1>1, <2>1, Safety, PTL
<1>2. CASE Backend = "s3"
  <2>1. StoredWholeInv => CompletedHasOutput
    BY DEF StoredWholeInv
  <2> QED
    BY <1>2, <2>1, StoredWhole, PTL
<1> QED
  BY <1>1, <1>2

\* Whoever downloads a completed report from S3 gets the whole report, however
\* many runs of a job overlap (CompletedDownloads).
THEOREM CompletedReportsDownload ==
  ASSUME Backend = "s3" PROVE Spec => []CompletedDownloads
<1>1. BaseInv /\ StoredWholeInv => CompletedDownloads
  BY DEF StoredWholeInv, CompletedHasOutput, CompletedDownloads, DownloadOutcome,
         Presigned, HasRow, RowStates, Keys
<1> QED
  BY <1>1, BaseInit, BaseStep, StoredWhole, PTL DEF Spec

-----------------------------------------------------------------------------
\* The conditions under which the idempotency check finds every completed
\* report: the key it looks for is the key that was written, and the storage
\* does not answer "absent" for a file that is there.
CheckIsReliable ==
    /\ Weasyprint \/ "pdf" \notin Formats
    /\ Backend = "local" \/ "storage" \notin Faults

RefinementInv == SafetyInv /\ CompletedLeftAlone

LEMMA SameKey ==
  ASSUME CheckIsReliable, NEW f \in Formats PROVE CheckedKey(f) = WrittenKey(f)
  BY DEF CheckIsReliable, WrittenKey, CheckedKey

LEMMA RefinementInit == Init => RefinementInv
  BY SafetyInit DEF Init, RefinementInv, CompletedLeftAlone

LEMMA RefinementStep ==
  ASSUME NoOverlap, CheckIsReliable
  PROVE  RefinementInv /\ [Next]_vars => RefinementInv'
<1> SUFFICES ASSUME RefinementInv, [Next]_vars PROVE CompletedLeftAlone'
  BY SafetyStep DEF RefinementInv
<1>0. SafetyInv /\ SafetyInv'
  BY SafetyStep DEF RefinementInv
<1> USE <1>0
<1> USE DEF RefinementInv, CompletedLeftAlone, SafetyInv, BaseInv, TypeOK,
            RunsWellFormed, RequestsWellFormed, RunsHoldKey, OneRunPerJob,
            RunOwnsRow, CompletedHasOutput, RowStates, HasRow, Present,
            Updated, Stored, Strike
<1>1. ASSUME NEW j \in Jobs, VerifyAssessment(j) PROVE CompletedLeftAlone'
  BY <1>1 DEF VerifyAssessment
<1>2. ASSUME NEW j \in Jobs, InsertRow(j) PROVE CompletedLeftAlone'
  BY <1>2 DEF InsertRow
<1>3. ASSUME NEW j \in Jobs, Enqueue(j) PROVE CompletedLeftAlone'
  BY <1>3 DEF Enqueue
<1>4. ASSUME NEW j \in Jobs, EnqueueFails(j) PROVE CompletedLeftAlone'
  BY <1>4 DEF EnqueueFails
<1>5. ASSUME NEW j \in Jobs, InProgressExpires(j) PROVE CompletedLeftAlone'
  BY <1>5 DEF InProgressExpires
<1>6. ASSUME NEW a \in Assessments, DeleteAssessment(a) PROVE CompletedLeftAlone'
  BY <1>6 DEF DeleteAssessment
<1>7. ASSUME NEW r \in Runs, NEW j \in Jobs, StartRun(r, j) PROVE CompletedLeftAlone'
  BY <1>7 DEF StartRun
<1>8. ASSUME NEW r \in Runs, FinishRun(r) PROVE CompletedLeftAlone'
  BY <1>8 DEF FinishRun
<1>9. ASSUME NEW r \in Runs, ShutdownRun(r) PROVE CompletedLeftAlone'
  BY <1>9 DEF ShutdownRun
<1>10. ASSUME NEW r \in Runs, CrashRun(r) PROVE CompletedLeftAlone'
  BY <1>10 DEF CrashRun
<1>11. ASSUME NEW r \in Runs, AbandonRun(r) PROVE CompletedLeftAlone'
  BY <1>11 DEF AbandonRun
<1>12. ASSUME NEW r \in Runs, CheckRow(r) PROVE CompletedLeftAlone'
  <2>1. job[r] \in Jobs
    BY <1>12 DEF CheckRow
  <2>2. status[job[r]] = "completed" => output_path[job[r]] # "none"
    BY <2>1 DEF Keys
  <2>3. pc'[r] = "exists" => status[job[r]] = "completed"
    BY <1>12 DEF CheckRow
  <2>4. pc'[r] = "mark" => status[job[r]] # "completed"
    BY <1>12, <2>2 DEF CheckRow
  <2> QED
    BY <1>12, <2>3, <2>4 DEF CheckRow
<1>13. ASSUME NEW r \in Runs, CheckFile(r) PROVE CompletedLeftAlone'
  <2>0. job[r] \in Jobs /\ arq[job[r]] # "none"
    BY <1>13 DEF CheckFile
  <2>1. job[r] \in Jobs /\ format[job[r]] \in Formats
    <3>1. format[job[r]] \in FormatNames
      BY <2>0
    <3>2. format[job[r]] # "none"
      BY <3>1 DEF FormatNames
    <3> QED
      BY <2>0, <3>2
  <2>2. CheckedKey(format[job[r]]) = WrittenKey(format[job[r]])
    BY <2>1, SameKey
  <2>3. status[job[r]] = "completed" =>
          file[job[r]][CheckedKey(format[job[r]])] # "absent"
    BY <2>1, <2>2
  <2>4. pc'[r] = "mark" => status[job[r]] # "completed"
    BY <1>13, <2>3, CheckIsReliable, BackendAssumption DEF CheckFile, CheckIsReliable
  <2> QED
    BY <1>13, <2>4 DEF CheckFile
<1>14. ASSUME NEW r \in Runs, MarkProcessing(r) PROVE CompletedLeftAlone'
  BY <1>14 DEF MarkProcessing, FirstFetch
<1>15. ASSUME NEW r \in Runs, FetchData(r) PROVE CompletedLeftAlone'
  BY <1>15 DEF FetchData
<1>16. ASSUME NEW r \in Runs, BeginLocalWrite(r) PROVE CompletedLeftAlone'
  BY <1>16 DEF BeginLocalWrite
<1>17. ASSUME NEW r \in Runs, StoreFile(r) PROVE CompletedLeftAlone'
  BY <1>17 DEF StoreFile
<1>18. ASSUME NEW r \in Runs, UploadFails(r) PROVE CompletedLeftAlone'
  BY <1>18 DEF UploadFails
<1>19. ASSUME NEW r \in Runs, MarkCompleted(r) PROVE CompletedLeftAlone'
  BY <1>19 DEF MarkCompleted
<1>20. ASSUME NEW r \in Runs, MarkFailed(r) PROVE CompletedLeftAlone'
  BY <1>20 DEF MarkFailed
<1>21. CASE UNCHANGED vars
  BY <1>21 DEF vars
<1>22. ASSUME NEW r \in Runs, FetchAssessment(r) PROVE CompletedLeftAlone'
  BY <1>22 DEF FetchAssessment
<1> QED
  BY <1>1, <1>2, <1>3, <1>4, <1>5, <1>6, <1>7, <1>8, <1>9, <1>10, <1>11, <1>12, <1>13, <1>14, <1>15, <1>16, <1>17, <1>18, <1>19, <1>20, <1>21, <1>22
     DEF Next, ApiStep, RunStep, RunFault

\* Under the invariant the reports in place are those of the completed rows.
LEMMA ReportsAreCompleted ==
  CompletedHasOutput => ReportsInPlace = {j \in Jobs : status[j] = "completed"}
  BY DEF CompletedHasOutput, ReportsInPlace

LEMMA Simulation ==
  ASSUME NoOverlap, CheckIsReliable
  PROVE  RefinementInv /\ RefinementInv' /\ [Next]_vars =>
           [Lifecycle!LifecycleNext]_(Lifecycle!lifecycleVars)
<1> SUFFICES ASSUME RefinementInv, RefinementInv', [Next]_vars
             PROVE  [Lifecycle!LifecycleNext]_(Lifecycle!lifecycleVars)
  OBVIOUS
<1>a. /\ ReportsInPlace = {j \in Jobs : status[j] = "completed"}
      /\ ReportsInPlace' = {j \in Jobs : status'[j] = "completed"}
  BY ReportsAreCompleted DEF RefinementInv, SafetyInv, ReportsInPlace, CompletedHasOutput
<1>b. /\ status \in [Jobs -> RowStates \cup {"absent", "deleted"}]
      /\ job \in [Runs -> Jobs \cup {"none"}]
      /\ \A r \in Runs : pc[r] # "idle" => job[r] \in Jobs
  BY DEF RefinementInv, SafetyInv, BaseInv, TypeOK, RunsWellFormed
<1> DEFINE Stutter == UNCHANGED Lifecycle!lifecycleVars
<1>c. ASSUME UNCHANGED status PROVE Stutter
  BY <1>a, <1>c DEF Lifecycle!lifecycleVars
<1> DEFINE Goal == Lifecycle!LifecycleNext \/ Stutter
<1> SUFFICES Goal
  OBVIOUS
<1>1. ASSUME NEW j \in Jobs, InsertRow(j) PROVE Goal
  <2>1. status[j] = "absent"
    BY <1>1 DEF InsertRow, RefinementInv, SafetyInv, BaseInv, RequestsWellFormed
  <2>2. CASE Present(j)
    <3>1. status' = [status EXCEPT ![j] = "queued"]
      BY <1>1, <2>2 DEF InsertRow
    <3>2. ReportsInPlace' = ReportsInPlace
      BY <1>a, <1>b, <2>1, <3>1
    <3> QED
      BY <2>1, <3>1, <3>2 DEF Lifecycle!LifecycleNext, Lifecycle!Submit
  <2>3. CASE ~Present(j)
    <3>1. status' = status
      BY <1>1, <1>b, <2>3 DEF InsertRow
    <3> QED
      BY <3>1, <1>c
  <2> QED
    BY <2>2, <2>3
<1>2. ASSUME NEW a \in Assessments, DeleteAssessment(a) PROVE Goal
  <2> DEFINE J == {j \in Jobs : session[j] = a /\ HasRow(j)}
  <2>1. status' = [j \in Jobs |-> IF j \in J THEN "deleted" ELSE status[j]]
    BY <1>2 DEF DeleteAssessment
  <2>2. \A j \in J : status[j] \notin {"absent", "deleted"}
    BY DEF HasRow, RowStates
  <2>3. ReportsInPlace' = ReportsInPlace \ J
    BY <1>a, <2>1
  <2>4. J \in SUBSET Jobs
    OBVIOUS
  <2> HIDE DEF J
  <2>5. Lifecycle!Remove(J)
    BY <2>1, <2>2, <2>3 DEF Lifecycle!Remove
  <2> QED
    BY <2>4, <2>5 DEF Lifecycle!LifecycleNext
<1>3. ASSUME NEW r \in Runs, NEW s \in {"processing", "completed", "failed"},
             pc[r] # "idle",
             status' = Updated(status, job[r], s),
             HasRow(job[r]) =>
               IF s = "processing"
                 THEN status[job[r]] # "completed" ELSE status[job[r]] = "processing"
      PROVE  Goal
  <2>0. job[r] \in Jobs
    BY <1>b, <1>3
  <2>1. CASE ~HasRow(job[r])
    <3>1. status' = status
      BY <1>3, <1>b, <2>1 DEF Updated
    <3> QED
      BY <3>1, <1>c
  <2>2. CASE HasRow(job[r])
    <3>1. status' = [status EXCEPT ![job[r]] = s]
      BY <1>3, <2>2 DEF Updated
    <3>2. CASE s = "processing"
      <4>1. ReportsInPlace' = ReportsInPlace
        BY <1>3, <1>a, <1>b, <2>0, <2>2, <3>1, <3>2
      <4>2. status[job[r]] \in {"queued", "processing", "failed"}
        BY <1>3, <2>2, <3>2 DEF HasRow, RowStates
      <4> QED
        BY <2>0, <3>1, <3>2, <4>1, <4>2 DEF Lifecycle!LifecycleNext, Lifecycle!Begin
    <3>3. CASE s = "completed"
      <4>1. ReportsInPlace' = ReportsInPlace \cup {job[r]}
        BY <1>3, <1>a, <1>b, <2>0, <3>1, <3>3
      <4> QED
        BY <1>3, <2>0, <2>2, <3>1, <3>3, <4>1
           DEF Lifecycle!LifecycleNext, Lifecycle!Deliver
    <3>4. CASE s = "failed"
      <4>1. ReportsInPlace' = ReportsInPlace
        BY <1>3, <1>a, <1>b, <2>0, <2>2, <3>1, <3>4
      <4> QED
        BY <1>3, <2>0, <2>2, <3>1, <3>4, <4>1
           DEF Lifecycle!LifecycleNext, Lifecycle!GiveUp
    <3> QED
      BY <1>3, <3>2, <3>3, <3>4
  <2> QED
    BY <2>1, <2>2
<1>4. ASSUME NEW r \in Runs, MarkProcessing(r) PROVE Goal
  <2>1. HasRow(job[r]) => status[job[r]] # "completed"
    BY <1>4 DEF MarkProcessing, FirstFetch, RefinementInv, CompletedLeftAlone
  <2> QED
    BY <1>3, <1>4, <2>1 DEF MarkProcessing, FirstFetch
<1>5. ASSUME NEW r \in Runs, MarkCompleted(r) PROVE Goal
  <2>1. HasRow(job[r]) => status[job[r]] = "processing"
    BY <1>5 DEF MarkCompleted, RefinementInv, SafetyInv, RunOwnsRow, HasRow, RowStates
  <2> QED
    BY <1>3, <1>5, <2>1 DEF MarkCompleted
<1>6. ASSUME NEW r \in Runs, MarkFailed(r) PROVE Goal
  <2>1. HasRow(job[r]) => status[job[r]] = "processing"
    BY <1>6 DEF MarkFailed, RefinementInv, SafetyInv, RunOwnsRow, HasRow, RowStates
  <2> QED
    BY <1>3, <1>6, <2>1 DEF MarkFailed
<1>7. CASE UNCHANGED status
  BY <1>7, <1>c
<1> QED
  BY <1>1, <1>2, <1>4, <1>5, <1>6, <1>7
     DEF Next, vars, ApiStep, RunStep, RunFault, VerifyAssessment, Enqueue,
         EnqueueFails, InProgressExpires, StartRun, FinishRun, ShutdownRun,
         CrashRun, AbandonRun, CheckRow, CheckFile, FetchAssessment, FetchData, BeginLocalWrite,
         StoreFile, UploadFails

\* The API, queue, workers and storage together implement the life cycle that
\* the service promises, where the idempotency check is reliable.
THEOREM ImplementsLifecycle ==
  ASSUME NoOverlap, CheckIsReliable PROVE Spec => RefinesLifecycle
<1>1. Init => Lifecycle!LifecycleInit
  BY DEF Init, Lifecycle!LifecycleInit, ReportsInPlace
<1> QED
  BY <1>1, RefinementInit, RefinementStep, Simulation, PTL
     DEF Spec, RefinesLifecycle, Lifecycle!LifecycleSpec

=============================================================================
