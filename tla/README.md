# A TLA+ model of BeGuardit

BeGuardit is a CLI that scans a host (`cli/`), an API that imports the scans and serves
tenants (`api/`, FastAPI + PostgreSQL + Redis), a worker that renders reports (`worker/`,
ARQ) and a web portal (`portal/`). This directory holds TLA+ modules translated from that
code, TLC configurations that check them on small instances, and TLAPS proofs of what
matters most. Source paths below are relative to the repository.

    tlc -workers 2 -config ReportJobs_local.cfg MCReportJobs     # model-check a configuration
    tlapm ReportJobsProofs.tla                                   # check the proofs

## 1. The system: inventory

| Component | State it keeps | Operations | Talks to | What is hard | What makes it correct |
|---|---|---|---|---|---|
| Report service (`api/src/reports`) | `report_jobs` rows | create, list, get, download | PostgreSQL, ARQ queue, storage | row and queue entry are two writes; the assessment may go in between | a queued job has a row; a recorded job ends; a completed one downloads |
| Report worker functions (`worker/src/jobs/report_*.py`) | row status, attempts, output_path; stored file | one run = check, mark, fetch, render, store, complete / fail | PostgreSQL, storage | crash between awaits, redelivery, deletion under the run, PDF fallback | completed means stored and whole; completed work is not repeated |
| ARQ, as configured (`worker/src/main.py`) | queue, in-progress keys, retry counters | deliver, finish, cancel, expire | Redis | a key that outlives or is outlived by its run | one run per job; every delivered job ends |
| Storage (`worker/src/storage.py`, `api/src/core/storage.py`) | files or S3 objects | upload, exists, presigned URL | disk, S3 | truncated writes; S3 `exists` hides errors | key written = key recorded = key read |
| Assessments API (`api/src/assessments`) | `assessment_sessions` and its children | list, detail, delete with cascade | PostgreSQL | deletes under a running worker; pages over rows that come and go and have equal keys | no row outlives its assessment; what a reader misses or sees twice has a cause; a detail is of one assessment |
| Authentication (`api/src/auth`) | users, sessions, reset tokens | register, login, logout, switch tenant, forgot / reset password | PostgreSQL | every handler reads, then commits, without locks | a reset ends old sessions; limits hold; a token works once |
| Tenants and admin (`api/src/tenants`, `api/src/admin`) | memberships, `is_active`, `deleted_at`, audit log | add, re-role, remove, (de)activate, soft delete, log | PostgreSQL | counts read before a later commit; stale ORM attributes | a tenant keeps an admin; removed stays removed |
| Upload (`api/src/upload`, `cli/src/upload`) | scan lock in Redis, imported rows | upload, import, retry | Redis, PostgreSQL | a lock with a TTL and no owner; a check for duplicates before a later commit | imports of a host exclude each other; a duplicate is recognised |
| Middleware (`api/src/core`) | rate-limit counters, CSRF token | count, expire, compare | Redis, PostgreSQL | two Redis commands that can be parted | no one is blocked for ever |
| Heartbeat and readiness (`worker/src/main.py`, `api/src/main.py`) | one Redis key | refresh, expire, delete, read | Redis | one key for all workers | ready iff a worker lives |
| Tenant cleanup, data export (`worker/src/jobs`) | tenants, export jobs, ZIP files | hard-delete, export | PostgreSQL, disk | rows first, files later; runs that store while the tenant goes; unregistered jobs | recorded files are there; nothing is left behind without a cause; a held tenant holds up no other; deleted tenants go |
| Audit partitions (`worker/src/jobs/partition_maintenance.py`) | partitions of `audit_log` | create one a month | PostgreSQL | a missed run is not made up for | the next month has a partition |
| CLI scan (`cli/src`) | one scan's evidence, assets, findings | collect, correlate, evaluate, report | host | stages that fail; graph search | every finding is reported once; attack paths are complete |
| CLI scheduler (`cli/src/scheduler`) | crontab, plist, scheduled task | set, remove, status | OS | text of other owners in the same crontab | set then status agrees |
| Portal (`portal/src`) | auth store | fetchMe, login, switch, logout | API | answers out of order | the store shows the last session |

`PROJECT.json` lists the components with their status and, under `hazards`, each hard
behaviour at its source line with the property that is about it.

## 2. Modules

| # | Module | Composes / implements | Runs | Proofs |
|---|---|---|---|---|
| 1 | `ReportLifecycle` (abstract), `ReportJobs` | API + queue + worker + storage + deletion; implements `ReportLifecycle` | `reports_local`, `reports_s3_overlap`, `reports_settle` | `ReportJobsProofs` |
| 2 | `AuthSessions` | all handlers of one account | `auth_overlap` | `AuthSessionsProofs` |
| 3 | `TenantMembership` | tenants API + admin API + audit log | `tenants_overlap` | `TenantMembershipProofs` |
| 4 | `UploadImport` | CLI attempts + portal + CSRF + scan lock + hash and duplicate checks + primary key | `upload` | `UploadImportProofs` |
| 5 | `AttackPaths` | severities + graph + search + deduplication | `attack_paths` | `AttackPathsProofs` |
| 6 | `TenantErasure` | admin API + cleanup job + export job + report runs + directories | `erasure`, `erasure_audit` | `TenantErasureProofs` |
| 7 | `WorkerHeartbeat` | workers + queue + one Redis key + readiness probe | `heartbeat` | `RedisProofs` |
| 8 | `Listings` | imports + deletions + lists + detail + the portal's pages | `listings` | `ListingsProofs` |
| 9 | `RateLimit` | requests of several API workers + Redis counters | `rate_limit` | `RedisProofs` |

The order is that of consequence: reports are the product, accounts and memberships guard
it, uploads feed it, attack paths are what a scan is read for; then what operators and
readers rely on. Every `MC...` module gives the constants of one instance.

Several promises of this code hold as long as requests do not overlap, and the code takes
no lock that would keep them from overlapping. The models do not pretend otherwise: a
**history variable** records which request has been *overtaken* (another one has changed
what it had read) or which row was *shared* (two requests held it at once), and the
properties say that a promise is broken by these only. So a property states for all
interleavings what the code does guarantee, and names the race it does not exclude.

## 3. Modules and code

### ReportLifecycle and ReportJobs

`ReportLifecycle` is what a caller of `GET /reports/{id}` may rely on: a job goes from
absent to queued, processing, completed or failed; it may be begun again after a failure
or an interruption, never once completed; it completes in the step that makes its report
available; deletion removes it for good.

`ReportJobs` is the code. A **run** is one execution of a worker function; its `pc` names
its next await, and the three functions share one skeleton:

| pc | await | action |
|---|---|---|
| check | SELECT status, output_path | `CheckRow` |
| exists | `storage.exists(storage_key)` | `CheckFile` |
| mark | UPDATE processing, attempts + 1; commit | `MarkProcessing` |
| fetch | SELECT assessment (not SARIF) | `FetchAssessment` |
| data | SELECT findings, assets; render | `FetchData` |
| upload, writing | `storage.upload` | `BeginLocalWrite`, `StoreFile`, `UploadFails` |
| complete | UPDATE completed, output_path; commit | `MarkCompleted` |
| fail | except branch: UPDATE failed; commit; raise | `MarkFailed` |
| finish | return to ARQ | `FinishRun` |

The API side is `VerifyAssessment`, `InsertRow`, `Enqueue` or `EnqueueFails` (the three
awaits of `create_report_job`), `DeleteAssessment` and the reading `DownloadOutcome`.
ARQ is modelled from the way it is used (`StartRun`, `FinishRun`, `ShutdownRun`,
`CrashRun`, `InProgressExpires`): its rules are that a job with an in-progress key is not
picked, that the key lives for `job_timeout + 10 s`, that only cancellation and process
death redeliver, and that a job is dropped after `max_tries`. Failures strike through
`Strike(kind)`, at most `MaxFaults` in a behaviour: process crash, worker shutdown,
`job_timeout`, a failing SQL statement, a failing storage, an unreachable Redis, expired
job data, and a synchronous `write_pdf` that blocks the event loop.

Data are abstracted to what the properties tell apart: a file is absent, partial, empty
(rendered after its assessment was deleted) or full; an output path is the suffix of its
key. `HasRow` distinguishes UPDATEs that match a row from those that match none.

### AuthSessions

One account; no statement of these handlers touches the rows of two. A request is two
actions: `Read...` is the statement whose result decides, and `Commit...` the transaction's
writes (login, logout, switch, forgot, reset). READ COMMITTED and no row locks on the reads
allow any interleaving of the two. `Abort` is any failure in between. `Replace` is
`_create_session` with the DELETE of a switch, `Delete` the DELETEs of a logout and a reset.
"Old" tokens are both expired and out of the limit's window, because TTL and window are the
same hour; a token is never deleted. History variables say what a user would: the password
last chosen, the password and the login each session goes back to, the logins that were
logged out, the resets per token; and what overlapped: the logins and switches a reset has
overtaken (`overtaken`), the sessions they opened since (`late`), whether such a login's
rehash has undone the reset (`reverted`), and the rows two requests held at once (`shared`).

### TenantMembership

A request is `Authenticate`, `Check...`, `Commit...` and, in the admin API, `LogEntry` in a
second transaction. What makes this model more than a read and a write is SQLAlchemy:
the eager relationships of `auth/models.py` load the tenant, its members and their
accounts with the session row, and a later SELECT of the same rows in the same ORM session
keeps the loaded attributes. So `seen` and `seenAccount` hold the attributes as they were,
while counts and row sets are read afresh, and the commit writes only what differs from
the loaded attributes (`PlanUpdate`). A removal leaves other requests without the row
(`WithoutRow`): their UPDATE matches nothing and fails. `Overtake` marks the requests whose
tenant, or some account, a step changes after they have read it.

### UploadImport

A **request** is one execution of `upload_assessment`, and its `at` names its next await:

| at | await | actions |
|---|---|---|
| sent | CSRF middleware; `SET NX EX` of the scan lock | `Forbid`, `Acquire`, `Conflict`, `AcquireUnanswered` |
| locked | `_verify_integrity`; SELECT for a duplicate | `Check` (by `Refusal`) |
| checked | INSERTs and COMMIT | `Import`, `DatabaseFails` |
| release | `DEL` of the lock in `finally`; the answer | `Release` |

The clients are the CLI (`CliBegin`, `CliSend`, `Attempted`: three attempts of
`beguardit upload`, one of `beguardit start`) and users of the portal (`PortalSend`, the button
of `UploadPage.tsx`).
`LoseConnection` is a CLI that stops waiting while the handler goes on, `Vanish` a process
that dies or a Redis that does not answer, and `LockExpires` the TTL, which may pass under a
running import: the lock has no owner, so the overtaken handler's `DEL` removes the lock of
the next. `DeleteAssessment` frees an id again. A report is a model value whose text is
either ASCII or not, which is what decides whether `json.dumps` reproduces the CLI's hash;
reports are those of `start.js`, each with a UUID and an integrity block. History: the
expiries of a lock since imports of its host have been running without a gap (`overruns`, which
`EndImport` resets with the last of them), and the locks whose request is gone (`stranded`).
The lock is all that keeps the SELECT for a duplicate true until the COMMIT; that it does, as
long as it does not expire, is `DuplicateCheckHolds`.

### AttackPaths

The findings and assets of a scan are chosen in `Init`; `Nodes`, `Edge` and `EntryPoints`
are the graph of `correlation/graph.js`, and `Weight` and `Composite` are
`policy/severity.js`, with scores in tenths. The search of `correlation/paths.js` is three
actions: `StartEntry` (the loop over entry points, the most severe first), `Dequeue` (the
`while` loop) and `Visit` (one neighbour, with the depth cap). `Kept` is the final sort
and deduplication. The order of neighbours and of equally severe entry points follows the order of the
collectors and rules, and is left open. Its properties compare the search with the
reachability relation (`Within`) and with all simple paths (`SimplePaths`).

The cap of eight nodes says nothing in the code of what it drops. It drops nothing
(`NothingIsCutOff`): the edges that the tables of `graph.js` allow lead from an entry point to
whatever it leads to in five steps, so that the longest path needed has six nodes. With a cap of
four the property fails.

The comment at `paths.js:138` says that the longest path of each entry point is kept; the key is
the entry point and the severity, so one path for each severity is kept. `Kept` is the code's.

### TenantErasure

`DeleteTenant` and `RequestExport` are handlers of the admin API, each followed by its audit
entry in a second transaction (`WriteAuditEntry`, `AuditEntryFails`). `cleanup_deleted_tenants`
goes through the tenants it has selected: `DeleteRows` or `SkipTenant` (the except branch),
`RemoveReports`, `RemoveExports`. `export_tenant_data` is `CheckExport`, `MarkExport`,
`OpenZip`, `CloseZip`, `CompleteExport`; its except branch works after a failure of the disk
(`ExportDiskFails`) and fails itself after a failure of a statement (`ExportStatementFails`).
Of a report run only what touches the tenant's directory is kept (`BeginReport`,
`StoreReport`, `EndReport`); `ReportJobs` has the rest. Deleting the row of a tenant takes the
rows of its jobs with it by ON DELETE CASCADE, which `DeleteRows` does in one step.
Only the foreign key of `audit_log` does not cascade (`schema.sql:154`, the schema that
`docker-compose.yml` and the CI load): a tenant with audit rows is `Held`, and its DELETE fails.
In the model a tenant goes if none of its audit entries was written (`AuditEntryFails`).
The partitioned `audit_log` of migration 004 is left out: its columns are not those of
`admin/models.py`, so that no audit entry could be written to it.

Neither job is named in `WorkerSettings`, and no code enqueues an export. The model says what they
do when they are called, and that they may be: `SelectTenants` at any time, `StartExport` for at
most two deliveries (its header), the first of which may come after the tenant has gone. That the
cleanup is called daily is no part of `Spec` or `Fairness`; it is the assumption `Daily`, which
only `erasure_audit` makes.

### WorkerHeartbeat

Workers live (`Start`, `Shutdown`, `DeleteKey`, `Crash`), queue the cron job at every tick
(`QueueRefresh`: one run for all workers, since the job is `unique`), pick it
(`PickRefresh`) and write the key in two commands (`SetFields` is HSET, `SetExpiry` EXPIRE).
`Fill` and `Block` are report jobs that take all slots or, in `write_pdf`, the event loop; a
tick that passes meanwhile is queued when the loop is free again (`owed`). `RepeatHeld` is
ARQ's redelivery of a run that died with its worker. `WorkerCheck` is the worker part of
`GET /ready`. Time is counted in units, as ages and remaining lives only, and `skew` is the
difference of the clocks of API and workers. `Tick` waits for what a responsive worker has
to do (`Urgent`), since commands take milliseconds and a unit is seconds. Two workers exist
in a rolling update (`infra/k8s/worker-deployment.yaml`: `maxSurge: 1`).

### Listings

The reader is one request after the other of one person: `Open` a list or a detail,
`CheckAssessment`, `CountRows`, `FetchRows`, then `NextPage` of the portal while
`Pagination` offers one (`HasNext`); or, for a detail, four counts (`CountChildren`,
`SumSeverities`). Each is a statement of its own at READ COMMITTED, between which imports
are committed (`BeginImport`, `CommitImport`) and assessments deleted (`FindForDelete`,
`Delete`). `rank` is `created_at`, the time at which the import's transaction began, so that
an assessment can appear behind others; all findings and assets of an import have the same
one, and `Pages` is the set of all answers that ORDER BY, OFFSET and LIMIT then allow. One reader
stands for any number, as reading changes nothing. The lists of users, audit entries and
report jobs have the same form; the module is not instantiated for them.

### RateLimit

A request of `RateLimitMiddleware.dispatch` is `Incr`, `ExpireKey` if it has read 1, and
`Answer`; `Die` is a process that goes down, or an error of Redis, between two commands.
Counters are those of a client address, for the login path or all others. `LimiterTick` is time, at
the end of which Redis removes a key; `RedisRestarts` empties Redis. A counter is kept up to
one above its limit, which is all that the code tells apart. History: the requests let in
per tick of the last window, and the keys whose expiry nobody lived to set (`forgone`). Its
names differ from those of `WorkerHeartbeat`, so that `RedisProofs` extends both.

## 4. What the runs check

| Run | Instance | Shows |
|---|---|---|
| `reports_local` | 2 jobs, 2 assessments, 2 runs, html + json, local storage, 2 tries, 2 faults of 7 kinds | a completed row has a whole report; one run per job; queue implies row; the refinement of `ReportLifecycle` |
| `reports_s3_overlap` | 2 jobs, 2 runs, pdf + sarif, S3, weasyprint, blocking PDFs | with two runs of one job overlapping, a completed report still downloads, attempts are counted |
| `reports_settle` | 2 jobs, 2 runs, pdf + html, S3, no weasyprint, 2 faults, 3 tries, fairness | every enqueued job ends; the recorded key names the stored report through redeliveries |
| `auth_overlap` | 2 overlapping requests, 3 sessions, 2 tokens, 2 passwords, limit 1 | sessions know the password, only the user chooses it, one session per login, logout is final, a token works once, the limit holds: each but for the named race |
| `tenants_overlap` | 2 overlapping requests, 2 tenants, 2 users, 2 roles | tenants keep an admin, deleted tenants have viewers, the last active admin is not deactivated, but for overtaken requests; a removed member stays out without exception |
| `upload` | 2 reports (1 ASCII) of 1 host, 2 tenants, 2 requests, 1 fault, 1 expiry under an import, fairness | imports of one host overlap by no more than the expiries; a lock has a reason and ends; the answer of the duplicate check holds until the commit unless the lock expired |
| `attack_paths` | up to 3 findings of 4 categories and 3 scores, up to 3 assets of 4 types | the search is sound, complete and shortest; the depth cap cuts nothing off; no worse path is missing |
| `heartbeat` | 2 workers, 15 s units (period 2, expiry 4, stale 6), clocks 30 s behind to 45 s ahead, 2 lost refreshes | readiness proves a recent worker; no stop leaves a heartbeat; a wrong "no worker" ends |
| `erasure` | 2 tenants, 1 export, 1 cleanup, 2 faults, fairness | recorded files are there; leftovers have a cause; tenants that their audit rows hold do not keep a cleanup from the others |
| `erasure_audit` | 1 tenant, 1 export, 1 cleanup, no fault, a cleanup every day | *violation*: a deleted tenant never goes |
| `listings` | 5 assessments of 3 findings, 1 asset, 2 pieces of evidence; 2 rows a page, 2 changes during a reading | missed and repeated rows have a cause; a detail is whole |
| `rate_limit` | 3 overlapping requests of one client, limit 2, window of 3 ticks, 2 restarts, fairness | twice the limit at most per window and restart; a counter has an expiry or lost it; who is refused gets in again |

Deadlock is checked in `heartbeat`, `listings` and `rate_limit`. In the others users may stop
sending requests, the pools of jobs, sessions, tokens and tenants are finite, all accounts may
be inactive, and the search for attack paths ends, so that the systems really may stop.

The bounds are the smallest at which the interesting cases happen: two runs and two jobs
for overlap, redelivery and the sharing of an assessment; as many faults as a hazard needs
(a crash during a write and one during its repair); one token more than the limit; two
requests for every race, which is between two. `MaxFaults` is below `MaxTries` where
liveness of jobs is claimed: a job whose workers die more often than ARQ tries is dropped
without a status, which is ARQ's design. For uploads, two requests, two tenants and one host
are enough for a lock that is overtaken, for a duplicate in the tenant and for one across
tenants. For attack paths, the categories `network`, `ai-runtimes` and `ai-models` form the
longest chain there is, and `ai-prompts` with `prompt_store` and `ai_runtime` the longest way
through assets; the scores are one below the entry threshold, a medium and a high one, the
cases that `escalateChain` tells apart. For the heartbeat, 15 s divides the 30, 60 and 90 s of
the code and keeps their order. For the listings, five assessments make three pages, so that
a reading crosses two boundaries, and three findings with a page of two make ties across a
boundary. For the rate limit, three requests are one over the limit, and three ticks let a
burst fall into two windows. Symmetry is used in runs without liveness only.

**Fairness** is what the scheduling of the processes gives, and nothing is assumed of users
and failures.

- `ReportJobs!Fairness`: a request that has begun goes on, workers poll each job, a run goes
  on from await to await, and a Redis key with a TTL expires.
- `UploadImport!Fairness`: a handler goes on from await to await, and Redis removes a key
  whose TTL has passed.
- `TenantErasure!Fairness`: thirty days pass, a handler writes the audit entry it has begun, and
  a cleanup that has begun goes on. Crashes are bounded (`MaxFaults`). Nothing in the code begins
  a cleanup; `erasure_audit` grants that all the same (`Daily`), to show that it would not help.
- `RateLimit!Fairness`: time passes, and a request that has begun goes on. Requests are not
  fair: `RefusedGetIn` holds although a refused client may send requests all the time.

### Disagreements between the code and what it says

The run `erasure_audit` must find its property violated. `admin/router.py:191` says "After 30 days, a worker cron job hard-deletes the tenant and all
associated data", and `tenant_cleanup.py:63-66` counts `audit_log` among what the deletion
cascades to. The job is in no list of `WorkerSettings` (`worker/src/main.py:105-129`); and were it
called every day, the row of the tenant would stay, because its deletion wrote an audit entry and
the foreign key of `schema.sql:154` does not cascade. Others were met while
modelling and can be reproduced by changing one constant or one property:

- `auth/service.py:283`, "force re-login": a login that verified the old password outlives the
  reset that deletes all sessions. `SessionsKnowPassword` without its exceptions fails, and so
  does each promise of `AuthSessions` and `TenantMembership` without its own: two
  confirmations use one reset token twice, a rehash writes the old password back, two switches
  leave two sessions, a switch survives a logout, the reset limit is exceeded, two
  self-demotions leave a tenant without an admin, and a member added while a tenant is deleted
  is no viewer.
- `upload/router.py:42`, "Upload a JSON canonical assessment report from the CLI": the CLI sends a
  bearer token (`client.js:41`), neither a session cookie nor a CSRF token, so that
  `CSRFMiddleware` refuses every one of its uploads (`Forbid`). In `upload` with `MaxFaults = 0`
  the invariant `cli.at = "failed" => KeyIsTaken(cli.report)` fails, and `cli.at` is never
  "uploaded".
- `upload/service.py:27`, "matching how the CLI computes it in json-canonical.js": `json.dumps`
  escapes the characters that `JSON.stringify` (`json-canonical.js:94`) leaves as they are, so
  that a report whose text is not ASCII, as the titles of some rules are not, fails the
  integrity check although nobody touched it (`Refusal`).
- `admin/service.py:217`, "Queue a new data export job": a row is written and nothing is queued.
- `core/middleware.py:122`, "sliding-window rate limiter": the window is fixed, and a client gets
  twice the limit into 60 seconds (`BurstBounded` is exact). `docs/runbooks/backup-restore.md:127`,
  "Rate-limit keys expire within 60 seconds", fails after a process died between INCR and EXPIRE:
  the key never expires, and its client is refused for good. The limit per email of
  `middleware.py:125` is nowhere in `auth/service.py`. Requests that CSRFMiddleware refuses are
  not counted, as the limiter is the innermost layer. Without Redis every path fails, `/health`
  and `/ready` too, since the middleware does not handle the error.
- `worker/src/main.py:61`, "refresh heartbeat every 30 seconds": a worker all of whose slots are
  taken refreshes nothing and is reported absent while it works. A worker that stops deletes the
  heartbeat of all others; `OutageBounded` says for how long they are missed.
- Pages: `created_at` is no total order, so that turning over the findings of an assessment that
  nobody touches can repeat some and hide as many (`RepeatsHideRows`). The guard against deleting
  a "running" assessment (`assessments/service.py:80`) never refuses, as imports write
  "completed".
- `CompletedDownloads` with `Backend = "local"` fails: `download_report`
  (`reports/router.py:127`) opens the bare storage key, without the directory that
  `LocalStorage` puts before it.
- The comment at `paths.js:138` says that the longest path of each entry point is kept; the key
  is the entry point and the severity. `Kept` is the code's.

More observations have no property. The members API writes no audit entry, although
`docs/architecture.md:82` promises one for every mutation. The documented retries
(`worker/src/main.py:8`) never happen, since a plain exception ends a job: `FinishRun` follows
`MarkFailed`. A failed SQL statement leaves a report or export row "processing", since the except
branch uses the session whose transaction failed. Without weasyprint a redelivered, completed PDF
job is processed again, since the check looks for `.pdf` and the output is `.html`: this is why
the refinement is claimed for `CheckIsReliable` only. When a blocked PDF lets two runs of a job
overlap, the first to finish drops the job, and a shutdown of the second leaves its row
"processing": `EnqueuedJobSettles` is claimed without the fault "block". A job whose enqueue
fails (`EnqueueFails`) stays "queued" for ever. Deleting an assessment leaves the files of its
reports, and the cleanup of a tenant leaves its objects in S3. And `users.is_active` is global
while the guard of `admin/service.py:109` is the tenant's, which is one of the exceptions that
`LastAdminKeptByTenant` makes.

## 5. What is proved

Every theorem is for all values of the constants, within the named assumptions of the modules.
Each type invariant is proved (`TypeCorrect`) and is part of every induction that follows; no
run repeats it. The argument is the same everywhere: a conjunction that is inductive, of which the
property is a part or a consequence.

`ReportJobsProofs`, for any number of jobs, assessments, runs, tries and failures:

- `TypeCorrect`, `DeliveredJobsHaveRows`: without assumptions. `BaseInv` strengthens the
  type invariant with the well-formedness of runs and requests.
- `MutualExclusion`: while no run blocks its event loop past its in-progress key (`NoOverlap`).
  `SafetyInv` adds that a live run holds its job's key, that no row outlives its assessment, and
  `RunOwnsRow`: between its awaits nobody moves a run's row except a deletion, and what it is
  about to record is what it has stored.
- `CompletedReportsExist`: while runs of a job do not overlap, from the same invariant, or with S3.
  The remaining case is false: on a local disk a second run truncates the file that the first has
  recorded. TLC shows it when `ReportJobs_s3_overlap.cfg` is given `Backend = "local"` and
  the invariant `CompletedHasOutput`.
- `AttemptsAreCounted`: however many runs hold one job at once, blocked PDFs included.
  `CountInv` counts the runs of a job that have still to mark its row together with its
  attempts; that sum is bounded by the deliveries. It needs that the runs are finitely many
  (`RunsAssumption`).
- `CompletedReportsDownload`: with S3, whose put is all or nothing, for overlapping runs too. Both
  theorems about completed reports use `StoredWholeInv`, which says that a run whose row is still
  there has rendered the whole report, and that whatever another run stores under its key is
  whole as well. With local storage the
  property is false (section 4).
- `ImplementsLifecycle`: the refinement, when moreover the idempotency check is reliable
  (`CheckIsReliable`: the key checked is the key written, and storage does not deny a file
  that is there). `RefinementInv` adds that a completed job is found only by a run that
  leaves it alone. With `Formats = {"pdf"}`, no weasyprint and one crash TLC shows that the
  assumption is needed.

`AuthSessionsProofs`, for any number of overlapping requests, sessions, tokens and passwords:

- `SwitchReplacesSession`, `LogoutIsFinal`: `LoginInv` adds that a request which shares its
  login with nobody holds its only session, and that two requests which hold one share it.
- `ResetForcesLogin`, `PasswordIsChosen`: `PasswordInv` adds that a login or switch that no
  reset has overtaken carries the chosen password.
- `TokensAreUsedOnce`: `TokenInv` says that a token held by one request is unused; `UsesInv`
  counts the uses and the requests about to use, for the bound of a shared token.
- `ResetsAreLimited`: `LimitInv` counts the tokens of the hour together with the requests that
  have counted them and are about to add one.

`TenantMembershipProofs`, for any users, tenants, roles and overlapping requests:

- `RemovedMembersStayOut`: `RowInv` adds that the rows a request is going to write are there.
- `TenantsKeepAdmins`, `DeletedTenantsHaveViewers`, `LastAdminsStayActive`: `CurrentInv` says
  of each request that has not been overtaken (`UpToDate`) that its actor is still an admin, that
  it sees the roles as they are, and that its plan leaves an admin and an active one.

`UploadImportProofs`, for any reports, tenants, hosts, requests and failures:

- `TypeCorrect`; `ClientInv` adds that at most one request is to be answered to the CLI, and
  only while it waits, which is why its attempts do not run below zero.
- `ExpiriesBoundOverlap`: the bound alone is not inductive, since an acquisition adds an
  import without an expiry. `Balance` counts the lock in: imports never exceed the expiries
  under an import by more than the lock that is held.
- `LocksHaveReasons`: part of the same invariant. That a history ends only when no import of its
  host is left (`HistoryEnds`) keeps it and `Balance` over the end of a request.
- `DuplicateChecksHold`: inductive together with `Balance`. A row that contradicts the answer an
  import was given would come from another import of the same host, and without an expiry there is
  none (`ImportsAlone`).

`AttackPathsProofs`, for every graph that findings and assets can make:

- `TypeCorrect` and `PathsFoundAreReal`. That recorded paths are real is not inductive alone:
  `Open` says it of the paths in the queue as well, which are below the cap and whose nodes are
  visited, so that a node not visited yet repeats none of them.
- `SearchesAreComplete`: `CoverInv` says of each node that was met that it is still queued,
  at the end of a path at the cap, or has all its neighbours visited or about to be.
- `PathsFoundAreShortest`: `SearchInv` adds what makes the search breadth first. The queue is
  ordered by length, and no path is longer than one still to be extended by more than one node
  (`OrderInv`); all queued paths start at one entry point, which has met all that is visited
  (`OneSearchInv`); and every neighbour of the end of a path that is done has a path that is
  longer by at most one node (`GrownInv`). By induction on the distance, every node at distance
  d then has a path of d + 1 nodes, and none is shorter.
- `TheCapCutsNothingOff`: besides, that five steps lead to whatever more steps lead to. The
  tables of `graph.js` are followed edge by edge for this; it needs that the findings and assets
  are finitely many (`FiniteAssumption`).
- `TheWorstIsReported`: the composite severity of a path is that of its worst finding, raised if
  there is another finding on it. By the theorem before there is a recorded path that ends at the
  worst finding of any attack path, or at another one if the worst is the entry point, and that
  is no less severe; the deduplication keeps one path of each severity.

`Within`, `SimplePaths` and, in `RateLimit`, `Sum` are recursive functions. The induction theorems of
the library take an operator and cannot be instantiated, but induction over a *set* of naturals can
be stated and proved without one (`NatSetInduction`), and from it that a recursive function
satisfies its equation (`Recursion`, `SumEquations`).

`TenantErasureProofs`, for any tenants, exports, deliveries, overlapping cleanups and faults:

- `RecordsKeepFiles`: `FileInv` adds that a cleanup gets to the files of a tenant only after its
  rows, that the rows of its jobs go with it, and that an export's row says "processing" while its
  archive is being made.
- `LeftoversExplained`: the statement is inductive, given the types.

`RedisProofs`, for what is kept in Redis under a TTL. For `WorkerHeartbeat`, any number of
workers and every timing with
`Period < Expire <= Stale` and a skew that leaves a period before the heartbeat is stale
(`TimingAssumption`):

- `ChecksProveLife`: `SeenInv` relates the age of the heartbeat to the silence of the workers,
  and its remaining life to the last moment at which one of them lived.
- `StopsLeaveNoHeartbeat`: inductive, given that only living workers write.
- `OutagesEnd`: `DarkInv` says that an outage grows with the time since its tick, and that at the
  tick, when it may be a whole period long, the refresh that ends it is on its way.

For `RateLimit`, any number of clients and overlapping requests, any positive limit for each key
and any length of the window:

- `LimiterTypeCorrect` and `ExpiriesAreSet`, which are inductive together.
- `BurstsAreBounded`: the bound on a window is not inductive. `BurstInv` says that the ticks since
  a counter's expiry was set hold nothing but what that counter has let in, and the whole window
  that and one limit more for each restart. When the key expires, its window has passed and the
  first part becomes the second: the sum over the window is then what one counter has let in,
  to which the next one adds at most a limit. `SumsMove` says how the sums change with a tick.

`ListingsProofs`, for any assessments, rows, labels, page size and number of changes:

- `DetailsAreWhole`: `DetailInv` follows the counts taken so far.
- `RepeatsCountTheHidden`: `WalkInv` says that the pages so far have brought, repeats included,
  as many rows as they have room for, whatever order each query gives to the ties.
- `MissesAreAccountedFor`, `RepeatsAreAccountedFor`: neither is inductive, since a row is missed or
  repeated long after the change that causes it. `ListInv` places every committed row before or
  behind the position up to which the pages have been read (`Front`): rows already read that are
  behind it will come again (`Ahead`) and are paid for by the imports since the list was opened,
  rows not read that are before it will not come (`Passed`) and are paid for by the deletions. An
  import or a deletion moves at most one row over the front (`ListGrows`, `ListShrinks`), which
  needs that no two assessments have the same `created_at` (`RankInv`).

Only model-checked: the liveness properties (`EnqueuedJobSettles`, `LocksEnd`, `SelectedTenantsGo`,
`RefusedGetIn`), since fairness is stated with ENABLED, which the prover does not handle. Every
invariant and every action property of a passing run is a theorem; the three with hypotheses on
the faults, the format or the storage name them (`NoOverlap`, `CheckIsReliable`, `Backend`), and the
runs that check them have constants that satisfy these.

## 6. Not modelled, and why

- Rendering of HTML, PDF and SARIF, the collectors and the detection rules map data to data
  one item at a time and keep no state.
- `beguardit start` is one process that runs its stages in order; its correlation
  (`AttackPaths`) and its upload (`UploadImport`) are modelled. The scheduler edits the text of a
  crontab.
- `partition_maintenance` is one idempotent statement a month. A month lacks its partition when
  the run two months earlier was missed, and nothing makes up for it.
- The auth store of the portal repeats what the server decides on every request; its pages, but
  for the turning of pages in `Listings`, render what the API answers.
- Registration is the initial state of `AuthSessions` and `TenantMembership`; names and tenant
  profiles are written by no two actors in a way that a property could tell apart.
- Logging, request ids and security headers hold no state. Container, proxy and CI files and the
  marketing site hold no program logic.
- Uploads of files that `start.js` did not write (without a UUID or an integrity block) are left
  out of `UploadImport`.
