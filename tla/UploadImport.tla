----------------------------- MODULE UploadImport -----------------------------
(***************************************************************************)
(* How a scan gets into the database: `beguardit upload` and the upload at *)
(* the end of `beguardit start` (cli/src/commands), the upload page of the *)
(* portal, and the handler of upload/router.py with import_assessment.     *)
(*                                                                         *)
(* A request is one execution of upload_assessment; `at` names its next    *)
(* await:                                                                  *)
(*   sent      CSRFMiddleware, then SET NX EX of the scan lock             *)
(*   locked    _verify_integrity and the SELECT for a duplicate            *)
(*   checked   the INSERTs and their COMMIT                                *)
(*   release   DEL of the scan lock in `finally`, then the answer          *)
(* The lock has a TTL and no owner: it can expire under its holder, and    *)
(* the holder's DEL then removes whatever lock is there.                   *)
(***************************************************************************)
EXTENDS Naturals, FiniteSets

CONSTANTS
    Reports,       \* report files; start.js gives each a UUID of its own
    AsciiReports,  \* those whose text, titles of the findings included, is ASCII
    Tenants, Hosts,
    HostOf,        \* the host that was scanned
    Requests,      \* uploads that the API handles at a time
    MaxFaults,     \* crashes, failing statements and lost connections
    MaxOverruns    \* expiries of one lock under imports that follow without a gap

Keys == Tenants \X Hosts

ASSUME ReportsAssumption == AsciiReports \subseteq Reports
ASSUME HostOfAssumption == HostOf \in [Reports -> Hosts]
ASSUME RequestsAssumption == IsFiniteSet(Requests)
ASSUME BoundsAssumption == MaxFaults \in Nat /\ MaxOverruns \in Nat

VARIABLES
    rows,      \* assessment_sessions: which tenant has which report
    lock,      \* the scan locks in Redis
    req,       \* the requests in flight
    cli,       \* a CLI process: its report and how many attempts it has left
    overruns,  \* history: expiries of a lock since imports of its host have
               \* been running without a gap
    stranded,  \* history: locks whose request is gone without its DEL
    faults     \* history: failures so far

vars == <<rows, lock, req, cli, overruns, stranded, faults>>

MaxAttempts == 3    \* MAX_RETRIES of upload.js; start.js tries once

Idle == [at |-> "idle", report |-> "none", tenant |-> "none",
         credential |-> "none", result |-> "none", awaited |-> FALSE]

\* Only a cookie names a session, and with it a tenant.
InFlight ==
    [at : {"sent"}, report : Reports, tenant : {"none"}, credential : {"bearer"},
     result : {"none"}, awaited : BOOLEAN]
    \cup
    [at : {"sent", "locked", "checked", "release"}, report : Reports,
     tenant : Tenants, credential : {"cookie"},
     result : {"none", "created", "duplicate", "mismatch", "error"},
     awaited : {FALSE}]

TypeOK ==
    /\ rows \in SUBSET (Tenants \X Reports)
    /\ lock \in SUBSET Keys
    /\ req \in [Requests -> InFlight \cup {Idle}]
    /\ cli \in [at : {"off", "ready", "waiting", "uploaded", "failed"},
                report : Reports \cup {"none"}, left : 0 .. MaxAttempts]
    /\ overruns \in [Keys -> Nat]
    /\ stranded \in SUBSET Keys
    /\ faults \in 0 .. MaxFaults

Init ==
    /\ rows = {}
    /\ lock = {}
    /\ req = [q \in Requests |-> Idle]
    /\ cli = [at |-> "off", report |-> "none", left |-> 0]
    /\ overruns = [k \in Keys |-> 0]
    /\ stranded = {}
    /\ faults = 0

-----------------------------------------------------------------------------
LockKey(q) == <<req[q].tenant, HostOf[req[q].report]>>

\* The requests between their SET and their DEL.
Importing(k) ==
    {q \in Requests : req[q].at \in {"locked", "checked", "release"} /\ LockKey(q) = k}

\* The import of the request ends; the history is over with the last one.
EndImport(q) ==
    overruns' = IF req[q].at \in {"locked", "checked", "release"} /\ Importing(LockKey(q)) = {q}
                THEN [overruns EXCEPT ![LockKey(q)] = 0] ELSE overruns

Strike ==
    /\ faults < MaxFaults
    /\ faults' = faults + 1

\* An attempt of the CLI is over: it is done, or goes on to its next attempt.
Attempted(success) ==
    cli' = IF success THEN [cli EXCEPT !.at = "uploaded"]
           ELSE [cli EXCEPT !.at = IF cli.left = 1 THEN "failed" ELSE "ready",
                            !.left = @ - 1]

\* The request is over, and its client hears of it unless the connection is lost.
Answer(q, success) ==
    /\ req' = [req EXCEPT ![q] = Idle]
    /\ IF req[q].awaited THEN Attempted(success) ELSE UNCHANGED cli

Goto(q, next, result) ==
    /\ req' = [req EXCEPT ![q].at = next, ![q].result = result]
    /\ UNCHANGED cli

-----------------------------------------------------------------------------
(* The clients *)

\* A user runs `beguardit upload`, or `beguardit start --mode online` ends.
CliBegin(r) ==
    /\ cli.at \in {"off", "failed", "uploaded"}
    /\ \E attempts \in {1, MaxAttempts} :
          cli' = [at |-> "ready", report |-> r, left |-> attempts]
    /\ UNCHANGED <<rows, lock, req, overruns, stranded, faults>>

\* client.js sends a bearer token, no session cookie and no CSRF token.
CliSend(q) ==
    /\ cli.at = "ready" /\ req[q] = Idle
    /\ req' = [req EXCEPT ![q] = [Idle EXCEPT !.at = "sent", !.report = cli.report,
                  !.credential = "bearer", !.awaited = TRUE]]
    /\ cli' = [cli EXCEPT !.at = "waiting"]
    /\ UNCHANGED <<rows, lock, overruns, stranded, faults>>

\* An operator of the tenant uploads the file in the portal, as often as he likes.
PortalSend(q) ==
    /\ req[q] = Idle
    /\ \E r \in Reports, t \in Tenants :
          req' = [req EXCEPT ![q] = [Idle EXCEPT !.at = "sent", !.report = r,
                        !.tenant = t, !.credential = "cookie"]]
    /\ UNCHANGED <<rows, lock, cli, overruns, stranded, faults>>

\* The CLI's fetch fails while the handler goes on.
LoseConnection(q) ==
    /\ req[q].awaited
    /\ Strike
    /\ req' = [req EXCEPT ![q].awaited = FALSE]
    /\ Attempted(FALSE)
    /\ UNCHANGED <<rows, lock, overruns, stranded>>

-----------------------------------------------------------------------------
(* The handler *)

Forbid(q) ==
    /\ req[q].at = "sent" /\ req[q].credential = "bearer"
    /\ Answer(q, FALSE)
    /\ UNCHANGED <<rows, lock, overruns, stranded, faults>>

\* Mutant: SET without NX.
AcquireAlways(q) ==
    /\ req[q].at = "sent" /\ req[q].credential = "cookie"
    /\ lock' = lock \cup {LockKey(q)}
    /\ Goto(q, "locked", "none")
    /\ UNCHANGED <<rows, overruns, stranded, faults>>

Acquire(q) ==
    /\ req[q].at = "sent" /\ req[q].credential = "cookie"
    /\ LockKey(q) \notin lock
    /\ lock' = lock \cup {LockKey(q)}
    /\ Goto(q, "locked", "none")
    /\ UNCHANGED <<rows, overruns, stranded, faults>>

\* Redis sets the lock and its answer is lost: the handler fails before its `try`.
AcquireUnanswered(q) ==
    /\ req[q].at = "sent" /\ req[q].credential = "cookie"
    /\ LockKey(q) \notin lock
    /\ Strike
    /\ lock' = lock \cup {LockKey(q)}
    /\ stranded' = stranded \cup {LockKey(q)}
    /\ Answer(q, FALSE)
    /\ UNCHANGED <<rows, overruns>>

Conflict(q) ==
    /\ req[q].at = "sent" /\ req[q].credential = "cookie"
    /\ LockKey(q) \in lock
    /\ Answer(q, FALSE)
    /\ UNCHANGED <<rows, lock, overruns, stranded, faults>>

\* json.dumps escapes what JSON.stringify leaves as it is, so only the text of
\* ASCII reports hashes as it did in the CLI.
Refusal(q) ==
    CASE req[q].report \notin AsciiReports -> "mismatch"
      [] req[q].report \in AsciiReports
         /\ <<req[q].tenant, req[q].report>> \in rows -> "duplicate"
      [] OTHER -> "none"

\* Mutant: the release is not in a `finally`.
CheckUnprotected(q) ==
    /\ req[q].at = "locked"
    /\ IF Refusal(q) = "none" THEN Goto(q, "checked", "none") ELSE Answer(q, FALSE)
    /\ UNCHANGED <<rows, lock, overruns, stranded, faults>>

\* Mutant: the `try` covers the duplicate check only.
CheckReleasing(q) ==
    /\ req[q].at = "locked"
    /\ Goto(q, IF Refusal(q) = "none" THEN "checked" ELSE "release", Refusal(q))
    /\ lock' = lock \ {LockKey(q)}
    /\ stranded' = stranded \ {LockKey(q)}
    /\ UNCHANGED <<rows, overruns, faults>>

Check(q) ==
    /\ req[q].at = "locked"
    /\ Goto(q, IF Refusal(q) = "none" THEN "checked" ELSE "release", Refusal(q))
    /\ UNCHANGED <<rows, lock, overruns, stranded, faults>>

\* The primary key of assessment_sessions is the report's id alone.
KeyIsTaken(r) == \E t \in Tenants : <<t, r>> \in rows

Import(q) ==
    /\ req[q].at = "checked"
    /\ IF KeyIsTaken(req[q].report)
         THEN Goto(q, "release", "error") /\ UNCHANGED rows
         ELSE /\ rows' = rows \cup {<<req[q].tenant, req[q].report>>}
              /\ Goto(q, "release", "created")
    /\ UNCHANGED <<lock, overruns, stranded, faults>>

\* A statement fails; a COMMIT may have been applied all the same.
DatabaseFails(q) ==
    /\ req[q].at \in {"locked", "checked"}
    /\ Strike
    /\ \/ UNCHANGED rows
       \/ /\ req[q].at = "checked" /\ ~KeyIsTaken(req[q].report)
          /\ rows' = rows \cup {<<req[q].tenant, req[q].report>>}
    /\ Goto(q, "release", "error")
    /\ UNCHANGED <<lock, overruns, stranded>>

Release(q) ==
    /\ req[q].at = "release"
    /\ lock' = lock \ {LockKey(q)}
    /\ stranded' = stranded \ {LockKey(q)}
    /\ Answer(q, req[q].result = "created")
    /\ EndImport(q)
    /\ UNCHANGED <<rows, faults>>

\* The request ends without its DEL: Redis does not answer, or the process dies.
Vanish(q) ==
    /\ req[q].at # "idle"
    /\ Strike
    /\ stranded' = (IF req[q].at = "sent" THEN stranded
                      ELSE stranded \cup ({LockKey(q)} \cap lock))
    /\ Answer(q, FALSE)
    /\ EndImport(q)
    /\ UNCHANGED <<rows, lock>>

-----------------------------------------------------------------------------
(* Redis and the other endpoints *)

\* Mutant: SET without EX.
LockExpiresNever(k) == FALSE /\ UNCHANGED vars

\* The TTL of 60 s passes, maybe under a running import.
LockExpires(k) ==
    /\ k \in lock
    /\ lock' = lock \ {k}
    /\ stranded' = stranded \ {k}
    /\ IF Importing(k) = {} THEN UNCHANGED overruns
       ELSE /\ overruns[k] < MaxOverruns
            /\ overruns' = [overruns EXCEPT ![k] = @ + 1]
    /\ UNCHANGED <<rows, req, cli, faults>>

DeleteAssessment(t, r) ==
    /\ <<t, r>> \in rows
    /\ rows' = rows \ {<<t, r>>}
    /\ UNCHANGED <<lock, req, cli, overruns, stranded, faults>>

RequestStep(q) ==
    \/ Forbid(q) \/ Acquire(q) \/ Conflict(q) \/ Check(q) \/ Import(q) \/ Release(q)

RequestFault(q) ==
    AcquireUnanswered(q) \/ DatabaseFails(q) \/ Vanish(q) \/ LoseConnection(q)

Next ==
    \/ \E r \in Reports : CliBegin(r)
    \/ \E q \in Requests : CliSend(q) \/ PortalSend(q) \/ RequestStep(q) \/ RequestFault(q)
    \/ \E k \in Keys : LockExpires(k)
    \/ \E t \in Tenants, r \in Reports : DeleteAssessment(t, r)

Spec == Init /\ [][Next]_vars

\* A handler goes on from await to await, and Redis observes its TTL.
Fairness ==
    /\ \A q \in Requests : WF_vars(RequestStep(q))
    /\ \A k \in Keys : WF_vars(LockExpires(k))

FairSpec == Spec /\ Fairness

-----------------------------------------------------------------------------
(* Properties *)

\* Imports of one host overlap by no more than the expiries that happened since
\* they have been running without a gap.  One expiry can be enough for long: the
\* overtaken handler deletes the lock of the next one, which passes the surplus
\* on until for once no import of the host is left.
OverlapNeedsExpiry ==
    \A k \in Keys : Cardinality(Importing(k)) <= 1 + overruns[k]

\* A host is refused ("already running") only while an import of it runs, or
\* until the TTL after a request that could not delete its lock.
LockHasReason == \A k \in lock : Importing(k) # {} \/ k \in stranded

\* What the SELECT for a duplicate answered is still so at the INSERT, unless the
\* lock expired under an import: of two uploads of one report in a tenant the
\* later one is told that the assessment exists, and does not run into the
\* primary key, which is a server error.
DuplicateCheckHolds ==
    \A q \in Requests :
        req[q].at = "checked" /\ overruns[LockKey(q)] = 0
            => <<req[q].tenant, req[q].report>> \notin rows

\* No host is blocked for good, not even by a process that died with its lock.
LocksEnd == \A k \in Keys : k \in lock ~> k \notin lock
=============================================================================
