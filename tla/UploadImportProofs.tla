-------------------------- MODULE UploadImportProofs --------------------------
(***************************************************************************)
(* Theorems about UploadImport, for any number of reports, tenants, hosts  *)
(* and overlapping requests, and any number of failures and expiries.      *)
(***************************************************************************)
EXTENDS UploadImport, FiniteSetTheorems, TLAPS

\* One request at most is the one the CLI process waits for, and a process that
\* is not done has an attempt left.
ClientInv ==
    /\ cli.at \in {"ready", "waiting"} => cli.left # 0 /\ cli.report \in Reports
    /\ \A q \in Requests : req[q].awaited => cli.at = "waiting"
    /\ \A p, q \in Requests : req[p].awaited /\ req[q].awaited => p = q

TypeInv == TypeOK /\ ClientInv

Bearer ==
    [at : {"sent"}, report : Reports, tenant : {"none"}, credential : {"bearer"},
     result : {"none"}, awaited : BOOLEAN]
Cookie ==
    [at : {"sent", "locked", "checked", "release"}, report : Reports,
     tenant : Tenants, credential : {"cookie"},
     result : {"none", "created", "duplicate", "mismatch", "error"},
     awaited : {FALSE}]

\* What a request is, from what it is doing.
LEMMA Fields ==
  ASSUME TypeOK, NEW q \in Requests
  PROVE  /\ req[q] = Idle \/ req[q] \in Bearer \/ req[q] \in Cookie
         /\ req[q].at # "idle" => req[q] \in Bearer \cup Cookie
         /\ req[q].at \in {"locked", "checked", "release"} => req[q] \in Cookie
         /\ req[q].credential = "cookie" => req[q] \in Cookie
         /\ req[q].awaited => req[q] \in Bearer
<1>1. req[q] = Idle \/ req[q] \in Bearer \/ req[q] \in Cookie
  BY DEF TypeOK, InFlight, Bearer, Cookie
<1>2. CASE req[q] = Idle
  BY <1>2 DEF Idle
<1>3. CASE req[q] \in Bearer
  BY <1>3 DEF Bearer
<1>4. CASE req[q] \in Cookie
  BY <1>4 DEF Cookie
<1> QED
  BY <1>1, <1>2, <1>3, <1>4

\* A failed attempt leaves the process with one attempt less, or done.
LEMMA AttemptFails ==
  ASSUME TypeOK, cli.left # 0, cli.report \in Reports, Attempted(FALSE)
  PROVE  /\ cli' \in [at : {"off", "ready", "waiting", "uploaded", "failed"},
                     report : Reports \cup {"none"}, left : 0 .. MaxAttempts]
         /\ cli'.at \in {"ready", "waiting"} => cli'.left # 0 /\ cli'.report \in Reports
<1> DEFINE next == IF cli.left = 1 THEN "failed" ELSE "ready"
<1>1. cli.left \in 0 .. 3 /\ cli.left - 1 \in 0 .. 3 /\ (cli.left # 1 => cli.left - 1 # 0)
  BY DEF TypeOK, MaxAttempts
<1>2. cli' = [cli EXCEPT !.at = next, !.left = cli.left - 1]
  BY DEF Attempted
<1>3. cli' = [at |-> next, report |-> cli.report, left |-> cli.left - 1]
  BY <1>2 DEF TypeOK
<1>4. next \in {"failed", "ready"} /\ (next = "ready" => cli.left # 1)
  OBVIOUS
<1> HIDE DEF next
<1> QED
  BY <1>1, <1>3, <1>4 DEF MaxAttempts

LEMMA KeyType ==
  ASSUME TypeOK, NEW q \in Requests, req[q] \in Cookie
  PROVE  LockKey(q) \in Keys
  BY HostOfAssumption DEF LockKey, Keys, Cookie

\* The two ways in which a step writes a request, and what they do to the types.
LEMMA AnswerStep ==
  ASSUME TypeInv, NEW q \in Requests, req[q].at # "idle",
         NEW success \in BOOLEAN, Answer(q, success)
  PROVE  /\ req' = [req EXCEPT ![q] = Idle]
         /\ req' \in [Requests -> InFlight \cup {Idle}]
         /\ cli' \in [at : {"off", "ready", "waiting", "uploaded", "failed"},
                      report : Reports \cup {"none"}, left : 0 .. MaxAttempts]
         /\ ClientInv'
<1> USE DEF TypeInv, TypeOK, Answer, MaxAttempts
<1>1. req' = [req EXCEPT ![q] = Idle] /\ req' \in [Requests -> InFlight \cup {Idle}]
  OBVIOUS
<1>2. \A p \in Requests : req'[p].awaited => p # q /\ req[p].awaited
  BY <1>1 DEF Idle
<1>3. CASE req[q].awaited
  <2>1. cli.at = "waiting" /\ cli.left # 0 /\ cli.report \in Reports
    BY <1>3 DEF ClientInv
  <2>2. \A p \in Requests : ~req'[p].awaited
    BY <1>2, <1>3 DEF ClientInv
  <2>3. /\ cli' \in [at : {"off", "ready", "waiting", "uploaded", "failed"},
                     report : Reports \cup {"none"}, left : 0 .. MaxAttempts]
        /\ cli'.at \in {"ready", "waiting"} => cli'.left # 0 /\ cli'.report \in Reports
    <3>1. CASE success
      BY <1>3, <2>1, <3>1 DEF Attempted
    <3>2. CASE ~success
      <4>1. Attempted(FALSE)
        BY <1>3, <3>2 DEF Attempted
      <4> QED
        BY <2>1, <4>1, AttemptFails
    <3> QED
      BY <3>1, <3>2
  <2> QED
    BY <1>1, <2>2, <2>3 DEF ClientInv
<1>4. CASE ~req[q].awaited
  <2>1. cli' = cli
    BY <1>4
  <2> QED
    BY <1>1, <1>2, <2>1 DEF ClientInv
<1> QED
  BY <1>1, <1>3, <1>4

LEMMA GotoStep ==
  ASSUME TypeInv, NEW q \in Requests, req[q] \in Cookie,
         NEW next \in {"locked", "checked", "release"},
         NEW result \in {"none", "created", "duplicate", "mismatch", "error"},
         Goto(q, next, result)
  PROVE  /\ req' = [req EXCEPT ![q] = [req[q] EXCEPT !.at = next, !.result = result]]
         /\ req'[q] \in Cookie /\ req'[q].at = next
         /\ req'[q].tenant = req[q].tenant /\ req'[q].report = req[q].report
         /\ req' \in [Requests -> InFlight \cup {Idle}]
         /\ cli' = cli
         /\ ClientInv'
<1> USE DEF TypeInv, TypeOK
<1> DEFINE r == [req[q] EXCEPT !.at = next, !.result = result]
<1>1. req' = [req EXCEPT ![q] = r] /\ cli' = cli
  BY DEF Goto
<1>2. r \in Cookie /\ r.at = next /\ r.tenant = req[q].tenant /\ r.report = req[q].report
      /\ ~r.awaited
  BY DEF Cookie
<1>3. r \in InFlight
  BY <1>2 DEF InFlight, Cookie
<1>4. req' \in [Requests -> InFlight \cup {Idle}] /\ req'[q] = r
      /\ \A p \in Requests \ {q} : req'[p] = req[p]
  BY <1>1, <1>3
<1>5. ClientInv'
  BY <1>1, <1>2, <1>4 DEF ClientInv
<1> HIDE DEF r
<1>6. req'[q] = r
  BY <1>4
<1> QED
  BY <1>1, <1>2, <1>4, <1>5, <1>6 DEF r

LEMMA TypeInit == Init => TypeInv
  BY BoundsAssumption DEF Init, TypeInv, TypeOK, ClientInv, Idle, MaxAttempts

LEMMA TypeStep == TypeInv /\ [Next]_vars => TypeInv'
<1> SUFFICES ASSUME TypeInv, [Next]_vars PROVE TypeInv'
  OBVIOUS
<1> USE BoundsAssumption DEF TypeInv
<1>0. TypeOK
  OBVIOUS
<1>1. ASSUME NEW r \in Reports, CliBegin(r) PROVE TypeInv'
  BY <1>1 DEF CliBegin, TypeOK, ClientInv, MaxAttempts
<1>2. ASSUME NEW q \in Requests, CliSend(q) PROVE TypeInv'
  <2> DEFINE r == [Idle EXCEPT !.at = "sent", !.report = cli.report,
                               !.credential = "bearer", !.awaited = TRUE]
  <2>1. r \in InFlight
    BY <1>2 DEF CliSend, ClientInv, Idle, InFlight
  <2>2. req' = [req EXCEPT ![q] = r]
    BY <1>2 DEF CliSend
  <2>3. req' \in [Requests -> InFlight \cup {Idle}]
    BY <2>1, <2>2 DEF TypeOK
  <2>4. \A p \in Requests : ~req[p].awaited
    BY <1>2 DEF CliSend, ClientInv
  <2>5. ClientInv'
    BY <1>2, <2>2, <2>3, <2>4 DEF CliSend, ClientInv, TypeOK
  <2> QED
    BY <1>2, <2>3, <2>5 DEF CliSend, TypeOK
<1>3. ASSUME NEW q \in Requests, PortalSend(q) PROVE TypeInv'
  <2>1. PICK r \in Reports, t \in Tenants :
          req' = [req EXCEPT ![q] = [Idle EXCEPT !.at = "sent", !.report = r,
                        !.tenant = t, !.credential = "cookie"]]
    BY <1>3 DEF PortalSend
  <2> DEFINE x == [Idle EXCEPT !.at = "sent", !.report = r,
                        !.tenant = t, !.credential = "cookie"]
  <2>2. x \in InFlight /\ ~x.awaited
    BY DEF Idle, InFlight
  <2>3. req' \in [Requests -> InFlight \cup {Idle}]
        /\ \A p \in Requests : req'[p].awaited => req[p].awaited
    BY <2>1, <2>2 DEF TypeOK
  <2> QED
    BY <1>3, <2>3 DEF PortalSend, TypeOK, ClientInv
<1>4. ASSUME NEW q \in Requests, LoseConnection(q) PROVE TypeInv'
  <2> DEFINE x == [req[q] EXCEPT !.awaited = FALSE]
  <2>1. x \in InFlight /\ ~x.awaited
    BY <1>0, <1>4, Fields DEF LoseConnection, Bearer, InFlight
  <2>2. req' = [req EXCEPT ![q] = x]
    BY <1>4 DEF LoseConnection
  <2>3. req' \in [Requests -> InFlight \cup {Idle}]
        /\ \A p \in Requests : ~req'[p].awaited
    BY <1>4, <2>1, <2>2 DEF TypeOK, ClientInv, LoseConnection
  <2>4. cli.left # 0 /\ cli.report \in Reports
    BY <1>4 DEF ClientInv, LoseConnection
  <2>5. /\ cli' \in [at : {"off", "ready", "waiting", "uploaded", "failed"},
                     report : Reports \cup {"none"}, left : 0 .. MaxAttempts]
        /\ cli'.at \in {"ready", "waiting"} => cli'.left # 0 /\ cli'.report \in Reports
    BY <1>0, <1>4, <2>4, AttemptFails DEF LoseConnection
  <2> QED
    BY <1>4, <2>3, <2>5 DEF LoseConnection, Strike, TypeOK, ClientInv
<1>5. ASSUME NEW q \in Requests, Forbid(q) \/ Conflict(q) PROVE TypeInv'
  <2>1. req[q].at # "idle" /\ Answer(q, FALSE)
    BY <1>5 DEF Forbid, Conflict
  <2> QED
    BY <1>5, <2>1, AnswerStep DEF Forbid, Conflict, TypeOK
<1>6. ASSUME NEW q \in Requests, Acquire(q) PROVE TypeInv'
  <2>1. req[q] \in Cookie /\ Goto(q, "locked", "none")
    BY <1>0, <1>6, Fields DEF Acquire
  <2>2. LockKey(q) \in Keys
    BY <1>0, <2>1, KeyType
  <2> QED
    BY <1>6, <2>1, <2>2, GotoStep DEF Acquire, TypeOK
<1>7. ASSUME NEW q \in Requests, AcquireUnanswered(q) PROVE TypeInv'
  <2>1. req[q] \in Cookie /\ req[q].at # "idle" /\ Answer(q, FALSE)
    BY <1>0, <1>7, Fields DEF AcquireUnanswered
  <2>2. LockKey(q) \in Keys
    BY <1>0, <2>1, KeyType
  <2>3. /\ req' \in [Requests -> InFlight \cup {Idle}] /\ ClientInv'
        /\ cli' \in [at : {"off", "ready", "waiting", "uploaded", "failed"},
                     report : Reports \cup {"none"}, left : 0 .. MaxAttempts]
    BY <2>1, AnswerStep
  <2> QED
    BY <1>7, <2>2, <2>3 DEF AcquireUnanswered, Strike, TypeOK
<1>8. ASSUME NEW q \in Requests, Check(q) PROVE TypeInv'
  <2>1. req[q] \in Cookie
    BY <1>0, <1>8, Fields DEF Check
  <2>2. Refusal(q) \in {"none", "duplicate", "mismatch"}
    BY DEF Refusal
  <2> QED
    BY <1>8, <2>1, <2>2, GotoStep DEF Check, TypeOK
<1>9. ASSUME NEW q \in Requests, Import(q) \/ DatabaseFails(q) PROVE TypeInv'
  <2>1. req[q] \in Cookie
    BY <1>0, <1>9, Fields DEF Import, DatabaseFails
  <2>2. PICK result \in {"error", "created"} : Goto(q, "release", result)
    BY <1>9 DEF Import, DatabaseFails
  <2>3. rows' \in SUBSET (Tenants \X Reports)
    BY <1>9, <2>1 DEF Import, DatabaseFails, Cookie, TypeOK
  <2>4. /\ req' \in [Requests -> InFlight \cup {Idle}] /\ cli' = cli /\ ClientInv'
    BY <2>1, <2>2, GotoStep
  <2> QED
    BY <1>9, <2>3, <2>4 DEF Import, DatabaseFails, Strike, TypeOK
<1>10. ASSUME NEW q \in Requests, Release(q) \/ Vanish(q) PROVE TypeInv'
  <2>1. PICK success \in BOOLEAN : Answer(q, success)
    BY <1>10 DEF Release, Vanish
  <2>2. req[q].at # "idle"
    BY <1>10 DEF Release, Vanish
  <2>3. lock' \in SUBSET Keys /\ stranded' \in SUBSET Keys
    BY <1>10 DEF Release, Vanish, TypeOK
  <2>4. /\ req' \in [Requests -> InFlight \cup {Idle}] /\ ClientInv'
        /\ cli' \in [at : {"off", "ready", "waiting", "uploaded", "failed"},
                     report : Reports \cup {"none"}, left : 0 .. MaxAttempts]
    BY <2>1, <2>2, AnswerStep
  <2>5. rows' = rows /\ faults' \in 0 .. MaxFaults
    <3>1. rows' = rows /\ (faults' = faults \/ Strike)
      BY <1>10 DEF Release, Vanish
    <3> QED
      BY <3>1 DEF Strike, TypeOK
  <2>6. overruns' \in [Keys -> Nat]
    <3>1. EndImport(q) /\ overruns \in [Keys -> Nat]
      BY <1>10 DEF Release, Vanish, TypeOK
    <3> QED
      BY <3>1 DEF EndImport
  <2> QED
    BY <2>3, <2>4, <2>5, <2>6 DEF TypeOK
<1>11. ASSUME NEW k \in Keys, LockExpires(k) PROVE TypeInv'
  BY <1>11 DEF LockExpires, TypeOK, ClientInv
<1>12. ASSUME NEW t \in Tenants, NEW r \in Reports, DeleteAssessment(t, r) PROVE TypeInv'
  BY <1>12 DEF DeleteAssessment, TypeOK, ClientInv
<1>13. CASE UNCHANGED vars
  BY <1>13 DEF vars, TypeOK, ClientInv
<1> QED
  BY <1>1, <1>2, <1>3, <1>4, <1>5, <1>6, <1>7, <1>8, <1>9, <1>10, <1>11, <1>12, <1>13
     DEF Next, RequestStep, RequestFault

\* The variables keep their types whatever clients, handlers and failures do.
THEOREM TypeCorrect == Spec => []TypeOK
<1>1. Spec => []TypeInv
  BY TypeInit, TypeStep, PTL DEF Spec
<1>2. TypeInv => TypeOK
  BY DEF TypeInv
<1> QED
  BY <1>1, <1>2, PTL

-----------------------------------------------------------------------------
(* The scan lock *)

\* Every import under way without the lock was paid for by an expiry.  A DEL
\* takes its own import away with the lock, whosever that lock is, so it leaves
\* the balance as it was.
Balance == \A k \in Keys :
    Cardinality(Importing(k)) <= overruns[k] + (IF k \in lock THEN 1 ELSE 0)

LockInv == TypeInv /\ Balance /\ LockHasReason

Inside == {"locked", "checked", "release"}

LEMMA ImportingFinite ==
  ASSUME NEW k PROVE IsFiniteSet(Importing(k)) /\ Cardinality(Importing(k)) \in Nat
<1>1. Importing(k) \in SUBSET Requests
  BY DEF Importing
<1> QED
  BY <1>1, RequestsAssumption, FS_Subset, FS_CardinalityType

\* A request that ends no longer imports.
LEMMA Leaves ==
  ASSUME TypeOK, NEW q \in Requests, req' = [req EXCEPT ![q] = Idle], NEW k
  PROVE  Importing(k)' = Importing(k) \ {q}
<1>1. \A p \in Requests \ {q} : req'[p] = req[p]
  BY DEF TypeOK
<1>2. req'[q].at = "idle"
  BY DEF TypeOK, Idle
<1> QED
  BY <1>1, <1>2 DEF Importing, LockKey

\* A request that goes on to another await imports what it did.
LEMMA Stays ==
  ASSUME TypeOK, NEW q \in Requests, NEW r,
         req' = [req EXCEPT ![q] = r],
         r.tenant = req[q].tenant, r.report = req[q].report,
         r.at \in Inside <=> req[q].at \in Inside, NEW k
  PROVE  Importing(k)' = Importing(k)
<1>1. \A p \in Requests \ {q} : req'[p] = req[p]
  BY DEF TypeOK
<1>2. req'[q] = r
  BY DEF TypeOK
<1> QED
  BY <1>1, <1>2 DEF Importing, LockKey, Inside

\* A request before its lock imports nothing.
LEMMA StaysOut ==
  ASSUME TypeOK, NEW q \in Requests, req[q].at \notin Inside, NEW r,
         req' = [req EXCEPT ![q] = r], r.at \notin Inside, NEW k
  PROVE  Importing(k)' = Importing(k)
<1>1. \A p \in Requests \ {q} : req'[p] = req[p]
  BY DEF TypeOK
<1>2. req'[q] = r
  BY DEF TypeOK
<1> QED
  BY <1>1, <1>2 DEF Importing, LockKey, Inside

\* The history of a host begins anew only when no import of it is left.
LEMMA HistoryEnds ==
  ASSUME TypeOK, NEW q \in Requests, req' = [req EXCEPT ![q] = Idle], EndImport(q),
         NEW k \in Keys
  PROVE  \/ overruns'[k] = overruns[k]
         \/ overruns'[k] = 0 /\ Importing(k)' = {}
<1>1. Importing(k)' = Importing(k) \ {q}
  BY Leaves
<1>2. CASE k = LockKey(q) /\ Importing(k) = {q}
  <2>1. overruns'[k] = 0 \/ overruns'[k] = overruns[k]
    BY <1>2 DEF EndImport, TypeOK
  <2> QED
    BY <1>1, <1>2, <2>1
<1>3. CASE ~(k = LockKey(q) /\ Importing(k) = {q})
  BY <1>3 DEF EndImport, TypeOK
<1> QED
  BY <1>2, <1>3

LEMMA LockInit == Init => LockInv
<1> SUFFICES ASSUME Init PROVE LockInv
  OBVIOUS
<1>1. \A k \in Keys : Importing(k) = {}
  BY DEF Init, Importing, Idle
<1>2. Balance
  BY <1>1, FS_EmptySet DEF Balance, Init
<1> QED
  BY <1>2, TypeInit DEF Init, LockInv, LockHasReason

LEMMA LockStep == LockInv /\ [Next]_vars => LockInv'
<1> SUFFICES ASSUME LockInv, [Next]_vars PROVE (Balance /\ LockHasReason)'
  BY TypeStep DEF LockInv
<1>0. TypeOK /\ TypeInv /\ Balance /\ LockHasReason
  BY DEF LockInv, TypeInv
<1>1. ASSUME \A k \in Keys : Importing(k)' = Importing(k),
             lock' = lock, overruns' = overruns, stranded' = stranded
      PROVE  (Balance /\ LockHasReason)'
  BY <1>0, <1>1 DEF Balance, LockHasReason, TypeOK
<1>2. ASSUME NEW r \in Reports, CliBegin(r) PROVE (Balance /\ LockHasReason)'
  BY <1>1, <1>2 DEF CliBegin, Importing, LockKey
<1>3. ASSUME NEW q \in Requests, CliSend(q) \/ PortalSend(q)
      PROVE  (Balance /\ LockHasReason)'
  <2>1. req[q].at \notin Inside
    <3>1. req[q] = Idle
      BY <1>3 DEF CliSend, PortalSend
    <3> QED
      BY <3>1 DEF Idle, Inside
  <2>2. PICK r : req' = [req EXCEPT ![q] = r] /\ r.at = "sent"
    <3>1. CASE CliSend(q)
      <4> DEFINE r == [Idle EXCEPT !.at = "sent", !.report = cli.report,
                                   !.credential = "bearer", !.awaited = TRUE]
      <4>1. r.at = "sent"
        BY DEF Idle
      <4> QED
        BY <3>1, <4>1 DEF CliSend
    <3>2. CASE PortalSend(q)
      <4>1. PICK x \in Reports, t \in Tenants :
              req' = [req EXCEPT ![q] = [Idle EXCEPT !.at = "sent", !.report = x,
                        !.tenant = t, !.credential = "cookie"]]
        BY <3>2 DEF PortalSend
      <4> DEFINE r == [Idle EXCEPT !.at = "sent", !.report = x,
                        !.tenant = t, !.credential = "cookie"]
      <4>2. r.at = "sent"
        BY DEF Idle
      <4> QED
        BY <4>1, <4>2
    <3> QED
      BY <1>3, <3>1, <3>2
  <2>3. \A k \in Keys : Importing(k)' = Importing(k)
    BY <1>0, <2>1, <2>2, StaysOut DEF Inside
  <2> QED
    BY <1>1, <1>3, <2>3 DEF CliSend, PortalSend
<1>4. ASSUME NEW q \in Requests, LoseConnection(q) PROVE (Balance /\ LockHasReason)'
  <2> DEFINE r == [req[q] EXCEPT !.awaited = FALSE]
  <2>1. req[q] \in Bearer
    BY <1>0, <1>4, Fields DEF LoseConnection
  <2>2. r.at \notin Inside /\ req[q].at \notin Inside
    BY <2>1 DEF Bearer, Inside
  <2>3. req' = [req EXCEPT ![q] = r]
    BY <1>4 DEF LoseConnection
  <2>4. \A k \in Keys : Importing(k)' = Importing(k)
    BY <1>0, <2>2, <2>3, StaysOut
  <2> QED
    BY <1>1, <1>4, <2>4 DEF LoseConnection
<1>5. ASSUME NEW q \in Requests, Forbid(q) \/ Conflict(q)
      PROVE  (Balance /\ LockHasReason)'
  <2>1. req[q].at \notin Inside /\ req' = [req EXCEPT ![q] = Idle]
    BY <1>5 DEF Forbid, Conflict, Answer, Inside
  <2>2. \A k \in Keys : Importing(k)' = Importing(k)
    BY <1>0, <2>1, StaysOut DEF Idle, Inside
  <2> QED
    BY <1>1, <1>5, <2>2 DEF Forbid, Conflict
<1>6. ASSUME NEW q \in Requests, Acquire(q) PROVE (Balance /\ LockHasReason)'
  <2>1. req[q] \in Cookie /\ Goto(q, "locked", "none")
    BY <1>0, <1>6, Fields DEF Acquire
  <2>2. /\ req' = [req EXCEPT ![q] = [req[q] EXCEPT !.at = "locked", !.result = "none"]]
        /\ req'[q].at = "locked"
        /\ req'[q].tenant = req[q].tenant /\ req'[q].report = req[q].report
    BY <1>0, <2>1, GotoStep
  <2>3. \A p \in Requests \ {q} : req'[p] = req[p]
    BY <1>0, <2>2 DEF TypeOK
  <2>4. \A k \in Keys : Importing(k)' =
            IF k = LockKey(q) THEN Importing(k) \cup {q} ELSE Importing(k)
    BY <1>6, <2>2, <2>3 DEF Acquire, Importing, LockKey
  <2>5. LockKey(q) \notin lock /\ lock' = lock \cup {LockKey(q)}
        /\ overruns' = overruns /\ stranded' = stranded
    BY <1>6 DEF Acquire
  <2>6. LockKey(q) \in Keys
    BY <1>0, <2>1, KeyType
  <2>7. Cardinality(Importing(LockKey(q)) \cup {q}) <= Cardinality(Importing(LockKey(q))) + 1
    <3> DEFINE S == Importing(LockKey(q))
    <3>1. IsFiniteSet(S) /\ Cardinality(S) \in Nat
      BY ImportingFinite
    <3> HIDE DEF S
    <3>2. Cardinality(S \cup {q}) <= Cardinality(S) + 1
      BY <3>1, FS_AddElement
    <3> QED
      BY <3>2 DEF S
  <2>8. Balance'
    <3> SUFFICES ASSUME NEW k \in Keys
                 PROVE  Cardinality(Importing(k)') <= overruns'[k] + (IF k \in lock' THEN 1 ELSE 0)
      BY DEF Balance
    <3>1. overruns[k] \in Nat /\ Cardinality(Importing(k)) \in Nat
          /\ Cardinality(Importing(k) \cup {q}) \in Nat
      BY <1>0, ImportingFinite, FS_AddElement, FS_CardinalityType DEF TypeOK
    <3>2. CASE k = LockKey(q)
      BY <1>0, <2>4, <2>5, <2>7, <3>1, <3>2 DEF Balance
    <3>3. CASE k # LockKey(q)
      BY <1>0, <2>4, <2>5, <3>3 DEF Balance
    <3> QED
      BY <3>2, <3>3
  <2>9. LockHasReason'
    <3> SUFFICES ASSUME NEW k \in lock' PROVE Importing(k)' # {} \/ k \in stranded'
      BY DEF LockHasReason
    <3>1. CASE k = LockKey(q)
      BY <2>4, <2>6, <3>1
    <3>2. CASE k # LockKey(q)
      <4>1. k \in lock /\ k \in Keys
        BY <1>0, <2>5, <3>2 DEF TypeOK
      <4> QED
        BY <1>0, <2>4, <2>5, <3>2, <4>1 DEF LockHasReason
    <3> QED
      BY <3>1, <3>2
  <2> QED
    BY <2>8, <2>9
<1>7. ASSUME NEW q \in Requests, AcquireUnanswered(q) PROVE (Balance /\ LockHasReason)'
  <2>1. req[q].at \notin Inside /\ req' = [req EXCEPT ![q] = Idle]
    BY <1>7 DEF AcquireUnanswered, Answer, Inside
  <2>2. \A k \in Keys : Importing(k)' = Importing(k)
    BY <1>0, <2>1, StaysOut DEF Idle, Inside
  <2>3. lock' = lock \cup {LockKey(q)} /\ stranded' = stranded \cup {LockKey(q)}
        /\ overruns' = overruns
    BY <1>7 DEF AcquireUnanswered
  <2>4. \A k \in Keys : Cardinality(Importing(k)) \in Nat /\ overruns[k] \in Nat
    BY <1>0, ImportingFinite DEF TypeOK
  <2>5. Balance'
    BY <1>0, <2>2, <2>3, <2>4 DEF Balance
  <2> QED
    BY <1>0, <2>2, <2>3, <2>5 DEF LockHasReason, TypeOK
<1>8. ASSUME NEW q \in Requests, Check(q) \/ Import(q) \/ DatabaseFails(q)
      PROVE  (Balance /\ LockHasReason)'
  <2>1. req[q] \in Cookie /\ req[q].at \in Inside
    BY <1>0, <1>8, Fields DEF Check, Import, DatabaseFails, Inside
  <2>2. Refusal(q) \in {"none", "duplicate", "mismatch"}
    BY DEF Refusal
  <2>3. PICK next \in {"locked", "checked", "release"},
             result \in {"none", "created", "duplicate", "mismatch", "error"} :
             Goto(q, next, result)
    BY <1>8, <2>2 DEF Check, Import, DatabaseFails, Inside
  <2> DEFINE r == [req[q] EXCEPT !.at = next, !.result = result]
  <2>4. req' = [req EXCEPT ![q] = r]
    BY <1>0, <2>3 DEF Goto, TypeOK
  <2>5. r.at \in Inside /\ r.tenant = req[q].tenant /\ r.report = req[q].report
    BY <2>1 DEF Cookie, Inside
  <2>6. \A k \in Keys : Importing(k)' = Importing(k)
    BY <1>0, <2>1, <2>4, <2>5, Stays
  <2> QED
    BY <1>1, <1>8, <2>6 DEF Check, Import, DatabaseFails
<1>9. ASSUME NEW q \in Requests, Release(q) PROVE (Balance /\ LockHasReason)'
  <2>1. /\ req[q].at \in Inside /\ req' = [req EXCEPT ![q] = Idle]
        /\ lock' = lock \ {LockKey(q)} /\ stranded' = stranded \ {LockKey(q)}
        /\ EndImport(q)
    BY <1>9 DEF Release, Answer, Inside
  <2>2. \A k \in Keys : Importing(k)' = Importing(k) \ {q}
    BY <1>0, <2>1, Leaves
  <2>3. \A k \in Keys : k # LockKey(q) => q \notin Importing(k)
    BY DEF Importing
  <2>4. q \in Importing(LockKey(q))
    BY <2>1 DEF Importing, Inside
  <2>5. Cardinality(Importing(LockKey(q)) \ {q}) = Cardinality(Importing(LockKey(q))) - 1
    BY <2>4, ImportingFinite, FS_RemoveElement
  <2>6. \A k \in Keys : k # LockKey(q) => Importing(k)' = Importing(k)
    BY <2>2, <2>3
  <2>7. Balance'
    <3> SUFFICES ASSUME NEW k \in Keys
                 PROVE  Cardinality(Importing(k)') <= overruns'[k] + (IF k \in lock' THEN 1 ELSE 0)
      BY DEF Balance
    <3>1. overruns[k] \in Nat /\ Cardinality(Importing(k)) \in Nat
      BY <1>0, ImportingFinite DEF TypeOK
    <3>2. CASE Importing(k)' = {} /\ overruns'[k] = 0
      BY <3>2, FS_EmptySet
    <3>3. CASE k = LockKey(q) /\ overruns'[k] = overruns[k]
      <4>1. Cardinality(Importing(k)') = Cardinality(Importing(k)) - 1
        BY <2>2, <2>5, <3>3
      <4>2. k \notin lock'
        BY <2>1, <3>3
      <4>3. Cardinality(Importing(k)) <= overruns[k] + 1
        BY <1>0, <3>1 DEF Balance
      <4> QED
        BY <3>1, <3>3, <4>1, <4>2, <4>3
    <3>4. CASE k # LockKey(q) /\ overruns'[k] = overruns[k]
      BY <1>0, <2>1, <2>6, <3>4 DEF Balance
    <3>5. overruns'[k] = overruns[k] \/ (overruns'[k] = 0 /\ Importing(k)' = {})
      BY <1>0, <2>1, HistoryEnds
    <3> QED
      BY <3>2, <3>3, <3>4, <3>5
  <2>8. LockHasReason'
    BY <1>0, <2>1, <2>6 DEF LockHasReason, TypeOK
  <2> QED
    BY <2>7, <2>8
<1>10. ASSUME NEW q \in Requests, Vanish(q) PROVE (Balance /\ LockHasReason)'
  <2>1. req' = [req EXCEPT ![q] = Idle] /\ lock' = lock /\ EndImport(q)
        /\ req[q].at # "idle"
    BY <1>10 DEF Vanish, Answer
  <2>2. \A k \in Keys : Importing(k)' = Importing(k) \ {q}
    BY <1>0, <2>1, Leaves
  <2>3. \A k \in Keys : Cardinality(Importing(k) \ {q}) <= Cardinality(Importing(k))
                        /\ Cardinality(Importing(k) \ {q}) \in Nat
                        /\ Cardinality(Importing(k)) \in Nat /\ overruns[k] \in Nat
    BY <1>0, ImportingFinite, FS_Subset, FS_CardinalityType DEF TypeOK
  <2>4. Balance'
    <3> SUFFICES ASSUME NEW k \in Keys
                 PROVE  Cardinality(Importing(k)') <= overruns'[k] + (IF k \in lock' THEN 1 ELSE 0)
      BY DEF Balance
    <3>1. CASE overruns'[k] = overruns[k]
      BY <1>0, <2>1, <2>2, <2>3, <3>1 DEF Balance
    <3>2. CASE Importing(k)' = {} /\ overruns'[k] = 0
      BY <3>2, FS_EmptySet
    <3> QED
      BY <1>0, <2>1, <3>1, <3>2, HistoryEnds
  <2>5. LockHasReason'
    <3> SUFFICES ASSUME NEW k \in lock PROVE Importing(k)' # {} \/ k \in stranded'
      BY <2>1 DEF LockHasReason
    <3>1. stranded \subseteq stranded' /\ k \in Keys
      BY <1>0, <1>10 DEF Vanish, TypeOK
    <3>2. CASE q \in Importing(k)
      <4>1. req[q].at # "sent" /\ LockKey(q) = k
        BY <3>2 DEF Importing
      <4> QED
        BY <1>10, <4>1 DEF Vanish
    <3>3. CASE q \notin Importing(k)
      BY <1>0, <2>2, <3>1, <3>3 DEF LockHasReason
    <3> QED
      BY <3>2, <3>3
  <2> QED
    BY <2>4, <2>5
<1>11. ASSUME NEW x \in Keys, LockExpires(x) PROVE (Balance /\ LockHasReason)'
  <2>1. /\ x \in lock /\ lock' = lock \ {x} /\ stranded' = stranded \ {x}
        /\ \A k \in Keys : Importing(k)' = Importing(k)
    BY <1>11 DEF LockExpires, Importing, LockKey
  <2>2. Balance'
    <3> SUFFICES ASSUME NEW k \in Keys
                 PROVE  Cardinality(Importing(k)') <= overruns'[k] + (IF k \in lock' THEN 1 ELSE 0)
      BY DEF Balance
    <3>1. overruns[k] \in Nat /\ Cardinality(Importing(k)) \in Nat
      BY <1>0, ImportingFinite DEF TypeOK
    <3>2. CASE k # x
      <4>1. overruns'[k] = overruns[k]
        BY <1>0, <1>11, <3>2 DEF LockExpires, TypeOK
      <4> QED
        BY <1>0, <2>1, <3>2, <4>1 DEF Balance
    <3>3. CASE k = x /\ Importing(x) = {}
      <4>1. overruns' = overruns /\ Cardinality(Importing(k)) = 0
        BY <1>11, <3>3, FS_EmptySet DEF LockExpires
      <4> QED
        BY <2>1, <3>1, <3>3, <4>1
    <3>4. CASE k = x /\ Importing(x) # {}
      <4>1. overruns'[k] = overruns[k] + 1
        BY <1>0, <1>11, <3>4 DEF LockExpires, TypeOK
      <4> QED
        BY <1>0, <2>1, <3>1, <3>4, <4>1 DEF Balance
    <3> QED
      BY <3>2, <3>3, <3>4
  <2>3. LockHasReason'
    BY <1>0, <2>1 DEF LockHasReason, TypeOK
  <2> QED
    BY <2>2, <2>3
<1>12. ASSUME NEW t \in Tenants, NEW r \in Reports, DeleteAssessment(t, r)
       PROVE  (Balance /\ LockHasReason)'
  BY <1>1, <1>12 DEF DeleteAssessment, Importing, LockKey
<1>13. CASE UNCHANGED vars
  BY <1>1, <1>13 DEF vars, Importing, LockKey
<1> QED
  BY <1>2, <1>3, <1>4, <1>5, <1>6, <1>7, <1>8, <1>9, <1>10, <1>11, <1>12, <1>13
     DEF Next, RequestStep, RequestFault

\* However many requests overlap, whatever fails: the scan lock keeps the imports
\* of a host apart up to the expiries since they run without a gap, and no further.
THEOREM ExpiriesBoundOverlap == Spec => []OverlapNeedsExpiry
<1>1. Spec => []LockInv
  BY LockInit, LockStep, PTL DEF Spec
<1>2. LockInv => OverlapNeedsExpiry
  <2> SUFFICES ASSUME LockInv, NEW k \in Keys
               PROVE  Cardinality(Importing(k)) <= 1 + overruns[k]
    BY DEF OverlapNeedsExpiry
  <2>1. overruns[k] \in Nat /\ Cardinality(Importing(k)) \in Nat
    BY ImportingFinite DEF LockInv, TypeInv, TypeOK
  <2> QED
    BY <2>1 DEF LockInv, Balance
<1> QED
  BY <1>1, <1>2, PTL

\* A host is refused only while it is imported or after a request that ended
\* without its DEL.
THEOREM LocksHaveReasons == Spec => []LockHasReason
<1>1. Spec => []LockInv
  BY LockInit, LockStep, PTL DEF Spec
<1>2. LockInv => LockHasReason
  BY DEF LockInv
<1> QED
  BY <1>1, <1>2, PTL

-----------------------------------------------------------------------------
(* The duplicate check *)

\* Without an expiry no two requests import one host.
LEMMA ImportsAlone ==
  ASSUME LockInv, NEW p \in Requests, NEW q \in Requests, p # q,
         req[p].at \in Inside, req[q].at \in Inside, LockKey(p) = LockKey(q)
  PROVE  overruns[LockKey(p)] # 0
<1> DEFINE S == Importing(LockKey(p))
<1>1. {p, q} \subseteq S
  BY DEF Importing, Inside
<1>2. IsFiniteSet(S) /\ Cardinality(S) \in Nat
  BY ImportingFinite
<1>3. TypeOK /\ Balance
  BY DEF LockInv, TypeInv
<1>4. LockKey(p) \in Keys
  BY <1>3, Fields, KeyType DEF Inside
<1>5. Cardinality(S) <= overruns[LockKey(p)] + 1
  BY <1>3, <1>4, <1>2 DEF Balance, TypeOK
<1> HIDE DEF S
<1>6. Cardinality({p, q}) <= Cardinality(S)
  BY <1>1, <1>2, FS_Subset
<1>7. Cardinality({p, q}) = 2
  <2>1. IsFiniteSet({p}) /\ Cardinality({p}) = 1
    BY FS_Singleton
  <2> DEFINE T == {p}
  <2>2. IsFiniteSet(T) /\ Cardinality(T) = 1 /\ q \notin T
    BY <2>1
  <2> HIDE DEF T
  <2>3. Cardinality(T \cup {q}) = Cardinality(T) + 1
    BY <2>2, FS_AddElement
  <2>4. T \cup {q} = {p, q}
    BY DEF T
  <2> QED
    BY <2>2, <2>3, <2>4
<1> QED
  BY <1>2, <1>3, <1>4, <1>5, <1>6, <1>7 DEF TypeOK

\* A step that adds no row, resets no history of a checked request and brings
\* no new request to this point keeps the answers true.
LEMMA AnswersStay ==
  ASSUME DuplicateCheckHolds, rows' \subseteq rows,
         \A p \in Requests : req'[p].at = "checked" =>
             /\ req[p].at = "checked" /\ LockKey(p)' = LockKey(p)
             /\ req'[p].tenant = req[p].tenant /\ req'[p].report = req[p].report
             /\ overruns'[LockKey(p)] = 0 => overruns[LockKey(p)] = 0
  PROVE  DuplicateCheckHolds'
BY DEF DuplicateCheckHolds

LEMMA DuplicateStep ==
  LockInv /\ DuplicateCheckHolds /\ [Next]_vars => DuplicateCheckHolds'
<1> SUFFICES ASSUME LockInv, DuplicateCheckHolds, [Next]_vars
             PROVE  DuplicateCheckHolds'
  OBVIOUS
<1>0. TypeOK /\ TypeInv
  BY DEF LockInv, TypeInv
<1>1. ASSUME NEW q \in Requests, NEW r, req' = [req EXCEPT ![q] = r], r.at # "checked",
             rows' \subseteq rows, overruns' = overruns
      PROVE  DuplicateCheckHolds'
  <2>1. \A p \in Requests : req'[p].at = "checked" => p # q /\ req'[p] = req[p]
    BY <1>0, <1>1 DEF TypeOK
  <2> QED
    BY <1>1, <2>1, AnswersStay DEF LockKey
<1>2. ASSUME req' = req, rows' \subseteq rows, overruns' = overruns
      PROVE  DuplicateCheckHolds'
  BY <1>2, AnswersStay DEF LockKey
<1>3. ASSUME NEW r \in Reports, CliBegin(r) PROVE DuplicateCheckHolds'
  BY <1>2, <1>3 DEF CliBegin
<1>4. ASSUME NEW q \in Requests, CliSend(q) PROVE DuplicateCheckHolds'
  <2>1. [Idle EXCEPT !.at = "sent", !.report = cli.report,
                     !.credential = "bearer", !.awaited = TRUE].at # "checked"
    BY DEF Idle
  <2> QED
    BY <1>1, <1>4, <2>1 DEF CliSend
<1>5. ASSUME NEW q \in Requests, PortalSend(q) PROVE DuplicateCheckHolds'
  <2>1. PICK x \in Reports, t \in Tenants :
          req' = [req EXCEPT ![q] = [Idle EXCEPT !.at = "sent", !.report = x,
                    !.tenant = t, !.credential = "cookie"]]
    BY <1>5 DEF PortalSend
  <2>2. [Idle EXCEPT !.at = "sent", !.report = x,
                     !.tenant = t, !.credential = "cookie"].at # "checked"
    BY DEF Idle
  <2> QED
    BY <1>1, <1>5, <2>1, <2>2 DEF PortalSend
<1>6. ASSUME NEW q \in Requests, LoseConnection(q) PROVE DuplicateCheckHolds'
  <2> DEFINE r == [req[q] EXCEPT !.awaited = FALSE]
  <2>1. req[q] \in Bearer
    BY <1>0, <1>6, Fields DEF LoseConnection
  <2>2. r.at # "checked"
    BY <2>1 DEF Bearer
  <2>3. req' = [req EXCEPT ![q] = r]
    BY <1>6 DEF LoseConnection
  <2> QED
    BY <1>1, <1>6, <2>2, <2>3 DEF LoseConnection
<1>7. ASSUME NEW q \in Requests, Forbid(q) \/ Conflict(q) \/ AcquireUnanswered(q)
      PROVE  DuplicateCheckHolds'
  <2>1. req' = [req EXCEPT ![q] = Idle] /\ Idle.at # "checked"
    BY <1>7 DEF Forbid, Conflict, AcquireUnanswered, Answer, Idle
  <2> QED
    BY <1>1, <1>7, <2>1 DEF Forbid, Conflict, AcquireUnanswered
<1>8. ASSUME NEW q \in Requests, Acquire(q) PROVE DuplicateCheckHolds'
  <2>1. req[q] \in Cookie /\ Goto(q, "locked", "none")
    BY <1>0, <1>8, Fields DEF Acquire
  <2> DEFINE r == [req[q] EXCEPT !.at = "locked", !.result = "none"]
  <2>2. req' = [req EXCEPT ![q] = r]
    BY <2>1 DEF Goto
  <2>3. r.at # "checked"
    BY <2>1 DEF Cookie
  <2> QED
    BY <1>1, <1>8, <2>2, <2>3 DEF Acquire
<1>9. ASSUME NEW q \in Requests, Check(q) PROVE DuplicateCheckHolds'
  <2>1. req[q] \in Cookie
    BY <1>0, <1>9, Fields DEF Check
  <2>2. PICK next \in {"checked", "release"},
             result \in {"none", "duplicate", "mismatch"} :
             Goto(q, next, result) /\ (next = "checked" => Refusal(q) = "none")
    BY <1>9 DEF Check, Refusal
  <2>3. /\ req'[q].at = next /\ req'[q].tenant = req[q].tenant
        /\ req'[q].report = req[q].report
        /\ \A p \in Requests \ {q} : req'[p] = req[p]
    <3>1. /\ req'[q].at = next /\ req'[q].tenant = req[q].tenant
          /\ req'[q].report = req[q].report
      BY <1>0, <2>1, <2>2, GotoStep
    <3>2. \A p \in Requests \ {q} : req'[p] = req[p]
      BY <1>0, <2>2 DEF Goto, TypeOK
    <3> QED
      BY <3>1, <3>2
  <2>4. Refusal(q) = "none" => <<req[q].tenant, req[q].report>> \notin rows
    BY DEF Refusal
  <2>5. rows' = rows /\ overruns' = overruns
    BY <1>9 DEF Check
  <2> QED
    BY <2>2, <2>3, <2>4, <2>5 DEF DuplicateCheckHolds, LockKey
<1>10. ASSUME NEW q \in Requests, Import(q) \/ DatabaseFails(q)
       PROVE  DuplicateCheckHolds'
  <2>1. req[q] \in Cookie /\ req[q].at \in {"locked", "checked"}
    BY <1>0, <1>10, Fields DEF Import, DatabaseFails
  <2>2. PICK result \in {"error", "created"} : Goto(q, "release", result)
    BY <1>10 DEF Import, DatabaseFails
  <2>3. req'[q].at = "release" /\ \A p \in Requests \ {q} : req'[p] = req[p]
    <3>1. req'[q].at = "release"
      BY <1>0, <2>1, <2>2, GotoStep
    <3>2. \A p \in Requests \ {q} : req'[p] = req[p]
      BY <1>0, <2>2 DEF Goto, TypeOK
    <3> QED
      BY <3>1, <3>2
  <2>4. /\ rows' \subseteq rows \cup {<<req[q].tenant, req[q].report>>}
        /\ overruns' = overruns
    BY <1>10 DEF Import, DatabaseFails
  <2> SUFFICES ASSUME NEW p \in Requests, req'[p].at = "checked",
                      overruns'[LockKey(p)'] = 0
               PROVE  <<req'[p].tenant, req'[p].report>> \notin rows'
    BY DEF DuplicateCheckHolds
  <2>5. p # q /\ req'[p] = req[p] /\ LockKey(p)' = LockKey(p)
    BY <2>3 DEF LockKey
  <2>6. overruns[LockKey(p)] = 0 /\ <<req[p].tenant, req[p].report>> \notin rows
    BY <2>4, <2>5 DEF DuplicateCheckHolds
  <2>7. LockKey(p) # LockKey(q)
    BY <2>1, <2>5, <2>6, ImportsAlone DEF Inside
  <2>8. req[p].tenant # req[q].tenant \/ req[p].report # req[q].report
    BY <2>7 DEF LockKey
  <2> QED
    BY <2>4, <2>5, <2>6, <2>8
<1>11. ASSUME NEW q \in Requests, Release(q) \/ Vanish(q) PROVE DuplicateCheckHolds'
  <2>1. req' = [req EXCEPT ![q] = Idle] /\ EndImport(q) /\ rows' = rows
    BY <1>11 DEF Release, Vanish, Answer
  <2>2. ASSUME NEW p \in Requests, req'[p].at = "checked"
        PROVE  /\ req'[p] = req[p] /\ LockKey(p)' = LockKey(p)
               /\ overruns'[LockKey(p)] = 0 => overruns[LockKey(p)] = 0
    <3>1. p # q /\ req'[p] = req[p] /\ LockKey(p)' = LockKey(p)
      BY <1>0, <2>1, <2>2 DEF TypeOK, Idle, LockKey
    <3>2. LockKey(p) \in Keys
      BY <1>0, <2>2, <3>1, Fields, KeyType
    <3>3. p \in Importing(LockKey(p))'
      BY <2>2, <3>1 DEF Importing
    <3> QED
      BY <1>0, <2>1, <3>1, <3>2, <3>3, HistoryEnds
  <2> QED
    BY <2>1, <2>2, AnswersStay
<1>12. ASSUME NEW k \in Keys, LockExpires(k) PROVE DuplicateCheckHolds'
  <2>1. req' = req /\ rows' = rows
    BY <1>12 DEF LockExpires
  <2>2. \A x \in Keys : overruns'[x] = 0 => overruns[x] = 0
    BY <1>0, <1>12 DEF LockExpires, TypeOK
  <2>3. \A p \in Requests : req[p].at = "checked" => LockKey(p) \in Keys
    BY <1>0, Fields, KeyType
  <2> QED
    BY <2>1, <2>2, <2>3, AnswersStay DEF LockKey
<1>13. ASSUME NEW t \in Tenants, NEW r \in Reports, DeleteAssessment(t, r)
       PROVE  DuplicateCheckHolds'
  BY <1>2, <1>13 DEF DeleteAssessment
<1>14. CASE UNCHANGED vars
  BY <1>2, <1>14 DEF vars
<1> QED
  BY <1>3, <1>4, <1>5, <1>6, <1>7, <1>8, <1>9, <1>10, <1>11, <1>12, <1>13, <1>14
     DEF Next, RequestStep, RequestFault

\* What an import has been told of duplicates stays true until it commits, for
\* any number of overlapping uploads, unless the lock expires under one of them.
THEOREM DuplicateChecksHold == Spec => []DuplicateCheckHolds
<1>1. Init => DuplicateCheckHolds
  BY DEF Init, DuplicateCheckHolds
<1>2. Spec => [](LockInv /\ DuplicateCheckHolds)
  BY <1>1, LockInit, LockStep, DuplicateStep, PTL DEF Spec
<1> QED
  BY <1>2, PTL
=============================================================================
