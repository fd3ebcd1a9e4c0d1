------------------------ MODULE TenantMembershipProofs ------------------------
(***************************************************************************)
(* Theorems about TenantMembership, for any number of users, tenants and   *)
(* requests in flight.                                                     *)
(***************************************************************************)
EXTENDS TenantMembership, FiniteSetTheorems, TLAPS

\* What the commit of a request relies on is typed by its operation.
Planned(q) ==
    /\ req[q].at = "checked" /\ req[q].op # "delete" => req[q].target \in Users
    /\ req[q].at = "checked" /\ req[q].op \in {"add", "delete"} => req[q].roleTo \in Roles
    /\ req[q].at = "checked" /\ req[q].writes # {} /\ req[q].op \in {"role", "user"} =>
          req[q].roleTo \in Roles
    /\ req[q].at = "checked" /\ req[q].accountTo = "inactive" => req[q].op = "user"

TypeInv == TypeOK /\ \A q \in Requests : Planned(q)

\* A request that has read is a record with the fields of InFlight.
LEMMA InFlightFields ==
  ASSUME TypeOK, NEW q \in Requests, req[q].at \in {"loaded", "checked"}
  PROVE  req[q] \in InFlight
  BY DEF TypeOK, Idle, Logging

LEMMA TypeInit == Init => TypeInv
  BY RolesAssumption DEF Init, TypeInv, TypeOK, Planned, Idle, Unloaded

LEMMA TypeStep == TypeInv /\ [Next]_vars => TypeInv'
<1> SUFFICES ASSUME TypeInv, [Next]_vars PROVE TypeInv'
  OBVIOUS
<1> USE DEF TypeInv, TypeOK
<1>0. overtaken' \in SUBSET Requests
  BY DEF Next, Overtake, vars
<1> USE <1>0
<1>1. ASSUME NEW q \in Requests, NEW r \in InFlight \cup {Idle, Logging},
             req' = [req EXCEPT ![q] = r],
             r.at = "checked" =>
                /\ r.op # "delete" => r.target \in Users
                /\ r.op \in {"add", "delete"} => r.roleTo \in Roles
                /\ r.writes # {} /\ r.op \in {"role", "user"} => r.roleTo \in Roles
                /\ r.accountTo = "inactive" => r.op = "user"
      PROVE  req' \in [Requests -> InFlight \cup {Idle, Logging}] /\ \A p \in Requests : Planned(p)'
  BY <1>1 DEF Planned
<1>2. ASSUME NEW q \in Requests, Authenticate(q) PROVE TypeInv'
  <2>1. PICK t \in Tenants, actor \in Users, o \in Operations :
            req' = [req EXCEPT ![q] =
                        [Idle EXCEPT !.at = "loaded", !.op = o, !.tenant = t,
                            !.actor = actor, !.seen = role[t],
                            !.seenAccount = [u \in Users |->
                                IF u \in Members(t) THEN account[u] ELSE "none"]]]
    BY <1>2 DEF Authenticate
  <2> DEFINE r == [Idle EXCEPT !.at = "loaded", !.op = o, !.tenant = t,
                            !.actor = actor, !.seen = role[t],
                            !.seenAccount = [u \in Users |->
                                IF u \in Members(t) THEN account[u] ELSE "none"]]
  <2>2. r \in InFlight
    BY DEF Idle, InFlight
  <2>3. r.at = "loaded"
    BY DEF Idle
  <2> QED
    BY <1>1, <1>2, <2>1, <2>2, <2>3 DEF Authenticate
<1>3. ASSUME NEW q \in Requests, req[q].at = "loaded",
             NEW u \in Users \cup {"none"}, NEW ws \in SUBSET Users,
             NEW rl \in Roles \cup {"none"}, NEW ac \in {"active", "inactive", "none"},
             Plan(q, u, ws, rl, ac),
             req[q].op # "delete" => u \in Users,
             req[q].op \in {"add", "delete"} => rl \in Roles,
             ws # {} /\ req[q].op \in {"role", "user"} => rl \in Roles,
             ac = "inactive" => req[q].op = "user"
      PROVE  TypeInv'
  <2> DEFINE r == [req[q] EXCEPT !.at = "checked", !.seen = Unloaded,
                            !.seenAccount = Unloaded, !.target = u, !.writes = ws,
                            !.roleTo = rl, !.accountTo = ac]
  <2>1. req[q] \in InFlight
    BY <1>3, InFlightFields
  <2>2. r \in InFlight
    BY <2>1 DEF InFlight, Unloaded
  <2>3. req' = [req EXCEPT ![q] = r]
    BY <1>3 DEF Plan
  <2>4. /\ r.op = req[q].op /\ r.target = u /\ r.roleTo = rl /\ r.writes = ws
        /\ r.accountTo = ac
    BY <2>1 DEF InFlight
  <2>5. \A p \in Requests : Planned(p)'
    BY <1>1, <1>3, <2>2, <2>3, <2>4
  <2>6. req' \in [Requests -> InFlight \cup {Idle, Logging}]
    BY <2>2, <2>3
  <2> QED
    BY <1>3, <2>5, <2>6 DEF Plan
<1>4. ASSUME NEW q \in Requests, CheckAdd(q) PROVE TypeInv'
  BY <1>3, <1>4 DEF CheckAdd
<1>5. ASSUME NEW q \in Requests, req[q].at = "loaded", req[q].op \in {"role", "user"},
             NEW u \in Users,
             NEW rl \in Roles \cup {"none"}, NEW ac \in {"active", "inactive", "none"},
             PlanUpdate(q, u, rl, ac), ac = "inactive" => req[q].op = "user"
      PROVE  TypeInv'
  <2>1. PICK ws \in {{}, {u}}, to \in Roles \cup {"none"},
             acTo \in {"active", "inactive", "none"} :
          /\ Plan(q, u, ws, to, acTo)
          /\ ws # {} => to \in Roles
          /\ acTo = "inactive" => req[q].op = "user"
    BY <1>5 DEF PlanUpdate
  <2>2. u \in Users \cup {"none"} /\ ws \in SUBSET Users
    BY <1>5, <2>1
  <2>3. req[q].op \notin {"add", "delete"}
    BY <1>5
  <2> HIDE DEF TypeInv
  <2> QED
    BY <1>3, <1>5, <2>1, <2>2, <2>3
<1>6. ASSUME NEW q \in Requests, CheckRole(q) PROVE TypeInv'
  BY <1>5, <1>6 DEF CheckRole, Members
<1>7. ASSUME NEW q \in Requests, CheckRemove(q) PROVE TypeInv'
  BY <1>3, <1>7 DEF CheckRemove, Members
<1>8. ASSUME NEW q \in Requests, CheckUser(q) PROVE TypeInv'
  BY <1>5, <1>8 DEF CheckUser, Members
<1>9. ASSUME NEW q \in Requests, CheckDelete(q) PROVE TypeInv'
  BY <1>3, <1>9, RolesAssumption DEF CheckDelete, Members
<1>10. ASSUME NEW q \in Requests, Finish(q)
       PROVE  /\ req' \in [Requests -> InFlight \cup {Idle, Logging}]
              /\ \A p \in Requests : Planned(p)'
  <2> DEFINE r == IF req[q].op \in AdminApi THEN Logging ELSE Idle
  <2>2. r \in {Idle, Logging} /\ r.at # "checked"
    BY DEF Idle, Logging
  <2>3. req' = [req EXCEPT ![q] = r]
    BY <1>10 DEF Finish
  <2> QED
    BY <1>1, <2>2, <2>3
<1>11. ASSUME NEW q \in Requests, CommitAdd(q) PROVE TypeInv'
  <2>1. req[q] \in InFlight
    BY <1>11, InFlightFields DEF CommitAdd
  <2>2. req[q].tenant \in Tenants /\ req[q].target \in Users /\ req[q].roleTo \in Roles
    BY <1>11, <2>1 DEF CommitAdd, InFlight, Planned
  <2>3. role' \in [Tenants -> [Users -> Roles \cup {"none"}]]
    BY <1>11, <2>2 DEF CommitAdd
  <2> QED
    BY <1>10, <1>11, <2>3 DEF CommitAdd
<1>12. ASSUME NEW q \in Requests, CommitUpdate(q) PROVE TypeInv'
  <2>1. req[q] \in InFlight
    BY <1>12, InFlightFields DEF CommitUpdate
  <2>2. req[q].writes # {} => req[q].roleTo \in Roles
    BY <1>12 DEF CommitUpdate, Planned
  <2>3. req[q].tenant \in Tenants /\ req[q].accountTo \in {"active", "inactive", "none"}
    BY <2>1 DEF InFlight
  <2>4. role' \in [Tenants -> [Users -> Roles \cup {"none"}]]
    BY <1>12, <2>2, <2>3 DEF CommitUpdate
  <2>5. account' \in [Users -> {"active", "inactive"}]
    BY <1>12, <2>3 DEF CommitUpdate
  <2> QED
    BY <1>10, <1>12, <2>4, <2>5 DEF CommitUpdate
<1>13. ASSUME NEW q \in Requests, CommitRemove(q) PROVE TypeInv'
  <2>1. req[q] \in InFlight
    BY <1>13, InFlightFields DEF CommitRemove
  <2>2. req[q].tenant \in Tenants /\ req[q].target \in Users
    BY <1>13, <2>1 DEF CommitRemove, InFlight, Planned
  <2>3. Idle.at = "idle"
    BY DEF Idle
  <2>4. CASE req[q].writes = {}
    <3>1. req' = [req EXCEPT ![q] = Idle]
      BY <1>13, <2>4 DEF CommitRemove
    <3>2. req' \in [Requests -> InFlight \cup {Idle, Logging}] /\ \A p \in Requests : Planned(p)'
      BY <1>1, <2>3, <3>1
    <3> QED
      BY <1>13, <2>4, <3>2 DEF CommitRemove
  <2>5. CASE req[q].writes # {}
    <3> DEFINE s(p) == WithoutRow(req[p], req[q].tenant, req[q].target)
    <3>1. ASSUME NEW p \in Requests
          PROVE  /\ s(p) \in InFlight \cup {Idle, Logging}
                 /\ s(p).at = req[p].at /\ s(p).op = req[p].op
                 /\ s(p).target = req[p].target /\ s(p).roleTo = req[p].roleTo
                 /\ s(p).writes \subseteq req[p].writes
                 /\ s(p).accountTo = req[p].accountTo
      <4>1. CASE req[p] \in InFlight
        BY <2>2, <4>1 DEF WithoutRow, InFlight
      <4>2. CASE req[p] \in {Idle, Logging}
        <5>1. req[p].tenant # req[q].tenant
          BY <2>2, <4>2, TenantsAssumption DEF Idle, Logging
        <5> QED
          BY <4>2, <5>1 DEF WithoutRow
      <4> QED
        BY <4>1, <4>2
    <3>2. req' = [p \in Requests |-> IF p = q THEN Idle ELSE s(p)]
      BY <1>13, <2>5 DEF CommitRemove
    <3>3. req' \in [Requests -> InFlight \cup {Idle, Logging}]
      BY <3>1, <3>2
    <3>4. ASSUME NEW p \in Requests PROVE Planned(p)'
      BY <2>3, <3>1, <3>2 DEF Planned
    <3>5. role' \in [Tenants -> [Users -> Roles \cup {"none"}]]
      BY <1>13, <2>2, <2>5 DEF CommitRemove
    <3> QED
      BY <1>13, <3>3, <3>4, <3>5 DEF CommitRemove
  <2> QED
    BY <2>4, <2>5
<1>14. ASSUME NEW q \in Requests, CommitDelete(q) PROVE TypeInv'
  <2>1. req[q] \in InFlight
    BY <1>14, InFlightFields DEF CommitDelete
  <2>2. req[q].tenant \in Tenants
    BY <2>1 DEF InFlight
  <2>3. role' \in [Tenants -> [Users -> Roles \cup {"none"}]]
    BY <1>14, <2>2, RolesAssumption DEF CommitDelete
  <2>4. deleted' \in SUBSET Tenants
    BY <1>14, <2>2 DEF CommitDelete
  <2> QED
    BY <1>10, <1>14, <2>3, <2>4 DEF CommitDelete
<1>15. ASSUME NEW q \in Requests, LogEntry(q) \/ Abort(q) PROVE TypeInv'
  <2>3. Idle.at = "idle" /\ req' = [req EXCEPT ![q] = Idle]
    BY <1>15 DEF LogEntry, Abort, Idle
  <2>4. req' \in [Requests -> InFlight \cup {Idle, Logging}] /\ \A p \in Requests : Planned(p)'
    BY <1>1, <2>3
  <2> QED
    BY <1>15, <2>4 DEF LogEntry, Abort
<1>16. CASE UNCHANGED vars
  BY <1>16 DEF vars, tables, Planned
<1> QED
  BY <1>2, <1>4, <1>6, <1>7, <1>8, <1>9, <1>11, <1>12, <1>13, <1>14, <1>15, <1>16
     DEF Next, Check, Commit

\* Every variable keeps its type, however many requests overlap.
THEOREM TypeCorrect == Spec => []TypeOK
<1>1. TypeInv => TypeOK
  BY DEF TypeInv
<1> QED
  BY <1>1, TypeInit, TypeStep, PTL DEF Spec

-----------------------------------------------------------------------------
\* The rows a request is going to write are there: a removal takes its row from
\* the plan of every other request.
PlannedRowsExist ==
    \A q \in Requests :
        req[q].at = "checked" => req[q].writes \subseteq Members(req[q].tenant)

RowInv == TypeInv /\ PlannedRowsExist

\* The statement of RemovedStaysOut about one step.
NoResurrection ==
    \A t \in Tenants, u \in Users :
        role[t][u] = "none" /\ role'[t][u] # "none" =>
           \E q \in Requests :
              /\ req[q].at = "checked" /\ req[q].op = "add"
              /\ req[q].tenant = t /\ req[q].target = u

LEMMA RowInit == Init => RowInv
<1>1. Idle.at = "idle"
  BY DEF Idle
<1> QED
  BY <1>1, TypeInit DEF Init, RowInv, PlannedRowsExist

LEMMA RowStep == RowInv /\ [Next]_vars => RowInv' /\ NoResurrection
<1> SUFFICES ASSUME RowInv, [Next]_vars PROVE PlannedRowsExist' /\ NoResurrection
  BY TypeStep DEF RowInv
<1>0. TypeInv /\ TypeInv' /\ TypeOK /\ TypeOK' /\ PlannedRowsExist
  BY TypeStep DEF RowInv, TypeInv
<1> DEFINE Goal == PlannedRowsExist' /\ NoResurrection
\* No membership goes, and one request changes.
<1>1. ASSUME NEW q \in Requests, NEW r, req' = [req EXCEPT ![q] = r],
             \A t \in Tenants, u \in Users : role[t][u] # "none" => role'[t][u] # "none",
             r.at = "checked" => r.tenant \in Tenants /\ r.writes \subseteq Members(r.tenant)
      PROVE  PlannedRowsExist'
  <2> SUFFICES ASSUME NEW p \in Requests, req'[p].at = "checked", NEW u \in req'[p].writes
               PROVE  u \in Users /\ role'[req'[p].tenant][u] # "none"
    BY DEF PlannedRowsExist, Members
  <2>1. CASE p = q
    BY <1>0, <1>1, <2>1 DEF Members, TypeOK
  <2>2. CASE p # q
    <3>1. req'[p] = req[p]
      BY <1>0, <1>1, <2>2 DEF TypeOK
    <3>2. req[p] \in InFlight
      BY <1>0, <3>1, InFlightFields
    <3>3. req[p].tenant \in Tenants /\ req[p].writes \subseteq Members(req[p].tenant)
      BY <1>0, <3>1, <3>2 DEF PlannedRowsExist, InFlight
    <3> QED
      BY <1>1, <3>1, <3>3 DEF Members
  <2> QED
    BY <2>1, <2>2
<1>2. ASSUME NEW q \in Requests, Authenticate(q) PROVE Goal
  <2>1. PICK r : req' = [req EXCEPT ![q] = r] /\ r.at = "loaded"
    <3>1. PICK t \in Tenants, actor \in Users, o \in Operations :
            req' = [req EXCEPT ![q] =
                        [Idle EXCEPT !.at = "loaded", !.op = o, !.tenant = t,
                            !.actor = actor, !.seen = role[t],
                            !.seenAccount = [u \in Users |->
                                IF u \in Members(t) THEN account[u] ELSE "none"]]]
      BY <1>2 DEF Authenticate
    <3> DEFINE r == [Idle EXCEPT !.at = "loaded", !.op = o, !.tenant = t,
                            !.actor = actor, !.seen = role[t],
                            !.seenAccount = [u \in Users |->
                                IF u \in Members(t) THEN account[u] ELSE "none"]]
    <3>2. r.at = "loaded"
      BY DEF Idle
    <3> QED
      BY <3>1, <3>2
  <2> QED
    BY <1>1, <1>2, <2>1 DEF Authenticate, NoResurrection
<1>3. ASSUME NEW q \in Requests, req[q].at = "loaded",
             NEW u, NEW ws, NEW rl, NEW ac, Plan(q, u, ws, rl, ac),
             ws \subseteq Members(req[q].tenant)
      PROVE  Goal
  <2> DEFINE r == [req[q] EXCEPT !.at = "checked", !.seen = Unloaded,
                            !.seenAccount = Unloaded, !.target = u, !.writes = ws,
                            !.roleTo = rl, !.accountTo = ac]
  <2>1. req[q] \in InFlight
    BY <1>0, <1>3, InFlightFields
  <2>2. r.tenant = req[q].tenant /\ r.tenant \in Tenants /\ r.writes = ws
    BY <2>1 DEF InFlight
  <2>3. req' = [req EXCEPT ![q] = r]
    BY <1>3 DEF Plan
  <2> HIDE DEF r
  <2> QED
    BY <1>1, <1>3, <2>2, <2>3 DEF Plan, NoResurrection
<1>4. ASSUME NEW q \in Requests, req[q].at = "loaded",
             NEW u \in Members(req[q].tenant), NEW rl, NEW ac, PlanUpdate(q, u, rl, ac)
      PROVE  Goal
  BY <1>3, <1>4 DEF PlanUpdate
<1>5. ASSUME NEW q \in Requests, Check(q) PROVE Goal
  <2>1. CASE CheckAdd(q)
    BY <1>3, <2>1 DEF CheckAdd
  <2>2. CASE CheckRole(q)
    BY <1>4, <2>2 DEF CheckRole
  <2>3. CASE CheckRemove(q)
    BY <1>3, <2>3 DEF CheckRemove
  <2>4. CASE CheckUser(q)
    BY <1>4, <2>4 DEF CheckUser
  <2>5. CASE CheckDelete(q)
    BY <1>3, <2>5 DEF CheckDelete
  <2> QED
    BY <1>5, <2>1, <2>2, <2>3, <2>4, <2>5 DEF Check
<1>6. ASSUME NEW q \in Requests, Finish(q),
             \A t \in Tenants, u \in Users : role[t][u] # "none" => role'[t][u] # "none"
      PROVE  PlannedRowsExist'
  <2> DEFINE r == IF req[q].op \in AdminApi THEN Logging ELSE Idle
  <2>2. r.at # "checked" /\ req' = [req EXCEPT ![q] = r]
    BY <1>6 DEF Finish, Logging, Idle
  <2> HIDE DEF r
  <2> QED
    BY <1>1, <1>6, <2>2
<1>7. ASSUME NEW q \in Requests, CommitAdd(q) PROVE Goal
  <2>0. PICK t, x, rl : t = req[q].tenant /\ x = req[q].target /\ rl = req[q].roleTo
    OBVIOUS
  <2>1. t \in Tenants /\ x \in Users /\ rl \in Roles
    BY <1>0, <1>7, <2>0, InFlightFields DEF CommitAdd, InFlight, TypeInv, Planned
  <2>2. role' = [role EXCEPT ![t][x] = rl]
    BY <1>7, <2>0 DEF CommitAdd
  <2>3. \A s \in Tenants, u \in Users :
            role'[s][u] = (IF s = t /\ u = x THEN rl ELSE role[s][u])
    BY <1>0, <2>1, <2>2 DEF TypeOK
  <2>4. PlannedRowsExist'
    BY <1>6, <1>7, <2>1, <2>3, RolesAssumption DEF CommitAdd
  <2>5. NoResurrection
    BY <1>7, <2>0, <2>3 DEF CommitAdd, NoResurrection
  <2> QED
    BY <2>4, <2>5
\* The commit of an update gives a role to members only.
<1>8. ASSUME NEW q \in Requests, req[q].at = "checked", Finish(q), NEW rl \in Roles \cup {"none"},
             req[q].writes # {} => rl \in Roles,
             role' = [role EXCEPT ![req[q].tenant] = [u \in Users |->
                   IF u \in req[q].writes THEN rl ELSE role[req[q].tenant][u]]]
      PROVE  Goal
  <2>0. PICK t, ws : t = req[q].tenant /\ ws = req[q].writes
    OBVIOUS
  <2>1. t \in Tenants /\ ws \subseteq Members(t)
    BY <1>0, <1>8, <2>0, InFlightFields DEF InFlight, PlannedRowsExist
  <2>2. \A s \in Tenants, u \in Users :
            role'[s][u] = (IF s = t /\ u \in ws THEN rl ELSE role[s][u])
    BY <1>0, <1>8, <2>0, <2>1 DEF TypeOK
  <2>3. \A s \in Tenants, u \in Users : role[s][u] # "none" <=> role'[s][u] # "none"
    BY <1>8, <2>0, <2>1, <2>2, RolesAssumption DEF Members
  <2> QED
    BY <1>6, <1>8, <2>3 DEF NoResurrection
<1>9. ASSUME NEW q \in Requests, CommitUpdate(q) PROVE Goal
  <2>1. req[q].roleTo \in Roles \cup {"none"}
    BY <1>0, <1>9, InFlightFields DEF CommitUpdate, InFlight
  <2>2. req[q].writes # {} => req[q].roleTo \in Roles
    BY <1>0, <1>9 DEF CommitUpdate, TypeInv, Planned
  <2> QED
    BY <1>8, <1>9, <2>1, <2>2 DEF CommitUpdate
<1>10. ASSUME NEW q \in Requests, CommitDelete(q) PROVE Goal
  BY <1>8, <1>10, RolesAssumption DEF CommitDelete
<1>11. ASSUME NEW q \in Requests, CommitRemove(q) PROVE Goal
  <2>0. PICK t, x : t = req[q].tenant /\ x = req[q].target
    OBVIOUS
  <2>1. t \in Tenants /\ x \in Users
    BY <1>0, <1>11, <2>0, InFlightFields DEF CommitRemove, InFlight, TypeInv, Planned
  <2>2. CASE req[q].writes = {}
    BY <1>1, <1>11, <2>2 DEF CommitRemove, Idle, NoResurrection
  <2>3. CASE req[q].writes # {}
    <3>1. role' = [role EXCEPT ![t][x] = "none"]
      BY <1>11, <2>0, <2>3 DEF CommitRemove
    <3>2. \A s \in Tenants, u \in Users :
              role'[s][u] = (IF s = t /\ u = x THEN "none" ELSE role[s][u])
      BY <1>0, <2>1, <3>1 DEF TypeOK
    <3>3. req' = [p \in Requests |-> IF p = q THEN Idle ELSE WithoutRow(req[p], t, x)]
      BY <1>11, <2>0, <2>3 DEF CommitRemove
    <3>4. ASSUME NEW p \in Requests, req'[p].at = "checked"
          PROVE  \A u \in req'[p].writes : u \in Users /\ role'[req'[p].tenant][u] # "none"
      <4>1. p # q /\ req'[p] = WithoutRow(req[p], t, x)
        BY <3>3, <3>4 DEF Idle
      <4>2. req[p].at \in {"loaded", "checked"}
        <5>1. CASE req[p] \in {Idle, Logging}
          BY <2>1, <3>4, <4>1, <5>1, TenantsAssumption DEF WithoutRow, Idle, Logging
        <5>2. CASE req[p] \in InFlight
          BY <5>2 DEF InFlight
        <5> QED
          BY <1>0, <5>1, <5>2 DEF TypeOK
      <4>3. req[p] \in InFlight
        BY <1>0, <4>2, InFlightFields
      <4>4. /\ req'[p].tenant = req[p].tenant
            /\ req[p].at = "checked"
            /\ req'[p].writes = (IF req[p].tenant = t THEN req[p].writes \ {x}
                                                     ELSE req[p].writes)
        BY <3>4, <4>1, <4>3 DEF WithoutRow, InFlight
      <4>5. req[p].tenant \in Tenants /\ req[p].writes \subseteq Members(req[p].tenant)
        BY <1>0, <4>3, <4>4 DEF PlannedRowsExist, InFlight
      <4> QED
        BY <3>2, <4>4, <4>5 DEF Members
    <3>5. PlannedRowsExist'
      BY <3>4 DEF PlannedRowsExist, Members
    <3>6. NoResurrection
      BY <3>2 DEF NoResurrection
    <3> QED
      BY <3>5, <3>6
  <2> QED
    BY <2>2, <2>3
<1>12. ASSUME NEW q \in Requests, LogEntry(q) \/ Abort(q) PROVE Goal
  BY <1>1, <1>12 DEF LogEntry, Abort, Idle, NoResurrection
<1>13. CASE UNCHANGED vars
  BY <1>0, <1>13 DEF vars, tables, PlannedRowsExist, NoResurrection, Members
<1> QED
  BY <1>2, <1>5, <1>7, <1>9, <1>10, <1>11, <1>12, <1>13 DEF Next, Commit

\* However many requests overlap, a removed member is never written back.
THEOREM RemovedMembersStayOut == Spec => RemovedStaysOut
<1>1. RowInv /\ [Next]_vars => [NoResurrection]_vars
  BY RowStep
<1> QED
  BY <1>1, RowInit, RowStep, PTL DEF Spec, RemovedStaysOut, NoResurrection

-----------------------------------------------------------------------------
\* A request that no other has overtaken acts for an admin of its tenant, sees the
\* roles of the tenant as they are, and has planned nothing that leaves the tenant
\* without an admin or without an active one.
UpToDate(q) ==
    req[q].at \in {"loaded", "checked"} =>
        /\ req[q].actor \in Admins(req[q].tenant)
        /\ req[q].at = "loaded" => req[q].seen = role[req[q].tenant]
        /\ req[q].at = "checked" =>
              /\ req[q].op \in {"role", "user"} /\ req[q].roleTo # "admin" =>
                    \E a \in Admins(req[q].tenant) : a \notin req[q].writes
              /\ req[q].op = "remove" => req[q].target # req[q].actor
              /\ req[q].op = "delete" =>
                    \A u \in Members(req[q].tenant) :
                        u \in req[q].writes \/ role[req[q].tenant][u] = "viewer"
              /\ req[q].accountTo = "inactive" =>
                    ActiveAdmins(req[q].tenant) # {req[q].target}

CurrentInv == TypeInv /\ \A q \in Requests \ overtaken : UpToDate(q)

Step(q) == Authenticate(q) \/ Check(q) \/ Commit(q) \/ LogEntry(q) \/ Abort(q)

\* More than one element means that there is another one.
LEMMA AnotherOne ==
  ASSUME NEW S, IsFiniteSet(S), Cardinality(S) > 1, NEW u
  PROVE  \E a \in S : a # u
<1> SUFFICES ASSUME S \subseteq {u} PROVE FALSE
  OBVIOUS
<1>1. IsFiniteSet({u}) /\ Cardinality({u}) = 1
  BY FS_Singleton
<1>2. Cardinality(S) <= 1
  BY <1>1, FS_Subset
<1>3. Cardinality(S) \in Nat
  BY FS_CardinalityType
<1> QED
  BY <1>2, <1>3

\* A step of one request changes the record of another only by taking a row away.
LEMMA OtherRecords ==
  ASSUME TypeInv, NEW p \in Requests, NEW q \in Requests, p # q, Step(p)
  PROVE  \/ req'[q] = req[q]
         \/ /\ req[p].tenant \in Tenants /\ req[p].target \in Users
            /\ role' = [role EXCEPT ![req[p].tenant][req[p].target] = "none"]
            /\ req'[q] = WithoutRow(req[q], req[p].tenant, req[p].target)
<1>0. TypeOK
  BY DEF TypeInv
<1>1. CASE CommitRemove(p)
  <2>1. req[p].tenant \in Tenants /\ req[p].target \in Users
    BY <1>0, <1>1, InFlightFields DEF CommitRemove, TypeInv, Planned, InFlight
  <2> QED
    BY <1>0, <1>1, <2>1 DEF CommitRemove, TypeOK
<1>2. CASE Check(p)
  BY <1>0, <1>2 DEF Check, CheckAdd, CheckRole, CheckRemove, CheckUser, CheckDelete,
     PlanUpdate, Plan, TypeOK
<1>3. CASE CommitAdd(p) \/ CommitUpdate(p) \/ CommitDelete(p)
  BY <1>0, <1>3 DEF CommitAdd, CommitUpdate, CommitDelete, Finish, TypeOK
<1>4. CASE Authenticate(p) \/ LogEntry(p) \/ Abort(p)
  BY <1>0, <1>4 DEF Authenticate, LogEntry, Abort, TypeOK
<1> QED
  BY <1>1, <1>2, <1>3, <1>4 DEF Step, Commit

\* A step of another request overtakes this one or leaves what it relies on.
LEMMA OthersStay ==
  ASSUME CurrentInv, NEW p \in Requests, NEW q \in Requests, p # q, Step(p),
         Overtake(p), q \notin overtaken'
  PROVE  UpToDate(q)'
<1> SUFFICES ASSUME req'[q].at \in {"loaded", "checked"} PROVE UpToDate(q)'
  BY DEF UpToDate
<1>0. TypeInv /\ TypeOK
  BY DEF CurrentInv, TypeInv
<1>1. PICK t : t = req[q].tenant
  OBVIOUS
<1>2. q \notin overtaken /\ role'[t] = role[t] /\ account' = account
  BY <1>1 DEF Overtake, Changes
<1>3. UpToDate(q)
  BY <1>2 DEF CurrentInv
<1>4. Admins(t)' = Admins(t) /\ Members(t)' = Members(t) /\ ActiveAdmins(t)' = ActiveAdmins(t)
  BY <1>2 DEF Admins, Members, ActiveAdmins
<1>5. CASE req'[q] = req[q]
  BY <1>1, <1>2, <1>3, <1>4, <1>5 DEF UpToDate
<1>6. ASSUME NEW x \in Users, req'[q] = WithoutRow(req[q], t, x), role[t][x] = "none"
      PROVE  UpToDate(q)'
  <2> DEFINE r == req[q]
  <2>1. CASE r \in {Idle, Logging}
    <3>1. UNCHANGED req[q] \/ req'[q].at = r.at
      BY <1>6, <2>1 DEF WithoutRow, Idle, Logging
    <3>2. r.at \notin {"loaded", "checked"}
      BY <2>1 DEF Idle, Logging
    <3> QED
      BY <3>1, <3>2
  <2>2. CASE r \in InFlight
    <3>1. /\ req'[q].at = r.at /\ req'[q].op = r.op /\ req'[q].tenant = t
          /\ req'[q].actor = r.actor /\ req'[q].target = r.target
          /\ req'[q].roleTo = r.roleTo /\ req'[q].accountTo = r.accountTo
          /\ req'[q].seen = [r.seen EXCEPT ![x] = "none"]
          /\ req'[q].writes = r.writes \ {x}
      BY <1>1, <1>6, <2>2 DEF WithoutRow, InFlight
    <3>2. r.at = "loaded" => req'[q].seen = role'[t]
      BY <1>0, <1>1, <1>2, <1>3, <1>6, <2>2, <3>1 DEF UpToDate, InFlight, TypeOK
    <3>3. x \notin Members(t)
      BY <1>6 DEF Members
    <3> HIDE DEF r
    <3> QED
      BY <1>1, <1>2, <1>3, <1>4, <3>1, <3>2, <3>3 DEF UpToDate, r
  <2> QED
    BY <1>0, <2>1, <2>2 DEF TypeOK
<1>7. CASE /\ req[p].tenant \in Tenants /\ req[p].target \in Users
           /\ role' = [role EXCEPT ![req[p].tenant][req[p].target] = "none"]
           /\ req'[q] = WithoutRow(req[q], req[p].tenant, req[p].target)
  <2>1. CASE req[p].tenant = t
    <3>1. role'[t][req[p].target] = "none"
      BY <1>0, <1>7, <2>1 DEF TypeOK
    <3> QED
      BY <1>2, <1>6, <1>7, <2>1, <3>1
  <2>2. CASE req[p].tenant # t
    BY <1>1, <1>5, <1>7, <2>2 DEF WithoutRow
  <2> QED
    BY <2>1, <2>2
<1> QED
  BY <1>0, <1>5, <1>7, OtherRecords

\* What a request has read, and what it plans from that, holds for the rows as
\* they are unless it has been overtaken.
LEMMA OwnStep ==
  ASSUME CurrentInv, NEW q \in Requests, Step(q), Overtake(q), q \notin overtaken'
  PROVE  UpToDate(q)'
<1> SUFFICES ASSUME req'[q].at \in {"loaded", "checked"} PROVE UpToDate(q)'
  BY DEF UpToDate
<1>0. TypeInv /\ TypeOK
  BY DEF CurrentInv, TypeInv
<1>1. UpToDate(q)
  BY DEF Overtake, CurrentInv
<1>2. CASE Authenticate(q)
  <2>1. PICK t \in Tenants, actor \in Users, o \in Operations :
            /\ actor \in ActiveAdmins(t)
            /\ req' = [req EXCEPT ![q] =
                        [Idle EXCEPT !.at = "loaded", !.op = o, !.tenant = t,
                            !.actor = actor, !.seen = role[t],
                            !.seenAccount = [u \in Users |->
                                IF u \in Members(t) THEN account[u] ELSE "none"]]]
    BY <1>2 DEF Authenticate
  <2>2. /\ req'[q].at = "loaded" /\ req'[q].tenant = t
        /\ req'[q].actor = actor /\ req'[q].seen = role[t]
    BY <1>0, <2>1 DEF Idle, TypeOK
  <2> QED
    BY <1>2, <2>1, <2>2 DEF UpToDate, Authenticate, ActiveAdmins, Admins
\* A request that checks is up to date with its tenant.
<1>3. ASSUME req[q].at = "loaded"
      PROVE  /\ req[q] \in InFlight /\ req[q].actor \in Admins(req[q].tenant)
             /\ \A u \in Users : SeenRole(q, u) = role[req[q].tenant][u]
  <2>1. req[q] \in InFlight
    BY <1>0, <1>3, InFlightFields
  <2> QED
    BY <1>1, <1>3, <2>1 DEF UpToDate, SeenRole
<1>4. ASSUME req[q].at = "loaded",
             NEW u, NEW ws, NEW rl, NEW ac, Plan(q, u, ws, rl, ac),
             req[q].op \in {"role", "user"} /\ rl # "admin" =>
                \E a \in Admins(req[q].tenant) : a \notin ws,
             req[q].op = "remove" => u # req[q].actor,
             req[q].op = "delete" =>
                \A m \in Members(req[q].tenant) :
                    m \in ws \/ role[req[q].tenant][m] = "viewer",
             ac = "inactive" => ActiveAdmins(req[q].tenant) # {u}
      PROVE  UpToDate(q)'
  <2>1. PICK t : t = req[q].tenant
    OBVIOUS
  <2>2. /\ req'[q].at = "checked" /\ req'[q].op = req[q].op
        /\ req'[q].tenant = t /\ req'[q].actor = req[q].actor
        /\ req'[q].target = u /\ req'[q].writes = ws
        /\ req'[q].roleTo = rl /\ req'[q].accountTo = ac
    BY <1>0, <1>3, <1>4, <2>1 DEF Plan, TypeOK, InFlight
  <2>3. UNCHANGED <<role, account>>
    BY <1>4 DEF Plan
  <2>4. /\ Admins(t)' = Admins(t) /\ Members(t)' = Members(t)
        /\ ActiveAdmins(t)' = ActiveAdmins(t)
    BY <2>3 DEF Admins, Members, ActiveAdmins
  <2> QED
    BY <1>3, <1>4, <2>1, <2>2, <2>3, <2>4 DEF UpToDate
\* An update plans no demotion of the last admin.
<1>5. ASSUME req[q].at = "loaded", req[q].op \in {"role", "user"},
             NEW u \in Users, NEW rl \in Roles \cup {"none"},
             NEW ac, PlanUpdate(q, u, rl, ac),
             u = req[q].actor /\ rl \notin {"none", "admin"} =>
                Cardinality(Admins(req[q].tenant)) > 1,
             ac = "inactive" => ActiveAdmins(req[q].tenant) # {u}
      PROVE  UpToDate(q)'
  <2> DEFINE t == req[q].tenant
             changes == rl \notin {"none", SeenRole(q, u)}
             ws == IF changes THEN {u} ELSE {}
             to == IF changes THEN rl ELSE "none"
             acTo == IF ac = SeenAccount(q, u) THEN "none" ELSE ac
  <2>1. ASSUME to # "admin" PROVE \E a \in Admins(t) : a \notin ws
    <3>1. CASE ~changes
      BY <1>3, <1>5, <3>1
    <3>2. CASE u # req[q].actor
      BY <1>3, <1>5, <3>2
    <3>3. CASE changes /\ u = req[q].actor
      <4>1. rl \notin {"none", "admin"}
        BY <2>1, <3>3
      <4>2. IsFiniteSet(Admins(t))
        BY UsersAssumption, FS_Subset DEF Admins
      <4> QED
        BY <1>5, <3>3, <4>1, <4>2, AnotherOne
    <3> QED
      BY <3>1, <3>2, <3>3
  <2>2. Plan(q, u, ws, to, acTo)
    BY <1>5 DEF PlanUpdate
  <2>3. acTo = "inactive" => ac = "inactive"
    OBVIOUS
  <2> HIDE DEF ws, to, acTo
  <2> QED
    BY <1>4, <1>5, <2>1, <2>2, <2>3
<1>6. CASE CheckAdd(q)
  BY <1>4, <1>6 DEF CheckAdd
<1>7. CASE CheckRole(q)
  <2>1. PICK u \in Members(req[q].tenant), r \in Roles :
          /\ (u = req[q].actor /\ SeenRole(q, u) = "admin" /\ r # "admin") =>
                Cardinality(Admins(req[q].tenant)) > 1
          /\ PlanUpdate(q, u, r, "none")
    BY <1>7 DEF CheckRole
  <2>2. u = req[q].actor => SeenRole(q, u) = "admin"
    BY <1>3, <1>7 DEF CheckRole, Admins
  <2>3. u \in Users
    BY DEF Members
  <2> QED
    BY <1>5, <1>7, <2>1, <2>2, <2>3 DEF CheckRole
<1>8. CASE CheckRemove(q)
  BY <1>4, <1>8 DEF CheckRemove
<1>9. CASE CheckUser(q)
  <2>0. PICK t : t = req[q].tenant
    OBVIOUS
  <2>1. PICK u \in Members(t), r \in Roles \cup {"none"},
             a \in {"active", "inactive", "none"} :
          /\ (SeenRole(q, u) = "admin" /\ r \notin {"none", "admin"}) =>
                u # req[q].actor
          /\ (SeenRole(q, u) = "admin" /\ a = "inactive") =>
                Cardinality(ActiveAdmins(t)) > 1
          /\ PlanUpdate(q, u, r, a)
    BY <1>9, <2>0 DEF CheckUser
  <2>2. u \in Users
    BY DEF Members
  <2>3. u = req[q].actor => SeenRole(q, u) = "admin"
    BY <1>3, <1>9 DEF CheckUser, Admins
  <2>4. ASSUME a = "inactive" PROVE ActiveAdmins(t) # {u}
    <3>1. SeenRole(q, u) = role[t][u]
      BY <1>3, <1>9, <2>0, <2>2 DEF CheckUser
    <3>2. CASE role[t][u] # "admin"
      BY <3>2 DEF ActiveAdmins, Admins
    <3>3. CASE role[t][u] = "admin"
      <4>1. Cardinality(ActiveAdmins(t)) > 1
        BY <2>1, <2>4, <3>1, <3>3
      <4>2. Cardinality({u}) = 1
        BY FS_Singleton
      <4> QED
        BY <4>1, <4>2
    <3> QED
      BY <3>2, <3>3
  <2> QED
    BY <1>5, <1>9, <2>0, <2>1, <2>2, <2>3, <2>4 DEF CheckUser
<1>10. CASE CheckDelete(q)
  BY <1>3, <1>4, <1>10 DEF CheckDelete, Members
\* A request that returns, or has only its entry to write, relies on nothing.
<1>11. Idle.at = "idle" /\ Logging.at = "log"
  BY DEF Idle, Logging
<1>12. CASE LogEntry(q) \/ Abort(q)
  BY <1>0, <1>11, <1>12 DEF LogEntry, Abort, TypeOK
<1>13. CASE Commit(q)
  <2>1. CASE CommitRemove(q)
    BY <1>0, <1>11, <2>1 DEF CommitRemove, TypeOK
  <2>2. CASE CommitAdd(q) \/ CommitUpdate(q) \/ CommitDelete(q)
    BY <1>0, <1>11, <2>2 DEF CommitAdd, CommitUpdate, CommitDelete, Finish, TypeOK
  <2> QED
    BY <1>13, <2>1, <2>2 DEF Commit
<1> QED
  BY <1>2, <1>6, <1>7, <1>8, <1>9, <1>10, <1>12, <1>13 DEF Step, Check

LEMMA CurrentInit == Init => CurrentInv
<1>1. Idle.at = "idle"
  BY DEF Idle
<1> QED
  BY <1>1, TypeInit DEF Init, CurrentInv, UpToDate

LEMMA CurrentStep == CurrentInv /\ [Next]_vars => CurrentInv'
<1> SUFFICES ASSUME CurrentInv, [Next]_vars PROVE CurrentInv'
  OBVIOUS
<1>1. TypeInv'
  BY TypeStep DEF CurrentInv
<1>2. CASE Next
  <2>1. PICK p \in Requests : Step(p) /\ Overtake(p)
    BY <1>2 DEF Next, Step
  <2> QED
    BY <1>1, <2>1, OthersStay, OwnStep DEF CurrentInv
<1>3. CASE UNCHANGED vars
  BY <1>1, <1>3 DEF vars, tables, CurrentInv, UpToDate, Admins, Members, ActiveAdmins
<1> QED
  BY <1>2, <1>3

\* Only a commit changes a role, and a commit is one of a request about to write.
LEMMA RoleChanges ==
  ASSUME TypeInv, NEW p \in Requests, Step(p), NEW t \in Tenants, role'[t] # role[t]
  PROVE  /\ Commit(p) /\ req[p] \in InFlight /\ req[p].tenant = t
         /\ req[p].at = "checked" /\ req'[p].at # "checked"
<1>0. TypeOK
  BY DEF TypeInv
<1>1. Commit(p)
  <2>1. ~Check(p)
    BY DEF Check, CheckAdd, CheckRole, CheckRemove, CheckUser, CheckDelete, PlanUpdate, Plan
  <2> QED
    BY <2>1 DEF Step, Authenticate, LogEntry, Abort
<1>2. req[p].at = "checked"
  BY <1>1 DEF Commit, CommitAdd, CommitUpdate, CommitRemove, CommitDelete
<1>3. req[p] \in InFlight
  BY <1>0, <1>2, InFlightFields
<1>4. Idle.at = "idle" /\ Logging.at = "log"
  BY DEF Idle, Logging
<1>5. req'[p].at # "checked"
  BY <1>0, <1>1, <1>4
     DEF Commit, CommitAdd, CommitUpdate, CommitRemove, CommitDelete, Finish, TypeOK
<1>6. req[p].tenant = t
  <2>1. CASE CommitRemove(p)
    BY <1>0, <2>1 DEF CommitRemove, TypeOK
  <2>2. CASE CommitAdd(p) \/ CommitUpdate(p) \/ CommitDelete(p)
    BY <1>0, <2>2 DEF CommitAdd, CommitUpdate, CommitDelete, TypeOK
  <2> QED
    BY <1>1, <2>1, <2>2 DEF Commit
<1> QED
  BY <1>1, <1>2, <1>3, <1>5, <1>6

\* A commit that no other request has overtaken leaves its tenant an admin, unless
\* it deletes the tenant, and a tenant it deletes has viewers only.
LEMMA CurrentCommit ==
  ASSUME CurrentInv, NEW p \in Requests \ overtaken, Commit(p), NEW t \in Tenants,
         req[p].tenant = t
  PROVE  /\ ~OnlyViewers(t)
         /\ t \notin deleted' => Admins(t)' # {}
         /\ t \in deleted' \ deleted => OnlyViewers(t)'
<1>0. TypeInv /\ TypeOK
  BY DEF CurrentInv, TypeInv
<1>1. req[p].at = "checked"
  BY DEF Commit, CommitAdd, CommitUpdate, CommitRemove, CommitDelete
<1>2. req[p] \in InFlight /\ UpToDate(p)
  BY <1>0, <1>1, InFlightFields DEF CurrentInv
<1>3. PICK actor : actor = req[p].actor
  OBVIOUS
<1>4. actor \in Admins(t) /\ actor \in Users
  BY <1>1, <1>2, <1>3 DEF UpToDate, Admins
<1>5. ~OnlyViewers(t)
  BY <1>4 DEF OnlyViewers, Admins, Members
<1>6. CASE CommitAdd(p)
  <2>1. \A u \in Users : u # req[p].target => role'[t][u] = role[t][u]
    BY <1>0, <1>6 DEF CommitAdd, TypeOK
  <2>2. req[p].target # actor
    BY <1>4, <1>6 DEF CommitAdd, Admins
  <2>3. actor \in Admins(t)'
    BY <1>4, <2>1, <2>2 DEF Admins
  <2> QED
    BY <1>5, <1>6, <2>3 DEF CommitAdd
<1>7. CASE CommitUpdate(p)
  <2>1. PICK a \in Admins(t) : a \in req[p].writes => req[p].roleTo = "admin"
    BY <1>1, <1>2, <1>4, <1>7 DEF CommitUpdate, UpToDate
  <2>2. a \in Admins(t)'
    BY <1>0, <1>7, <2>1 DEF CommitUpdate, Admins, TypeOK
  <2> QED
    BY <1>5, <1>7, <2>2 DEF CommitUpdate
<1>8. CASE CommitRemove(p)
  <2>1. req[p].target # actor
    BY <1>1, <1>2, <1>3, <1>8 DEF CommitRemove, UpToDate
  <2>2. role'[t][actor] = role[t][actor]
    BY <1>0, <1>4, <1>8, <2>1 DEF CommitRemove, TypeOK
  <2>3. actor \in Admins(t)'
    BY <1>4, <2>2 DEF Admins
  <2> QED
    BY <1>5, <1>8, <2>3 DEF CommitRemove
<1>9. CASE CommitDelete(p)
  <2>1. \A u \in Users :
            role'[t][u] = (IF u \in req[p].writes THEN "viewer" ELSE role[t][u])
    BY <1>0, <1>9 DEF CommitDelete, TypeOK
  <2>2. \A u \in Members(t) : u \in req[p].writes \/ role[t][u] = "viewer"
    BY <1>1, <1>2, <1>9 DEF CommitDelete, UpToDate
  <2>3. OnlyViewers(t)'
    BY <2>1, <2>2 DEF OnlyViewers, Members
  <2> QED
    BY <1>5, <1>9, <2>3 DEF CommitDelete
<1> QED
  BY <1>6, <1>7, <1>8, <1>9 DEF Commit

\* A tenant is deleted by a commit of its own.
LEMMA Deletions ==
  ASSUME NEW p \in Requests, Step(p), NEW t \in deleted' \ deleted
  PROVE  Commit(p) /\ req[p].tenant = t
<1>1. ~Check(p)
  BY DEF Check, CheckAdd, CheckRole, CheckRemove, CheckUser, CheckDelete, PlanUpdate, Plan
<1> QED
  BY <1>1 DEF Step, Authenticate, LogEntry, Abort, Commit, CommitAdd, CommitUpdate,
     CommitRemove, CommitDelete

\* The statements of TenantKeepsAdmin and DeletedTenantHasViewers about one step.
KeepsAdmin ==
    \A t \in Tenants \ deleted' :
        Admins(t) # {} /\ Admins(t)' = {} => StaleCommit(t)

HasViewers ==
    \A t \in deleted' :
        t \notin deleted \/ OnlyViewers(t) => OnlyViewers(t)' \/ StaleCommit(t)

LEMMA CurrentRoles == CurrentInv /\ [Next]_vars => [KeepsAdmin /\ HasViewers]_vars
<1> SUFFICES ASSUME CurrentInv, Next PROVE KeepsAdmin /\ HasViewers
  OBVIOUS
<1>0. TypeInv /\ TypeOK /\ TypeOK'
  BY TypeStep DEF CurrentInv, TypeInv
<1>1. PICK p \in Requests : Step(p)
  BY DEF Next, Step
<1>2. KeepsAdmin
  <2> SUFFICES ASSUME NEW t \in Tenants \ deleted', Admins(t) # {}, Admins(t)' = {}
               PROVE  StaleCommit(t)
    BY DEF KeepsAdmin
  <2>1. role'[t] # role[t]
    BY DEF Admins
  <2>2. /\ Commit(p) /\ req[p].tenant = t
        /\ req[p].at = "checked" /\ req'[p].at # "checked"
    BY <1>0, <1>1, <2>1, RoleChanges
  <2>3. p \in overtaken
    BY <2>2, CurrentCommit
  <2> QED
    BY <2>2, <2>3 DEF StaleCommit
<1>3. HasViewers
  <2> SUFFICES ASSUME NEW t \in deleted', t \notin deleted \/ OnlyViewers(t), ~StaleCommit(t)
               PROVE  OnlyViewers(t)'
    BY DEF HasViewers
  <2>0. t \in Tenants
    BY <1>0 DEF TypeOK
  <2>1. CASE role'[t] # role[t]
    <3>1. /\ Commit(p) /\ req[p].tenant = t
          /\ req[p].at = "checked" /\ req'[p].at # "checked"
      BY <1>0, <1>1, <2>0, <2>1, RoleChanges
    <3>2. p \notin overtaken
      BY <3>1 DEF StaleCommit
    <3> QED
      BY <2>0, <3>1, <3>2, CurrentCommit
  <2>2. CASE role'[t] = role[t] /\ OnlyViewers(t)
    BY <2>2 DEF OnlyViewers, Members
  <2>3. CASE role'[t] = role[t] /\ t \notin deleted
    <3>1. Commit(p) /\ req[p].tenant = t
      BY <1>1, <2>3, Deletions
    <3>2. req[p].at = "checked" /\ req'[p].at # "checked"
      <4>1. CommitDelete(p)
        BY <2>3, <3>1 DEF Commit, CommitAdd, CommitUpdate, CommitRemove, CommitDelete
      <4> QED
        BY <1>0, <4>1 DEF CommitDelete, Finish, Idle, Logging, TypeOK
    <3>3. p \notin overtaken
      BY <3>1, <3>2 DEF StaleCommit
    <3> QED
      BY <2>0, <2>3, <3>1, <3>3, CurrentCommit
  <2> QED
    BY <2>1, <2>2, <2>3
<1> QED
  BY <1>2, <1>3

\* However many requests overlap, the last-admin guards do what they are for as
\* long as no request is overtaken.
THEOREM TenantsKeepAdmins == Spec => TenantKeepsAdmin
<1>1. CurrentInv /\ [Next]_vars => [KeepsAdmin]_vars
  BY CurrentRoles
<1> QED
  BY <1>1, CurrentInit, CurrentStep, PTL DEF Spec, TenantKeepsAdmin, KeepsAdmin

\* ... and a soft delete takes every admin and operator role away for good.
THEOREM DeletedTenantsHaveViewers == Spec => DeletedTenantHasViewers
<1>1. CurrentInv /\ [Next]_vars => [HasViewers]_vars
  BY CurrentRoles
<1> QED
  BY <1>1, CurrentInit, CurrentStep, PTL DEF Spec, DeletedTenantHasViewers, HasViewers

\* A tenant's own admins never deactivate the last active one of them, unless one
\* has been overtaken.
THEOREM LastAdminsStayActive == Spec => LastAdminKeptByTenant
<1> DEFINE Kept ==
      \A t \in Tenants \ deleted, u \in Users :
          ActiveAdmins(t) = {u} /\ account'[u] = "inactive" =>
             \E q \in Requests :
                /\ req[q].at = "checked" /\ req[q].op = "user"
                /\ req[q].target = u /\ (req[q].tenant # t \/ q \in overtaken)
<1>1. ASSUME CurrentInv, [Next]_vars PROVE [Kept]_vars
  <2> SUFFICES ASSUME NEW t \in Tenants \ deleted, NEW u \in Users, Next,
                      ActiveAdmins(t) = {u}, account'[u] = "inactive"
               PROVE  \E q \in Requests :
                         /\ req[q].at = "checked" /\ req[q].op = "user"
                         /\ req[q].target = u /\ (req[q].tenant # t \/ q \in overtaken)
    BY <1>1
  <2>1. account[u] # "inactive"
    BY DEF ActiveAdmins
  <2>a. account' # account
    BY <2>1
  <2>2. PICK q \in Requests : CommitUpdate(q)
    <3>1. PICK q \in Requests : Step(q)
      BY DEF Next, Step
    <3>2. ~Check(q)
      BY <2>a DEF Check, CheckAdd, CheckRole, CheckRemove, CheckUser, CheckDelete,
         PlanUpdate, Plan
    <3> QED
      BY <2>a, <3>1, <3>2 DEF Step, Authenticate, Commit, CommitAdd, CommitRemove,
         CommitDelete, LogEntry, Abort
  <2>3. req[q].at = "checked" /\ req[q].target = u /\ req[q].accountTo = "inactive"
    BY <2>1, <2>2 DEF CommitUpdate
  <2>4. req[q].op = "user"
    BY <1>1, <2>3 DEF CurrentInv, TypeInv, Planned
  <2>5. q \notin overtaken => ActiveAdmins(req[q].tenant) # {u}
    BY <1>1, <2>3 DEF CurrentInv, UpToDate
  <2> QED
    BY <2>3, <2>4, <2>5
<1> QED
  BY <1>1, CurrentInit, CurrentStep, PTL DEF Spec, LastAdminKeptByTenant, Kept
=============================================================================
