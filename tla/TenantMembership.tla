--------------------------- MODULE TenantMembership ---------------------------
(***************************************************************************)
(* Who administers a tenant: the handlers of tenants/router.py and         *)
(* admin/router.py that write memberships, users.is_active and             *)
(* tenants.deleted_at.                                                     *)
(*                                                                         *)
(* A handler runs on one SQLAlchemy session, whose steps are               *)
(*   Authenticate  get_current_user and the admin check.  The session row  *)
(*                 brings the tenant, its members and their accounts with  *)
(*                 it (the eager relationships of auth/models.py), and the *)
(*                 request goes on seeing them as they were then;          *)
(*   Check...      the handler's own reads.  Which rows exist and how many *)
(*                 are admins is read afresh; the attributes of a row that *)
(*                 is already loaded are not;                              *)
(*   Commit...     the UPDATE of the attributes that differ from the ones  *)
(*                 loaded, or the INSERT or DELETE;                        *)
(*   LogEntry      for admin/router.py only, the audit entry, in a second  *)
(*                 transaction.                                            *)
(* No row is locked, so the steps of several requests interleave.          *)
(***************************************************************************)
EXTENDS Naturals, FiniteSets

CONSTANTS Users, Tenants, Requests, Roles

ASSUME UsersAssumption == IsFiniteSet(Users)
ASSUME TenantsAssumption == "none" \notin Tenants
ASSUME RolesAssumption == {"admin", "viewer"} \subseteq Roles /\ "none" \notin Roles

VARIABLES
    role,      \* memberships: the role of a user in a tenant, "none" without one
    account,   \* users.is_active
    deleted,   \* tenants whose deleted_at is set
    req,       \* what each request in flight has read and is going to write
    overtaken  \* history: requests since whose reading another one has changed
               \* their tenant or an account

tables == <<role, account, deleted>>
vars == <<tables, req, overtaken>>

Operations == {"add", "role", "remove", "user", "delete"}
AdminApi == {"user", "delete"}  \* the operations of admin/router.py

\* seen and seenAccount are the attributes of the loaded rows, "none" for a row
\* that is not loaded; writes the members whose rows the commit writes.
Unloaded == [u \in Users |-> "none"]

Idle == [at |-> "idle", op |-> "none", tenant |-> "none", actor |-> "none",
         seen |-> Unloaded, seenAccount |-> Unloaded,
         target |-> "none", writes |-> {}, roleTo |-> "none",
         accountTo |-> "none"]

\* The change is committed and its audit entry is still to be written.
Logging == [Idle EXCEPT !.at = "log"]

InFlight ==
    [at : {"loaded", "checked"}, op : Operations, tenant : Tenants,
     actor : Users, seen : [Users -> Roles \cup {"none"}],
     seenAccount : [Users -> {"active", "inactive", "none"}],
     target : Users \cup {"none"}, writes : SUBSET Users,
     roleTo : Roles \cup {"none"}, accountTo : {"active", "inactive", "none"}]

TypeOK ==
    /\ role \in [Tenants -> [Users -> Roles \cup {"none"}]]
    /\ account \in [Users -> {"active", "inactive"}]
    /\ deleted \in SUBSET Tenants
    /\ req \in [Requests -> InFlight \cup {Idle, Logging}]
    /\ overtaken \in SUBSET Requests

\* Every tenant has been registered by a user of its own (register_user).
Init ==
    /\ \E founder \in [Tenants -> Users] :
          /\ \A t1, t2 \in Tenants : founder[t1] = founder[t2] => t1 = t2
          /\ role = [t \in Tenants |-> [u \in Users |->
                        IF u = founder[t] THEN "admin" ELSE "none"]]
    /\ account = [u \in Users |-> "active"]
    /\ deleted = {}
    /\ req = [q \in Requests |-> Idle]
    /\ overtaken = {}

-----------------------------------------------------------------------------
Members(t) == {u \in Users : role[t][u] # "none"}
Admins(t) == {u \in Users : role[t][u] = "admin"}
ActiveAdmins(t) == {u \in Admins(t) : account[u] = "active"}

\* The role and the account of a member as the ORM session shows them.
SeenRole(q, u) ==
    IF req[q].seen[u] # "none" THEN req[q].seen[u] ELSE role[req[q].tenant][u]
SeenAccount(q, u) ==
    IF req[q].seenAccount[u] # "none" THEN req[q].seenAccount[u] ELSE account[u]

\* Request q authenticates for operation o.
Authenticate(q) ==
    /\ req[q].at = "idle"
    /\ \E t \in Tenants, actor \in Users, o \in Operations :
          /\ actor \in ActiveAdmins(t)
          /\ o = "delete" => t \notin deleted
          /\ req' = [req EXCEPT ![q] =
                        [Idle EXCEPT !.at = "loaded", !.op = o, !.tenant = t,
                            !.actor = actor, !.seen = role[t],
                            !.seenAccount = [u \in Users |->
                                IF u \in Members(t) THEN account[u] ELSE "none"]]]
    /\ UNCHANGED <<role, account, deleted>>

\* The request goes on to its commit, which will write the rows ws.
Plan(q, u, ws, newRole, newAccount) ==
    /\ req' = [req EXCEPT ![q] =
                  [@ EXCEPT !.at = "checked", !.seen = Unloaded,
                            !.seenAccount = Unloaded, !.target = u, !.writes = ws,
                            !.roleTo = newRole, !.accountTo = newAccount]]
    /\ UNCHANGED <<role, account, deleted>>

\* The UPDATE of a role is left out when the role is the one loaded.
PlanUpdate(q, u, newRole, newAccount) ==
    LET changes == newRole \notin {"none", SeenRole(q, u)}
    IN  Plan(q, u,
             IF changes THEN {u} ELSE {},
             IF changes THEN newRole ELSE "none",
             IF newAccount = SeenAccount(q, u) THEN "none" ELSE newAccount)

\* A committed request of tenants/router.py is done; one of admin/router.py has
\* its audit entry still to write.
Finish(q) ==
    /\ req' = [req EXCEPT ![q] =
                  IF req[q].op \in AdminApi THEN Logging ELSE Idle]

-----------------------------------------------------------------------------
(* add_member *)

CheckAdd(q) ==
    /\ req[q].at = "loaded" /\ req[q].op = "add"
    /\ \E u \in Users \ Members(req[q].tenant), r \in Roles :
          Plan(q, u, {}, r, "none")

\* The unique constraint refuses a second membership.
CommitAdd(q) ==
    /\ req[q].at = "checked" /\ req[q].op = "add"
    /\ role[req[q].tenant][req[q].target] = "none"
    /\ role' = [role EXCEPT ![req[q].tenant][req[q].target] = req[q].roleTo]
    /\ Finish(q)
    /\ UNCHANGED <<account, deleted>>

-----------------------------------------------------------------------------
(* update_member_role *)

\* Mutant: the last-admin guard is off by one.
CheckRoleOne(q) ==
    /\ req[q].at = "loaded" /\ req[q].op = "role"
    /\ \E u \in Members(req[q].tenant), r \in Roles :
          /\ (u = req[q].actor /\ SeenRole(q, u) = "admin" /\ r # "admin") =>
                Cardinality(Admins(req[q].tenant)) >= 1
          /\ PlanUpdate(q, u, r, "none")

\* Only a demotion of oneself is checked against the number of admins.
CheckRole(q) ==
    /\ req[q].at = "loaded" /\ req[q].op = "role"
    /\ \E u \in Members(req[q].tenant), r \in Roles :
          /\ (u = req[q].actor /\ SeenRole(q, u) = "admin" /\ r # "admin") =>
                Cardinality(Admins(req[q].tenant)) > 1
          /\ PlanUpdate(q, u, r, "none")

\* The commit of update_member_role and of update_user.  The UPDATE of a row that
\* is gone fails, and the transaction with it.
CommitUpdate(q) ==
    /\ req[q].at = "checked" /\ req[q].op \in {"role", "user"}
    /\ req[q].roleTo # "none" => req[q].writes # {}
    /\ role' = [role EXCEPT ![req[q].tenant] = [u \in Users |->
                   IF u \in req[q].writes THEN req[q].roleTo ELSE @[u]]]
    /\ account' = [u \in Users |->
                      IF u = req[q].target /\ req[q].accountTo # "none"
                        THEN req[q].accountTo ELSE account[u]]
    /\ Finish(q)
    /\ UNCHANGED deleted

-----------------------------------------------------------------------------
(* remove_member *)

CheckRemove(q) ==
    /\ req[q].at = "loaded" /\ req[q].op = "remove"
    /\ \E u \in Members(req[q].tenant) :
          /\ SeenRole(q, u) = "admin" => Cardinality(Admins(req[q].tenant)) > 1
          /\ u # req[q].actor
          /\ Plan(q, u, {u}, "none", "none")

\* Mutant: the removal is not noticed by a request that is about to write.
WithoutRowKept(r, t, u) ==
    IF r.tenant = t THEN [r EXCEPT !.seen[u] = "none"] ELSE r

\* The other requests on the tenant are left without the row.
WithoutRow(r, t, u) ==
    IF r.tenant = t
      THEN [r EXCEPT !.seen[u] = "none", !.writes = @ \ {u}]
      ELSE r

\* The DELETE names the row, and is content to find that it is gone.
CommitRemove(q) ==
    /\ req[q].at = "checked" /\ req[q].op = "remove"
    /\ IF req[q].writes = {}
         THEN /\ req' = [req EXCEPT ![q] = Idle]
              /\ UNCHANGED role
         ELSE /\ role' = [role EXCEPT ![req[q].tenant][req[q].target] = "none"]
              /\ req' = [p \in Requests |->
                            IF p = q THEN Idle
                            ELSE WithoutRow(req[p], req[q].tenant, req[q].target)]
    /\ UNCHANGED <<account, deleted>>

-----------------------------------------------------------------------------
(* update_user *)

\* Mutant: the active-admin guard counts inactive admins as well.
CheckUserInactive(q) ==
    LET t == req[q].tenant
    IN  /\ req[q].at = "loaded" /\ req[q].op = "user"
        /\ \E u \in Members(t), r \in Roles \cup {"none"},
              a \in {"active", "inactive", "none"} :
              /\ (SeenRole(q, u) = "admin" /\ r \notin {"none", "admin"}) =>
                    /\ u # req[q].actor
                    /\ Cardinality(Admins(t)) > 1
              /\ (SeenRole(q, u) = "admin" /\ a = "inactive") =>
                    Cardinality(Admins(t)) > 1
              /\ PlanUpdate(q, u, r, a)

\* Role and account may each be left as they are.
CheckUser(q) ==
    LET t == req[q].tenant
    IN  /\ req[q].at = "loaded" /\ req[q].op = "user"
        /\ \E u \in Members(t), r \in Roles \cup {"none"},
              a \in {"active", "inactive", "none"} :
              /\ (SeenRole(q, u) = "admin" /\ r \notin {"none", "admin"}) =>
                    /\ u # req[q].actor
                    /\ Cardinality(Admins(t)) > 1
              /\ (SeenRole(q, u) = "admin" /\ a = "inactive") =>
                    Cardinality(ActiveAdmins(t)) > 1
              /\ PlanUpdate(q, u, r, a)

-----------------------------------------------------------------------------
(* soft_delete_tenant *)

CheckDelete(q) ==
    /\ req[q].at = "loaded" /\ req[q].op = "delete"
    /\ Plan(q, "none",
            {u \in Members(req[q].tenant) : SeenRole(q, u) # "viewer"},
            "viewer", "none")

\* Mutant: the members keep their roles.
CommitDeleteOnly(q) ==
    /\ req[q].at = "checked" /\ req[q].op = "delete"
    /\ deleted' = deleted \cup {req[q].tenant}
    /\ Finish(q)
    /\ UNCHANGED <<role, account>>

\* Rows that have gone meanwhile are left out: whether the driver reports them,
\* and the commit fails, depends on how it batches the UPDATE.
CommitDelete(q) ==
    /\ req[q].at = "checked" /\ req[q].op = "delete"
    /\ deleted' = deleted \cup {req[q].tenant}
    /\ role' = [role EXCEPT ![req[q].tenant] = [u \in Users |->
                   IF u \in req[q].writes THEN "viewer" ELSE @[u]]]
    /\ Finish(q)
    /\ UNCHANGED account

-----------------------------------------------------------------------------
\* create_audit_entry, after the change has been committed.
LogEntry(q) ==
    /\ req[q].at = "log"
    /\ req' = [req EXCEPT ![q] = Idle]
    /\ UNCHANGED <<role, account, deleted>>

\* The request is refused, fails, or its process goes down; what it has already
\* committed stays.
Abort(q) ==
    /\ req[q].at # "idle"
    /\ req' = [req EXCEPT ![q] = Idle]
    /\ UNCHANGED <<role, account, deleted>>

Check(q) ==
    \/ CheckAdd(q) \/ CheckRole(q) \/ CheckRemove(q) \/ CheckUser(q)
    \/ CheckDelete(q)

Commit(q) ==
    \/ CommitAdd(q) \/ CommitUpdate(q) \/ CommitRemove(q) \/ CommitDelete(q)

\* Request q has changed what a request on tenant t has read.
Changes(t) == role'[t] # role[t] \/ account' # account

\* A step of q overtakes the requests whose tenant or accounts it changes.
Overtake(q) ==
    overtaken' = {p \in Requests :
                     /\ req'[p].at \in {"loaded", "checked"}
                     /\ p \in overtaken \/ (p # q /\ Changes(req[p].tenant))}

Next ==
    \E q \in Requests :
        /\ Authenticate(q) \/ Check(q) \/ Commit(q) \/ LogEntry(q) \/ Abort(q)
        /\ Overtake(q)

Spec == Init /\ [][Next]_vars

-----------------------------------------------------------------------------
(* Properties. *)

\* A request that had been overtaken commits in tenant t.
StaleCommit(t) ==
    \E q \in overtaken : /\ req[q].at = "checked" /\ req'[q].at # "checked"
                         /\ req[q].tenant = t

\* tenants/service.py:127,165, "Prevent removing the last admin": a tenant that is
\* not deleted loses its last admin only to the commit of a request that another
\* one has overtaken.
TenantKeepsAdmin ==
    [][\A t \in Tenants \ deleted' :
          Admins(t) # {} /\ Admins(t)' = {} => StaleCommit(t)]_vars

OnlyViewers(t) == \A u \in Members(t) : role[t][u] = "viewer"

\* admin/service.py:284, "revoke admin/operator access immediately": a tenant that
\* is deleted has viewers only, then and ever after, unless a request commits in it
\* that another one has overtaken.
DeletedTenantHasViewers ==
    [][\A t \in deleted' :
          t \notin deleted \/ OnlyViewers(t) => OnlyViewers(t)' \/ StaleCommit(t)]_vars

\* admin/service.py:109, "Prevent deactivating the last admin": no request of a
\* tenant deactivates its last active admin unless another one has overtaken it.
\* A request of another tenant of that user can, because is_active is the user's
\* and the guard is the tenant's.
LastAdminKeptByTenant ==
    [][\A t \in Tenants \ deleted, u \in Users :
          ActiveAdmins(t) = {u} /\ account'[u] = "inactive" =>
             \E q \in Requests :
                /\ req[q].at = "checked" /\ req[q].op = "user"
                /\ req[q].target = u /\ (req[q].tenant # t \/ q \in overtaken)]_vars

\* tenants/service.py:181: a member who has been removed comes back by an
\* invitation only, never by an update that had read the row before.
RemovedStaysOut ==
    [][\A t \in Tenants, u \in Users :
          role[t][u] = "none" /\ role'[t][u] # "none" =>
             \E q \in Requests :
                /\ req[q].at = "checked" /\ req[q].op = "add"
                /\ req[q].tenant = t /\ req[q].target = u]_vars
=============================================================================
