\* Two requests that overlap in every way, over two tenants with common members.
CONSTANTS
    Requests = {q1, q2}
    Tenants = {t1, t2}
    Users = {u1, u2}
    Roles = {"admin", "viewer"}
SPECIFICATION Spec
SYMMETRY Symmetry
PROPERTIES TenantKeepsAdmin DeletedTenantHasViewers LastAdminKeptByTenant RemovedStaysOut
\* Every account may be deactivated.
CHECK_DEADLOCK FALSE
