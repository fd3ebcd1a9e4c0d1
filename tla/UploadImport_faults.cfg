CONSTANTS
    Reports = {r1, r2}
    AsciiReports = {r1}
    Tenants = {t1, t2}
    h1 = h1
    Hosts = {h1}
    HostOf <- MCHostOf
    Requests = {q1, q2}
    MaxFaults = 1
    MaxOverruns = 1
SPECIFICATION FairSpec
INVARIANTS OverlapNeedsExpiry LockHasReason DuplicateCheckHolds
PROPERTY LocksEnd
CHECK_DEADLOCK FALSE
