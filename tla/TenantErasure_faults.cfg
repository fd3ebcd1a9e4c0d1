\* Runs overlap with the cleanup, crash and fail.
CONSTANTS
    t1 = t1
    x1 = x1
    Tenants = {t1, t2}
    Exports = {x1}
    Cleaners = {c1}
    OwnerOf <- MCOwnerOf
    MaxTries = 2
    MaxFaults = 2
SPECIFICATION FairSpec
INVARIANTS RecordedFilesStay LeftoversHaveCauses
PROPERTY SelectedTenantsGo
\* Users may stop, and the tenants and export jobs are finite.
CHECK_DEADLOCK FALSE
