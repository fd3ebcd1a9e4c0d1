\* A cleanup every day, and nothing fails.
CONSTANTS
    t1 = t1
    x1 = x1
    Tenants = {t1}
    Exports = {x1}
    Cleaners = {c1}
    OwnerOf <- MCOwnerOf
    MaxTries = 1
    MaxFaults = 0
SPECIFICATION DailySpec
PROPERTY DeletedTenantsGo
\* Users may stop, and the tenants and export jobs are finite.
CHECK_DEADLOCK FALSE
