CONSTANTS
    Jobs = {j1, j2}
    Assessments = {a1, a2}
    Runs = {r1, r2}
    Formats = {"html", "json"}
    Backend = "local"
    Weasyprint = FALSE
    MaxTries = 2
    Faults = {"crash", "shutdown", "timeout", "db", "storage", "redis", "expiry"}
    MaxFaults = 2
SPECIFICATION Spec
SYMMETRY Symmetry
CHECK_DEADLOCK FALSE
INVARIANTS CompletedHasOutput OneRunPerJob DeliveredJobHasRow
PROPERTY RefinesLifecycle
