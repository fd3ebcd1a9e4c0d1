CONSTANTS
    Jobs = {j1, j2}
    Assessments = {a1}
    Runs = {r1, r2}
    Formats = {"pdf", "sarif"}
    Backend = "s3"
    Weasyprint = TRUE
    MaxTries = 2
    Faults = {"crash", "shutdown", "timeout", "storage", "block"}
    MaxFaults = 2
CHECK_DEADLOCK FALSE
SPECIFICATION Spec
SYMMETRY Symmetry
INVARIANTS CompletedDownloads AttemptsCounted
