CONSTANTS
    Jobs = {j1, j2}
    Assessments = {a1}
    Runs = {r1, r2}
    Formats = {"pdf", "html"}
    Backend = "s3"
    Weasyprint = FALSE
    MaxTries = 3
    Faults = {"crash", "shutdown", "storage"}
    MaxFaults = 2
CHECK_DEADLOCK FALSE
SPECIFICATION FairSpec
INVARIANT CompletedDownloads
PROPERTY EnqueuedJobSettles
