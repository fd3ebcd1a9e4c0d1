---------------------------- MODULE MCReportJobs ----------------------------
EXTENDS ReportJobs, TLC

\* Jobs, assessments and runs are interchangeable: sound for the safety runs.
Symmetry == Permutations(Jobs) \cup Permutations(Assessments) \cup Permutations(Runs)
=============================================================================
