--------------------------- MODULE MCUploadImport ----------------------------
EXTENDS UploadImport, TLC

CONSTANTS h1

\* Both reports are scans of one host.
MCHostOf == [r \in Reports |-> h1]
=============================================================================
