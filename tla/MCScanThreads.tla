--------------------------- MODULE MCScanThreads ---------------------------
\* Three splits for three threads.
EXTENDS ScanThreads

\* A split with several batches, an empty one and one with a single row.
MCRows == <<3, 0, 1>>
=============================================================================
