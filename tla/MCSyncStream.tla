---------------------------- MODULE MCSyncStream ----------------------------
\* Small instances of SyncStream for TLC.
EXTENDS SyncStream
=============================================================================
