---------------------------- MODULE MCSeiEncoder ----------------------------
\* Small instances of SeiEncoder for TLC.
EXTENDS SeiEncoder

\* The bytes that matter, and one that is like any other.
SmallBytes == {0, 1, 3, 7}
=============================================================================
