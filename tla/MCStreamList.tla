---------------------------- MODULE MCStreamList ----------------------------
\* A small instance of StreamList for TLC.
EXTENDS StreamList
=============================================================================
