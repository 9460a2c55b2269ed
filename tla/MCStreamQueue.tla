---------------------------- MODULE MCStreamQueue ----------------------------
\* Small instances of StreamQueue for TLC.
EXTENDS StreamQueue, TLC

\* Nodes, buffers and threads are interchangeable (safety only).
Symmetry == Permutations(Nodes) \cup Permutations(Buffers) \cup Permutations(Releasers)
=============================================================================
