----------------------------- MODULE MCRecorder -----------------------------
\* Small instances of Recorder for TLC.
EXTENDS Recorder
=============================================================================
