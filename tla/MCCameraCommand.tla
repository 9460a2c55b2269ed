--------------------------- MODULE MCCameraCommand ---------------------------
\* Small instances of CameraCommand for TLC.
EXTENDS CameraCommand
=============================================================================
