--------------------------- MODULE MCPhotoCapture ---------------------------
\* Small instances of PhotoCapture for TLC.
EXTENDS PhotoCapture

AllFaults == {"exif", "open", "write"}
=============================================================================
