----------------------------- MODULE MCGpsData -----------------------------
\* Small instances of GpsData for TLC.
EXTENDS GpsData
=============================================================================
