--------------------------- MODULE MCForegroundRun ---------------------------
EXTENDS ForegroundRun
=============================================================================
