--------------------------- MODULE MCWebSession ---------------------------
EXTENDS WebSession
=============================================================================
