--------------------------- MODULE MCFitterThread ---------------------------
EXTENDS FitterThread
=============================================================================
