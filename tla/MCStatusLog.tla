--------------------------- MODULE MCStatusLog ----------------------------
\* StatusLog on small instances; the constants are given in the .cfg files.
EXTENDS StatusLog
===========================================================================
