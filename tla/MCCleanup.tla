---------------------------- MODULE MCCleanup -----------------------------
\* Cleanup on small instances; the constants are given in the .cfg files.
EXTENDS Cleanup
===========================================================================
