----------------------------- MODULE MCReplay -----------------------------
\* DeadLetterReplay on small instances; the constants are given in the .cfg files.
EXTENDS DeadLetterReplay
===========================================================================
