------------------------- MODULE MCReconciliation -------------------------
\* Reconciliation on small instances; the constants are given in the .cfg files.
EXTENDS Reconciliation
===========================================================================
