------------------------- MODULE MCDecisionEngine -------------------------
\* DecisionEngine around its thresholds; the constants are given in the .cfg files.
EXTENDS DecisionEngine
===========================================================================
