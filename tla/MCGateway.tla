---------------------------- MODULE MCGateway -----------------------------
\* Gateway on small instances; the constants are given in the .cfg files.
EXTENDS Gateway
===========================================================================
