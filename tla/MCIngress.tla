---------------------------- MODULE MCIngress -----------------------------
\* Ingress on small instances; the constants are given in the .cfg files.
EXTENDS Ingress
===========================================================================
