------------------------------ MODULE MCDriver ------------------------------
\* TLC instances of Driver; the configurations give the constants.
EXTENDS Driver
=============================================================================
