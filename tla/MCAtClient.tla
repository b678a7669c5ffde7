----------------------------- MODULE MCAtClient -----------------------------
\* TLC instances of AtClient; the configurations give the constants.
EXTENDS AtClient
=============================================================================
