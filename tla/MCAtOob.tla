------------------------------ MODULE MCAtOob -------------------------------
\* TLC instances of AtOob; the configurations give the constants.
EXTENDS AtOob
=============================================================================
