------------------------------- MODULE MCUsip -------------------------------
\* TLC instances of Usip; the configurations give the constants.
EXTENDS Usip, TLC
\* The stations run the same code.
Alike == Permutations(Stations)
=============================================================================
