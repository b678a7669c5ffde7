----------------------------- MODULE MCEsp8266 ------------------------------
\* TLC instances of Esp8266; the configurations give the constants.
EXTENDS Esp8266, TLC
\* The applications run the same code.
Alike == Permutations(Apps)
=============================================================================
