---------------------------- MODULE MCOcMqttTiny ----------------------------
\* TLC instances of OcMqttTiny; the configurations give the constants.
EXTENDS OcMqttTiny, TLC
CONSTANTS b1, b2
OneBuiltin == <<b1>>
TwoBuiltin == <<b1, b2>>
\* Tasks differ only in their names, and so do user topics.
Alike == Permutations(Apps) \cup Permutations(UserTopics)
=============================================================================
