------------------------- MODULE MCControlProtocol -------------------------
EXTENDS ControlProtocol, TLC

CONSTANTS s1, s2, v1, v2

AllV1 == [s \in Services |-> v1]
=============================================================================
