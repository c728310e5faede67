--------------------------- MODULE MCReceiveLoop ---------------------------
EXTENDS ReceiveLoop, TLC

CONSTANTS s1, s2
=============================================================================
