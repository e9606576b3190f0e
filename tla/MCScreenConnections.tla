------------------------- MODULE MCScreenConnections -------------------------
(* A screen with up to two connections at a time.                          *)
EXTENDS ScreenConnections, TLC

CONSTANTS k1, k2
=============================================================================
