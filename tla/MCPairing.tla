------------------------------ MODULE MCPairing ------------------------------
(* TVs that generate up to two codes, which up to two users bind, with two *)
(* status polls under way.                                                 *)
EXTENDS Pairing, TLC

CONSTANTS s1, s2, d1, d2, p1, p2, b1, b2

Symmetric == Permutations(Polls) \cup Permutations(Binders)
=============================================================================
