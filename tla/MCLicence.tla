------------------------------ MODULE MCLicence ------------------------------
(* Small instances of Licence.                                              *)
EXTENDS Licence, TLC

CONSTANTS w1, w2, other

Symmetric == Permutations(Installs)

\* One worker serves requests, the other does whatever the administrator asks.
ServeAndManage == [w \in Workers |->
    IF w = w1 THEN {"request", "revalidate"} ELSE {"activate", "beat"}]
=============================================================================
