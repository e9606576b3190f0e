--------------------------- MODULE MCInstallation ---------------------------
(* A small instance of Installation.                                        *)
EXTENDS Installation, TLC
=============================================================================
