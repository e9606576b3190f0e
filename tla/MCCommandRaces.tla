---------------------------- MODULE MCCommandRaces ----------------------------
(* Two requests of the dashboard race with a device of the older kind over   *)
(* c1; or two polls of the player overlap and lose messages over both        *)
(* commands, and nobody else disturbs them.                                  *)
EXTENDS MCCommandDispatch

VARIABLE part

WithinPart ==
    \/ /\ part = "requests"
       /\ budget'.losses = 0
       /\ row'[c2] = Absent
       /\ \A p \in Pollers \ LegacyPollers : pl'[p] = pl[p]
    \/ /\ part = "polls"
       /\ budget'.requests = 0 /\ budget'.pulls = 0
       /\ screen'.registered = screen.registered

PartsInit == Init /\ part \in {"requests", "polls"}
PartsNext == Next /\ UNCHANGED part /\ WithinPart
PartsSpec == PartsInit /\ [][PartsNext]_<<vars, part>>

Symmetric == Permutations(Workers) \cup Permutations(Pollers \ LegacyPollers)
=============================================================================
