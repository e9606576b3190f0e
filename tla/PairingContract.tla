--------------------------- MODULE PairingContract ---------------------------
(***************************************************************************)
(* What the pairing of screens promises, whatever the order in which the   *)
(* handlers touch the session rows: a code is offered once, then a user    *)
(* binds it to exactly one new screen or it lapses, and only a screen that *)
(* was bound is ever given device tokens, each of which replaces the one   *)
(* before.                                                                 *)
(***************************************************************************)
EXTENDS Naturals

CONSTANT Sessions

VARIABLES
    phase,     \* phase[s]: what became of the code of session s
    screens,   \* screens[s]: how many Screen rows were created by binding s
    issued     \* issued[s]: how many device tokens its screen was given

vars == <<phase, screens, issued>>

Init ==
    /\ phase = [s \in Sessions |-> "absent"]
    /\ screens = [s \in Sessions |-> 0]
    /\ issued = [s \in Sessions |-> 0]

Offer(s) ==
    /\ phase[s] = "absent"
    /\ phase' = [phase EXCEPT ![s] = "offered"]
    /\ UNCHANGED <<screens, issued>>

\* The codes of S lapse; the cleanup command takes many at a time.
Lapse(S) ==
    /\ \A s \in S : phase[s] = "offered"
    /\ phase' = [s \in Sessions |-> IF s \in S THEN "lapsed" ELSE phase[s]]
    /\ UNCHANGED <<screens, issued>>

Bind(s) ==
    /\ phase[s] = "offered"
    /\ phase' = [phase EXCEPT ![s] = "bound"]
    /\ screens' = [screens EXCEPT ![s] = @ + 1]
    /\ UNCHANGED issued

Issue(s) ==
    /\ phase[s] = "bound"
    /\ issued' = [issued EXCEPT ![s] = @ + 1]
    /\ UNCHANGED <<phase, screens>>

Next ==
    \/ \E s \in Sessions : Offer(s) \/ Bind(s) \/ Issue(s)
    \/ \E S \in SUBSET Sessions : Lapse(S)

Spec == Init /\ [][Next]_vars

-----------------------------------------------------------------------------
\* Exactly the sessions that were bound have a screen, and each has one.
OneScreenEach == \A s \in Sessions : screens[s] = IF phase[s] = "bound" THEN 1 ELSE 0

\* A token belongs to a screen that a user bound.
TokensNeedBinding == \A s \in Sessions : issued[s] > 0 => phase[s] = "bound"
=============================================================================
