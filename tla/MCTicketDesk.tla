---------------------------- MODULE MCTicketDesk ----------------------------
(* Small instances of TicketDesk and of TicketBridge, which share no state. *)
EXTENDS TicketDesk, TicketBridge, TLC

CONSTANTS a1, a2, c1, c2, page, watch, offline, mail, sms, t1, t2, q1, q2, q3

\* A ticket has to be answered within one tick and resolved within two, a
\* critical one at once and within one.
Minutes == [p \in Priorities |-> [m \in Metrics |->
    (IF p = "high" THEN 1 ELSE 0) + (IF m = "resolution" THEN 1 ELSE 0)]]

Told == Metrics \X Levels
AllNotices == Told \cup OtherNotices

\* A rule for breaches and one for lost screens, with two channels each.
ForBreaches == [n \in Notices |->
    IF n = offline THEN {watch} ELSE IF n[2] = "breached" THEN {page} ELSE {}]
Both == [r \in Rules |-> {mail, sms}]
OneTick == [r \in Rules |-> 1]

DeskRests == [ops |-> 0, checks |-> 0, failures |-> 0, events |-> 0]
BridgeRests == [messages |-> 0, faults |-> 0, gateway |-> FALSE]

\* Two requests and a check or the reverse, or failures and one check, or failures and two
\* announcements of two callers.
Instances == {DeskRests,
    [ops |-> 2, checks |-> 1, failures |-> 0, events |-> 0],
    [ops |-> 1, checks |-> 2, failures |-> 0, events |-> 0],
    [ops |-> 0, checks |-> 1, failures |-> 2, events |-> 0],
    [ops |-> 0, checks |-> 0, failures |-> 1, events |-> 2]}
\* Four messages, or three of which some go through the mother gateway.
Traffic == {BridgeRests,
    [messages |-> 4, faults |-> 2, gateway |-> FALSE],
    [messages |-> 3, faults |-> 1, gateway |-> TRUE]}

\* A behaviour of the one or of the other.
VARIABLE part
ServiceInit ==
    /\ Init /\ BridgeInit
    /\ part = IF allowance = BridgeRests THEN "desk" ELSE "bridge"
    /\ part = "desk" <=> budget # DeskRests
ServiceNext ==
    /\ UNCHANGED part
    /\ \/ part = "desk" /\ Next /\ UNCHANGED bridgeVars
       \/ part = "bridge" /\ BridgeNext /\ UNCHANGED vars
ServiceSpec == ServiceInit /\ [][ServiceNext]_<<vars, bridgeVars, part>>

Symmetric == Permutations(Agents) \cup Permutations(Channels) \cup Permutations(Callers)
=============================================================================
