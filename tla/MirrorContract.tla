--------------------------- MODULE MirrorContract ---------------------------
(***************************************************************************)
(* What the mirroring of tickets promises, whatever posts overlap, overtake *)
(* each other or fail: a message is posted once and mirrored at most once;  *)
(* the mirror of a thread begins with its first message, only grows, and    *)
(* stays in its tenant, of which there is one as long as posts are handled  *)
(* one by one; and a message that does not arrive was lost, was given to    *)
(* the mother gateway, or was owed to nobody.                               *)
(***************************************************************************)
EXTENDS Naturals, Sequences

CONSTANT Threads

VARIABLES
    written,   \* written[t]: how many messages thread t has
    onway,     \* messages, as pairs of thread and number, that may still arrive
    mirror,    \* mirror[t]: the messages that have arrived, in that order
    tenants,   \* the number of tenants, which are numbered from 0
    home,      \* home[t]: the tenant the mirror of t is in
    mother,    \* messages that the mother gateway has accepted
    lost,
    owed,      \* messages written when the mirror of their thread was there
    crowded    \* posts have been handled at one time

vars == <<written, onway, mirror, tenants, home, mother, lost, owed, crowded>>

Init ==
    /\ written = [t \in Threads |-> 0]
    /\ mirror = [t \in Threads |-> <<>>]
    /\ home = [t \in Threads |-> 0]
    /\ onway = {} /\ mother = {} /\ lost = {} /\ owed = {}
    /\ tenants = 0
    /\ crowded = FALSE

There(t) == mirror[t] # <<>>

Write(t) ==
    LET m == <<t, written[t] + 1>> IN
    /\ written' = [written EXCEPT ![t] = @ + 1]
    /\ onway' = onway \cup {m}
    /\ owed' = IF There(t) THEN owed \cup {m} ELSE owed
    /\ UNCHANGED <<mirror, tenants, home, mother, lost, crowded>>

\* The first message makes the mirror; any may make a tenant.
Arrive(t, k) ==
    /\ <<t, k>> \in onway
    /\ onway' = onway \ {<<t, k>>}
    /\ mirror' = [mirror EXCEPT ![t] = Append(@, k)]
    /\ tenants' \in {tenants, tenants + 1}
    /\ ~crowded => tenants' <= 1
    /\ \/ There(t) /\ UNCHANGED home
       \/ /\ ~There(t) /\ k = 1
          /\ \E h \in 0 .. tenants' - 1 : home' = [home EXCEPT ![t] = h]
    /\ UNCHANGED <<written, mother, lost, owed, crowded>>

\* The gateway's answer may be lost; the message then goes on as well.
Forward(m) ==
    /\ m \in onway
    /\ mother' = mother \cup {m}
    /\ onway' \in {onway, onway \ {m}}
    /\ UNCHANGED <<written, mirror, tenants, home, lost, owed, crowded>>

Lose(m) ==
    /\ m \in onway
    /\ onway' = onway \ {m}
    /\ lost' = lost \cup {m}
    /\ UNCHANGED <<written, mirror, tenants, home, mother, owed, crowded>>

\* A reply may come before the mirror is there; a first message fails on another post.
Refuse(t, k) ==
    /\ <<t, k>> \in onway \ owed
    /\ k = 1 => crowded
    /\ onway' = onway \ {<<t, k>>}
    /\ UNCHANGED <<written, mirror, tenants, home, mother, lost, owed, crowded>>

Crowd ==
    /\ crowded' = TRUE
    /\ UNCHANGED <<written, onway, mirror, tenants, home, mother, lost, owed>>

Next ==
    \/ \E t \in Threads : Write(t)
    \/ \E m \in onway : Arrive(m[1], m[2]) \/ Refuse(m[1], m[2]) \/ Forward(m) \/ Lose(m)
    \/ Crowd

Spec == Init /\ [][Next]_vars

-----------------------------------------------------------------------------
\* What has arrived stays where it is, in its tenant; what is no longer on its way
\* does not come back.
SettledStep ==
    \A t \in Threads :
        /\ Len(mirror[t]) <= Len(mirror'[t])
        /\ \A i \in 1 .. Len(mirror[t]) : mirror'[t][i] = mirror[t][i]
        /\ There(t) => home'[t] = home[t]
        /\ \A k \in 1 .. written[t] : <<t, k>> \in onway' => <<t, k>> \in onway
StaysSettled == [][SettledStep]_vars
=============================================================================
