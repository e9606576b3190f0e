--------------------------- MODULE ScreenConnections ---------------------------
(***************************************************************************)
(* What the server believes about the reachability of one screen: the      *)
(* connection count, the entry of ScreenConnectionRegistry and the         *)
(* is_online column, all written by the WebSocket consumers of that screen *)
(* (commands.consumers.ScreenConsumer), by its HTTP heartbeats, by the     *)
(* check_heartbeats command, by the revocation of its device token and by  *)
(* whoever edits the screen.                                               *)
(*                                                                         *)
(* A consumer handles its connect and its disconnect one after the other,  *)
(* but every screen may have several consumers, in several server          *)
(* processes that share the cache, the database and the channel layer.     *)
(* Each access to those is a step, and a value that was read may be stale  *)
(* when it is used.                                                        *)
(***************************************************************************)
EXTENDS Naturals, FiniteSets

CONSTANTS
    Conns,            \* WebSocket connections of the screen that may exist at a time
    NoConn,
    MaxConnections,   \* MAX_CONNECTIONS_PER_SCREEN
    LongLived,        \* cache entries come to the end of their hour
    MaxBeats,         \* bound on the heartbeats
    MaxRequests,      \* bound on the edits of the screen and revocations of its token
    MaxFailures,      \* bound on the connects that raise
    MaxDeaths         \* bound on the consumers whose process is killed

ASSUME ScreenConnectionsAssumption ==
    /\ NoConn \notin Conns
    /\ MaxConnections \in Nat \ {0}
    /\ LongLived \in BOOLEAN
    /\ MaxBeats \in Nat
    /\ MaxRequests \in Nat
    /\ MaxFailures \in Nat
    /\ MaxDeaths \in Nat

VARIABLES
    conn,       \* conn[k]: the consumer of connection k
    count,      \* the cache entry screen_connections:{id}, 0 when it is not there
    registry,   \* the cache entry screen_connection:{id}
    group,      \* the channels in the group of the screen
    row,        \* is_online, last_heartbeat_at and token_revoked_at of the screen
    beat,       \* a heartbeat request under way
    check,      \* a run of check_heartbeats: the instance of the screen it judges
    edit,       \* an edit of the screen: the instance it read, and whether an edit has
                \* ever written back what had changed in between
    budget

vars == <<conn, count, registry, group, row, beat, check, edit, budget>>
shared == <<count, registry, group>>
others == <<row, beat, check, edit>>

-----------------------------------------------------------------------------
(* connect() goes down the first line of steps, disconnect() the second.   *)
ConnectPcs == {"count", "counted", "join", "register", "mark"}
DisconnectPcs == {"uncount", "uncounted", "unregister", "discard", "offline"}
Pcs == {"idle", "open", "dead"} \cup ConnectPcs \cup DisconnectPcs

(* got: the count that was read; marked: it has set is_online.             *)
Consumers == [pc : Pcs, got : 0 .. MaxConnections, marked : BOOLEAN]
NoConsumer == [pc |-> "idle", got |-> 0, marked |-> FALSE]

Ages == {"never", "fresh", "old"}
Rows == [online : BOOLEAN, heard : Ages, revoked : BOOLEAN]

Checks == [pc : {"idle", "judge"}, heard : Ages]
NewRow == [online |-> FALSE, heard |-> "never", revoked |-> FALSE]
Edits == [pc : {"idle", "save"}, read : Rows, overwrote : BOOLEAN]

Init ==
    /\ conn = [k \in Conns |-> NoConsumer]
    /\ count = 0
    /\ registry = NoConn
    /\ group = {}
    /\ row = NewRow
    /\ beat = "idle"
    /\ check = [pc |-> "idle", heard |-> "never"]
    /\ edit = [pc |-> "idle", read |-> NewRow, overwrote |-> FALSE]
    /\ budget = [beats |-> 0, requests |-> 0, failures |-> 0, deaths |-> 0]

At(k, pc) == conn[k].pc = pc
Goto(k, pc) == conn' = [conn EXCEPT ![k].pc = pc]

-----------------------------------------------------------------------------
(* connect()                                                               *)

\* A handshake with the credentials of the screen.
Connect(k) ==
    /\ At(k, "idle")
    /\ Goto(k, "count")
    /\ UNCHANGED <<shared, others, budget>>

\* check_concurrent_connections: cache.get ...
ReadCount(k) ==
    /\ At(k, "count")
    /\ conn' = [conn EXCEPT ![k].pc = "counted", ![k].got = count]
    /\ UNCHANGED <<shared, others, budget>>

\* ... and cache.set.  A consumer that is refused here has its screen_id already,
\* so its disconnect() does all that of an accepted one.
Admit(k) ==
    /\ At(k, "counted")
    /\ IF conn[k].got < MaxConnections
       THEN count' = conn[k].got + 1 /\ Goto(k, "join")
       ELSE UNCHANGED count /\ Goto(k, "uncount")
    /\ UNCHANGED <<registry, group, others, budget>>

\* group_add and accept
Join(k) ==
    /\ At(k, "join")
    /\ group' = group \cup {k}
    /\ Goto(k, "register")
    /\ UNCHANGED <<count, registry, others, budget>>

Register(k) ==
    /\ At(k, "register")
    /\ registry' = k
    /\ Goto(k, "mark")
    /\ UNCHANGED <<count, group, others, budget>>

MarkOnline(k) ==
    /\ At(k, "mark")
    /\ row' = [row EXCEPT !.online = TRUE]
    /\ conn' = [conn EXCEPT ![k].pc = "open", ![k].marked = TRUE]
    /\ UNCHANGED <<shared, beat, check, edit, budget>>

\* The database, the cache or the channel layer raises: close(4002).
ConnectFails(k) ==
    /\ conn[k].pc \in ConnectPcs
    /\ budget.failures < MaxFailures
    /\ budget' = [budget EXCEPT !.failures = @ + 1]
    /\ Goto(k, "uncount")
    /\ UNCHANGED <<shared, others>>

-----------------------------------------------------------------------------
(* disconnect()                                                            *)

\* The device or the server closes, or the loss of the device is noticed.
Close(k) ==
    /\ At(k, "open")
    /\ Goto(k, "uncount")
    /\ UNCHANGED <<shared, others, budget>>

\* decrement_connection_count: cache.get ...
ReadUncount(k) ==
    /\ At(k, "uncount")
    /\ conn' = [conn EXCEPT ![k].pc = "uncounted", ![k].got = count]
    /\ UNCHANGED <<shared, others, budget>>

\* ... and cache.set.
LessUnchecked(n) == n - 1
LessButOne(n) == IF n > 1 THEN n - 1 ELSE count
Less(n) == IF n > 0 THEN n - 1 ELSE count

Uncount(k) ==
    /\ At(k, "uncounted")
    /\ count' = Less(conn[k].got)
    /\ Goto(k, "unregister")
    /\ UNCHANGED <<registry, group, others, budget>>

\* unregister_connection deletes the entry whoever wrote it.
UnregisterForgotten(k) ==
    /\ At(k, "unregister")
    /\ Goto(k, "discard")
    /\ UNCHANGED <<shared, others, budget>>
Unregister(k) ==
    /\ At(k, "unregister")
    /\ registry' = NoConn
    /\ Goto(k, "discard")
    /\ UNCHANGED <<count, group, others, budget>>

Discard(k) ==
    /\ At(k, "discard")
    /\ group' = group \ {k}
    /\ Goto(k, "offline")
    /\ UNCHANGED <<count, registry, others, budget>>

MarkOfflineForgotten(k) ==
    /\ At(k, "offline")
    /\ conn' = [conn EXCEPT ![k] = NoConsumer]
    /\ UNCHANGED <<shared, others, budget>>
MarkOffline(k) ==
    /\ At(k, "offline")
    /\ row' = [row EXCEPT !.online = FALSE]
    /\ conn' = [conn EXCEPT ![k] = NoConsumer]
    /\ UNCHANGED <<shared, beat, check, edit, budget>>

\* The process is killed, or disconnect() raises: what is left to do is not done.
Die(k) ==
    /\ conn[k].pc \notin {"idle", "dead"}
    /\ budget.deaths < MaxDeaths
    /\ budget' = [budget EXCEPT !.deaths = @ + 1]
    /\ Goto(k, "dead")
    /\ UNCHANGED <<shared, others>>

-----------------------------------------------------------------------------
(* The cache entries live for an hour from their last write, however long  *)
(* the connections last.                                                   *)
ExpireCount ==
    /\ LongLived
    /\ count > 0
    /\ count' = 0
    /\ UNCHANGED <<conn, registry, group, others, budget>>

ExpireRegistry ==
    /\ LongLived
    /\ registry # NoConn
    /\ registry' = NoConn
    /\ UNCHANGED <<conn, count, group, others, budget>>

-----------------------------------------------------------------------------
(* Heartbeats.                                                             *)

\* heartbeat_endpoint (/iot/): the device token is verified ...
HeartbeatArrives ==
    /\ beat = "idle"
    /\ ~row.revoked
    /\ budget.beats < MaxBeats
    /\ budget' = [budget EXCEPT !.beats = @ + 1]
    /\ beat' = "save"
    /\ UNCHANGED <<conn, shared, row, check, edit>>

\* ... and update_heartbeat saves, whether or not it still holds.
UpdateHeartbeat ==
    /\ beat = "save"
    /\ row' = [row EXCEPT !.online = TRUE, !.heard = "fresh"]
    /\ beat' = "idle"
    /\ UNCHANGED <<conn, shared, check, edit, budget>>

\* The timeout of check_heartbeats passes since the last heartbeat.
Older(age) == IF age = "fresh" THEN "old" ELSE age
Age ==
    /\ "fresh" \in {row.heard, check.heard, edit.read.heard}
    /\ row' = [row EXCEPT !.heard = Older(@)]
    /\ check' = [check EXCEPT !.heard = Older(@)]
    /\ edit' = [edit EXCEPT !.read.heard = Older(@)]
    /\ UNCHANGED <<conn, shared, beat, budget>>

StaleWhenOld(age) == age = "old"
IsHeartbeatStale(age) == age # "fresh"

\* check_heartbeats reads the screens that are online ...
CheckQuery ==
    /\ check.pc = "idle"
    /\ row.online
    /\ check' = [pc |-> "judge", heard |-> row.heard]
    /\ UNCHANGED <<conn, shared, row, beat, edit, budget>>

\* ... and judges the instances it read; mark_offline writes is_online alone.
CheckJudge ==
    /\ check.pc = "judge"
    /\ row' = [row EXCEPT !.online = IF IsHeartbeatStale(check.heard) THEN FALSE ELSE @]
    /\ check' = [pc |-> "idle", heard |-> "never"]
    /\ UNCHANGED <<conn, shared, beat, edit, budget>>

-----------------------------------------------------------------------------
(* The dashboard.                                                          *)

Request ==
    /\ budget.requests < MaxRequests
    /\ budget' = [budget EXCEPT !.requests = @ + 1]

RevokeDeviceToken ==
    /\ ~row.revoked
    /\ Request
    /\ row' = [row EXCEPT !.revoked = TRUE, !.online = FALSE]
    /\ UNCHANGED <<conn, shared, beat, check, edit>>

IssueDeviceToken ==
    /\ row.revoked
    /\ row' = [row EXCEPT !.revoked = FALSE]
    /\ UNCHANGED <<conn, shared, beat, check, edit, budget>>

\* PUT and PATCH of the screen, and every item of a bulk update, read the row ...
EditRead ==
    /\ edit.pc = "idle"
    /\ Request
    /\ edit' = [edit EXCEPT !.pc = "save", !.read = row]
    /\ UNCHANGED <<conn, shared, row, beat, check>>

\* ... and save() writes every column of it, changed or not.
EditSave ==
    /\ edit.pc = "save"
    /\ row' = edit.read
    /\ edit' = [pc |-> "idle", read |-> NewRow,
                overwrote |-> edit.overwrote \/ edit.read # row]
    /\ UNCHANGED <<conn, shared, beat, check, budget>>

-----------------------------------------------------------------------------
Connecting(k) == ReadCount(k) \/ Admit(k) \/ Join(k) \/ Register(k) \/ MarkOnline(k)
Disconnecting(k) ==
    ReadUncount(k) \/ Uncount(k) \/ Unregister(k) \/ Discard(k) \/ MarkOffline(k)
CheckHeartbeats == CheckQuery \/ CheckJudge

Next ==
    \/ \E k \in Conns :
          \/ Connect(k) \/ Connecting(k) \/ ConnectFails(k)
          \/ Close(k) \/ Disconnecting(k) \/ Die(k)
    \/ ExpireCount \/ ExpireRegistry
    \/ HeartbeatArrives \/ UpdateHeartbeat \/ Age
    \/ CheckHeartbeats
    \/ RevokeDeviceToken \/ IssueDeviceToken \/ EditRead \/ EditSave

Spec == Init /\ [][Next]_vars

(* A consumer whose process lives finishes connect() and disconnect(), a   *)
(* heartbeat or an edit that was accepted is saved, time passes and        *)
(* check_heartbeats is run again and again.  Devices owe nothing.          *)
FairSpec ==
    /\ Spec
    /\ \A k \in Conns : WF_vars(Connecting(k) \/ Disconnecting(k))
    /\ WF_vars(UpdateHeartbeat)
    /\ WF_vars(EditSave)
    /\ WF_vars(Age)
    /\ WF_vars(CheckHeartbeats)

-----------------------------------------------------------------------------
(* Properties.                                                             *)

\* The types; the count never passes the limit and never goes below zero.
TypeOK ==
    /\ conn \in [Conns -> Consumers]
    /\ count \in 0 .. MaxConnections
    /\ registry \in Conns \cup {NoConn}
    /\ group \subseteq Conns
    /\ row \in Rows
    /\ beat \in {"idle", "save"}
    /\ check \in Checks
    /\ edit \in Edits
    /\ budget \in [beats : Nat, requests : Nat, failures : Nat, deaths : Nat]

\* The registry never names a channel that has left the group: connect() joins
\* before it registers, disconnect() unregisters before it leaves, and however the
\* consumers overlap, fail or die, a command that is pushed because the registry has
\* an entry is sent to a group with that entry's channel in it.
RegisteredIsInGroup == registry # NoConn => registry \in group

\* A screen that never sent a heartbeat is shown online only on account of a
\* consumer that marked it and has not ended, unless an edit wrote back what had
\* changed: no order of the marks of overlapping connections leaves it online when
\* all of them are closed.
OnlineHasConsumer ==
    row.online /\ row.heard = "never" /\ ~edit.overwrote => \E k \in Conns : conn[k].marked

\* Liveness: whatever consumers died without marking it offline, whatever heartbeats
\* raced with a revocation or a check and whatever an edit brought back, a screen that
\* falls silent is shown offline in the end.
Silent == beat = "idle" /\ edit.pc = "idle" /\ \A k \in Conns : conn[k].pc \in {"idle", "dead"}
SilentGoesOffline == <>[]Silent => <>[]~row.online

\* Liveness: a device that keeps connecting gets a connection again and again,
\* although deaths and lost updates leave the count too high.
NeverLockedOut ==
    (\A k \in Conns : WF_vars(Connect(k)))
        => []<>(\E k \in Conns : At(k, "open")) \/ <>(\A k \in Conns : At(k, "dead"))

=============================================================================
