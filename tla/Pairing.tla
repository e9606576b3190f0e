------------------------------- MODULE Pairing -------------------------------
(***************************************************************************)
(* How a TV becomes a screen of a tenant: the rows of                      *)
(* signage.models.PairingSession and the device token of the Screen that a *)
(* bind creates, the handlers of /api/pairing/ (generate, status, bind),   *)
(* cleanup_pairing_sessions, the token operations of the dashboard, and    *)
(* the pairing page of the web player (PairingFlow.vue, WebPlayer.vue).    *)
(*                                                                         *)
(* Only bind takes the lock of a row.  The status poll and the bind        *)
(* serializer read a row, decide, and save single columns of their own     *)
(* instance later; a save waits for the lock but does not look again.      *)
(* A token is the number of its issue; the column device_token_hash is the *)
(* number of the token it accepts, 0 when there is none.                   *)
(***************************************************************************)
EXTENDS Naturals, Sequences, FiniteSets

CONSTANTS
    Sessions,      \* the pairing sessions that are ever generated
    Devices,       \* TVs that open /player/connect
    Polls,         \* status polls that may be under way at a time
    Binders,       \* bind requests that may be under way at a time
    NoSession,
    NoDevice,
    DeviceLimit,   \* Tenant.device_limit of the tenant of all binding users
    Lifetime,      \* the five minutes of a code
    MaxTime,       \* bound on the clock
    MaxTokenOps,   \* bound on revocations and regenerations by the dashboard
    MaxLosses      \* bound on the polls and binds that die or whose answer is lost

ASSUME PairingAssumption ==
    /\ NoSession \notin Sessions
    /\ NoDevice \notin Devices
    /\ DeviceLimit \in Nat
    /\ Lifetime \in Nat
    /\ MaxTime \in Nat
    /\ MaxTokenOps \in Nat
    /\ MaxLosses \in Nat

VARIABLES
    session,   \* session[s]: the row of s
    screen,    \* screen[s]: the Screen rows that binding s created, and the token of the last
    now,
    poll,      \* poll[p]: a status poll, its handler and its answer
    bind,      \* bind[b]: a bind request and its handler
    tv,        \* tv[d]: the pairing page and the stored identity of device d
    budget     \* token operations and losses so far

vars == <<session, screen, now, poll, bind, tv, budget>>

-----------------------------------------------------------------------------
Statuses == {"absent", "pending", "paired", "expired"}

SessionRows == [status : Statuses, expires : Nat, delivered : BOOLEAN]

ScreenRows == [rows : Nat, hash : Nat, issued : Nat]

NoIdentity == [screen |-> NoSession, token |-> 0]
Identities == [screen : Sessions \cup {NoSession}, token : Nat]

PollPcs == {"idle", "sent", "expire", "issue", "mark", "answer"}
Answers == {"none", "pending", "expired", "token", "delivered"}
PollRecords == [pc : PollPcs, dev : Devices \cup {NoDevice}, of : Sessions \cup {NoSession},
                token : Nat, answer : Answers]

BindPcs == {"idle", "expire", "lock", "create"}
BindRecords == [pc : BindPcs, of : Sessions \cup {NoSession}]

(* mounted: PairingFlow is on the screen; polling: its two timers run;     *)
(* again: time-outs that will generate a session; welcome: the identities  *)
(* whose welcome animation runs; route: the screen the URL names.          *)
TVs == [mounted : BOOLEAN, polling : BOOLEAN, again : Nat, code : Sessions \cup {NoSession},
        welcome : Seq(Identities), held : Identities, route : Sessions \cup {NoSession}]

Mounted == [mounted |-> TRUE, polling |-> FALSE, again |-> 1, code |-> NoSession,
            welcome |-> <<>>, held |-> NoIdentity, route |-> NoSession]

IdlePoll == [pc |-> "idle", dev |-> NoDevice, of |-> NoSession, token |-> 0, answer |-> "none"]
IdleBind == [pc |-> "idle", of |-> NoSession]

Init ==
    /\ session = [s \in Sessions |-> [status |-> "absent", expires |-> 0, delivered |-> FALSE]]
    /\ screen = [s \in Sessions |-> [rows |-> 0, hash |-> 0, issued |-> 0]]
    /\ now = 0
    /\ poll = [p \in Polls |-> IdlePoll]
    /\ bind = [b \in Binders |-> IdleBind]
    /\ tv = [d \in Devices |-> Mounted]
    /\ budget = [ops |-> 0, losses |-> 0]

\* is_expired() and is_valid()
Expired(s) == now > session[s].expires
IsValid(s) == session[s].status = "pending" /\ ~Expired(s)

\* No transaction holds the row: an UPDATE of s goes through.
Holds(b, s) == bind[b].pc = "create" /\ bind[b].of = s
Free(s) == \A b \in Binders : ~Holds(b, s)

\* count_screens_for_tenant: the Screen rows of the tenant, <<s, n>> the n-th of session s.
TenantScreens == UNION {{s} \X (1 .. screen[s].rows) : s \in Sessions}
ScreenCount == Cardinality(TenantScreens)

\* issue_device_token()
IssuedUnsaved(r) == [r EXCEPT !.issued = @ + 1]
Issued(r) == [r EXCEPT !.issued = @ + 1, !.hash = r.issued + 1]

MarkExpired(s) ==
    /\ Free(s)
    /\ session' = [session EXCEPT ![s].status = "expired"]

-----------------------------------------------------------------------------
(* The pairing page.                                                       *)

\* generate_pairing_session, called on mount and by the time-outs of the page.
Generate(d, s) ==
    /\ tv[d].mounted
    /\ tv[d].again > 0
    /\ session[s].status = "absent"
    /\ session' = [session EXCEPT ![s] = [status |-> "pending", expires |-> now + Lifetime,
                                          delivered |-> FALSE]]
    /\ tv' = [tv EXCEPT ![d].again = @ - 1, ![d].code = s, ![d].polling = TRUE]
    /\ UNCHANGED <<screen, now, poll, bind, budget>>

\* The poll timer fires, whether or not the last poll was answered.
SendPoll(d, p) ==
    /\ tv[d].polling
    /\ poll[p].pc = "idle"
    /\ poll' = [poll EXCEPT ![p] = [pc |-> "sent", dev |-> d, of |-> tv[d].code,
                                    token |-> 0, answer |-> "none"]]
    /\ UNCHANGED <<session, screen, now, bind, tv, budget>>

\* handleSessionExpired
StartsOver(t) == [t EXCEPT !.polling = FALSE, !.again = @ + 1]

Countdown(d) ==
    /\ tv[d].polling
    /\ now >= session[tv[d].code].expires
    /\ tv' = [tv EXCEPT ![d] = StartsOver(@)]
    /\ UNCHANGED <<session, screen, now, poll, bind, budget>>

\* What the page makes of an answer.
StopsOnDelivered(t, p) ==
    CASE p.answer = "token" -> [t EXCEPT !.polling = FALSE,
             !.welcome = Append(@, [screen |-> p.of, token |-> p.token])]
      [] p.answer = "delivered" -> [t EXCEPT !.polling = FALSE]
      [] p.answer = "expired" -> StartsOver(t)
      [] OTHER -> t
Told(t, p) ==
    CASE p.answer = "token" -> [t EXCEPT !.polling = FALSE,
             !.welcome = Append(@, [screen |-> p.of, token |-> p.token])]
      [] p.answer \in {"delivered", "expired"} -> StartsOver(t)
      [] OTHER -> t

\* The answer arrives; the page that asked may be gone.
ReceiveAnswer(p) ==
    /\ poll[p].pc = "answer"
    /\ poll' = [poll EXCEPT ![p] = IdlePoll]
    /\ tv' = [d \in Devices |-> IF poll[p].dev = d THEN Told(tv[d], poll[p]) ELSE tv[d]]
    /\ UNCHANGED <<session, screen, now, bind, budget>>

\* handlePaired, after the animation: the first identity is stored and the page
\* goes away with its timers, unless the URL names another screen.
Welcome(d) ==
    LET id == Head(tv[d].welcome)
    IN  /\ tv[d].mounted
        /\ tv[d].welcome # <<>>
        /\ IF tv[d].route \in {NoSession, id.screen}
           THEN /\ tv' = [tv EXCEPT ![d] = [mounted |-> FALSE, polling |-> FALSE, again |-> 0,
                                            code |-> NoSession, welcome |-> <<>>,
                                            held |-> id, route |-> id.screen]]
                /\ poll' = [p \in Polls |-> [poll[p] EXCEPT !.dev = IF @ = d THEN NoDevice ELSE @]]
           ELSE /\ tv' = [tv EXCEPT ![d].welcome = Tail(@)]
                /\ UNCHANGED poll
        /\ UNCHANGED <<session, screen, now, bind, budget>>

\* A request of the player is answered 401: it shows UnpairMessage, then enterPairing.
Rejected(d) ==
    /\ ~tv[d].mounted
    /\ tv[d].held.token # screen[tv[d].held.screen].hash
    /\ tv' = [tv EXCEPT ![d] = [Mounted EXCEPT !.route = tv[d].route]]
    /\ UNCHANGED <<session, screen, now, poll, bind, budget>>

-----------------------------------------------------------------------------
(* The handler of /api/pairing/status/.                                    *)

\* The row is read: what the handler will do is decided.
Decided(s) ==
    CASE session[s].status = "pending" /\ Expired(s) -> "expire"
      [] session[s].status = "paired" /\ ~session[s].delivered -> "issue"
      [] OTHER -> "answer"

Reply(s) ==
    CASE session[s].status = "pending" /\ ~Expired(s) -> "pending"
      [] session[s].status = "paired" -> IF session[s].delivered THEN "delivered" ELSE "token"
      [] OTHER -> "expired"

ReadSession(p) ==
    /\ poll[p].pc = "sent"
    /\ poll' = [poll EXCEPT ![p].pc = Decided(poll[p].of), ![p].answer = Reply(poll[p].of)]
    /\ UNCHANGED <<session, screen, now, bind, tv, budget>>

PollExpires(p) ==
    /\ poll[p].pc = "expire"
    /\ MarkExpired(poll[p].of)
    /\ poll' = [poll EXCEPT ![p].pc = "answer"]
    /\ UNCHANGED <<screen, now, bind, tv, budget>>

IssueToken(p) ==
    LET s == poll[p].of
    IN  /\ poll[p].pc = "issue"
        /\ screen' = [screen EXCEPT ![s] = Issued(@)]
        /\ poll' = [poll EXCEPT ![p].pc = "mark", ![p].token = screen[s].issued + 1]
        /\ UNCHANGED <<session, now, bind, tv, budget>>

MarkDelivered(p) ==
    /\ poll[p].pc = "mark"
    /\ session' = [session EXCEPT ![poll[p].of].delivered = TRUE]
    /\ poll' = [poll EXCEPT ![p].pc = "answer"]
    /\ UNCHANGED <<screen, now, bind, tv, budget>>

\* The request or its answer is lost, or the handler dies between two saves.
LosePoll(p) ==
    /\ poll[p].pc # "idle"
    /\ budget.losses < MaxLosses
    /\ budget' = [budget EXCEPT !.losses = @ + 1]
    /\ poll' = [poll EXCEPT ![p] = IdlePoll]
    /\ UNCHANGED <<session, screen, now, bind, tv>>

-----------------------------------------------------------------------------
(* The handler of /api/pairing/bind/.                                      *)

\* PairingBindSerializer.validate: the code of a pending session is found.
BindLookup(b, s) ==
    /\ bind[b].pc = "idle"
    /\ session[s].status = "pending"
    /\ bind' = [bind EXCEPT ![b] = [pc |-> IF Expired(s) THEN "expire" ELSE "lock", of |-> s]]
    /\ UNCHANGED <<session, screen, now, poll, tv, budget>>

BindExpires(b) ==
    /\ bind[b].pc = "expire"
    /\ MarkExpired(bind[b].of)
    /\ bind' = [bind EXCEPT ![b] = IdleBind]
    /\ UNCHANGED <<screen, now, poll, tv, budget>>

\* The pending row is locked and checked again; the plan is asked.
ClaimableAnyTime(s) == session[s].status = "pending" /\ ScreenCount < DeviceLimit
ClaimableAnyStatus(s) == ~Expired(s) /\ ScreenCount < DeviceLimit
ClaimableOneMore(s) == IsValid(s) /\ ScreenCount <= DeviceLimit
Claimable(s) == IsValid(s) /\ ScreenCount < DeviceLimit

BindLock(b) ==
    LET s == bind[b].of
    IN  /\ bind[b].pc = "lock"
        /\ Free(s)
        /\ bind' = [bind EXCEPT ![b] = IF Claimable(s) THEN [@ EXCEPT !.pc = "create"]
                                                       ELSE IdleBind]
        /\ UNCHANGED <<session, screen, now, poll, tv, budget>>

\* The screen is created and mark_paired saved in one transaction.
BoundAndDelivered(r) == [r EXCEPT !.status = "paired", !.delivered = TRUE]
Bound(r) == [r EXCEPT !.status = "paired"]

BindCommit(b) ==
    LET s == bind[b].of
    IN  /\ bind[b].pc = "create"
        /\ screen' = [screen EXCEPT ![s].rows = @ + 1]
        /\ session' = [session EXCEPT ![s] = Bound(@)]
        /\ bind' = [bind EXCEPT ![b] = IdleBind]
        /\ UNCHANGED <<now, poll, tv, budget>>

\* The handler fails at any point; its transaction is rolled back.
BindFails(b) ==
    /\ bind[b].pc # "idle"
    /\ budget.losses < MaxLosses
    /\ budget' = [budget EXCEPT !.losses = @ + 1]
    /\ bind' = [bind EXCEPT ![b] = IdleBind]
    /\ UNCHANGED <<session, screen, now, poll, tv>>

-----------------------------------------------------------------------------
(* The rest of the server.                                                 *)

\* cleanup_pairing_sessions: one UPDATE over the pending sessions that are over.
\* It would wait for the rows that are locked, so it is taken when none is.
CleanUp ==
    /\ \A s \in Sessions : Free(s)
    /\ \E s \in Sessions : session[s].status = "pending" /\ Expired(s)
    /\ session' = [s \in Sessions |->
           IF session[s].status = "pending" /\ Expired(s)
           THEN [session[s] EXCEPT !.status = "expired"] ELSE session[s]]
    /\ UNCHANGED <<screen, now, poll, bind, tv, budget>>

TokenOp ==
    /\ budget.ops < MaxTokenOps
    /\ budget' = [budget EXCEPT !.ops = @ + 1]
    /\ UNCHANGED <<session, now, poll, bind, tv>>

\* regenerate-token hands the token to the user, not to the TV.
RegenerateToken(s) ==
    /\ screen[s].rows > 0
    /\ screen' = [screen EXCEPT ![s] = Issued(@)]
    /\ TokenOp

RevokeToken(s) ==
    /\ screen[s].rows > 0
    /\ screen' = [screen EXCEPT ![s].hash = 0]
    /\ TokenOp

Tick ==
    /\ now < MaxTime
    /\ now' = now + 1
    /\ UNCHANGED <<session, screen, poll, bind, tv, budget>>

-----------------------------------------------------------------------------
Page(d) == (\E s \in Sessions : Generate(d, s)) \/ Countdown(d) \/ Welcome(d) \/ Rejected(d)
StatusHandler(p) == ReadSession(p) \/ PollExpires(p) \/ IssueToken(p) \/ MarkDelivered(p)
BindHandler(b) == BindExpires(b) \/ BindLock(b) \/ BindCommit(b)

Next ==
    \/ \E d \in Devices : Page(d) \/ \E p \in Polls : SendPoll(d, p)
    \/ \E p \in Polls : StatusHandler(p) \/ ReceiveAnswer(p) \/ LosePoll(p)
    \/ \E b \in Binders : BindHandler(b) \/ BindFails(b) \/ \E s \in Sessions : BindLookup(b, s)
    \/ \E s \in Sessions : RegenerateToken(s) \/ RevokeToken(s)
    \/ CleanUp
    \/ Tick

Spec == Init /\ [][Next]_vars

(* The timers of the page fire, a handler that started goes on and an      *)
(* answer that was not lost arrives.  Users, the clock and the cleanup     *)
(* command owe nothing.                                                    *)
Fairness ==
    /\ \A d \in Devices : WF_vars(Page(d)) /\ WF_vars(\E p \in Polls : SendPoll(d, p))
    /\ \A p \in Polls : WF_vars(StatusHandler(p) \/ ReceiveAnswer(p))
    /\ \A b \in Binders : WF_vars(BindHandler(b))

FairSpec == Spec /\ Fairness

-----------------------------------------------------------------------------
(* The rows, the requests under way and the pages are of their types.      *)
TypeOK ==
    /\ session \in [Sessions -> SessionRows]
    /\ screen \in [Sessions -> ScreenRows]
    /\ now \in Nat
    /\ poll \in [Polls -> PollRecords]
    /\ bind \in [Binders -> BindRecords]
    /\ tv \in [Devices -> TVs]
    /\ budget \in [ops : Nat, losses : Nat]

(* Refinement: however the unlocked saves of polls, serializer and cleanup *)
(* interleave with binds, each code is bound to one screen or lapses, and  *)
(* only bound screens get tokens.  A session whose screen exists counts as *)
(* bound whatever its status column says.                                  *)
Phase(s) ==
    IF screen[s].rows > 0 THEN "bound"
    ELSE CASE session[s].status = "absent" -> "absent"
           [] session[s].status = "pending" -> "offered"
           [] OTHER -> "lapsed"

Contract == INSTANCE PairingContract WITH
    phase <- [s \in Sessions |-> Phase(s)],
    screens <- [s \in Sessions |-> screen[s].rows],
    issued <- [s \in Sessions |-> screen[s].issued]

KeepsContract == Contract!Spec

(* Action property: a code whose five minutes are over is claimed by no    *)
(* bind any more, even one whose serializer looked it up in time: the      *)
(* second is_valid() of bind_pairing_session is made under the lock.       *)
NoLateClaim ==
    [][\A s \in Sessions : Expired(s) /\ Free(s) => \A b \in Binders : ~Holds(b, s)']_vars

(* The tenant never has more screens than its plan allows.  Counting and   *)
(* creating are two steps: this holds while one bind runs at a time.       *)
WithinPlan == ScreenCount <= DeviceLimit

(* The identity a TV stored after one bind is accepted by the server until *)
(* the dashboard revokes or regenerates the token.  The hash is replaced   *)
(* by every poll that finds the activation undelivered: this holds while a *)
(* TV's polls do not overlap.                                              *)
StoredIdentityWorks ==
    budget.ops = 0 => \A d \in Devices : LET id == tv[d].held
                                        IN  id # NoIdentity => id.token = screen[id.screen].hash

(* A pairing page always has a timer, an animation or a time-out that will *)
(* move it: no answer, late or repeated, leaves the TV on a dead page.     *)
Stranded(d) ==
    tv[d].mounted /\ ~tv[d].polling /\ tv[d].again = 0 /\ tv[d].welcome = <<>>
NotStranded == \A d \in Devices : ~Stranded(d)

(* Liveness: once the code a TV shows is bound, the TV comes to hold an    *)
(* identity of the new screen that the server accepts -- unless a poll is  *)
(* lost, which may take the only token with it, or the time of the code    *)
(* ends before the TV has heard of the bind.  The late answer to a poll    *)
(* about an earlier code makes the page start over whatever it shows, so   *)
(* none may be under way.                                                  *)
BoundIsActivated ==
    \A d \in Devices, s \in Sessions :
        (/\ session[s].status = "paired" /\ tv[d].code = s /\ tv[d].polling
         /\ \A p \in Polls : poll[p].dev = d => poll[p].of = s)
            ~> \/ tv[d].held.screen = s /\ tv[d].held.token = screen[s].hash
               \/ budget.losses > 0
               \/ now >= session[s].expires
=============================================================================
