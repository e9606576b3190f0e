---------------------------- MODULE TicketBridge ----------------------------
(* The support tickets of a self-hosted installation, mirrored in the desk   *)
(* of the operator (tickets/operator_bridge.py, the ingest of                *)
(* licensing/registry_views.py and tickets/services.py).                     *)
(*                                                                           *)
(* The request that has committed a ticket or a reply of its requester posts *)
(* it once and forgets it, whatever the answer. The operator handles each    *)
(* post in one transaction, at READ COMMITTED: what it finds may change      *)
(* before it commits, and unique constraints are what it then fails on.      *)
(* Replies of agents are not mirrored; messages are numbered by thread.      *)
EXTENDS Naturals, Sequences, FiniteSets

CONSTANTS
    Threads,      \* tickets of the installation
    Posts,        \* requests of their requesters
    Allowances    \* bounds, as alternatives: how many messages are written and how
                  \* many posts fail, and whether MOTHER_TICKET_VIA_GATEWAY is set

ASSUME BridgeAssumption ==
    /\ Allowances \subseteq [messages : Nat, faults : Nat, gateway : BOOLEAN]
    /\ IsFiniteSet(Threads)

VARIABLES
    written,     \* written[t]: the messages of its requester that thread t has
    post,        \* post[q]: a message on its way
    tenants,     \* the tenants of the installation at the operator, whose slugs are
                 \* numbered from 0
    mirror,      \* mirror[t]: the messages of the mirrored ticket, empty when it is not there
    home,        \* home[t]: the tenant it belongs to
    mother,      \* what the mother gateway has accepted
    faults,      \* the messages whose post was refused, lost or cut off
    promised,    \* the replies that were written when their ticket was mirrored
    overlapped,  \* two posts were handled at one time
    allowance

bridgeVars == <<written, post, tenants, mirror, home, mother, faults, promised,
                overlapped, allowance>>

AtOperator == {"tenant", "ticket", "insert"}
Busy == {"push", "gateway", "direct"} \cup AtOperator

\* opening: it carries the subject of a new ticket. fresh: it has a tenant of its
\* own to insert. size: the tickets of the tenant, which give the next number.
Posted == [pc : Busy, thread : Threads, msg : Nat, opening : BOOLEAN,
           tenant : Nat, fresh : BOOLEAN, size : Nat]
NoPost == [pc |-> "none"]

BridgeInit ==
    /\ written = [t \in Threads |-> 0]
    /\ post = [q \in Posts |-> NoPost]
    /\ tenants = 0
    /\ mirror = [t \in Threads |-> <<>>]
    /\ home = [t \in Threads |-> 0]
    /\ mother = {} /\ faults = {} /\ promised = {}
    /\ overlapped = FALSE
    /\ allowance \in Allowances

Grant(what) ==
    /\ allowance[what] > 0
    /\ allowance' = [allowance EXCEPT ![what] = @ - 1]

Message(q) == <<post[q].thread, post[q].msg>>
Advance(q, pc) == post' = [post EXCEPT ![q].pc = pc]
Finish(q) == post' = [post EXCEPT ![q] = NoPost]

-----------------------------------------------------------------------------
(* The installation                                                          *)

Sent(t, msg, opening) ==
    [pc |-> "push", thread |-> t, msg |-> msg, opening |-> opening,
     tenant |-> 0, fresh |-> FALSE, size |-> 0]

\* create_ticket() and the first message, in one transaction.
Open(q, t) ==
    /\ post[q] = NoPost /\ written[t] = 0
    /\ Grant("messages")
    /\ written' = [written EXCEPT ![t] = 1]
    /\ post' = [post EXCEPT ![q] = Sent(t, 1, TRUE)]
    /\ UNCHANGED <<tenants, mirror, home, mother, faults, promised, overlapped>>

\* add_reply() by the requester.
Reply(q, t) ==
    /\ post[q] = NoPost /\ written[t] > 0
    /\ Grant("messages")
    /\ written' = [written EXCEPT ![t] = @ + 1]
    /\ post' = [post EXCEPT ![q] = Sent(t, written[t] + 1, FALSE)]
    /\ promised' = IF mirror[t] = <<>> THEN promised
                   ELSE promised \cup {<<t, written[t] + 1>>}
    /\ UNCHANGED <<tenants, mirror, home, mother, faults, overlapped>>

\* push_new_ticket_if_configured() reads the ticket and its first message again;
\* push_customer_reply_if_configured() has the body it was given.
LatestOf(t) == written[t]
FirstOf(t) == 1
BeginPush(q) ==
    LET p == post[q] IN
    /\ p.pc = "push"
    /\ post' = [post EXCEPT ![q].pc = IF allowance.gateway THEN "gateway" ELSE "direct",
                            ![q].msg = IF p.opening THEN FirstOf(p.thread) ELSE p.msg]
    /\ UNCHANGED <<written, tenants, mirror, home, mother, faults, promised, overlapped, allowance>>

\* try_push_ticket_via_mother_gateway(): an answer that does not come in time is
\* taken for a refusal.
GatewayAccepts(q) ==
    /\ post[q].pc = "gateway"
    /\ mother' = mother \cup {Message(q)}
    /\ Finish(q)
    /\ UNCHANGED <<written, tenants, mirror, home, faults, promised, overlapped, allowance>>

GatewayFails(q) ==
    /\ post[q].pc = "gateway"
    /\ Grant("faults")
    /\ mother' \in {mother, mother \cup {Message(q)}}
    /\ Advance(q, "direct")
    /\ UNCHANGED <<written, tenants, mirror, home, faults, promised, overlapped>>

\* A worker dies, there is no token, the request gets lost, or the operator turns
\* it down (429, 401, 403) or breaks off: nobody tries again.
PostFails(q) ==
    /\ post[q] # NoPost
    /\ Grant("faults")
    /\ faults' = faults \cup {Message(q)}
    /\ Finish(q)
    /\ UNCHANGED <<written, tenants, mirror, home, mother, promised, overlapped>>

-----------------------------------------------------------------------------
(* The operator: ingest_remote_support_ticket()                              *)

\* ensure_registry_bridge_tenant(): any tenant with the key of the installation ...
KnownTenants == 0 .. tenants - 1

FindTenant(q) ==
    /\ post[q].pc = "direct"
    /\ \/ KnownTenants = {} /\ Advance(q, "tenant")
       \/ \E k \in KnownTenants :
             post' = [post EXCEPT ![q].pc = "ticket", ![q].tenant = k]
    /\ overlapped' = (overlapped \/ \E r \in Posts : post[r].pc \in AtOperator)
    /\ UNCHANGED <<written, tenants, mirror, home, mother, faults, promised, allowance>>

\* ... or a new one, with the first slug that nobody has.
NewTenant(q) ==
    /\ post[q].pc = "tenant"
    /\ post' = [post EXCEPT ![q].pc = "ticket", ![q].tenant = tenants, ![q].fresh = TRUE]
    /\ UNCHANGED <<written, tenants, mirror, home, mother, faults, promised, overlapped, allowance>>

\* Slugs are unique: a tenant is inserted only if its slug is still free.
SlugFree(q) == post[q].fresh => post[q].tenant = tenants
InsertTenant(q) == tenants' = IF post[q].fresh THEN tenants + 1 ELSE tenants

\* The ticket of the installation, whichever tenant it belongs to.
MirroredInTenant(q) == mirror[post[q].thread] # <<>> /\ home[post[q].thread] = post[q].tenant
Mirrored(q) == mirror[post[q].thread] # <<>>

\* With the ticket moved to the tenant that was found.
AppendReplyMoving(q) ==
    /\ post[q].pc = "ticket" /\ Mirrored(q)
    /\ SlugFree(q)
    /\ InsertTenant(q)
    /\ mirror' = [mirror EXCEPT ![post[q].thread] = Append(@, post[q].msg)]
    /\ home' = [home EXCEPT ![post[q].thread] = post[q].tenant]
    /\ Finish(q)
    /\ UNCHANGED <<written, mother, faults, promised, overlapped, allowance>>

\* A reply is appended to it, under the lock of its row.
AppendReply(q) ==
    /\ post[q].pc = "ticket" /\ Mirrored(q)
    /\ SlugFree(q)
    /\ InsertTenant(q)
    /\ mirror' = [mirror EXCEPT ![post[q].thread] = Append(@, post[q].msg)]
    /\ Finish(q)
    /\ UNCHANGED <<written, home, mother, faults, promised, overlapped, allowance>>

\* Without a subject no ticket is made: 400, and nothing is kept.
NoSubject(q) ==
    /\ post[q].pc = "ticket" /\ ~Mirrored(q)
    /\ ~post[q].opening
    /\ Finish(q)
    /\ UNCHANGED <<written, tenants, mirror, home, mother, faults, promised, overlapped, allowance>>

\* Ticket.save() takes the number after the last one of the tenant ...
SizeOf(k) == Cardinality({t \in Threads : mirror[t] # <<>> /\ home[t] = k})
ReadNumber(q) ==
    /\ post[q].pc = "ticket" /\ ~Mirrored(q)
    /\ post[q].opening
    /\ post' = [post EXCEPT ![q].pc = "insert", ![q].size = SizeOf(post[q].tenant)]
    /\ UNCHANGED <<written, tenants, mirror, home, mother, faults, promised, overlapped, allowance>>

\* ... which is unique in the tenant, as the remote id is in the installation.
NumberFree(q) == SizeOf(post[q].tenant) = post[q].size
Insert(q) ==
    LET t == post[q].thread IN
    /\ post[q].pc = "insert"
    /\ SlugFree(q) /\ NumberFree(q) /\ ~Mirrored(q)
    /\ InsertTenant(q)
    /\ mirror' = [mirror EXCEPT ![t] = <<post[q].msg>>]
    /\ home' = [home EXCEPT ![t] = post[q].tenant]
    /\ Finish(q)
    /\ UNCHANGED <<written, mother, faults, promised, overlapped, allowance>>

\* IntegrityError: 500, and the transaction is rolled back.
Collide(q) ==
    /\ \/ post[q].pc = "insert" /\ ~(SlugFree(q) /\ NumberFree(q) /\ ~Mirrored(q))
       \/ post[q].pc = "ticket" /\ ~SlugFree(q)
    /\ Finish(q)
    /\ UNCHANGED <<written, tenants, mirror, home, mother, faults, promised, overlapped, allowance>>

PostStep(q) ==
    \/ \E t \in Threads : Open(q, t) \/ Reply(q, t)
    \/ BeginPush(q) \/ GatewayAccepts(q) \/ GatewayFails(q) \/ PostFails(q)
    \/ FindTenant(q) \/ NewTenant(q) \/ AppendReply(q) \/ NoSubject(q) \/ ReadNumber(q)
    \/ Insert(q) \/ Collide(q)

BridgeNext == \E q \in Posts : PostStep(q)
BridgeSpec == BridgeInit /\ [][BridgeNext]_bridgeVars

-----------------------------------------------------------------------------
(* Properties                                                                *)

BridgeTypeOK ==
    /\ written \in [Threads -> Nat]
    /\ post \in [Posts -> Posted \cup {NoPost}]
    /\ tenants \in Nat
    /\ mirror \in [Threads -> Seq(Nat)]
    /\ home \in [Threads -> Nat]
    /\ mother \subseteq Threads \X Nat
    /\ faults \subseteq Threads \X Nat
    /\ promised \subseteq Threads \X Nat
    /\ overlapped \in BOOLEAN
    /\ allowance \in [messages : Nat, faults : Nat, gateway : BOOLEAN]

(* A mirrored ticket begins with the first message of its requester, has none
   of them twice and none that was not written, however posts overlap, overtake
   each other or fail. (push_new_ticket_if_configured, ingest)               *)
MirrorIsFaithful ==
    \A t \in Threads : mirror[t] # <<>> =>
        /\ mirror[t][1] = 1
        /\ \A i \in 1 .. Len(mirror[t]) : mirror[t][i] \in 1 .. written[t]
        /\ \A i, j \in 1 .. Len(mirror[t]) : i # j => mirror[t][i] # mirror[t][j]

(* A reply that is written when its ticket has been mirrored gets there unless
   its own post fails, and so does a new ticket as long as no two posts are
   handled at one time: two tenants of one installation do not keep a reply from
   its ticket. (ingest_remote_support_ticket)                                *)
Owed(t, m) == <<t, m>> \in promised \/ (m = 1 /\ ~overlapped)
UnderWay(t, m) == \E q \in Posts : post[q] # NoPost /\ Message(q) = <<t, m>>
InMirror(t, m) == \E i \in 1 .. Len(mirror[t]) : mirror[t][i] = m
Excused(t, m) == <<t, m>> \in faults \/ <<t, m>> \in mother
RepliesFollow ==
    \A t \in Threads : \A m \in 1 .. written[t] :
        Owed(t, m) => Excused(t, m) \/ UnderWay(t, m) \/ InMirror(t, m)

(* "One Tenant per registry installation" (tickets/services.py): no constraint
   says so, and it holds as long as no two posts of the installation are handled
   at one time. (ensure_registry_bridge_tenant)                              *)
OneTenantUnlessOverlapped == tenants > 1 => overlapped

(* The posts implement the contract of the mirrors. A message is on its way as
   long as there is a post of it.                                            *)
OnWay == {Message(q) : q \in {r \in Posts : post[r] # NoPost}}

Contract == INSTANCE MirrorContract WITH
    onway <- OnWay, lost <- faults, owed <- promised, crowded <- overlapped

(* A message never comes back once its post has come to an end: it arrived for
   good, or it never will. Mirrors only grow and keep their tenant, and a reply
   that is owed is refused on no account. (push_new_ticket_if_configured,
   push_customer_reply_if_configured, ingest_remote_support_ticket)          *)
MirrorsKeepContract == Contract!Spec
=============================================================================
