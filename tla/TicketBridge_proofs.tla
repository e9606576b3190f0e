------------------------- MODULE TicketBridge_proofs -------------------------
(* Proofs about TicketBridge: what a mirrored ticket holds, which messages get  *)
(* there, and when an installation may get a second tenant.                    *)
EXTENDS TicketBridge, TLAPS, FiniteSetTheorems, SequenceTheorems

-----------------------------------------------------------------------------
(* The invariant                                                             *)

Active(q) == post[q] # NoPost

\* What a post carries was written, is not in the mirror yet, and is the first
\* message exactly when it has the subject; a ticket is only made from that.
PostGood(q) == Active(q) =>
    /\ post[q].msg \in 1 .. written[post[q].thread]
    /\ post[q].opening <=> post[q].msg = 1
    /\ ~InMirror(post[q].thread, post[q].msg)
    /\ post[q].pc = "insert" => post[q].opening
    /\ post[q].pc \in {"ticket", "insert"} => post[q].fresh \/ tenants > 0
PostsGood == \A q \in Posts : PostGood(q)
Distinct == \A q, r \in Posts : Active(q) /\ Active(r) /\ q # r => Message(q) # Message(r)

\* A mirrored ticket has a tenant.
TenantsGood == \A t \in Threads : mirror[t] # <<>> => tenants > 0

\* A reply that finds its ticket mirrored finds a tenant too.
PromisedGood ==
    /\ \A t \in Threads, m \in Nat : <<t, m>> \in promised => m > 1 /\ mirror[t] # <<>>
    /\ \A q \in Posts : Active(q) /\ Message(q) \in promised =>
          post[q].pc # "tenant" /\ ~post[q].fresh

\* A post that is handled alone finds everything as it left it.
AloneGood == ~overlapped =>
    /\ tenants <= 1
    /\ \A q, r \in Posts : post[q].pc \in AtOperator /\ post[r].pc \in AtOperator => q = r
    /\ \A q \in Posts : Active(q) =>
          /\ post[q].fresh \/ post[q].pc = "tenant" => tenants = 0
          /\ post[q].fresh => post[q].pc \in AtOperator /\ post[q].tenant = 0
          /\ post[q].pc = "insert" =>
                \A k \in Nat : k = post[q].tenant => SizeOf(k) = post[q].size

IInv ==
    /\ BridgeTypeOK /\ MirrorIsFaithful /\ RepliesFollow
    /\ PostsGood /\ Distinct /\ TenantsGood /\ PromisedGood /\ AloneGood

-----------------------------------------------------------------------------
(* Records of posts, and the numbers of tickets                              *)

AllowanceType == allowance \in [messages : Nat, faults : Nat, gateway : BOOLEAN]

LEMMA PostedIsActive == ASSUME NEW p \in Posted PROVE p # NoPost /\ p.pc \in Busy
    BY DEF Posted, NoPost, Busy, AtOperator

LEMMA ActiveIsPosted ==
    ASSUME BridgeTypeOK, NEW q \in Posts, Active(q)
    PROVE  post[q] \in Posted
    BY DEF BridgeTypeOK, Active

LEMMA BusyIsActive ==
    ASSUME BridgeTypeOK, NEW q \in Posts, post[q].pc \in Busy
    PROVE  Active(q)
    BY DEF Active, NoPost, Busy, AtOperator

LEMMA PcOf ==
    ASSUME NEW p \in Posted, NEW pc \in Busy
    PROVE  /\ [p EXCEPT !.pc = pc] \in Posted
           /\ [p EXCEPT !.pc = pc].pc = pc
           /\ [p EXCEPT !.pc = pc].thread = p.thread /\ [p EXCEPT !.pc = pc].msg = p.msg
           /\ [p EXCEPT !.pc = pc].opening = p.opening
           /\ [p EXCEPT !.pc = pc].tenant = p.tenant /\ [p EXCEPT !.pc = pc].fresh = p.fresh
           /\ [p EXCEPT !.pc = pc].size = p.size
    BY DEF Posted

LEMMA SizeIsNat == ASSUME NEW k PROVE SizeOf(k) \in Nat
<1>1. {t \in Threads : mirror[t] # <<>> /\ home[t] = k} \subseteq Threads
    OBVIOUS
<1> QED
    BY <1>1, FS_Subset, FS_CardinalityType, BridgeAssumption DEF SizeOf

LEMMA SizesStay ==
    ASSUME UNCHANGED <<mirror, home>>, NEW k
    PROVE  SizeOf(k)' = SizeOf(k)
    BY DEF SizeOf

LEMMA Granted ==
    ASSUME AllowanceType, NEW what \in {"messages", "faults"}, Grant(what)
    PROVE  AllowanceType'
<1>1. CASE what = "messages"
    BY <1>1 DEF AllowanceType, Grant
<1>2. CASE what = "faults"
    BY <1>2 DEF AllowanceType, Grant
<1> QED
    BY <1>1, <1>2

-----------------------------------------------------------------------------
(* Steps that leave the mirror alone                                         *)

\* What stays, and what only grows, in these steps.
Apart ==
    /\ UNCHANGED <<written, tenants, mirror, home, promised>>
    /\ mother \subseteq mother' /\ mother' \subseteq Threads \X Nat
    /\ faults \subseteq faults' /\ faults' \subseteq Threads \X Nat
    /\ overlapped' \in BOOLEAN /\ (overlapped => overlapped')
    /\ AllowanceType'

LEMMA ApartKeeps ==
    ASSUME IInv, Apart
    PROVE  /\ MirrorIsFaithful' /\ TenantsGood'
           /\ \A t \in Threads, m \in Nat : InMirror(t, m)' <=> InMirror(t, m)
           /\ \A t \in Threads, m \in Nat : Excused(t, m) => Excused(t, m)'
           /\ \A t \in Threads, m \in Nat : Owed(t, m)' => Owed(t, m)
    BY DEF IInv, Apart, MirrorIsFaithful, TenantsGood, InMirror, Excused, Owed

\* A post moves on with the same message ...
LEMMA Moved ==
    ASSUME IInv, Apart, NEW q \in Posts, Active(q), NEW p \in Posted,
           post' = [post EXCEPT ![q] = p],
           p.thread = post[q].thread, p.msg = post[q].msg, p.opening = post[q].opening,
           p.pc = "insert" => p.opening,
           p.pc \in {"ticket", "insert"} => p.fresh \/ tenants > 0,
           Message(q) \in promised => p.pc # "tenant" /\ ~p.fresh,
           ~overlapped' =>
               /\ p.pc \in AtOperator => \A r \in Posts \ {q} : post[r].pc \notin AtOperator
               /\ (p.fresh \/ p.pc = "tenant") => tenants = 0
               /\ p.fresh => p.pc \in AtOperator /\ p.tenant = 0
               /\ p.pc = "insert" => \A k \in Nat : k = p.tenant => SizeOf(k) = p.size
    PROVE  IInv'
<1>1. /\ MirrorIsFaithful' /\ TenantsGood'
      /\ \A t \in Threads, m \in Nat : InMirror(t, m)' <=> InMirror(t, m)
      /\ \A t \in Threads, m \in Nat : Excused(t, m) => Excused(t, m)'
      /\ \A t \in Threads, m \in Nat : Owed(t, m)' => Owed(t, m)
    BY ApartKeeps
<1>2. post'[q] = p /\ \A r \in Posts \ {q} : post'[r] = post[r]
    BY DEF IInv, BridgeTypeOK
<1>3. /\ p # NoPost
      /\ \A r \in Posts : Active(r)' <=> Active(r)
    BY <1>2, PostedIsActive DEF Active
<1>4. \A r \in Posts : Active(r) => Message(r)' = Message(r)
    BY <1>2 DEF Message
<1>5. \A r \in Posts : Active(r) => post[r] \in Posted
    BY ActiveIsPosted DEF IInv
<1>6. BridgeTypeOK'
    BY DEF IInv, BridgeTypeOK, Apart, AllowanceType
<1>7. RepliesFollow'
  <2> SUFFICES ASSUME NEW t \in Threads, NEW m \in 1 .. written[t], Owed(t, m)'
               PROVE  Excused(t, m)' \/ UnderWay(t, m)' \/ InMirror(t, m)'
    BY DEF RepliesFollow, Apart
  <2>1. m \in Nat
    OBVIOUS
  <2>2. Excused(t, m) \/ UnderWay(t, m) \/ InMirror(t, m)
    BY <1>1, <2>1 DEF IInv, RepliesFollow
  <2>3. UnderWay(t, m) => UnderWay(t, m)'
    BY <1>3, <1>4 DEF UnderWay, Active
  <2> QED
    BY <1>1, <2>1, <2>2, <2>3
<1>8. PostsGood'
  <2> SUFFICES ASSUME NEW r \in Posts, Active(r)
               PROVE  PostGood(r)'
    BY <1>3 DEF PostsGood, PostGood
  <2>1. PostGood(r) /\ post[r] \in Posted
    BY <1>5 DEF IInv, PostsGood
  <2>2. /\ post'[r].thread = post[r].thread /\ post'[r].msg = post[r].msg
        /\ post'[r].opening = post[r].opening
    BY <1>2
  <2>3. post[r].thread \in Threads /\ post[r].msg \in Nat
    BY <2>1 DEF Posted
  <2>4. InMirror(post[r].thread, post[r].msg)' <=> InMirror(post[r].thread, post[r].msg)
    BY <2>2, <2>3 DEF InMirror, Apart
  <2>5. /\ post'[r].pc = "insert" => post'[r].opening
        /\ post'[r].pc \in {"ticket", "insert"} => post'[r].fresh \/ tenants > 0
    BY <1>2, <2>1 DEF PostGood
  <2> QED
    BY <2>1, <2>2, <2>4, <2>5 DEF PostGood, Apart
<1>9. Distinct'
    BY <1>3, <1>4 DEF IInv, Distinct
<1>10. PromisedGood'
    BY <1>2, <1>3, <1>4 DEF IInv, PromisedGood, Apart
<1>11. AloneGood'
  <2> SUFFICES ASSUME ~overlapped' PROVE AloneGood'
    BY DEF AloneGood
  <2>1. AloneGood /\ ~overlapped
    BY DEF IInv, Apart
  <2>2. \A k \in Nat : SizeOf(k)' = SizeOf(k)
    BY SizesStay DEF Apart
  <2>3. tenants' = tenants
    BY DEF Apart
  <2>4. \A r, u \in Posts : post'[r].pc \in AtOperator /\ post'[u].pc \in AtOperator => r = u
    BY <1>2, <2>1 DEF AloneGood
  <2>5. ASSUME NEW r \in Posts, Active(r)
        PROVE  /\ post'[r].fresh \/ post'[r].pc = "tenant" => tenants' = 0
               /\ post'[r].fresh => post'[r].pc \in AtOperator /\ post'[r].tenant = 0
               /\ post'[r].pc = "insert" =>
                     \A k \in Nat : k = post'[r].tenant => SizeOf(k)' = post'[r].size
    BY <1>2, <2>1, <2>2, <2>3, <2>5 DEF AloneGood
  <2> QED
    BY <1>3, <2>1, <2>3, <2>4, <2>5 DEF AloneGood
<1> QED
    BY <1>1, <1>6, <1>7, <1>8, <1>9, <1>10, <1>11 DEF IInv

\* ... or ends, and then its message is not owed or has arrived elsewhere.
LEMMA Ended ==
    ASSUME IInv, Apart, NEW q \in Posts, Active(q), post' = [post EXCEPT ![q] = NoPost],
           \A t \in Threads, m \in Nat : Message(q) = <<t, m>> /\ Owed(t, m) => Excused(t, m)'
    PROVE  IInv'
<1>1. /\ MirrorIsFaithful' /\ TenantsGood'
      /\ \A t \in Threads, m \in Nat : InMirror(t, m)' <=> InMirror(t, m)
      /\ \A t \in Threads, m \in Nat : Excused(t, m) => Excused(t, m)'
      /\ \A t \in Threads, m \in Nat : Owed(t, m)' => Owed(t, m)
    BY ApartKeeps
<1>2. post'[q] = NoPost /\ \A r \in Posts \ {q} : post'[r] = post[r]
    BY DEF IInv, BridgeTypeOK
<1>3. ~Active(q)' /\ \A r \in Posts \ {q} : Active(r)' <=> Active(r)
    BY <1>2 DEF Active
<1>4. \A r \in Posts \ {q} : Message(r)' = Message(r)
    BY <1>2 DEF Message
<1>5. \A r \in Posts : Active(r) => post[r] \in Posted
    BY ActiveIsPosted DEF IInv
<1>6. BridgeTypeOK'
    BY DEF IInv, BridgeTypeOK, Apart, AllowanceType
<1>7. RepliesFollow'
  <2> SUFFICES ASSUME NEW t \in Threads, NEW m \in 1 .. written[t], Owed(t, m)'
               PROVE  Excused(t, m)' \/ UnderWay(t, m)' \/ InMirror(t, m)'
    BY DEF RepliesFollow, Apart
  <2>1. m \in Nat
    OBVIOUS
  <2>2. Excused(t, m) \/ UnderWay(t, m) \/ InMirror(t, m)
    BY <1>1, <2>1 DEF IInv, RepliesFollow
  <2>3. UnderWay(t, m) => UnderWay(t, m)' \/ Message(q) = <<t, m>>
    BY <1>3, <1>4 DEF UnderWay, Active
  <2> QED
    BY <1>1, <2>1, <2>2, <2>3
<1>8. PostsGood'
  <2> SUFFICES ASSUME NEW r \in Posts \ {q}, Active(r)
               PROVE  PostGood(r)'
    BY <1>3 DEF PostsGood, PostGood
  <2>1. PostGood(r) /\ post'[r] = post[r]
    BY <1>2 DEF IInv, PostsGood
  <2>2. InMirror(post[r].thread, post[r].msg)' <=> InMirror(post[r].thread, post[r].msg)
    BY <2>1 DEF InMirror, Apart
  <2> QED
    BY <2>1, <2>2 DEF PostGood, Apart
<1>9. Distinct'
    BY <1>3, <1>4 DEF IInv, Distinct
<1>10. PromisedGood'
    BY <1>2, <1>3, <1>4 DEF IInv, PromisedGood, Apart
<1>11. AloneGood'
  <2> SUFFICES ASSUME ~overlapped' PROVE AloneGood'
    BY DEF AloneGood
  <2>1. AloneGood /\ ~overlapped
    BY DEF IInv, Apart
  <2>2. \A k \in Nat : SizeOf(k)' = SizeOf(k)
    BY SizesStay DEF Apart
  <2>3. tenants' = tenants
    BY DEF Apart
  <2>4. \A r, u \in Posts : post'[r].pc \in AtOperator /\ post'[u].pc \in AtOperator => r = u
    BY <1>2, <2>1 DEF AloneGood, NoPost, AtOperator
  <2>5. ASSUME NEW r \in Posts \ {q}, Active(r)
        PROVE  /\ post'[r].fresh \/ post'[r].pc = "tenant" => tenants' = 0
               /\ post'[r].fresh => post'[r].pc \in AtOperator /\ post'[r].tenant = 0
               /\ post'[r].pc = "insert" =>
                     \A k \in Nat : k = post'[r].tenant => SizeOf(k)' = post'[r].size
    BY <1>2, <2>1, <2>2, <2>3, <2>5 DEF AloneGood
  <2> QED
    BY <1>3, <2>1, <2>3, <2>4, <2>5 DEF AloneGood
<1> QED
    BY <1>1, <1>6, <1>7, <1>8, <1>9, <1>10, <1>11 DEF IInv

-----------------------------------------------------------------------------
(* Steps that write a message or put one into the mirror                     *)

LEMMA SentIsPosted ==
    ASSUME NEW t \in Threads, NEW m \in Nat, NEW b \in BOOLEAN
    PROVE  /\ Sent(t, m, b) \in Posted
           /\ Sent(t, m, b).pc = "push" /\ Sent(t, m, b).thread = t /\ Sent(t, m, b).msg = m
           /\ Sent(t, m, b).opening = b /\ ~Sent(t, m, b).fresh
    BY DEF Sent, Posted, Busy

LEMMA Written ==
    ASSUME IInv, NEW q \in Posts, ~Active(q), NEW t \in Threads, NEW b \in BOOLEAN,
           b <=> written[t] = 0,
           written' = [written EXCEPT ![t] = written[t] + 1],
           post' = [post EXCEPT ![q] = Sent(t, written[t] + 1, b)],
           UNCHANGED <<tenants, mirror, home, mother, faults, overlapped>>,
           AllowanceType',
           promised' = promised
           \/ (mirror[t] # <<>> /\ ~b /\ promised' = promised \cup {<<t, written[t] + 1>>})
    PROVE  IInv'
<1> DEFINE m == written[t] + 1
           p == Sent(t, m, b)
<1>1. m \in Nat /\ written[t] \in Nat
    BY DEF IInv, BridgeTypeOK
<1>2. /\ p \in Posted /\ p # NoPost
      /\ p.pc = "push" /\ p.thread = t /\ p.msg = m /\ p.opening = b /\ ~p.fresh
    BY <1>1, SentIsPosted, PostedIsActive
<1> HIDE DEF p
<1>3. post'[q] = p /\ \A r \in Posts \ {q} : post'[r] = post[r]
    BY DEF IInv, BridgeTypeOK, p
<1>4. /\ Active(q)' /\ Message(q)' = <<t, m>>
      /\ \A r \in Posts \ {q} : (Active(r)' <=> Active(r)) /\ Message(r)' = Message(r)
    BY <1>2, <1>3 DEF Active, Message
<1>5. \A u \in Threads : /\ written[u] \in Nat /\ written'[u] \in Nat
                         /\ 1 .. written[u] \subseteq 1 .. written'[u]
                         /\ u # t => written'[u] = written[u]
    BY <1>1 DEF IInv, BridgeTypeOK
<1>6. \A r \in Posts : Active(r) => post[r] \in Posted
    BY ActiveIsPosted DEF IInv
<1>7. \A u \in Threads, x \in Nat : (InMirror(u, x)' <=> InMirror(u, x))
                                    /\ (Excused(u, x)' <=> Excused(u, x))
    BY DEF InMirror, Excused
<1>8. BridgeTypeOK'
  <2>1. promised' \subseteq Threads \X Nat
    BY <1>1 DEF IInv, BridgeTypeOK
  <2>2. written' \in [Threads -> Nat] /\ post' \in [Posts -> Posted \cup {NoPost}]
    BY <1>1, <1>2 DEF IInv, BridgeTypeOK, p
  <2> QED
    BY <2>1, <2>2 DEF IInv, BridgeTypeOK, AllowanceType
<1>9. MirrorIsFaithful' /\ TenantsGood'
    BY <1>5 DEF IInv, MirrorIsFaithful, TenantsGood
<1>10. ~InMirror(t, m)
  <2>1. \A i \in 1 .. Len(mirror[t]) : mirror[t][i] # m
    <3>1. CASE mirror[t] = <<>>
      BY <3>1
    <3>2. CASE mirror[t] # <<>>
      BY <1>1, <3>2 DEF IInv, MirrorIsFaithful
    <3> QED
      BY <3>1, <3>2
  <2> QED
    BY <2>1 DEF InMirror
<1>11. PostsGood'
  <2>1. PostGood(q)'
    <3>1. ~InMirror(post[q].thread, post[q].msg)'
      BY <1>1, <1>2, <1>3, <1>10 DEF InMirror
    <3>2. post'[q].msg \in 1 .. written'[post'[q].thread]
      BY <1>1, <1>2, <1>3 DEF IInv, BridgeTypeOK
    <3>3. post'[q].opening <=> post'[q].msg = 1
      BY <1>1, <1>2, <1>3
    <3>4. post'[q].pc = "push"
      BY <1>2, <1>3
    <3> QED
      BY <3>1, <3>2, <3>3, <3>4 DEF PostGood
  <2>2. ASSUME NEW r \in Posts \ {q}, Active(r)
        PROVE  PostGood(r)'
    <3>1. PostGood(r) /\ post'[r] = post[r] /\ post[r].thread \in Threads
      BY <1>3, <1>6, <2>2 DEF IInv, PostsGood, Posted
    <3>2. InMirror(post[r].thread, post[r].msg)' <=> InMirror(post[r].thread, post[r].msg)
      BY <3>1 DEF InMirror
    <3>3. post'[r].msg \in 1 .. written'[post'[r].thread]
      BY <1>5, <2>2, <3>1 DEF PostGood
    <3> QED
      BY <2>2, <3>1, <3>2, <3>3 DEF PostGood
  <2> QED
    BY <1>4, <2>1, <2>2 DEF PostsGood, PostGood
<1>12. Distinct'
  <2>1. ASSUME NEW r \in Posts \ {q}, Active(r)
        PROVE  Message(r) # <<t, m>>
    <3>1. PostGood(r) /\ post[r].thread \in Threads
      BY <1>6, <2>1 DEF IInv, PostsGood, Posted
    <3>2. post[r].thread = t => post[r].msg # m
      BY <1>1, <2>1, <3>1 DEF PostGood
    <3> QED
      BY <3>2 DEF Message
  <2> QED
    BY <1>4, <2>1 DEF IInv, Distinct
<1>13. PromisedGood'
  <2>1. \A u \in Threads, x \in Nat : <<u, x>> \in promised' => x > 1 /\ mirror[u] # <<>>
    BY <1>1 DEF IInv, PromisedGood
  <2>2. ASSUME NEW r \in Posts \ {q}, Active(r), Message(r) \in promised'
        PROVE  post[r].pc # "tenant" /\ ~post[r].fresh
    <3>1. Message(r) # <<t, m>>
      BY <1>4, <1>12, <2>2 DEF Distinct
    <3> QED
      BY <2>2, <3>1 DEF IInv, PromisedGood
  <2> QED
    BY <1>2, <1>3, <1>4, <2>1, <2>2 DEF PromisedGood
<1>14. RepliesFollow'
  <2> SUFFICES ASSUME NEW u \in Threads, NEW x \in 1 .. written'[u], Owed(u, x)'
               PROVE  Excused(u, x)' \/ UnderWay(u, x)' \/ InMirror(u, x)'
    BY DEF RepliesFollow
  <2>1. CASE <<u, x>> = <<t, m>>
    BY <1>4, <2>1 DEF UnderWay, Active
  <2>2. CASE <<u, x>> # <<t, m>>
    <3>1. x \in Nat /\ x \in 1 .. written[u]
      BY <1>1, <1>5, <2>2 DEF IInv, BridgeTypeOK
    <3>2. Owed(u, x)
      BY <2>2 DEF Owed
    <3>3. Excused(u, x) \/ UnderWay(u, x) \/ InMirror(u, x)
      BY <3>1, <3>2 DEF IInv, RepliesFollow
    <3>4. UnderWay(u, x) => UnderWay(u, x)'
      <4> SUFFICES ASSUME NEW r \in Posts, Active(r), Message(r) = <<u, x>>
                   PROVE  UnderWay(u, x)'
        BY DEF UnderWay, Active
      <4>1. Active(r)' /\ Message(r)' = <<u, x>>
        BY <1>4
      <4> QED
        BY <4>1 DEF UnderWay, Active
    <3> QED
      BY <1>7, <3>1, <3>3, <3>4
  <2> QED
    BY <2>1, <2>2
<1>15. AloneGood'
  <2> SUFFICES ASSUME ~overlapped PROVE AloneGood'
    BY DEF AloneGood
  <2>1. AloneGood
    BY DEF IInv
  <2>2. \A k \in Nat : SizeOf(k)' = SizeOf(k)
    BY SizesStay
  <2>3. \A r, u \in Posts : post'[r].pc \in AtOperator /\ post'[u].pc \in AtOperator => r = u
    BY <1>2, <1>3, <2>1 DEF AloneGood, AtOperator
  <2>4. ASSUME NEW r \in Posts \ {q}, Active(r)
        PROVE  /\ post'[r].fresh \/ post'[r].pc = "tenant" => tenants' = 0
               /\ post'[r].fresh => post'[r].pc \in AtOperator /\ post'[r].tenant = 0
               /\ post'[r].pc = "insert" =>
                     \A k \in Nat : k = post'[r].tenant => SizeOf(k)' = post'[r].size
    BY <1>3, <2>1, <2>2, <2>4 DEF AloneGood
  <2>5. post'[q].pc = "push" /\ ~post'[q].fresh
    BY <1>2, <1>3
  <2> QED
    BY <1>4, <2>1, <2>3, <2>4, <2>5 DEF AloneGood
<1> QED
    BY <1>8, <1>9, <1>11, <1>12, <1>13, <1>14, <1>15 DEF IInv

\* The mirrored ticket of t becomes list, which has message m more.
Longer(t, m, list) ==
    /\ list \in Seq(Nat) /\ list # <<>> /\ list[1] = 1
    /\ \A i \in 1 .. Len(list) : list[i] = m \/ InMirror(t, list[i])
    /\ \A x \in Nat : x = m \/ InMirror(t, x) => \E i \in 1 .. Len(list) : list[i] = x
    /\ \A i, j \in 1 .. Len(list) : i # j => list[i] # list[j]

LEMMA Arrives ==
    ASSUME IInv, NEW q \in Posts, Active(q), post[q].pc \in {"ticket", "insert"},
           NEW list, Longer(post[q].thread, post[q].msg, list),
           mirror' = [mirror EXCEPT ![post[q].thread] = list],
           home' \in [Threads -> Nat],
           InsertTenant(q), Finish(q),
           UNCHANGED <<written, mother, faults, promised, overlapped, allowance>>
    PROVE  IInv'
<1> DEFINE t == post[q].thread
           m == post[q].msg
<1>0. /\ list \in Seq(Nat) /\ list # <<>> /\ list[1] = 1
      /\ \A i \in 1 .. Len(list) : list[i] = m \/ InMirror(t, list[i])
      /\ \A x \in Nat : x = m \/ InMirror(t, x) => \E i \in 1 .. Len(list) : list[i] = x
      /\ \A i, j \in 1 .. Len(list) : i # j => list[i] # list[j]
      /\ t \in Threads /\ m \in Nat
      /\ t = post[q].thread /\ m = post[q].msg /\ mirror' = [mirror EXCEPT ![t] = list]
    BY ActiveIsPosted DEF Longer, Posted, IInv
<1> HIDE DEF t, m
<1>1. post'[q] = NoPost /\ \A r \in Posts \ {q} : post'[r] = post[r]
    BY <1>0 DEF IInv, BridgeTypeOK, Finish
<1>2. /\ ~Active(q)'
      /\ \A r \in Posts \ {q} : (Active(r)' <=> Active(r)) /\ Message(r)' = Message(r)
    BY <1>0, <1>1 DEF Active, Message
<1>3. \A r \in Posts : Active(r) => post[r] \in Posted /\ PostGood(r)
    BY <1>0, ActiveIsPosted DEF IInv, PostsGood
<1>4. mirror'[t] = list /\ \A u \in Threads : u # t => mirror'[u] = mirror[u]
    BY <1>0 DEF IInv, BridgeTypeOK
<1>5. /\ tenants' \in Nat /\ tenants' >= tenants /\ tenants' > 0
      /\ tenants' = tenants \/ (post[q].fresh /\ tenants' = tenants + 1)
    BY <1>0, <1>3 DEF IInv, BridgeTypeOK, InsertTenant, PostGood
<1>6. BridgeTypeOK'
  <2>1. mirror' \in [Threads -> Seq(Nat)] /\ post' \in [Posts -> Posted \cup {NoPost}]
    BY <1>0 DEF IInv, BridgeTypeOK, Finish
  <2> QED
    BY <1>0, <1>5, <2>1 DEF IInv, BridgeTypeOK
<1>7. \A u \in Threads, x \in Nat :
          InMirror(u, x)' <=> (InMirror(u, x) \/ <<u, x>> = <<t, m>>)
  <2> SUFFICES ASSUME NEW u \in Threads, NEW x \in Nat
               PROVE  InMirror(u, x)' <=> (InMirror(u, x) \/ <<u, x>> = <<t, m>>)
    OBVIOUS
  <2>1. CASE u = t
    <3>1. (\E i \in 1 .. Len(list) : list[i] = x) <=> (InMirror(t, x) \/ x = m)
      <4>1. ASSUME NEW i \in 1 .. Len(list), list[i] = x PROVE InMirror(t, x) \/ x = m
        BY <1>0, <4>1
      <4>2. ASSUME InMirror(t, x) \/ x = m PROVE \E i \in 1 .. Len(list) : list[i] = x
        BY <1>0, <4>2
      <4> QED
        BY <4>1, <4>2
    <3>2. InMirror(u, x)' <=> \E i \in 1 .. Len(list) : list[i] = x
      BY <1>0, <1>4, <2>1 DEF InMirror
    <3> QED
      BY <1>0, <2>1, <3>1, <3>2
  <2>2. CASE u # t
    BY <1>0, <1>4, <2>2 DEF InMirror
  <2> QED
    BY <1>0, <2>1, <2>2
<1>8. MirrorIsFaithful'
  <2> SUFFICES ASSUME NEW u \in Threads, mirror'[u] # <<>>
               PROVE  /\ mirror'[u][1] = 1
                      /\ \A i \in 1 .. Len(mirror'[u]) : mirror'[u][i] \in 1 .. written[u]
                      /\ \A i, j \in 1 .. Len(mirror'[u]) : i # j => mirror'[u][i] # mirror'[u][j]
    BY <1>0 DEF MirrorIsFaithful
  <2>1. CASE u = t
    <3>1. m \in 1 .. written[t]
      BY <1>0, <1>3 DEF PostGood
    <3>2. \A x \in Nat : InMirror(t, x) => x \in 1 .. written[t]
      <4> SUFFICES ASSUME NEW x \in Nat, NEW i \in 1 .. Len(mirror[t]), mirror[t][i] = x
                   PROVE  x \in 1 .. written[t]
        BY <1>0 DEF InMirror
      <4>1. mirror[t] # <<>>
        OBVIOUS
      <4> QED
        BY <1>0, <4>1 DEF IInv, MirrorIsFaithful
    <3>3. \A i \in 1 .. Len(list) : list[i] \in 1 .. written[t]
      <4> SUFFICES ASSUME NEW i \in 1 .. Len(list) PROVE list[i] \in 1 .. written[t]
        OBVIOUS
      <4>1. list[i] \in Nat /\ (list[i] = m \/ InMirror(t, list[i]))
        BY <1>0
      <4> QED
        BY <3>1, <3>2, <4>1
    <3> QED
      BY <1>0, <1>4, <2>1, <3>3
  <2>2. CASE u # t
    BY <1>0, <1>4, <2>2 DEF IInv, MirrorIsFaithful
  <2> QED
    BY <1>0, <2>1, <2>2
<1>9. RepliesFollow'
  <2> SUFFICES ASSUME NEW u \in Threads, NEW x \in 1 .. written[u], Owed(u, x)'
               PROVE  Excused(u, x)' \/ UnderWay(u, x)' \/ InMirror(u, x)'
    BY <1>0 DEF RepliesFollow
  <2>1. x \in Nat
    OBVIOUS
  <2>2. Excused(u, x) \/ UnderWay(u, x) \/ InMirror(u, x)
    BY <1>0 DEF IInv, RepliesFollow, Owed
  <2>3. Excused(u, x) => Excused(u, x)'
    BY <1>0 DEF Excused
  <2>4. UnderWay(u, x) => UnderWay(u, x)' \/ <<u, x>> = <<t, m>>
    <3> SUFFICES ASSUME NEW r \in Posts, Active(r), Message(r) = <<u, x>>, <<u, x>> # <<t, m>>
                 PROVE  UnderWay(u, x)'
      BY <1>0 DEF UnderWay, Active
    <3>1. r # q
      BY <1>0 DEF Message
    <3>2. Active(r)' /\ Message(r)' = <<u, x>>
      BY <1>0, <1>2, <3>1
    <3> QED
      BY <1>0, <3>2 DEF UnderWay, Active
  <2> QED
    BY <1>0, <1>7, <2>1, <2>2, <2>3, <2>4
<1>10. PostsGood'
  <2> SUFFICES ASSUME NEW r \in Posts \ {q}, Active(r)
               PROVE  PostGood(r)'
    BY <1>0, <1>2 DEF PostsGood, PostGood
  <2>1. /\ PostGood(r) /\ post'[r] = post[r]
        /\ post[r].thread \in Threads /\ post[r].msg \in Nat
    BY <1>0, <1>1, <1>3 DEF Posted
  <2>2. <<post[r].thread, post[r].msg>> # <<t, m>>
    BY <1>0 DEF IInv, Distinct, Message
  <2>3. ~InMirror(post[r].thread, post[r].msg)
    BY <1>0, <2>1 DEF PostGood
  <2>4. \A u \in Threads, x \in Nat :
            u = post[r].thread /\ x = post[r].msg => ~InMirror(u, x)'
    BY <1>0, <1>7, <2>2, <2>3
  <2>5. ~InMirror(post[r].thread, post[r].msg)'
    BY <2>1, <2>4 DEF InMirror
  <2>6. post[r].fresh \/ tenants > 0 => post[r].fresh \/ tenants' > 0
    BY <1>0, <1>5
  <2> QED
    BY <1>0, <2>1, <2>5, <2>6 DEF PostGood
<1>11. Distinct'
    BY <1>2 DEF IInv, Distinct
<1>12. TenantsGood'
    BY <1>0, <1>5 DEF TenantsGood
<1>13. PromisedGood'
  <2>1. \A u \in Threads : mirror[u] # <<>> => mirror'[u] # <<>>
    BY <1>0, <1>4
  <2> QED
    BY <1>0, <1>1, <1>2, <2>1 DEF IInv, PromisedGood
<1>14. AloneGood'
  <2> SUFFICES ASSUME ~overlapped PROVE AloneGood'
    BY <1>0 DEF AloneGood
  <2>1. AloneGood
    BY <1>0 DEF IInv
  <2>2. tenants' <= 1
    BY <1>0, <1>5, <2>1 DEF AloneGood, IInv, BridgeTypeOK
  <2>3. \A r \in Posts \ {q} : post'[r].pc \notin AtOperator
    BY <1>0, <1>1, <2>1 DEF AloneGood, AtOperator
  <2>4. post'[q].pc \notin AtOperator
    BY <1>0, <1>1 DEF NoPost, AtOperator
  <2>5. \A r \in Posts : Active(r)' => post'[r].pc \notin AtOperator /\ ~post'[r].fresh
    BY <1>0, <1>1, <1>2, <2>1, <2>3 DEF AloneGood
  <2> QED
    BY <1>0, <2>2, <2>3, <2>4, <2>5 DEF AloneGood, AtOperator
<1> QED
    BY <1>0, <1>6, <1>8, <1>9, <1>10, <1>11, <1>12, <1>13, <1>14 DEF IInv

-----------------------------------------------------------------------------
(* Every step keeps the invariant                                            *)

\* What the invariant says of one post, and what a post knows by itself.
LEMMA PostKnows ==
    ASSUME IInv, NEW q \in Posts, post[q].pc \in Busy
    PROVE  /\ Active(q) /\ post[q] \in Posted /\ PostGood(q)
           /\ post[q].thread \in Threads /\ post[q].msg \in Nat /\ post[q].tenant \in Nat
           /\ Message(q) = <<post[q].thread, post[q].msg>>
           /\ Message(q) \in promised => post[q].msg > 1 /\ ~post[q].fresh
           /\ Message(q) \in promised => mirror[post[q].thread] # <<>> /\ post[q].pc # "tenant"
           /\ Mirrored(q) => ~post[q].opening
           /\ ~overlapped /\ post[q].fresh => post[q].pc \in AtOperator /\ post[q].tenant = 0
           /\ ~overlapped /\ (post[q].fresh \/ post[q].pc = "tenant") => tenants = 0
<1>1. Active(q)
    BY BusyIsActive DEF IInv
<1>2. post[q] \in Posted /\ PostGood(q)
    BY <1>1, ActiveIsPosted DEF IInv, PostsGood
<1>3. post[q].thread \in Threads /\ post[q].msg \in Nat /\ post[q].tenant \in Nat
    BY <1>2 DEF Posted
<1>4. Mirrored(q) => ~post[q].opening
  <2> SUFFICES ASSUME Mirrored(q), post[q].opening PROVE FALSE
    OBVIOUS
  <2>1. mirror[post[q].thread] # <<>> /\ mirror[post[q].thread] \in Seq(Nat)
    BY <1>3 DEF Mirrored, IInv, BridgeTypeOK
  <2>2. mirror[post[q].thread][1] = 1 /\ 1 \in 1 .. Len(mirror[post[q].thread])
    BY <1>3, <2>1 DEF IInv, MirrorIsFaithful
  <2>3. post[q].msg = 1
    BY <1>1, <1>2 DEF PostGood
  <2> QED
    BY <1>1, <1>2, <2>2, <2>3 DEF PostGood, InMirror
<1>5. Message(q) = <<post[q].thread, post[q].msg>>
    BY DEF Message
<1>6. Message(q) \in promised => /\ post[q].msg > 1 /\ ~post[q].fresh /\ post[q].pc # "tenant"
                                 /\ mirror[post[q].thread] # <<>>
    BY <1>1, <1>3, <1>5 DEF IInv, PromisedGood
<1>7. ~overlapped =>
          /\ post[q].fresh => post[q].pc \in AtOperator /\ post[q].tenant = 0
          /\ (post[q].fresh \/ post[q].pc = "tenant") => tenants = 0
    BY <1>1 DEF IInv, AloneGood
<1> QED
    BY <1>1, <1>2, <1>3, <1>4, <1>5, <1>6, <1>7

\* A collision takes another post, and is not at the expense of a reply that is owed.
LEMMA CollisionIsExcused ==
    ASSUME IInv, NEW q \in Posts, Collide(q)
    PROVE  overlapped /\ Message(q) \notin promised
<1>1. post[q].pc \in {"ticket", "insert"} /\ post[q].pc \in Busy
    BY DEF Collide, Busy, AtOperator
<1>2. ~overlapped => SlugFree(q)
    BY <1>1, PostKnows DEF SlugFree
<1>3. CASE post[q].pc = "insert"
  <2>1. post[q].opening /\ post[q].msg = 1 /\ Message(q) \notin promised
    BY <1>1, <1>3, PostKnows DEF PostGood
  <2>2. ~Mirrored(q)
    BY <1>1, <2>1, PostKnows
  <2>3. ~overlapped => \A k \in Nat : k = post[q].tenant => SizeOf(k) = post[q].size
    BY <1>1, <1>3, PostKnows DEF IInv, AloneGood
  <2>4. ~overlapped => NumberFree(q)
    BY <1>1, <2>3, PostKnows DEF NumberFree
  <2>5. overlapped
    BY <1>2, <1>3, <2>2, <2>4 DEF Collide
  <2> QED
    BY <2>1, <2>5
<1>4. CASE post[q].pc = "ticket"
  <2>1. ~SlugFree(q)
    BY <1>4 DEF Collide
  <2>2. post[q].fresh /\ overlapped
    BY <1>2, <2>1 DEF SlugFree
  <2> QED
    BY <1>1, <2>2, PostKnows
<1> QED
    BY <1>1, <1>3, <1>4

LEMMA PostStepKeeps ==
    ASSUME IInv, NEW q \in Posts, PostStep(q)
    PROVE  IInv'
<1>0. /\ mother \subseteq Threads \X Nat /\ faults \subseteq Threads \X Nat
      /\ overlapped \in BOOLEAN /\ AllowanceType /\ tenants \in Nat
      /\ mirror \in [Threads -> Seq(Nat)] /\ home \in [Threads -> Nat]
      /\ written \in [Threads -> Nat]
    BY DEF IInv, BridgeTypeOK, AllowanceType
<1>1. ASSUME NEW t \in Threads, Open(q, t) PROVE IInv'
  <2>1. /\ ~Active(q) /\ written[t] = 0 /\ AllowanceType'
        /\ written' = [written EXCEPT ![t] = written[t] + 1]
        /\ post' = [post EXCEPT ![q] = Sent(t, written[t] + 1, TRUE)]
        /\ promised' = promised
    BY <1>0, <1>1, Granted DEF Open, Active
  <2> QED
    BY <1>1, <2>1, Written DEF Open
<1>2. ASSUME NEW t \in Threads, Reply(q, t) PROVE IInv'
  <2>1. /\ ~Active(q) /\ written[t] # 0 /\ AllowanceType'
        /\ written' = [written EXCEPT ![t] = written[t] + 1]
        /\ post' = [post EXCEPT ![q] = Sent(t, written[t] + 1, FALSE)]
    BY <1>0, <1>2, Granted DEF Reply, Active
  <2>2. promised' = promised
        \/ (mirror[t] # <<>> /\ promised' = promised \cup {<<t, written[t] + 1>>})
    BY <1>2 DEF Reply
  <2> QED
    BY <1>2, <2>1, <2>2, Written DEF Reply
<1>3. CASE BeginPush(q)
  <2> DEFINE pc == IF allowance.gateway THEN "gateway" ELSE "direct"
             p == [post[q] EXCEPT !.pc = pc,
                                  !.msg = IF post[q].opening THEN FirstOf(post[q].thread)
                                          ELSE post[q].msg]
  <2>1. post[q].pc = "push" /\ post[q].pc \in Busy
    BY <1>3 DEF BeginPush, Busy
  <2>2. p \in Posted /\ p.pc = pc /\ p.thread = post[q].thread /\ p.opening = post[q].opening
        /\ p.fresh = post[q].fresh
        /\ p.msg = IF post[q].opening THEN FirstOf(post[q].thread) ELSE post[q].msg
    BY <2>1, PostKnows DEF Posted, Busy, FirstOf
  <2>3. p.msg = post[q].msg
    BY <2>1, <2>2, PostKnows DEF PostGood, FirstOf
  <2>4. pc \in {"gateway", "direct"}
    OBVIOUS
  <2>5. post' = [post EXCEPT ![q] = p]
    BY <1>3 DEF BeginPush
  <2>6. Apart /\ overlapped' = overlapped
    BY <1>0, <1>3 DEF BeginPush, Apart, AllowanceType
  <2> HIDE DEF p, pc
  <2> QED
    BY <2>1, <2>2, <2>3, <2>4, <2>5, <2>6, PostKnows, Moved DEF AtOperator
<1>4. CASE GatewayAccepts(q)
  <2>1. post[q].pc \in Busy
    BY <1>4 DEF GatewayAccepts, Busy
  <2>5. Message(q) \in Threads \X Nat
    BY <2>1, PostKnows
  <2>2. Apart /\ Message(q) \in mother'
    BY <1>0, <1>4, <2>5 DEF GatewayAccepts, Apart, AllowanceType
  <2>3. \A t \in Threads, m \in Nat : Message(q) = <<t, m>> => Excused(t, m)'
    BY <2>2 DEF Excused
  <2> QED
    BY <1>4, <2>1, <2>2, <2>3, PostKnows, Ended DEF GatewayAccepts, Finish
<1>5. CASE GatewayFails(q)
  <2> DEFINE p == [post[q] EXCEPT !.pc = "direct"]
  <2>1. post[q].pc = "gateway" /\ post[q].pc \in Busy /\ "direct" \in Busy
    BY <1>5 DEF GatewayFails, Busy
  <2>2. /\ p \in Posted /\ p.pc = "direct" /\ p.thread = post[q].thread /\ p.msg = post[q].msg
        /\ p.opening = post[q].opening /\ p.fresh = post[q].fresh
    BY <2>1, PostKnows, PcOf
  <2>3. post' = [post EXCEPT ![q] = p]
    BY <1>5 DEF GatewayFails, Advance
  <2>5. Message(q) \in Threads \X Nat
    BY <2>1, PostKnows
  <2>6. AllowanceType'
    BY <1>0, <1>5, Granted DEF GatewayFails
  <2>4. Apart /\ overlapped' = overlapped
    BY <1>0, <1>5, <2>5, <2>6 DEF GatewayFails, Apart
  <2> HIDE DEF p
  <2> QED
    BY <2>1, <2>2, <2>3, <2>4, PostKnows, Moved DEF AtOperator
<1>6. CASE PostFails(q)
  <2>1. Active(q) /\ post[q] \in Posted /\ post[q].pc \in Busy
    BY <1>6, ActiveIsPosted, PostedIsActive DEF PostFails, Active, IInv
  <2>2. Apart /\ Message(q) \in faults'
    <3>1. AllowanceType'
      BY <1>0, <1>6, Granted DEF PostFails
    <3>2. Message(q) \in Threads \X Nat
      BY <2>1, PostKnows
    <3> QED
      BY <1>0, <1>6, <3>1, <3>2 DEF PostFails, Apart
  <2>3. \A t \in Threads, m \in Nat : Message(q) = <<t, m>> => Excused(t, m)'
    BY <2>2 DEF Excused
  <2> QED
    BY <1>6, <2>1, <2>2, <2>3, Ended DEF PostFails, Finish
<1>7. CASE FindTenant(q)
  <2>1. post[q].pc = "direct" /\ post[q].pc \in Busy
    BY <1>7 DEF FindTenant, Busy
  <2>2. Apart
    BY <1>0, <1>7 DEF FindTenant, Apart, AllowanceType
  <2>3. /\ ~overlapped' => ~overlapped /\ \A r \in Posts : post[r].pc \notin AtOperator
    BY <1>7 DEF FindTenant
  <2>4. ~overlapped' => ~post[q].fresh
    BY <2>1, <2>3, PostKnows DEF AtOperator
  <2>5. CASE KnownTenants = {} /\ Advance(q, "tenant")
    <3> DEFINE p == [post[q] EXCEPT !.pc = "tenant"]
    <3>1. "tenant" \in Busy
      BY DEF Busy, AtOperator
    <3>2. /\ p \in Posted /\ p.pc = "tenant" /\ p.thread = post[q].thread /\ p.msg = post[q].msg
          /\ p.opening = post[q].opening /\ p.fresh = post[q].fresh
      BY <2>1, <3>1, PostKnows, PcOf
    <3>3. tenants = 0
      BY <1>0, <2>5 DEF KnownTenants
    <3>4. Message(q) \notin promised
      BY <2>1, <3>3, PostKnows DEF IInv, TenantsGood
    <3>5. post' = [post EXCEPT ![q] = p]
      BY <2>5 DEF Advance
    <3> HIDE DEF p
    <3> QED
      BY <2>1, <2>2, <2>3, <2>4, <3>2, <3>3, <3>4, <3>5, PostKnows, Moved
  <2>6. ASSUME NEW k \in KnownTenants,
               post' = [post EXCEPT ![q].pc = "ticket", ![q].tenant = k]
        PROVE  IInv'
    <3> DEFINE p == [post[q] EXCEPT !.pc = "ticket", !.tenant = k]
    <3>1. k \in Nat /\ tenants > 0
      BY <1>0 DEF KnownTenants
    <3>2. /\ p \in Posted /\ p.pc = "ticket" /\ p.thread = post[q].thread /\ p.msg = post[q].msg
          /\ p.opening = post[q].opening /\ p.fresh = post[q].fresh
      BY <2>1, <3>1, PostKnows DEF Posted, Busy, AtOperator
    <3>3. post' = [post EXCEPT ![q] = p]
      BY <2>6
    <3>4. Message(q) \in promised => ~p.fresh
      BY <2>1, <3>2, PostKnows
    <3> HIDE DEF p
    <3> QED
      BY <2>1, <2>2, <2>3, <2>4, <3>1, <3>2, <3>3, <3>4, PostKnows, Moved
  <2> QED
    BY <1>7, <2>5, <2>6 DEF FindTenant
<1>8. CASE NewTenant(q)
  <2> DEFINE p == [post[q] EXCEPT !.pc = "ticket", !.tenant = tenants, !.fresh = TRUE]
  <2>1. post[q].pc = "tenant" /\ post[q].pc \in Busy /\ post[q].pc \in AtOperator
    BY <1>8 DEF NewTenant, Busy, AtOperator
  <2>2. /\ p \in Posted /\ p.pc = "ticket" /\ p.thread = post[q].thread /\ p.msg = post[q].msg
        /\ p.opening = post[q].opening /\ p.fresh /\ p.tenant = tenants
    BY <1>0, <2>1, PostKnows DEF Posted, Busy, AtOperator
  <2>3. post' = [post EXCEPT ![q] = p]
    BY <1>8 DEF NewTenant
  <2>4. Apart /\ overlapped' = overlapped
    BY <1>0, <1>8 DEF NewTenant, Apart, AllowanceType
  <2>5. Message(q) \notin promised /\ (~overlapped => tenants = 0)
    BY <2>1, PostKnows
  <2>6. ~overlapped => \A r \in Posts \ {q} : post[r].pc \notin AtOperator
    BY <2>1 DEF IInv, AloneGood
  <2>7. "ticket" \in AtOperator
    BY DEF AtOperator
  <2> HIDE DEF p
  <2> QED
    BY <2>1, <2>2, <2>3, <2>4, <2>5, <2>6, <2>7, PostKnows, Moved
<1>9. CASE AppendReply(q)
  <2> DEFINE t == post[q].thread
             m == post[q].msg
             list == Append(mirror[t], m)
  <2>1. post[q].pc = "ticket" /\ post[q].pc \in Busy /\ mirror[t] # <<>>
    BY <1>9 DEF AppendReply, Busy, AtOperator, Mirrored
  <2>2. Active(q) /\ t \in Threads /\ m \in Nat /\ mirror[t] \in Seq(Nat) /\ ~InMirror(t, m)
    BY <1>0, <2>1, PostKnows DEF PostGood
  <2>3. /\ list \in Seq(Nat) /\ list # <<>> /\ Len(list) = Len(mirror[t]) + 1
        /\ \A i \in 1 .. Len(mirror[t]) : list[i] = mirror[t][i]
        /\ list[Len(mirror[t]) + 1] = m
    <3> HIDE DEF t, m
    <3> QED
      BY <2>2, AppendProperties
  <2>4. list[1] = 1
    BY <2>1, <2>2, <2>3 DEF IInv, MirrorIsFaithful
  <2>5. \A i \in 1 .. Len(list) : list[i] = m \/ InMirror(t, list[i])
    BY <2>2, <2>3 DEF InMirror
  <2>6. \A x \in Nat : x = m \/ InMirror(t, x) => \E i \in 1 .. Len(list) : list[i] = x
    BY <2>2, <2>3 DEF InMirror
  <2>7. \A i, j \in 1 .. Len(list) : i # j => list[i] # list[j]
    <3>1. \A i, j \in 1 .. Len(mirror[t]) : i # j => mirror[t][i] # mirror[t][j]
      BY <2>1, <2>2 DEF IInv, MirrorIsFaithful
    <3>2. \A i \in 1 .. Len(mirror[t]) : mirror[t][i] # m
      BY <2>2 DEF InMirror
    <3> SUFFICES ASSUME NEW i \in 1 .. Len(mirror[t]) + 1, NEW j \in 1 .. Len(mirror[t]) + 1,
                        i # j
                 PROVE  list[i] # list[j]
      BY <2>3
    <3>3. Len(mirror[t]) \in Nat
      BY <2>2
    <3>4. CASE i \in 1 .. Len(mirror[t]) /\ j \in 1 .. Len(mirror[t])
      BY <2>3, <3>1, <3>4
    <3>5. CASE i = Len(mirror[t]) + 1 \/ j = Len(mirror[t]) + 1
      BY <2>3, <3>2, <3>3, <3>5
    <3> QED
      BY <3>3, <3>4, <3>5
  <2>8. mirror' = [mirror EXCEPT ![t] = list] /\ home' = home
    BY <1>9 DEF AppendReply
  <2>9. InsertTenant(q) /\ Finish(q)
        /\ UNCHANGED <<written, mother, faults, promised, overlapped, allowance>>
    BY <1>9 DEF AppendReply
  <2>10. t = post[q].thread /\ m = post[q].msg /\ home' \in [Threads -> Nat]
    BY <1>0, <2>8
  <2>11. post[q].pc \in {"ticket", "insert"}
    BY <2>1
  <2>12. Longer(post[q].thread, post[q].msg, list)
    BY <2>3, <2>4, <2>5, <2>6, <2>7 DEF Longer
  <2> HIDE DEF list, m
  <2> QED
    BY <2>2, <2>8, <2>9, <2>10, <2>11, <2>12, Arrives
<1>10. CASE NoSubject(q)
  <2>1. post[q].pc = "ticket" /\ post[q].pc \in Busy /\ ~Mirrored(q) /\ ~post[q].opening
    BY <1>10 DEF NoSubject, Busy, AtOperator
  <2>2. Apart
    BY <1>0, <1>10 DEF NoSubject, Apart, AllowanceType
  <2>3. Message(q) \notin promised /\ post[q].msg # 1
    BY <2>1, PostKnows DEF Mirrored, PostGood
  <2>4. \A t \in Threads, m \in Nat : Message(q) = <<t, m>> => ~Owed(t, m)
    BY <2>3 DEF Owed, Message
  <2> QED
    BY <1>10, <2>1, <2>2, <2>4, PostKnows, Ended DEF NoSubject, Finish
<1>11. CASE ReadNumber(q)
  <2> DEFINE n == SizeOf(post[q].tenant)
             p == [post[q] EXCEPT !.pc = "insert", !.size = n]
  <2>1. /\ post[q].pc = "ticket" /\ post[q].pc \in Busy /\ post[q].pc \in AtOperator
        /\ post[q].opening
    BY <1>11 DEF ReadNumber, Busy, AtOperator
  <2>2. n \in Nat
    BY SizeIsNat
  <2>3. /\ p \in Posted /\ p.pc = "insert" /\ p.thread = post[q].thread /\ p.msg = post[q].msg
        /\ p.opening = post[q].opening /\ p.fresh = post[q].fresh /\ p.tenant = post[q].tenant
        /\ p.size = n
    BY <2>1, <2>2, PostKnows DEF Posted, Busy, AtOperator
  <2>4. post' = [post EXCEPT ![q] = p]
    BY <1>11 DEF ReadNumber
  <2>5. Apart /\ overlapped' = overlapped
    BY <1>0, <1>11 DEF ReadNumber, Apart, AllowanceType
  <2>6. \A k \in Nat : k = p.tenant => SizeOf(k) = p.size
    BY <2>3
  <2>7. ~overlapped => \A r \in Posts \ {q} : post[r].pc \notin AtOperator
    BY <2>1 DEF IInv, AloneGood
  <2>8. "insert" \in AtOperator
    BY DEF AtOperator
  <2>9. post[q].fresh \/ tenants > 0
    BY <2>1, PostKnows DEF PostGood
  <2> HIDE DEF p, n
  <2> QED
    BY <2>1, <2>3, <2>4, <2>5, <2>6, <2>7, <2>8, <2>9, PostKnows, Moved
<1>12. CASE Insert(q)
  <2> DEFINE t == post[q].thread
             m == 1
             list == <<1>>
  <2>1. post[q].pc = "insert" /\ post[q].pc \in Busy /\ mirror[t] = <<>>
    BY <1>12 DEF Insert, Busy, AtOperator, Mirrored
  <2>2. Active(q) /\ t \in Threads /\ post[q].msg = 1
    BY <2>1, PostKnows DEF PostGood
  <2>3. list \in Seq(Nat) /\ list # <<>> /\ Len(list) = 1 /\ list[1] = 1
    OBVIOUS
  <2>4. \A x \in Nat : ~InMirror(t, x)
    BY <2>1 DEF InMirror
  <2>5. mirror' = [mirror EXCEPT ![t] = list]
    BY <1>12, <2>2 DEF Insert
  <2>6. home' \in [Threads -> Nat]
    BY <1>0, <1>12, <2>1, PostKnows DEF Insert
  <2>7. InsertTenant(q) /\ Finish(q)
        /\ UNCHANGED <<written, mother, faults, promised, overlapped, allowance>>
    BY <1>12 DEF Insert
  <2>8. t = post[q].thread /\ m = post[q].msg /\ m \in Nat
    BY <2>2
  <2>9. /\ \A i \in 1 .. Len(list) : list[i] = m \/ InMirror(t, list[i])
        /\ \A i, j \in 1 .. Len(list) : i # j => list[i] # list[j]
    BY <2>3
  <2>10. \A x \in Nat : x = m \/ InMirror(t, x) => \E i \in 1 .. Len(list) : list[i] = x
    BY <2>3, <2>4
  <2>11. post[q].pc \in {"ticket", "insert"}
    BY <2>1
  <2>12. Longer(post[q].thread, post[q].msg, list)
    BY <2>3, <2>8, <2>9, <2>10 DEF Longer
  <2> HIDE DEF list
  <2> QED
    BY <2>2, <2>5, <2>6, <2>7, <2>11, <2>12, Arrives
<1>13. CASE Collide(q)
  <2>1. post[q].pc \in {"ticket", "insert"} /\ post[q].pc \in Busy
    BY <1>13 DEF Collide, Busy, AtOperator
  <2>2. Apart /\ overlapped' = overlapped
    BY <1>0, <1>13 DEF Collide, Apart, AllowanceType
  <2>3. overlapped /\ Message(q) \notin promised
    BY <1>13, CollisionIsExcused
  <2>4. \A t \in Threads, m \in Nat : Message(q) = <<t, m>> => ~Owed(t, m)
    BY <2>3 DEF Owed
  <2> QED
    BY <1>13, <2>1, <2>2, <2>4, PostKnows, Ended DEF Collide, Finish
<1> QED
    BY <1>1, <1>2, <1>3, <1>4, <1>5, <1>6, <1>7, <1>8, <1>9, <1>10, <1>11, <1>12, <1>13
    DEF PostStep

LEMMA Inductive == BridgeSpec => []IInv
<1>1. BridgeInit => IInv
  <2> SUFFICES ASSUME BridgeInit PROVE IInv
    OBVIOUS
  <2>1. BridgeTypeOK
    <3>1. allowance \in [messages : Nat, faults : Nat, gateway : BOOLEAN]
      BY BridgeAssumption DEF BridgeInit
    <3>2. /\ \A t \in Threads : <<>> \in Seq(Nat)
          /\ mirror \in [Threads -> Seq(Nat)]
      BY DEF BridgeInit
    <3> QED
      BY <3>1, <3>2 DEF BridgeInit, BridgeTypeOK
  <2>2. \A q \in Posts : ~Active(q) /\ post[q].pc \notin AtOperator
    BY DEF BridgeInit, Active, NoPost, AtOperator
  <2>3. \A t \in Threads : mirror[t] = <<>> /\ written[t] = 0
    BY DEF BridgeInit
  <2>4. MirrorIsFaithful /\ RepliesFollow /\ TenantsGood
    BY <2>3 DEF MirrorIsFaithful, RepliesFollow, TenantsGood
  <2>5. PostsGood /\ Distinct
    BY <2>2 DEF PostsGood, PostGood, Distinct
  <2>6. PromisedGood
    BY <2>2 DEF BridgeInit, PromisedGood
  <2>7. AloneGood
    BY <2>2 DEF BridgeInit, AloneGood
  <2> QED
    BY <2>1, <2>4, <2>5, <2>6, <2>7 DEF IInv
<1>2. IInv /\ UNCHANGED bridgeVars => IInv'
  <2> SUFFICES ASSUME IInv, UNCHANGED bridgeVars PROVE IInv'
    OBVIOUS
  <2> USE DEF bridgeVars
  <2>1. BridgeTypeOK' /\ MirrorIsFaithful' /\ TenantsGood'
    BY DEF IInv, BridgeTypeOK, MirrorIsFaithful, TenantsGood
  <2>2. RepliesFollow'
    BY DEF IInv, RepliesFollow, Owed, Excused, UnderWay, InMirror, Message
  <2>3. PostsGood' /\ Distinct' /\ PromisedGood'
    BY DEF IInv, PostsGood, PostGood, Distinct, PromisedGood, Active, Message, InMirror
  <2>4. AloneGood'
    BY DEF IInv, AloneGood, Active, SizeOf
  <2> QED
    BY <2>1, <2>2, <2>3, <2>4 DEF IInv
<1>3. IInv /\ [BridgeNext]_bridgeVars => IInv'
    BY <1>2, PostStepKeeps DEF BridgeNext
<1> QED
    BY <1>1, <1>3, PTL DEF BridgeSpec

-----------------------------------------------------------------------------
(* The contract of the mirrors                                               *)

\* A post that has found a tenant has one that exists.
TenantKnown(q) ==
    Active(q) /\ post[q].pc \in {"ticket", "insert"} /\ ~post[q].fresh => post[q].tenant < tenants
TenantsKnown == \A q \in Posts : TenantKnown(q)

LEMMA KnownKeeps ==
    ASSUME BridgeTypeOK, TenantsKnown, tenants' \in Nat, tenants' >= tenants,
           NEW q \in Posts, NEW p, post' = [post EXCEPT ![q] = p],
           p # NoPost /\ p.pc \in {"ticket", "insert"} /\ ~p.fresh => p.tenant < tenants'
    PROVE  TenantsKnown'
<1>1. post'[q] = p /\ \A r \in Posts \ {q} : post'[r] = post[r]
    BY DEF BridgeTypeOK
<1>2. TenantKnown(q)'
    BY <1>1 DEF TenantKnown, Active
<1>3. ASSUME NEW r \in Posts \ {q} PROVE TenantKnown(r)'
  <2> SUFFICES ASSUME Active(r), post[r].pc \in {"ticket", "insert"}, ~post[r].fresh
               PROVE  post[r].tenant < tenants'
    BY <1>1 DEF TenantKnown, Active
  <2>1. post[r].tenant < tenants
    BY DEF TenantsKnown, TenantKnown
  <2>2. post[r].tenant \in Nat /\ tenants \in Nat
    BY ActiveIsPosted DEF Posted, BridgeTypeOK
  <2> QED
    BY <2>1, <2>2
<1> QED
    BY <1>2, <1>3 DEF TenantsKnown

\* In a post that only moves on, the tenant stays.
LEMMA KnownMoved ==
    ASSUME BridgeTypeOK, TenantsKnown, UNCHANGED tenants, NEW q \in Posts, NEW p,
           post' = [post EXCEPT ![q] = p],
           p = NoPost \/ p.pc \notin {"ticket", "insert"}
           \/ (Active(q) /\ post[q].pc \in {"ticket", "insert"} /\ p.fresh = post[q].fresh
               /\ p.tenant = post[q].tenant)
    PROVE  TenantsKnown'
<1>1. tenants' \in Nat /\ tenants' >= tenants
    BY DEF BridgeTypeOK
<1>2. p # NoPost /\ p.pc \in {"ticket", "insert"} /\ ~p.fresh => p.tenant < tenants'
    BY DEF TenantsKnown, TenantKnown
<1> QED
    BY <1>1, <1>2, KnownKeeps

LEMMA KnownStep ==
    ASSUME IInv, TenantsKnown, NEW q \in Posts, PostStep(q)
    PROVE  TenantsKnown'
<1>0. BridgeTypeOK /\ tenants \in Nat
    BY DEF IInv, BridgeTypeOK
<1>1. ASSUME NEW t \in Threads, Open(q, t) \/ Reply(q, t) PROVE TenantsKnown'
  <2> PICK m, b : post' = [post EXCEPT ![q] = Sent(t, m, b)] /\ UNCHANGED tenants
    BY <1>1 DEF Open, Reply
  <2>1. Sent(t, m, b).pc = "push"
    BY DEF Sent
  <2> QED
    BY <1>0, <2>1, KnownMoved
<1>2. CASE BeginPush(q)
  <2> DEFINE p == [post[q] EXCEPT !.pc = IF allowance.gateway THEN "gateway" ELSE "direct",
                                  !.msg = IF post[q].opening THEN FirstOf(post[q].thread)
                                          ELSE post[q].msg]
  <2>1. post[q].pc = "push" /\ post' = [post EXCEPT ![q] = p] /\ UNCHANGED tenants
    BY <1>2 DEF BeginPush
  <2>2. p.pc \in {"gateway", "direct"}
    BY <2>1, PostKnows DEF Busy, Posted
  <2> HIDE DEF p
  <2> QED
    BY <1>0, <2>1, <2>2, KnownMoved
<1>3. CASE GatewayFails(q)
  <2> DEFINE p == [post[q] EXCEPT !.pc = "direct"]
  <2>1. post[q].pc \in Busy /\ post' = [post EXCEPT ![q] = p] /\ UNCHANGED tenants
    BY <1>3 DEF GatewayFails, Advance, Busy
  <2>2. p.pc = "direct"
    BY <2>1, PostKnows DEF Posted
  <2> HIDE DEF p
  <2> QED
    BY <1>0, <2>1, <2>2, KnownMoved
<1>4. CASE GatewayAccepts(q) \/ PostFails(q) \/ NoSubject(q) \/ Collide(q)
  <2>1. post' = [post EXCEPT ![q] = NoPost] /\ UNCHANGED tenants
    BY <1>4 DEF GatewayAccepts, PostFails, NoSubject, Collide, Finish
  <2> QED
    BY <1>0, <2>1, KnownMoved
<1>5. CASE FindTenant(q)
  <2>0. post[q].pc \in Busy /\ UNCHANGED tenants
    BY <1>5 DEF FindTenant, Busy
  <2>1. CASE Advance(q, "tenant")
    <3> DEFINE p == [post[q] EXCEPT !.pc = "tenant"]
    <3>1. post' = [post EXCEPT ![q] = p]
      BY <2>1 DEF Advance
    <3>2. p.pc = "tenant"
      BY <2>0, PostKnows DEF Posted
    <3> HIDE DEF p
    <3> QED
      BY <1>0, <2>0, <3>1, <3>2, KnownMoved
  <2>2. ASSUME NEW k \in KnownTenants,
               post' = [post EXCEPT ![q].pc = "ticket", ![q].tenant = k]
        PROVE  TenantsKnown'
    <3> DEFINE p == [post[q] EXCEPT !.pc = "ticket", !.tenant = k]
    <3>1. post' = [post EXCEPT ![q] = p]
      BY <2>2
    <3>2. p.tenant = k
      BY <2>0, PostKnows DEF Posted
    <3>3. k < tenants
      BY <1>0, <2>2 DEF KnownTenants
    <3>4. tenants' \in Nat /\ tenants' >= tenants
      BY <1>0, <2>0
    <3> HIDE DEF p
    <3> QED
      BY <1>0, <2>0, <3>1, <3>2, <3>3, <3>4, KnownKeeps
  <2> QED
    BY <1>5, <2>1, <2>2 DEF FindTenant
<1>6. CASE NewTenant(q)
  <2> DEFINE p == [post[q] EXCEPT !.pc = "ticket", !.tenant = tenants, !.fresh = TRUE]
  <2>1. post[q].pc \in Busy /\ post' = [post EXCEPT ![q] = p] /\ UNCHANGED tenants
    BY <1>6 DEF NewTenant, Busy, AtOperator
  <2>2. p.fresh
    BY <2>1, PostKnows DEF Posted
  <2>3. tenants' \in Nat /\ tenants' >= tenants
    BY <1>0, <2>1
  <2> HIDE DEF p
  <2> QED
    BY <1>0, <2>1, <2>2, <2>3, KnownKeeps
<1>7. CASE ReadNumber(q)
  <2> DEFINE p == [post[q] EXCEPT !.pc = "insert", !.size = SizeOf(post[q].tenant)]
  <2>1. /\ post[q].pc = "ticket" /\ post[q].pc \in Busy
        /\ post' = [post EXCEPT ![q] = p] /\ UNCHANGED tenants
    BY <1>7 DEF ReadNumber, Busy, AtOperator
  <2>2. p.fresh = post[q].fresh /\ p.tenant = post[q].tenant /\ Active(q)
    BY <2>1, PostKnows DEF Posted
  <2> HIDE DEF p
  <2> QED
    BY <1>0, <2>1, <2>2, KnownMoved
<1>8. CASE AppendReply(q) \/ Insert(q)
  <2>1. post' = [post EXCEPT ![q] = NoPost] /\ InsertTenant(q)
    BY <1>8 DEF AppendReply, Insert, Finish
  <2>2. tenants' \in Nat /\ tenants' >= tenants
    BY <1>0, <2>1 DEF InsertTenant
  <2> QED
    BY <1>0, <2>1, <2>2, KnownKeeps
<1> QED
    BY <1>1, <1>2, <1>3, <1>4, <1>5, <1>6, <1>7, <1>8 DEF PostStep

\* What is on its way changes with the posts.
LEMMA OnWayIs == \A m : m \in OnWay <=> \E q \in Posts : Active(q) /\ Message(q) = m
    BY DEF OnWay, Active

LEMMA OnWayMoves ==
    ASSUME BridgeTypeOK, NEW q \in Posts, Active(q), NEW p, p # NoPost,
           post' = [post EXCEPT ![q] = p], p.thread = post[q].thread, p.msg = post[q].msg
    PROVE  OnWay' = OnWay
<1>1. post'[q] = p /\ \A r \in Posts \ {q} : post'[r] = post[r]
    BY DEF BridgeTypeOK
<1>2. \A r \in Posts : Active(r)' <=> Active(r)
    BY <1>1 DEF Active
<1>3. \A r \in Posts : Message(r)' = Message(r)
    BY <1>1 DEF Message
<1>4. \A m : m \in OnWay' <=> \E r \in Posts : Active(r)' /\ Message(r)' = m
    BY DEF OnWay, Active
<1> QED
    BY <1>2, <1>3, <1>4, OnWayIs

LEMMA OnWayEnds ==
    ASSUME BridgeTypeOK, Distinct, NEW q \in Posts, Active(q), Finish(q)
    PROVE  Message(q) \in OnWay /\ OnWay' = OnWay \ {Message(q)}
<1>1. post'[q] = NoPost /\ \A r \in Posts \ {q} : post'[r] = post[r]
    BY DEF BridgeTypeOK, Finish
<1>2. ~Active(q)' /\ \A r \in Posts \ {q} : (Active(r)' <=> Active(r)) /\ Message(r)' = Message(r)
    BY <1>1 DEF Active, Message
<1>3. \A r \in Posts \ {q} : Active(r) => Message(r) # Message(q)
    BY DEF Distinct
<1>4. \A m : m \in OnWay' <=> \E r \in Posts : Active(r)' /\ Message(r)' = m
    BY DEF OnWay, Active
<1>5. Message(q) \in OnWay
    BY OnWayIs
<1>6. \A m : m \in OnWay' <=> m \in OnWay /\ m # Message(q)
    BY <1>2, <1>3, <1>4, OnWayIs
<1> QED
    BY <1>5, <1>6

LEMMA OnWayBegins ==
    ASSUME BridgeTypeOK, NEW q \in Posts, ~Active(q), NEW p, p # NoPost,
           post' = [post EXCEPT ![q] = p]
    PROVE  OnWay' = OnWay \cup {<<p.thread, p.msg>>}
<1>1. post'[q] = p /\ \A r \in Posts \ {q} : post'[r] = post[r]
    BY DEF BridgeTypeOK
<1>2. /\ Active(q)' /\ Message(q)' = <<p.thread, p.msg>>
      /\ \A r \in Posts \ {q} : (Active(r)' <=> Active(r)) /\ Message(r)' = Message(r)
    BY <1>1 DEF Active, Message
<1>3. \A m : m \in OnWay' <=> \E r \in Posts : Active(r)' /\ Message(r)' = m
    BY DEF OnWay, Active
<1>4. \A m : m \in OnWay' <=> m \in OnWay \/ m = <<p.thread, p.msg>>
    BY <1>2, <1>3, OnWayIs
<1> QED
    BY <1>4

\* A message is written.
LEMMA WriteRefines ==
    ASSUME IInv, NEW q \in Posts, NEW t \in Threads, Open(q, t) \/ Reply(q, t)
    PROVE  Contract!Write(t)
<1> DEFINE k == written[t] + 1
<1>0. k \in Nat /\ written[t] \in Nat
    BY DEF IInv, BridgeTypeOK
<1>1. ~Active(q) /\ k \in Nat /\ written[t] \in Nat
    BY <1>0 DEF Open, Reply, Active
<1>2. PICK b \in BOOLEAN : post' = [post EXCEPT ![q] = Sent(t, k, b)]
  <2>1. CASE Open(q, t)
    <3>1. k = 1 /\ post' = [post EXCEPT ![q] = Sent(t, 1, TRUE)]
      BY <1>0, <2>1 DEF Open
    <3> QED
      BY <3>1
  <2>2. CASE Reply(q, t)
    BY <2>2 DEF Reply
  <2> QED
    BY <2>1, <2>2
<1>3. /\ Sent(t, k, b) # NoPost
      /\ Sent(t, k, b).thread = t /\ Sent(t, k, b).msg = k
    BY <1>1, SentIsPosted, PostedIsActive
<1>4. OnWay' = OnWay \cup {<<t, k>>}
    BY <1>1, <1>2, <1>3, OnWayBegins DEF IInv
<1>5. written' = [written EXCEPT ![t] = @ + 1]
  <2>1. CASE Open(q, t)
    <3>1. written[t] = 0 /\ written' = [written EXCEPT ![t] = 1]
      BY <2>1 DEF Open
    <3>2. written' = [written EXCEPT ![t] = written[t] + 1]
      BY <3>1
    <3> QED
      BY <3>2
  <2>2. CASE Reply(q, t)
    BY <2>2 DEF Reply
  <2> QED
    BY <2>1, <2>2
<1>6. promised' = IF mirror[t] # <<>> THEN promised \cup {<<t, k>>} ELSE promised
  <2>1. CASE Reply(q, t)
    BY <2>1 DEF Reply
  <2>2. CASE Open(q, t)
    <3>1. written[t] = 0 /\ promised' = promised
      BY <2>2 DEF Open
    <3>2. mirror[t] = <<>>
      <4> SUFFICES ASSUME mirror[t] # <<>> PROVE FALSE
        OBVIOUS
      <4>1. mirror[t] \in Seq(Nat) /\ 1 \in 1 .. Len(mirror[t])
        BY DEF IInv, BridgeTypeOK
      <4>2. mirror[t][1] \in 1 .. written[t]
        BY <4>1 DEF IInv, MirrorIsFaithful
      <4> QED
        BY <3>1, <4>2
    <3> QED
      BY <3>1, <3>2
  <2> QED
    BY <2>1, <2>2
<1>7. UNCHANGED <<mirror, tenants, home, mother, faults, overlapped>>
    BY DEF Open, Reply
<1> HIDE DEF k
<1> QED
    BY <1>4, <1>5, <1>6, <1>7 DEF Contract!Write, Contract!There, k

\* One gets into the mirror.
LEMMA ArriveRefines ==
    ASSUME IInv, IInv', TenantsKnown, NEW q \in Posts, AppendReply(q) \/ Insert(q)
    PROVE  Contract!Arrive(Message(q)[1], Message(q)[2])
<1> DEFINE t == post[q].thread
           k == post[q].msg
<1>1. post[q].pc \in {"ticket", "insert"} /\ post[q].pc \in Busy
    BY DEF AppendReply, Insert, Busy, AtOperator
<1>2. /\ Active(q) /\ t \in Threads /\ k \in Nat /\ post[q].tenant \in Nat
      /\ Message(q) = <<t, k>> /\ Message(q)[1] = t /\ Message(q)[2] = k
    BY <1>1, PostKnows
<1>3. <<t, k>> \in OnWay /\ OnWay' = OnWay \ {<<t, k>>}
    BY <1>2, OnWayEnds DEF IInv, AppendReply, Insert
<1>4. /\ InsertTenant(q) /\ SlugFree(q)
      /\ UNCHANGED <<written, mother, faults, promised, overlapped>>
    BY DEF AppendReply, Insert
<1>5. tenants \in Nat /\ tenants' \in {tenants, tenants + 1} /\ post[q].tenant \in 0 .. tenants' - 1
    BY <1>1, <1>2, <1>4 DEF IInv, BridgeTypeOK, InsertTenant, SlugFree, TenantsKnown, TenantKnown
<1>6. ~overlapped => tenants' <= 1
    BY <1>4 DEF IInv, AloneGood
<1>7. CASE AppendReply(q)
  <2>1. mirror[t] # <<>> /\ UNCHANGED home /\ mirror' = [mirror EXCEPT ![t] = Append(@, k)]
    BY <1>7 DEF AppendReply, Mirrored
  <2> HIDE DEF t, k
  <2> QED
    BY <1>2, <1>3, <1>4, <1>5, <1>6, <2>1 DEF Contract!Arrive, Contract!There
<1>8. CASE Insert(q)
  <2>1. mirror[t] = <<>> /\ home' = [home EXCEPT ![t] = post[q].tenant]
    BY <1>8 DEF Insert, Mirrored
  <2>2. post[q].opening /\ k = 1
    BY <1>1, <1>2, <1>8, PostKnows DEF Insert, PostGood
  <2>3. mirror' = [mirror EXCEPT ![t] = <<k>>]
    BY <1>8 DEF Insert
  <2>4. Append(mirror[t], k) = <<k>>
    BY <2>1
  <2>5. mirror' = [mirror EXCEPT ![t] = Append(@, k)]
    BY <2>3, <2>4
  <2> HIDE DEF t, k
  <2> QED
    BY <1>2, <1>3, <1>4, <1>5, <1>6, <2>1, <2>2, <2>5 DEF Contract!Arrive, Contract!There
<1> QED
    BY <1>7, <1>8

\* Every other step hands a message over, loses or refuses it, or shows nowhere.
LEMMA StepRefines ==
    ASSUME IInv, IInv', TenantsKnown, NEW q \in Posts, PostStep(q)
    PROVE  Contract!Next \/ UNCHANGED Contract!vars
<1> DEFINE m == Message(q)
<1>0. BridgeTypeOK /\ Distinct
    BY DEF IInv
<1>1. ASSUME NEW t \in Threads, Open(q, t) \/ Reply(q, t) PROVE Contract!Next
    BY <1>1, WriteRefines DEF Contract!Next
<1>2. CASE BeginPush(q)
  <2> DEFINE p == [post[q] EXCEPT !.pc = IF allowance.gateway THEN "gateway" ELSE "direct",
                                  !.msg = IF post[q].opening THEN FirstOf(post[q].thread)
                                          ELSE post[q].msg]
  <2>1. post[q].pc = "push" /\ post[q].pc \in Busy /\ post' = [post EXCEPT ![q] = p]
    BY <1>2 DEF BeginPush, Busy
  <2>2. p \in Posted /\ p.thread = post[q].thread /\ p.msg = post[q].msg
    BY <2>1, PostKnows DEF Posted, Busy, FirstOf, PostGood
  <2>3. p # NoPost
    BY <2>2, PostedIsActive
  <2> HIDE DEF p
  <2>4. OnWay' = OnWay
    BY <1>0, <2>1, <2>2, <2>3, PostKnows, OnWayMoves
  <2> QED
    BY <1>2, <2>4 DEF BeginPush, Contract!vars
<1>3. CASE GatewayAccepts(q)
  <2>1. Active(q)
    BY <1>3, PostKnows DEF GatewayAccepts, Busy
  <2>2. m \in OnWay /\ OnWay' = OnWay \ {m}
    BY <1>0, <1>3, <2>1, OnWayEnds DEF GatewayAccepts
  <2>3. Contract!Forward(m)
    BY <1>3, <2>2 DEF GatewayAccepts, Contract!Forward
  <2> QED
    BY <2>2, <2>3 DEF Contract!Next
<1>4. CASE GatewayFails(q)
  <2> DEFINE p == [post[q] EXCEPT !.pc = "direct"]
  <2>1. post[q].pc \in Busy /\ "direct" \in Busy /\ post' = [post EXCEPT ![q] = p]
    BY <1>4 DEF GatewayFails, Advance, Busy
  <2>2. p \in Posted /\ p.thread = post[q].thread /\ p.msg = post[q].msg
    BY <2>1, PostKnows, PcOf
  <2>3. p # NoPost /\ Active(q)
    BY <2>1, <2>2, PostedIsActive, PostKnows
  <2> HIDE DEF p
  <2>4. OnWay' = OnWay /\ m \in OnWay
    BY <1>0, <2>1, <2>2, <2>3, OnWayMoves, OnWayIs
  <2>5. /\ mother' = mother \/ mother' = mother \cup {m}
        /\ UNCHANGED <<written, mirror, tenants, home, faults, promised, overlapped>>
    BY <1>4 DEF GatewayFails
  <2>6. CASE mother' = mother
    BY <2>4, <2>5, <2>6 DEF Contract!vars
  <2>7. CASE mother' = mother \cup {m}
    <3>1. Contract!Forward(m)
      BY <2>4, <2>5, <2>7 DEF Contract!Forward
    <3> QED
      BY <2>4, <3>1 DEF Contract!Next
  <2> QED
    BY <2>5, <2>6, <2>7
<1>5. CASE PostFails(q)
  <2>1. Active(q)
    BY <1>5 DEF PostFails, Active
  <2>2. m \in OnWay /\ OnWay' = OnWay \ {m}
    BY <1>0, <1>5, <2>1, OnWayEnds DEF PostFails
  <2>3. Contract!Lose(m)
    BY <1>5, <2>2 DEF PostFails, Contract!Lose
  <2> QED
    BY <2>2, <2>3 DEF Contract!Next
<1>6. ASSUME NEW p, p # NoPost, post[q].pc \in Busy, post' = [post EXCEPT ![q] = p],
             p.thread = post[q].thread, p.msg = post[q].msg,
             UNCHANGED <<written, mirror, tenants, home, mother, faults, promised>>,
             overlapped' \in {overlapped, TRUE}
      PROVE  Contract!Next \/ UNCHANGED Contract!vars
  <2>1. OnWay' = OnWay
    BY <1>0, <1>6, PostKnows, OnWayMoves
  <2>2. CASE overlapped' = overlapped
    BY <1>6, <2>1, <2>2 DEF Contract!vars
  <2>3. CASE overlapped' = TRUE
    <3>1. Contract!Crowd
      BY <1>6, <2>1, <2>3 DEF Contract!Crowd
    <3> QED
      BY <3>1 DEF Contract!Next
  <2> QED
    BY <1>6, <2>2, <2>3
<1>7. CASE FindTenant(q)
  <2>0. post[q].pc \in Busy /\ post[q] \in Posted /\ overlapped \in BOOLEAN
    BY <1>7, PostKnows DEF FindTenant, Busy, IInv, BridgeTypeOK
  <2>1. /\ UNCHANGED <<written, mirror, tenants, home, mother, faults, promised>>
        /\ overlapped' \in {overlapped, TRUE}
    BY <1>7, <2>0 DEF FindTenant
  <2>2. CASE Advance(q, "tenant")
    <3> DEFINE p == [post[q] EXCEPT !.pc = "tenant"]
    <3>1. post' = [post EXCEPT ![q] = p]
      BY <2>2 DEF Advance
    <3>2. p.pc = "tenant" /\ p.thread = post[q].thread /\ p.msg = post[q].msg
      BY <2>0 DEF Posted
    <3>3. p # NoPost
      BY <3>2 DEF NoPost
    <3> HIDE DEF p
    <3> QED
      BY <1>6, <2>0, <2>1, <3>1, <3>2, <3>3
  <2>3. ASSUME NEW k \in KnownTenants,
               post' = [post EXCEPT ![q].pc = "ticket", ![q].tenant = k]
        PROVE  Contract!Next \/ UNCHANGED Contract!vars
    <3> DEFINE p == [post[q] EXCEPT !.pc = "ticket", !.tenant = k]
    <3>1. post' = [post EXCEPT ![q] = p]
      BY <2>3
    <3>2. p.pc = "ticket" /\ p.thread = post[q].thread /\ p.msg = post[q].msg
      BY <2>0 DEF Posted
    <3>3. p # NoPost
      BY <3>2 DEF NoPost
    <3> HIDE DEF p
    <3> QED
      BY <1>6, <2>0, <2>1, <3>1, <3>2, <3>3
  <2> QED
    BY <1>7, <2>2, <2>3 DEF FindTenant
<1>8. CASE NewTenant(q)
  <2> DEFINE p == [post[q] EXCEPT !.pc = "ticket", !.tenant = tenants, !.fresh = TRUE]
  <2>1. /\ post[q].pc \in Busy /\ post' = [post EXCEPT ![q] = p] /\ overlapped' = overlapped
        /\ UNCHANGED <<written, mirror, tenants, home, mother, faults, promised>>
    BY <1>8 DEF NewTenant, Busy, AtOperator
  <2>2. p.pc = "ticket" /\ p.thread = post[q].thread /\ p.msg = post[q].msg
    BY <2>1, PostKnows DEF Posted
  <2>3. p # NoPost
    BY <2>2 DEF NoPost
  <2> HIDE DEF p
  <2> QED
    BY <1>6, <2>1, <2>2, <2>3
<1>9. CASE ReadNumber(q)
  <2> DEFINE p == [post[q] EXCEPT !.pc = "insert", !.size = SizeOf(post[q].tenant)]
  <2>1. /\ post[q].pc \in Busy /\ post' = [post EXCEPT ![q] = p] /\ overlapped' = overlapped
        /\ UNCHANGED <<written, mirror, tenants, home, mother, faults, promised>>
    BY <1>9 DEF ReadNumber, Busy, AtOperator
  <2>2. p.pc = "insert" /\ p.thread = post[q].thread /\ p.msg = post[q].msg
    BY <2>1, PostKnows DEF Posted
  <2>3. p # NoPost
    BY <2>2 DEF NoPost
  <2> HIDE DEF p
  <2> QED
    BY <1>6, <2>1, <2>2, <2>3
<1>10. CASE AppendReply(q) \/ Insert(q)
  <2>1. Active(q) /\ Finish(q)
    BY <1>10, PostKnows DEF AppendReply, Insert, Busy, AtOperator
  <2>2. m \in OnWay
    BY <1>0, <2>1, OnWayEnds
  <2> QED
    BY <1>10, <2>2, ArriveRefines DEF Contract!Next
<1>11. CASE NoSubject(q) \/ Collide(q)
  <2>1. /\ post[q].pc \in Busy /\ Finish(q)
        /\ UNCHANGED <<written, mirror, tenants, home, mother, faults, promised, overlapped>>
    BY <1>11 DEF NoSubject, Collide, Busy, AtOperator
  <2>2. Active(q) /\ m = <<post[q].thread, post[q].msg>>
    BY <2>1, PostKnows
  <2>3. m \in OnWay /\ OnWay' = OnWay \ {m}
    BY <1>0, <2>1, <2>2, OnWayEnds
  <2>4. m \notin promised /\ (post[q].msg = 1 => overlapped)
    <3>1. CASE NoSubject(q)
      BY <2>1, <2>2, <3>1, PostKnows DEF NoSubject, Mirrored, PostGood
    <3>2. CASE Collide(q)
      BY <3>2, CollisionIsExcused
    <3> QED
      BY <1>11, <3>1, <3>2
  <2>5. m[1] = post[q].thread /\ m[2] = post[q].msg /\ <<m[1], m[2]>> = m
    BY <2>2
  <2> HIDE DEF m
  <2>6. Contract!Refuse(m[1], m[2])
    BY <2>1, <2>3, <2>4, <2>5 DEF Contract!Refuse
  <2> QED
    BY <2>3, <2>6 DEF Contract!Next
<1> QED
    BY <1>1, <1>2, <1>3, <1>4, <1>5, <1>7, <1>8, <1>9, <1>10, <1>11 DEF PostStep

-----------------------------------------------------------------------------
(* Theorems                                                                  *)

(* Posts, mirrors and tenants keep their types.                              *)
THEOREM TypeCorrect == BridgeSpec => []BridgeTypeOK
<1>1. IInv => BridgeTypeOK
    BY DEF IInv
<1> QED
    BY <1>1, Inductive, PTL

(* What the operator reads is what the requester wrote: the first message
   first, none twice and none made up, for any number of posts in any order.
   (push_new_ticket_if_configured, ingest_remote_support_ticket)             *)
THEOREM MirrorsAreFaithful == BridgeSpec => []MirrorIsFaithful
<1>1. IInv => MirrorIsFaithful
    BY DEF IInv
<1> QED
    BY <1>1, Inductive, PTL

(* A reply to a mirrored ticket fails on nothing but its own post, and a new
   ticket on nothing but that or an overlapping one. (ingest_remote_support_
   ticket)                                                                   *)
THEOREM RepliesGetThere == BridgeSpec => []RepliesFollow
<1>1. IInv => RepliesFollow
    BY DEF IInv
<1> QED
    BY <1>1, Inductive, PTL

(* An installation has one tenant as long as no two of its posts are handled
   at one time. (ensure_registry_bridge_tenant)                              *)
THEOREM OneTenantAlone == BridgeSpec => []OneTenantUnlessOverlapped
<1>1. IInv => OneTenantUnlessOverlapped
    BY DEF IInv, AloneGood, BridgeTypeOK, OneTenantUnlessOverlapped
<1> QED
    BY <1>1, Inductive, PTL

(* Whatever posts overlap, overtake each other or fail, the mirrors keep their
   contract: each step of a post writes, hands over, loses, refuses or mirrors one
   message, of which there is one post, or shows nowhere. (push_new_ticket_if_
   configured, push_customer_reply_if_configured, ingest_remote_support_ticket) *)
THEOREM MirrorsRefine == BridgeSpec => MirrorsKeepContract
<1>1. BridgeInit => TenantsKnown /\ Contract!Init
  <2> SUFFICES ASSUME BridgeInit PROVE TenantsKnown /\ Contract!Init
    OBVIOUS
  <2>1. OnWay = {}
    BY DEF BridgeInit, OnWay
  <2>2. TenantsKnown
    BY DEF BridgeInit, TenantsKnown, TenantKnown, Active
  <2> QED
    BY <2>1, <2>2 DEF BridgeInit, Contract!Init
<1>2. IInv /\ IInv' /\ TenantsKnown /\ [BridgeNext]_bridgeVars
      => TenantsKnown' /\ [Contract!Next]_Contract!vars
  <2> SUFFICES ASSUME IInv, IInv', TenantsKnown, [BridgeNext]_bridgeVars
               PROVE  TenantsKnown' /\ [Contract!Next]_Contract!vars
    OBVIOUS
  <2>1. CASE BridgeNext
    BY <2>1, KnownStep, StepRefines DEF BridgeNext
  <2>2. CASE UNCHANGED bridgeVars
    BY <2>2 DEF bridgeVars, TenantsKnown, TenantKnown, Active, Contract!vars, OnWay, Message
  <2> QED
    BY <2>1, <2>2
<1> QED
    BY <1>1, <1>2, Inductive, PTL DEF BridgeSpec, MirrorsKeepContract, Contract!Spec

(* An arrival is final, and so is the end of a post that did not arrive: nobody
   repeats it. (push_new_ticket_if_configured, push_customer_reply_if_configured,
   ingest_remote_support_ticket)                                             *)
THEOREM MirrorsAreSettled == BridgeSpec => Contract!StaysSettled
<1>1. IInv /\ [Contract!Next]_Contract!vars => [Contract!SettledStep]_Contract!vars
  <2> SUFFICES ASSUME IInv, Contract!Next, NEW t \in Threads
               PROVE  /\ Len(mirror[t]) <= Len(mirror'[t])
                      /\ \A i \in 1 .. Len(mirror[t]) : mirror'[t][i] = mirror[t][i]
                      /\ mirror[t] # <<>> => home'[t] = home[t]
                      /\ \A k \in 1 .. written[t] : <<t, k>> \in OnWay' => <<t, k>> \in OnWay
    BY DEF Contract!SettledStep, Contract!There
  <2>1. /\ mirror \in [Threads -> Seq(Nat)] /\ mirror[t] \in Seq(Nat) /\ Len(mirror[t]) \in Nat
        /\ home \in [Threads -> Nat] /\ written \in [Threads -> Nat]
    BY DEF IInv, BridgeTypeOK
  <2>2. ASSUME NEW u \in Threads, Contract!Write(u)
        PROVE  \A k \in 1 .. written[t] : <<t, k>> \in OnWay' => <<t, k>> \in OnWay
    <3>1. OnWay' = OnWay \cup {<<u, written[u] + 1>>}
      BY <2>2 DEF Contract!Write
    <3> QED
      BY <2>1, <3>1
  <2>3. ASSUME NEW u \in Threads, Contract!Write(u)
        PROVE  UNCHANGED <<mirror, home>>
    BY <2>3 DEF Contract!Write
  <2>4. ASSUME NEW m \in OnWay, Contract!Refuse(m[1], m[2]) \/ Contract!Forward(m) \/ Contract!Lose(m)
        PROVE  UNCHANGED <<mirror, home>> /\ OnWay' \subseteq OnWay
    BY <2>4 DEF Contract!Refuse, Contract!Forward, Contract!Lose
  <2>5. ASSUME Contract!Crowd
        PROVE  UNCHANGED <<mirror, home>> /\ OnWay' \subseteq OnWay
    BY <2>5 DEF Contract!Crowd
  <2>6. ASSUME NEW m \in OnWay, Contract!Arrive(m[1], m[2])
        PROVE  /\ OnWay' \subseteq OnWay
               /\ Len(mirror[t]) <= Len(mirror'[t])
               /\ \A i \in 1 .. Len(mirror[t]) : mirror'[t][i] = mirror[t][i]
               /\ mirror[t] # <<>> => home'[t] = home[t]
    <3> DEFINE k == m[2]
    <3>1. OnWay' \subseteq OnWay
      BY <2>6 DEF Contract!Arrive
    <3>2. k \in Nat
      <4>1. PICK q \in Posts : Active(q) /\ Message(q) = m
        BY OnWayIs
      <4>2. post[q].msg \in Nat
        BY <4>1, ActiveIsPosted DEF IInv, Posted
      <4> QED
        BY <4>1, <4>2 DEF Message
    <3>3. mirror' = [mirror EXCEPT ![m[1]] = Append(@, k)]
      BY <2>6 DEF Contract!Arrive
    <3> HIDE DEF k
    <3>4. mirror'[t] = mirror[t] \/ mirror'[t] = Append(mirror[t], k)
      BY <2>1, <3>3
    <3>5. /\ Len(Append(mirror[t], k)) = Len(mirror[t]) + 1
          /\ \A i \in 1 .. Len(mirror[t]) : Append(mirror[t], k)[i] = mirror[t][i]
      BY <2>1, <3>2, AppendProperties
    <3>6. mirror[t] # <<>> => home'[t] = home[t]
      BY <2>1, <2>6 DEF Contract!Arrive, Contract!There
    <3>7. CASE mirror'[t] = mirror[t]
      BY <2>1, <3>1, <3>6, <3>7
    <3>8. CASE mirror'[t] = Append(mirror[t], k)
      <4>1. Len(mirror'[t]) = Len(mirror[t]) + 1
        BY <3>5, <3>8
      <4>2. \A i \in 1 .. Len(mirror[t]) : mirror'[t][i] = mirror[t][i]
        BY <3>5, <3>8
      <4> QED
        BY <2>1, <3>1, <3>6, <4>1, <4>2
    <3> QED
      BY <3>4, <3>7, <3>8
  <2> QED
    BY <2>1, <2>2, <2>3, <2>4, <2>5, <2>6 DEF Contract!Next
<1> QED
    BY <1>1, Inductive, MirrorsRefine, PTL
    DEF MirrorsKeepContract, Contract!Spec, Contract!StaysSettled
=============================================================================
