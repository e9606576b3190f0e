---------------------------- MODULE Pairing_proofs ----------------------------
(***************************************************************************)
(* Proofs about Pairing, for any sessions, devices, polls and binders.     *)
(***************************************************************************)
EXTENDS Pairing, SequenceTheorems, FiniteSetTheorems, TLAPS

-----------------------------------------------------------------------------
(* Updates of a record keep its type.                                      *)

LEMMA SessionRowUpdate ==
    ASSUME NEW r \in SessionRows
    PROVE  /\ \A x \in Statuses : [r EXCEPT !.status = x] \in SessionRows
           /\ [r EXCEPT !.delivered = TRUE] \in SessionRows
           /\ r.status \in Statuses
           /\ r.expires \in Nat
    BY DEF SessionRows

LEMMA ScreenRowUpdate ==
    ASSUME NEW r \in ScreenRows
    PROVE  /\ Issued(r) \in ScreenRows
           /\ [r EXCEPT !.rows = @ + 1] \in ScreenRows
           /\ [r EXCEPT !.hash = 0] \in ScreenRows
           /\ r.rows \in Nat
           /\ r.issued \in Nat
<1>1. r.rows + 1 \in Nat /\ r.issued + 1 \in Nat /\ r.rows \in Nat /\ r.issued \in Nat
    BY DEF ScreenRows
<1>2. ASSUME NEW n \in Nat
      PROVE  /\ [r EXCEPT !.issued = n, !.hash = n] \in ScreenRows
             /\ [r EXCEPT !.rows = n] \in ScreenRows
             /\ [r EXCEPT !.hash = 0] \in ScreenRows
    BY DEF ScreenRows
<1> QED BY <1>1, <1>2 DEF Issued

LEMMA PollUpdate ==
    ASSUME NEW r \in PollRecords
    PROVE  /\ \A x \in PollPcs : [r EXCEPT !.pc = x] \in PollRecords
           /\ \A x \in Answers : [r EXCEPT !.answer = x] \in PollRecords
           /\ \A x \in Nat : [r EXCEPT !.token = x] \in PollRecords
           /\ \A x \in Devices \cup {NoDevice} : [r EXCEPT !.dev = x] \in PollRecords
           /\ r.of \in Sessions \cup {NoSession}
           /\ r.token \in Nat
           /\ r.dev \in Devices \cup {NoDevice}
    BY DEF PollRecords

LEMMA TVUpdate ==
    ASSUME NEW t \in TVs
    PROVE  /\ \A x \in BOOLEAN : [t EXCEPT !.polling = x] \in TVs
           /\ \A x \in Nat : [t EXCEPT !.again = x] \in TVs
           /\ \A x \in Sessions \cup {NoSession} : [t EXCEPT !.code = x] \in TVs
           /\ \A x \in Seq(Identities) : [t EXCEPT !.welcome = x] \in TVs
           /\ t.again \in Nat
           /\ t.welcome \in Seq(Identities)
           /\ t.code \in Sessions \cup {NoSession}
           /\ t.route \in Sessions \cup {NoSession}
    BY DEF TVs

LEMMA Idle ==
    /\ IdlePoll \in PollRecords
    /\ IdleBind \in BindRecords
    /\ NoIdentity \in Identities
    BY DEF IdlePoll, IdleBind, NoIdentity, PollRecords, BindRecords, Identities, PollPcs,
           Answers, BindPcs

\* A page that starts over keeps its type.
LEMMA StartsOverType ==
    ASSUME NEW t \in TVs
    PROVE  StartsOver(t) \in TVs
<1>1. [t EXCEPT !.polling = FALSE] \in TVs
    BY TVUpdate
<1>2. t.again + 1 \in Nat
    BY TVUpdate
<1> DEFINE u == [t EXCEPT !.polling = FALSE]
<1>3. u.again = t.again
    BY DEF TVs
<1>4. StartsOver(t) = [u EXCEPT !.again = u.again + 1]
    BY DEF StartsOver, TVs
<1>5. [u EXCEPT !.again = t.again + 1] \in TVs
    BY <1>1, <1>2, TVUpdate
<1> QED BY <1>3, <1>4, <1>5

\* Whatever it is told, a page keeps its type.
LEMMA ToldType ==
    ASSUME NEW t \in TVs, NEW p \in PollRecords
    PROVE  Told(t, p) \in TVs
<1> DEFINE id == [screen |-> p.of, token |-> p.token]
           u == [t EXCEPT !.polling = FALSE]
<1>1. id \in Identities
    BY PollUpdate DEF Identities
<1>2. u \in TVs
    BY TVUpdate
<1>3. Append(t.welcome, id) \in Seq(Identities)
    BY <1>1, TVUpdate, AppendProperties
<1>4. [u EXCEPT !.welcome = Append(t.welcome, id)] \in TVs
  <2> HIDE DEF id, u
  <2> QED BY <1>2, <1>3, TVUpdate
<1>5. [t EXCEPT !.polling = FALSE, !.welcome = Append(@, id)]
        = [u EXCEPT !.welcome = Append(t.welcome, id)]
    BY DEF TVs
<1>6. CASE p.answer = "token"
    BY <1>4, <1>5, <1>6 DEF Told
<1>7. CASE p.answer \in {"delivered", "expired"}
    BY <1>7, StartsOverType DEF Told
<1>8. CASE p.answer \notin {"token", "delivered", "expired"}
    BY <1>8 DEF Told
<1> QED BY <1>6, <1>7, <1>8

-----------------------------------------------------------------------------
(* The inductive invariant.  TypeOK is not inductive: a handler that       *)
(* referred to no session would write outside the rows.                    *)

\* A session that exists.
Known(s) == s \in Sessions /\ session[s].status # "absent"

\* What polls, binds and pages refer to exists.
Links ==
    /\ \A d \in Devices : tv[d].polling => Known(tv[d].code)
    /\ \A p \in Polls : poll[p].pc # "idle" => Known(poll[p].of)
    /\ \A b \in Binders : bind[b].pc # "idle" => Known(bind[b].of)

\* One bind at a time claims a session, which stays pending meanwhile.
Claims ==
    /\ \A b \in Binders, s \in Sessions : Holds(b, s) => session[s].status = "pending"
    /\ \A b, c \in Binders, s \in Sessions : Holds(b, s) /\ Holds(c, s) => b = c

\* The screens agree with the status, and tokens are issued for screens only.
RowsAgree ==
    /\ \A s \in Sessions : session[s].status \in {"absent", "pending"} => screen[s].rows = 0
    /\ \A s \in Sessions : session[s].status = "paired" => screen[s].rows > 0
    /\ \A p \in Polls : poll[p].pc \in {"issue", "mark"} => screen[poll[p].of].rows > 0

IInv == TypeOK /\ Links /\ Claims /\ RowsAgree

-----------------------------------------------------------------------------
(* Type correctness.                                                       *)

LEMMA TypeInit == Init => TypeOK
<1> SUFFICES ASSUME Init PROVE TypeOK
    OBVIOUS
<1>1. Mounted \in TVs
  <2>1. NoIdentity \in Identities /\ <<>> \in Seq(Identities)
    BY Idle, EmptySeq
  <2> QED BY <2>1 DEF Mounted, TVs
<1>2. [status |-> "absent", expires |-> 0, delivered |-> FALSE] \in SessionRows
    BY DEF SessionRows, Statuses
<1>3. [rows |-> 0, hash |-> 0, issued |-> 0] \in ScreenRows
    BY DEF ScreenRows
<1>4. session \in [Sessions -> SessionRows] /\ screen \in [Sessions -> ScreenRows]
    BY <1>2, <1>3 DEF Init
<1>5. /\ poll \in [Polls -> PollRecords]
      /\ bind \in [Binders -> BindRecords]
      /\ tv \in [Devices -> TVs]
    BY <1>1, Idle DEF Init
<1>6. now \in Nat /\ budget \in [ops : Nat, losses : Nat]
    BY DEF Init
<1> QED BY <1>4, <1>5, <1>6 DEF TypeOK

\* The budget only grows.
LEMMA BudgetType ==
    ASSUME budget \in [ops : Nat, losses : Nat]
    PROVE  /\ [budget EXCEPT !.ops = @ + 1] \in [ops : Nat, losses : Nat]
           /\ [budget EXCEPT !.losses = @ + 1] \in [ops : Nat, losses : Nat]
    OBVIOUS

\* Saving the status "expired" keeps the type of the rows.
LEMMA MarkExpiredType ==
    ASSUME session \in [Sessions -> SessionRows], NEW s, MarkExpired(s)
    PROVE  session' \in [Sessions -> SessionRows]
<1>1. CASE s \in Sessions
  <2>1. [session[s] EXCEPT !.status = "expired"] \in SessionRows
    BY <1>1, SessionRowUpdate DEF Statuses
  <2>2. session' = [session EXCEPT ![s] = [session[s] EXCEPT !.status = "expired"]]
    BY DEF MarkExpired
  <2> QED BY <2>1, <2>2
<1>2. CASE s \notin Sessions
  <2>1. session' = session
    BY <1>2, Zenon DEF MarkExpired
  <2> QED BY <2>1
<1> QED BY <1>1, <1>2

LEMMA PageType ==
    ASSUME TypeOK, NEW d \in Devices, Page(d)
    PROVE  TypeOK'
<1> USE DEF TypeOK
<1>1. ASSUME NEW s \in Sessions, Generate(d, s)
      PROVE  TypeOK'
  <2>1. [status |-> "pending", expires |-> now + Lifetime, delivered |-> FALSE] \in SessionRows
    BY PairingAssumption DEF SessionRows, Statuses
  <2>2. session' \in [Sessions -> SessionRows]
    BY <1>1, <2>1 DEF Generate
  <2> DEFINE t == tv[d]
             u == [t EXCEPT !.again = t.again - 1]
             v == [u EXCEPT !.code = s]
             x == [v EXCEPT !.polling = TRUE]
  <2>3. t \in TVs /\ t.again > 0
    BY <1>1 DEF Generate
  <2>4. t.again - 1 \in Nat
    BY <2>3, TVUpdate
  <2>5. u \in TVs
    BY <2>3, <2>4, TVUpdate
  <2>6. x \in TVs
    BY <2>5, TVUpdate
  <2>7. tv' = [tv EXCEPT ![d] = x]
    BY <1>1 DEF Generate
  <2> HIDE DEF x
  <2>8. tv' \in [Devices -> TVs]
    BY <2>6, <2>7
  <2> QED BY <1>1, <2>2, <2>8 DEF Generate
<1>2. CASE Countdown(d)
  <2>1. StartsOver(tv[d]) \in TVs
    BY StartsOverType
  <2> QED BY <1>2, <2>1 DEF Countdown
<1>3. CASE Welcome(d)
  <2> DEFINE id == Head(tv[d].welcome)
             x == [mounted |-> FALSE, polling |-> FALSE, again |-> 0, code |-> NoSession,
                   welcome |-> <<>>, held |-> id, route |-> id.screen]
             y == [p \in Polls |-> [poll[p] EXCEPT !.dev = IF @ = d THEN NoDevice ELSE @]]
  <2>1. tv[d] \in TVs /\ tv[d].welcome \in Seq(Identities) /\ tv[d].welcome # <<>>
    BY <1>3, TVUpdate DEF Welcome
  <2>2. id \in Identities /\ Tail(tv[d].welcome) \in Seq(Identities)
    BY <2>1, HeadTailProperties
  <2>3. x \in TVs
    BY <2>2, EmptySeq DEF TVs, Identities
  <2>4. y \in [Polls -> PollRecords]
    BY PollUpdate
  <2>5. [tv[d] EXCEPT !.welcome = Tail(tv[d].welcome)] \in TVs
    BY <2>1, <2>2, TVUpdate
  <2>6. \/ tv' = [tv EXCEPT ![d] = x] /\ poll' = y
        \/ tv' = [tv EXCEPT ![d] = [tv[d] EXCEPT !.welcome = Tail(tv[d].welcome)]] /\ poll' = poll
    BY <1>3 DEF Welcome
  <2> HIDE DEF x, y
  <2>7. tv' \in [Devices -> TVs] /\ poll' \in [Polls -> PollRecords]
    BY <2>3, <2>4, <2>5, <2>6
  <2> QED BY <1>3, <2>7 DEF Welcome
<1>4. CASE Rejected(d)
  <2>1. tv[d].route \in Sessions \cup {NoSession}
    BY TVUpdate
  <2>2. NoIdentity \in Identities /\ <<>> \in Seq(Identities)
    BY Idle, EmptySeq
  <2>3. [Mounted EXCEPT !.route = tv[d].route] \in TVs
    BY <2>1, <2>2 DEF Mounted, TVs
  <2> QED BY <1>4, <2>3 DEF Rejected
<1> QED BY <1>1, <1>2, <1>3, <1>4 DEF Page

LEMMA SendPollType ==
    ASSUME TypeOK, NEW p \in Polls, NEW d \in Devices, SendPoll(d, p)
    PROVE  TypeOK'
<1> USE DEF TypeOK
<1> DEFINE x == [pc |-> "sent", dev |-> d, of |-> tv[d].code, token |-> 0, answer |-> "none"]
<1>1. x \in PollRecords
  <2>1. tv[d].code \in Sessions \cup {NoSession}
    BY TVUpdate
  <2> QED BY <2>1 DEF PollRecords, PollPcs, Answers
<1>2. poll' = [poll EXCEPT ![p] = x]
    BY DEF SendPoll
<1> HIDE DEF x
<1>3. poll' \in [Polls -> PollRecords]
    BY <1>1, <1>2
<1> QED BY <1>3 DEF SendPoll

LEMMA PollType ==
    ASSUME TypeOK, Links, NEW p \in Polls, StatusHandler(p) \/ ReceiveAnswer(p) \/ LosePoll(p)
    PROVE  TypeOK'
<1> USE DEF TypeOK
<1> DEFINE r == poll[p]
           s == r.of
<1>0. r \in PollRecords /\ (r.pc # "idle" => s \in Sessions)
    BY DEF Links, Known
<1>1. CASE ReadSession(p)
  <2> DEFINE u == [r EXCEPT !.pc = Decided(s)]
  <2>1. Decided(s) \in PollPcs /\ Reply(s) \in Answers
    BY DEF Decided, PollPcs, Reply, Answers
  <2>2. u \in PollRecords
    BY <1>0, <2>1, PollUpdate
  <2>3. [u EXCEPT !.answer = Reply(s)] \in PollRecords
    BY <2>1, <2>2, PollUpdate
  <2>4. poll' = [poll EXCEPT ![p] = [u EXCEPT !.answer = Reply(s)]]
    BY <1>1 DEF ReadSession
  <2> QED BY <1>1, <2>3, <2>4 DEF ReadSession
<1>2. CASE PollExpires(p)
  <2>1. [r EXCEPT !.pc = "answer"] \in PollRecords
    BY <1>0, PollUpdate DEF PollPcs
  <2> QED BY <1>2, <2>1, MarkExpiredType DEF PollExpires
<1>3. CASE IssueToken(p)
  <2> DEFINE u == [r EXCEPT !.pc = "mark"]
             n == screen[s].issued + 1
             x == [u EXCEPT !.token = n]
  <2>1. u \in PollRecords
    BY <1>0, PollUpdate DEF PollPcs
  <2>2. s \in Sessions
    BY <1>0, <1>3 DEF IssueToken
  <2>3. Issued(screen[s]) \in ScreenRows /\ n \in Nat
    <3>1. screen[s] \in ScreenRows
      BY <2>2
    <3>2. Issued(screen[s]) \in ScreenRows /\ screen[s].issued \in Nat
      BY <3>1, ScreenRowUpdate
    <3> QED BY <3>2
  <2>4. x \in PollRecords
    <3> HIDE DEF u, n
    <3> QED BY <2>1, <2>3, PollUpdate
  <2>5. poll' = [poll EXCEPT ![p] = x]
    BY <1>3 DEF IssueToken
  <2>6. screen' = [screen EXCEPT ![s] = Issued(screen[s])]
    BY <1>3 DEF IssueToken
  <2> HIDE DEF x
  <2>7. poll' \in [Polls -> PollRecords]
    BY <2>4, <2>5
  <2>8. screen' \in [Sessions -> ScreenRows]
    BY <2>3, <2>6
  <2> QED BY <1>3, <2>7, <2>8 DEF IssueToken
<1>4. CASE MarkDelivered(p)
  <2>1. [r EXCEPT !.pc = "answer"] \in PollRecords
    BY <1>0, PollUpdate DEF PollPcs
  <2>2. s \in Sessions
    BY <1>0, <1>4 DEF MarkDelivered
  <2>3. [session[s] EXCEPT !.delivered = TRUE] \in SessionRows
    BY <2>2, SessionRowUpdate
  <2>4. session' = [session EXCEPT ![s] = [session[s] EXCEPT !.delivered = TRUE]]
    BY <1>4 DEF MarkDelivered
  <2> QED BY <1>4, <2>1, <2>3, <2>4 DEF MarkDelivered
<1>5. CASE ReceiveAnswer(p)
  <2>1. \A d \in Devices : Told(tv[d], poll[p]) \in TVs
    BY ToldType
  <2>2. tv' \in [Devices -> TVs]
    BY <1>5, <2>1 DEF ReceiveAnswer
  <2>3. poll' \in [Polls -> PollRecords]
    BY <1>5, Idle DEF ReceiveAnswer
  <2> QED BY <1>5, <2>2, <2>3 DEF ReceiveAnswer
<1>6. CASE LosePoll(p)
    BY <1>6, Idle, BudgetType DEF LosePoll
<1> QED BY <1>1, <1>2, <1>3, <1>4, <1>5, <1>6 DEF StatusHandler

LEMMA BindType ==
    ASSUME TypeOK, Links, NEW b \in Binders,
           BindHandler(b) \/ BindFails(b) \/ \E s \in Sessions : BindLookup(b, s)
    PROVE  TypeOK'
<1> USE DEF TypeOK
<1> DEFINE s == bind[b].of
<1>0. bind[b] \in BindRecords /\ (bind[b].pc # "idle" => s \in Sessions)
    BY DEF Links, Known
<1>1. ASSUME NEW q \in Sessions, BindLookup(b, q)
      PROVE  TypeOK'
  <2> DEFINE x == [pc |-> IF Expired(q) THEN "expire" ELSE "lock", of |-> q]
  <2>1. x \in BindRecords
    BY DEF BindRecords, BindPcs
  <2>2. bind' = [bind EXCEPT ![b] = x]
    BY <1>1 DEF BindLookup
  <2> HIDE DEF x
  <2>3. bind' \in [Binders -> BindRecords]
    BY <2>1, <2>2
  <2> QED BY <1>1, <2>3 DEF BindLookup
<1>2. CASE BindExpires(b)
    BY <1>2, Idle, MarkExpiredType DEF BindExpires
<1>3. CASE BindLock(b)
  <2>1. [bind[b] EXCEPT !.pc = "create"] \in BindRecords
    BY <1>0 DEF BindRecords, BindPcs
  <2> QED BY <1>3, <2>1, Idle DEF BindLock
<1>4. CASE BindCommit(b)
  <2>1. s \in Sessions
    BY <1>0, <1>4 DEF BindCommit
  <2>2. Bound(session[s]) \in SessionRows
    BY <2>1, SessionRowUpdate DEF Bound, Statuses
  <2>3. [screen[s] EXCEPT !.rows = screen[s].rows + 1] \in ScreenRows
    BY <2>1, ScreenRowUpdate
  <2>4. screen' = [screen EXCEPT ![s] = [screen[s] EXCEPT !.rows = screen[s].rows + 1]]
    BY <1>4 DEF BindCommit
  <2> QED BY <1>4, <2>2, <2>3, <2>4, Idle DEF BindCommit
<1>5. CASE BindFails(b)
    BY <1>5, Idle, BudgetType DEF BindFails
<1> QED BY <1>1, <1>2, <1>3, <1>4, <1>5 DEF BindHandler

LEMMA ServerType ==
    ASSUME TypeOK, CleanUp \/ Tick \/ \E s \in Sessions : RegenerateToken(s) \/ RevokeToken(s)
    PROVE  TypeOK'
<1> USE DEF TypeOK
<1>1. CASE CleanUp
  <2>1. \A s \in Sessions : [session[s] EXCEPT !.status = "expired"] \in SessionRows
    BY SessionRowUpdate DEF Statuses
  <2> QED BY <1>1, <2>1 DEF CleanUp
<1>2. CASE Tick
    BY <1>2 DEF Tick
<1>3. ASSUME NEW s \in Sessions, RegenerateToken(s)
      PROVE  TypeOK'
  <2>1. Issued(screen[s]) \in ScreenRows
    BY ScreenRowUpdate
  <2> QED BY <1>3, <2>1, BudgetType DEF RegenerateToken, TokenOp
<1>4. ASSUME NEW s \in Sessions, RevokeToken(s)
      PROVE  TypeOK'
  <2>1. [screen[s] EXCEPT !.hash = 0] \in ScreenRows
    BY ScreenRowUpdate
  <2>2. screen' = [screen EXCEPT ![s] = [screen[s] EXCEPT !.hash = 0]]
    BY <1>4 DEF RevokeToken
  <2> QED BY <1>4, <2>1, <2>2, BudgetType DEF RevokeToken, TokenOp
<1> QED BY <1>1, <1>2, <1>3, <1>4

LEMMA TypeStep ==
    ASSUME TypeOK, Links, Next
    PROVE  TypeOK'
<1>1. CASE \E d \in Devices : Page(d) \/ \E p \in Polls : SendPoll(d, p)
    BY <1>1, PageType, SendPollType
<1>2. CASE \E p \in Polls : StatusHandler(p) \/ ReceiveAnswer(p) \/ LosePoll(p)
    BY <1>2, PollType
<1>3. CASE \E b \in Binders :
               BindHandler(b) \/ BindFails(b) \/ \E s \in Sessions : BindLookup(b, s)
    BY <1>3, BindType
<1>4. CASE CleanUp \/ Tick \/ \E s \in Sessions : RegenerateToken(s) \/ RevokeToken(s)
    BY <1>4, ServerType
<1> QED BY <1>1, <1>2, <1>3, <1>4 DEF Next

-----------------------------------------------------------------------------
(* What a step does to the status of a session and to its screens.         *)

\* The moves of one session in a step.
Stays(s) == session'[s].status = session[s].status /\ screen'[s].rows = screen[s].rows
Offered(s) == /\ session[s].status = "absent" /\ session'[s].status = "pending"
              /\ screen'[s].rows = screen[s].rows
Lapses(s) == /\ Free(s) /\ session[s].status # "absent" /\ session'[s].status = "expired"
             /\ screen'[s].rows = screen[s].rows
Binds(s) == /\ \E b \in Binders : Holds(b, s) /\ BindCommit(b)
            /\ session'[s].status = "paired" /\ screen'[s].rows = screen[s].rows + 1

LEMMA ExpiredMoves ==
    ASSUME TypeOK, NEW q, Known(q), MarkExpired(q), UNCHANGED screen, NEW s \in Sessions
    PROVE  Stays(s) \/ Lapses(s)
<1>1. CASE s = q
    BY <1>1 DEF TypeOK, SessionRows, MarkExpired, Known, Lapses
<1>2. CASE s # q
    BY <1>2 DEF TypeOK, MarkExpired, Stays
<1> QED BY <1>1, <1>2

\* Tokens do not touch the number of screens.
LEMMA IssuedRows ==
    ASSUME TypeOK, NEW q, NEW s \in Sessions, screen' = [screen EXCEPT ![q] = Issued(@)]
    PROVE  screen'[s].rows = screen[s].rows
    BY DEF TypeOK, ScreenRows, Issued

LEMMA Moves ==
    ASSUME TypeOK, Links, [Next]_vars, NEW s \in Sessions
    PROVE  Stays(s) \/ Offered(s) \/ Lapses(s) \/ Binds(s)
<1>1. CASE UNCHANGED <<session, screen>>
    BY <1>1 DEF Stays
<1>2. ASSUME NEW d \in Devices, NEW q \in Sessions, Generate(d, q)
      PROVE  Stays(s) \/ Offered(s)
    BY <1>2 DEF Generate, TypeOK, Stays, Offered
<1>3. ASSUME NEW p \in Polls, PollExpires(p)
      PROVE  Stays(s) \/ Lapses(s)
    BY <1>3, ExpiredMoves DEF PollExpires, Links
<1>4. ASSUME NEW p \in Polls, IssueToken(p)
      PROVE  Stays(s)
    BY <1>4, IssuedRows DEF IssueToken, Stays
<1>5. ASSUME NEW p \in Polls, MarkDelivered(p)
      PROVE  Stays(s)
    BY <1>5 DEF MarkDelivered, Stays, TypeOK, SessionRows
<1>6. ASSUME NEW b \in Binders, BindExpires(b)
      PROVE  Stays(s) \/ Lapses(s)
    BY <1>6, ExpiredMoves DEF BindExpires, Links
<1>7. ASSUME NEW b \in Binders, BindCommit(b)
      PROVE  Stays(s) \/ Binds(s)
  <2>1. CASE s = bind[b].of
    BY <1>7, <2>1 DEF BindCommit, Binds, Bound, Holds, TypeOK, SessionRows, ScreenRows
  <2>2. CASE s # bind[b].of
    BY <1>7, <2>2 DEF BindCommit, Stays, TypeOK
  <2> QED BY <2>1, <2>2
<1>8. CASE CleanUp
    BY <1>8 DEF CleanUp, Stays, Lapses, TypeOK, SessionRows
<1>9. ASSUME NEW q \in Sessions, RegenerateToken(q)
      PROVE  Stays(s)
    BY <1>9, IssuedRows DEF RegenerateToken, TokenOp, Stays
<1>10. ASSUME NEW q \in Sessions, RevokeToken(q)
       PROVE  Stays(s)
    BY <1>10 DEF RevokeToken, TokenOp, Stays, TypeOK, ScreenRows
<1>11. ASSUME NEW d \in Devices, Countdown(d) \/ Welcome(d) \/ Rejected(d)
                                \/ \E p \in Polls : SendPoll(d, p)
       PROVE  UNCHANGED <<session, screen>>
    BY <1>11 DEF Countdown, Welcome, Rejected, SendPoll
<1>12. ASSUME NEW p \in Polls, ReadSession(p) \/ ReceiveAnswer(p) \/ LosePoll(p)
       PROVE  UNCHANGED <<session, screen>>
    BY <1>12 DEF ReadSession, ReceiveAnswer, LosePoll
<1>13. ASSUME NEW b \in Binders, BindLock(b) \/ BindFails(b)
                                \/ \E q \in Sessions : BindLookup(b, q)
       PROVE  UNCHANGED <<session, screen>>
    BY <1>13 DEF BindLock, BindFails, BindLookup
<1>14. CASE Tick
    BY <1>1, <1>14 DEF Tick
<1>15. CASE UNCHANGED vars
    BY <1>1, <1>15 DEF vars
<1> QED BY <1>1, <1>2, <1>3, <1>4, <1>5, <1>6, <1>7, <1>8, <1>9, <1>10, <1>11, <1>12, <1>13,
           <1>14, <1>15 DEF Next, Page, StatusHandler, BindHandler

\* A session that exists goes on existing, a screen is not undone.
LEMMA KnownStays ==
    ASSUME TypeOK, Links, [Next]_vars, NEW s
    PROVE  /\ Known(s) => Known(s)'
           /\ s \in Sessions /\ screen[s].rows > 0 => screen'[s].rows > 0
<1> SUFFICES ASSUME s \in Sessions
             PROVE  /\ Known(s) => Known(s)'
                    /\ screen[s].rows > 0 => screen'[s].rows > 0
    BY DEF Known
<1>1. screen[s].rows \in Nat
    BY ScreenRowUpdate DEF TypeOK
<1> QED BY <1>1, Moves DEF Stays, Offered, Lapses, Binds, Known

-----------------------------------------------------------------------------
(* What a step does to a page, a poll and a bind.                          *)

LEMMA ToldPolls ==
    ASSUME NEW t \in TVs, NEW p
    PROVE  Told(t, p).polling => t.polling /\ Told(t, p).code = t.code
    BY DEF Told, StartsOver, TVs

LEMMA PageMoves ==
    ASSUME TypeOK, [Next]_vars, NEW d \in Devices
    PROVE  \/ tv'[d].polling => tv[d].polling /\ tv'[d].code = tv[d].code
           \/ \E s \in Sessions : /\ session'[s].status = "pending"
                                   /\ tv'[d].code = s
<1> DEFINE Same == tv'[d].polling => tv[d].polling /\ tv'[d].code = tv[d].code
<1>1. CASE UNCHANGED tv
    BY <1>1
<1>2. ASSUME NEW e \in Devices, NEW s \in Sessions, Generate(e, s)
      PROVE  \/ tv'[d] = tv[d]
             \/ session'[s].status = "pending" /\ tv'[d].code = s
    BY <1>2 DEF Generate, TypeOK, TVs
<1>3. ASSUME NEW e \in Devices, Countdown(e)
      PROVE  Same
    BY <1>3 DEF Countdown, StartsOver, TypeOK, TVs
<1>4. ASSUME NEW e \in Devices, Welcome(e)
      PROVE  Same
  <2> DEFINE id == Head(tv[e].welcome)
             x == [mounted |-> FALSE, polling |-> FALSE, again |-> 0, code |-> NoSession,
                   welcome |-> <<>>, held |-> id, route |-> id.screen]
             y == [tv[e] EXCEPT !.welcome = Tail(@)]
  <2>1. ~x.polling /\ y.polling = tv[e].polling /\ y.code = tv[e].code
    BY DEF TypeOK, TVs
  <2>2. tv' = [tv EXCEPT ![e] = x] \/ tv' = [tv EXCEPT ![e] = y]
    BY <1>4 DEF Welcome
  <2> HIDE DEF x, y
  <2> QED BY <2>1, <2>2 DEF TypeOK
<1>5. ASSUME NEW e \in Devices, Rejected(e)
      PROVE  Same
    BY <1>5 DEF Rejected, Mounted, TypeOK
<1>6. ASSUME NEW p \in Polls, ReceiveAnswer(p)
      PROVE  Same
  <2>1. tv[d] \in TVs
    BY DEF TypeOK
  <2>2. tv'[d] = tv[d] \/ tv'[d] = Told(tv[d], poll[p])
    BY <1>6 DEF ReceiveAnswer
  <2> QED BY <2>1, <2>2, ToldPolls
<1>7. CASE \/ \E e \in Devices, p \in Polls : SendPoll(e, p)
           \/ \E p \in Polls : StatusHandler(p) \/ LosePoll(p)
           \/ \E b \in Binders : BindHandler(b) \/ BindFails(b)
                                 \/ \E s \in Sessions : BindLookup(b, s)
           \/ \E s \in Sessions : RegenerateToken(s) \/ RevokeToken(s)
           \/ CleanUp \/ Tick \/ UNCHANGED vars
  <2>1. UNCHANGED tv
    BY <1>7 DEF SendPoll, StatusHandler, ReadSession, PollExpires, IssueToken, MarkDelivered,
         LosePoll, BindHandler, BindExpires, BindLock, BindCommit, BindFails, BindLookup,
         RegenerateToken, RevokeToken, TokenOp, CleanUp, Tick, vars
  <2> QED BY <1>1, <2>1
<1> QED BY <1>2, <1>3, <1>4, <1>5, <1>6, <1>7 DEF Next, Page

LEMMA PollMoves ==
    ASSUME TypeOK, [Next]_vars, NEW p \in Polls, poll'[p].pc # "idle"
    PROVE  \/ /\ poll[p].pc # "idle" /\ poll'[p].of = poll[p].of
              /\ poll'[p].pc \in {"issue", "mark"} =>
                     poll[p].pc \in {"issue", "mark"} \/ session[poll[p].of].status = "paired"
           \/ \E d \in Devices : tv[d].polling /\ poll'[p].of = tv[d].code
                                 /\ poll'[p].pc = "sent"
<1>1. CASE UNCHANGED poll
    BY <1>1
<1>2. ASSUME NEW d \in Devices, NEW q \in Polls, SendPoll(d, q)
      PROVE  poll'[p] = poll[p] \/ (tv[d].polling /\ poll'[p].of = tv[d].code
                                   /\ poll'[p].pc = "sent")
    BY <1>2 DEF SendPoll, TypeOK
<1>3. ASSUME NEW d \in Devices, Welcome(d)
      PROVE  poll'[p].pc = poll[p].pc /\ poll'[p].of = poll[p].of
    BY <1>3 DEF Welcome, TypeOK, PollRecords
<1>4. ASSUME NEW q \in Polls, ReadSession(q)
      PROVE  \/ poll'[p] = poll[p]
             \/ /\ poll[p].pc # "idle" /\ poll'[p].of = poll[p].of
                /\ poll'[p].pc \in {"issue", "mark"} => session[poll[p].of].status = "paired"
    BY <1>4 DEF ReadSession, Decided, TypeOK, PollRecords
<1>5. ASSUME NEW q \in Polls, PollExpires(q) \/ IssueToken(q) \/ MarkDelivered(q)
      PROVE  \/ poll'[p] = poll[p]
             \/ /\ poll[p].pc # "idle" /\ poll'[p].of = poll[p].of
                /\ poll'[p].pc \in {"issue", "mark"} => poll[p].pc \in {"issue", "mark"}
    BY <1>5 DEF PollExpires, IssueToken, MarkDelivered, TypeOK, PollRecords
<1>6. ASSUME NEW q \in Polls, ReceiveAnswer(q) \/ LosePoll(q)
      PROVE  poll'[p] = poll[p] \/ poll'[p].pc = "idle"
    BY <1>6 DEF ReceiveAnswer, LosePoll, IdlePoll, TypeOK
<1>7. CASE \/ \E d \in Devices : Countdown(d) \/ Rejected(d) \/ \E s \in Sessions : Generate(d, s)
           \/ \E b \in Binders : BindHandler(b) \/ BindFails(b)
                                 \/ \E s \in Sessions : BindLookup(b, s)
           \/ \E s \in Sessions : RegenerateToken(s) \/ RevokeToken(s)
           \/ CleanUp \/ Tick \/ UNCHANGED vars
  <2>1. UNCHANGED poll
    BY <1>7 DEF Countdown, Rejected, Generate, BindHandler, BindExpires, BindLock, BindCommit,
         BindFails, BindLookup, RegenerateToken, RevokeToken, TokenOp, CleanUp, Tick, vars
  <2> QED BY <1>1, <2>1
<1> QED BY <1>2, <1>3, <1>4, <1>5, <1>6, <1>7 DEF Next, Page, StatusHandler

LEMMA BindMoves ==
    ASSUME TypeOK, [Next]_vars, NEW b \in Binders, bind'[b].pc # "idle"
    PROVE  \/ bind'[b] = bind[b]
           \/ \E s \in Sessions : /\ bind'[b].of = s /\ session'[s].status = "pending"
                                   /\ bind'[b].pc # "create"
           \/ /\ bind[b].pc = "lock" /\ bind'[b].of = bind[b].of
              /\ Free(bind[b].of) /\ Claimable(bind[b].of)
              /\ UNCHANGED <<session, screen>>
              /\ \A c \in Binders : c # b => bind'[c] = bind[c]
<1>1. CASE UNCHANGED bind
    BY <1>1
<1>2. ASSUME NEW c \in Binders, NEW s \in Sessions, BindLookup(c, s)
      PROVE  \/ bind'[b] = bind[b]
             \/ bind'[b].of = s /\ session'[s].status = "pending" /\ bind'[b].pc # "create"
    BY <1>2 DEF BindLookup, TypeOK
<1>3. ASSUME NEW c \in Binders, BindExpires(c) \/ BindCommit(c) \/ BindFails(c)
      PROVE  bind'[b] = bind[b]
    BY <1>3 DEF BindExpires, BindCommit, BindFails, IdleBind, TypeOK
<1>4. ASSUME NEW c \in Binders, BindLock(c)
      PROVE  \/ bind'[b] = bind[b]
             \/ /\ bind[b].pc = "lock" /\ bind'[b].of = bind[b].of
                /\ Free(bind[b].of) /\ Claimable(bind[b].of)
                /\ UNCHANGED <<session, screen>>
                /\ \A e \in Binders : e # b => bind'[e] = bind[e]
    BY <1>4 DEF BindLock, IdleBind, TypeOK, BindRecords
<1>5. CASE \/ \E d \in Devices : Page(d) \/ \E p \in Polls : SendPoll(d, p)
           \/ \E p \in Polls : StatusHandler(p) \/ ReceiveAnswer(p) \/ LosePoll(p)
           \/ \E s \in Sessions : RegenerateToken(s) \/ RevokeToken(s)
           \/ CleanUp \/ Tick \/ UNCHANGED vars
  <2>1. UNCHANGED bind
    BY <1>5 DEF Page, Generate, Countdown, Welcome, Rejected, SendPoll, StatusHandler, ReadSession,
         PollExpires, IssueToken, MarkDelivered, ReceiveAnswer, LosePoll,
         RegenerateToken, RevokeToken, TokenOp, CleanUp, Tick, vars
  <2> QED BY <1>1, <2>1
<1> QED BY <1>2, <1>3, <1>4, <1>5 DEF Next, BindHandler

-----------------------------------------------------------------------------
(* The invariant is inductive.                                             *)

LEMMA LinksStep ==
    ASSUME TypeOK, Links, [Next]_vars
    PROVE  Links'
<1>0. ASSUME NEW s \in Sessions, session'[s].status = "pending"
      PROVE  Known(s)'
    BY <1>0 DEF Known
<1>1. ASSUME NEW d \in Devices, tv'[d].polling
      PROVE  tv'[d].code \in Sessions /\ session'[tv'[d].code].status # "absent"
    BY <1>0, <1>1, PageMoves, KnownStays DEF Links, Known
<1>2. ASSUME NEW p \in Polls, poll'[p].pc # "idle"
      PROVE  poll'[p].of \in Sessions /\ session'[poll'[p].of].status # "absent"
    BY <1>2, PollMoves, KnownStays DEF Links, Known
<1>3. ASSUME NEW b \in Binders, bind'[b].pc # "idle"
      PROVE  bind'[b].of \in Sessions /\ session'[bind'[b].of].status # "absent"
    BY <1>0, <1>3, BindMoves, KnownStays DEF Links, Known
<1> QED BY <1>1, <1>2, <1>3 DEF Links, Known

\* While a bind claims a session, nothing moves the session but its commit, and
\* that ends the claim.
LEMMA ClaimedStays ==
    ASSUME TypeOK, Links, Claims, [Next]_vars, NEW b \in Binders, NEW s \in Sessions,
           Holds(b, s), Holds(b, s)'
    PROVE  session'[s].status = "pending"
<1>1. session[s].status = "pending" /\ ~Free(s)
    BY DEF Claims, Free
<1>2. CASE Binds(s)
  <2>2. \A c \in Binders : BindCommit(c) => session'[s].status = "pending"
    <3> SUFFICES ASSUME NEW c \in Binders, BindCommit(c)
                 PROVE  session'[s].status = "pending"
      OBVIOUS
    <3>1. CASE bind[c].of = s
      <4>1. c = b
        BY <3>1 DEF BindCommit, Claims, Holds
      <4>2. bind'[b].pc = "idle"
        BY <4>1 DEF BindCommit, IdleBind, TypeOK
      <4> QED BY <4>2 DEF Holds
    <3>2. CASE bind[c].of # s
      BY <1>1, <3>2 DEF BindCommit, TypeOK
    <3> QED BY <3>1, <3>2
  <2> QED BY <1>1, <1>2, <2>2 DEF Binds
<1> QED BY <1>1, <1>2, Moves DEF Stays, Offered, Lapses

LEMMA ClaimsStep ==
    ASSUME TypeOK, Links, Claims, [Next]_vars
    PROVE  Claims'
<1>1. ASSUME NEW b \in Binders, NEW s \in Sessions, Holds(b, s)', ~Holds(b, s)
      PROVE  /\ Free(s) /\ Claimable(s)
             /\ UNCHANGED <<session, screen>>
             /\ \A c \in Binders : c # b => bind'[c] = bind[c]
    BY <1>1, BindMoves DEF Holds
<1>2. ASSUME NEW b \in Binders, NEW s \in Sessions, Holds(b, s)'
      PROVE  session'[s].status = "pending"
  <2>1. CASE Holds(b, s)
    BY <1>2, <2>1, ClaimedStays
  <2>2. CASE ~Holds(b, s)
    BY <1>1, <1>2, <2>2 DEF Claimable, IsValid
  <2> QED BY <2>1, <2>2
<1>3. ASSUME NEW b \in Binders, NEW c \in Binders, NEW s \in Sessions,
             Holds(b, s)', Holds(c, s)'
      PROVE  b = c
  <2>1. CASE Holds(b, s) /\ Holds(c, s)
    BY <2>1 DEF Claims
  <2>2. CASE ~Holds(b, s)
    BY <1>1, <1>3, <2>2 DEF Free, Holds
  <2>3. CASE ~Holds(c, s)
    BY <1>1, <1>3, <2>3 DEF Free, Holds
  <2> QED BY <2>1, <2>2, <2>3
<1> QED BY <1>2, <1>3 DEF Claims, Holds

LEMMA RowsAgreeStep ==
    ASSUME TypeOK, Links, Claims, RowsAgree, [Next]_vars
    PROVE  RowsAgree'
<1>0. \A s \in Sessions : screen[s].rows \in Nat
    BY ScreenRowUpdate DEF TypeOK
<1>1. ASSUME NEW s \in Sessions
      PROVE  /\ session'[s].status \in {"absent", "pending"} => screen'[s].rows = 0
             /\ session'[s].status = "paired" => screen'[s].rows > 0
    BY <1>0, Moves DEF RowsAgree, Stays, Offered, Lapses, Binds
<1>2. ASSUME NEW p \in Polls, poll'[p].pc \in {"issue", "mark"}
      PROVE  screen'[poll'[p].of].rows > 0
  <2>1. /\ poll[p].pc # "idle" /\ poll'[p].of = poll[p].of
        /\ poll[p].pc \in {"issue", "mark"} \/ session[poll[p].of].status = "paired"
    BY <1>2, PollMoves
  <2>2. poll[p].of \in Sessions /\ screen[poll[p].of].rows > 0
    BY <2>1 DEF RowsAgree, Links, Known
  <2> QED BY <2>1, <2>2, KnownStays
<1> QED BY <1>1, <1>2 DEF RowsAgree

LEMMA InvInit == Init => IInv
<1>1. Init => Links /\ Claims /\ RowsAgree
    BY DEF Init, Links, Claims, RowsAgree, Holds, IdlePoll, IdleBind, Mounted
<1> QED BY <1>1, TypeInit DEF IInv

LEMMA InvStep == IInv /\ [Next]_vars => IInv'
<1> SUFFICES ASSUME IInv, [Next]_vars
             PROVE  IInv'
    OBVIOUS
<1>1. TypeOK'
  <2>1. CASE UNCHANGED vars
    BY <2>1 DEF IInv, TypeOK, vars
  <2> QED BY <2>1, TypeStep DEF IInv
<1> QED BY <1>1, LinksStep, ClaimsStep, RowsAgreeStep DEF IInv

THEOREM Invariance == Spec => []IInv
    BY InvInit, InvStep, PTL DEF Spec

(* Every variable keeps its type (TypeOK), for any number of sessions,     *)
(* devices, polls and binds.                                               *)
THEOREM TypeCorrect == Spec => []TypeOK
<1>1. IInv => TypeOK
    BY DEF IInv
<1> QED BY <1>1, Invariance, PTL

(* A code whose time is over and that no transaction holds is never        *)
(* claimed again (NoLateClaim).                                            *)
THEOREM ClaimedInTime == Spec => NoLateClaim
<1>1. ASSUME IInv, [Next]_vars, NEW s \in Sessions, Expired(s), Free(s), NEW b \in Binders
      PROVE  ~Holds(b, s)'
  <2>1. SUFFICES ASSUME Holds(b, s)'
                 PROVE  FALSE
    OBVIOUS
  <2>2. ~Holds(b, s)
    BY <1>1 DEF Free
  <2>3. Claimable(s)
    BY <1>1, <2>1, <2>2, BindMoves DEF Holds, IInv
  <2> QED BY <1>1, <2>3 DEF Claimable, IsValid
<1>2. IInv /\ [Next]_vars
        => [\A s \in Sessions : Expired(s) /\ Free(s) => \A b \in Binders : ~Holds(b, s)']_vars
    BY <1>1
<1> QED BY <1>2, Invariance, PTL DEF Spec, NoLateClaim

-----------------------------------------------------------------------------
(* The plan is kept while one bind at a time is in its transaction: the    *)
(* code serializes the binds of one session, not those of one tenant.      *)

OneClaimAtATime ==
    \A b, c \in Binders : bind[b].pc = "create" /\ bind[c].pc = "create" => b = c

\* A bind that was let through has left room for its screen.
PlanInv ==
    /\ IsFiniteSet(TenantScreens)
    /\ ScreenCount <= DeviceLimit
    /\ \A b \in Binders : bind[b].pc = "create" => ScreenCount < DeviceLimit

\* A commit adds one screen.
LEMMA CommitCounts ==
    ASSUME TypeOK, IsFiniteSet(TenantScreens), NEW b \in Binders, BindCommit(b),
           bind[b].of \in Sessions
    PROVE  IsFiniteSet(TenantScreens') /\ ScreenCount' = ScreenCount + 1
<1> DEFINE s == bind[b].of
           n == screen[s].rows
<1>1. n \in Nat
    BY ScreenRowUpdate DEF TypeOK
<1>2. /\ screen'[s].rows = n + 1
      /\ \A q \in Sessions \ {s} : screen'[q].rows = screen[q].rows
    BY DEF BindCommit, TypeOK, ScreenRows
<1>3. 1 .. (n + 1) = (1 .. n) \cup {n + 1}
    BY <1>1
<1>4. TenantScreens' = TenantScreens \cup {<<s, n + 1>>}
  <2> HIDE DEF n, s
  <2>1. ASSUME NEW x
        PROVE  x \in TenantScreens' <=> x \in TenantScreens \cup {<<s, n + 1>>}
    <3>1. x \in TenantScreens' <=> \E q \in Sessions : x \in {q} \X (1 .. screen'[q].rows)
      BY DEF TenantScreens
    <3>2. x \in TenantScreens <=> \E q \in Sessions : x \in {q} \X (1 .. screen[q].rows)
      BY DEF TenantScreens
    <3>3. \A q \in Sessions \ {s} : {q} \X (1 .. screen'[q].rows) = {q} \X (1 .. screen[q].rows)
      BY <1>2
    <3>4. s \in Sessions /\ screen[s].rows = n
      BY DEF s, n
    <3>5. x \in {s} \X (1 .. (n + 1)) <=> x \in {s} \X (1 .. n) \/ x = <<s, n + 1>>
      BY <1>3
    <3> QED BY <1>2, <3>1, <3>2, <3>3, <3>4, <3>5
  <2> QED BY <2>1
<1>5. <<s, n + 1>> \notin TenantScreens
  <2>1. n + 1 \notin 1 .. n
    BY <1>1
  <2> QED BY <2>1 DEF TenantScreens
<1> QED BY <1>4, <1>5, FS_AddElement DEF ScreenCount

LEMMA PlanStep ==
    ASSUME IInv, PlanInv, OneClaimAtATime, [Next]_vars
    PROVE  PlanInv'
<1>0. ScreenCount \in Nat /\ DeviceLimit \in Nat
    BY FS_CardinalityType, PairingAssumption DEF PlanInv, ScreenCount
<1>1. CASE \E b \in Binders : BindCommit(b)
  <2> PICK b \in Binders : BindCommit(b)
    BY <1>1
  <2>1. bind[b].pc = "create" /\ bind[b].of \in Sessions
    BY DEF BindCommit, IInv, Links, Known
  <2>2. IsFiniteSet(TenantScreens') /\ ScreenCount' = ScreenCount + 1
    BY <2>1, CommitCounts DEF IInv, PlanInv
  <2>3. \A c \in Binders : bind'[c].pc # "create"
    BY <2>1 DEF BindCommit, OneClaimAtATime, IInv, TypeOK, IdleBind
  <2> QED BY <1>0, <2>1, <2>2, <2>3 DEF PlanInv
<1>2. CASE ~ \E b \in Binders : BindCommit(b)
  <2>1. \A s \in Sessions : screen'[s].rows = screen[s].rows
    BY <1>2, Moves DEF IInv, Stays, Offered, Lapses, Binds
  <2>2. TenantScreens' = TenantScreens /\ ScreenCount' = ScreenCount
    BY <2>1 DEF TenantScreens, ScreenCount
  <2>3. ASSUME NEW b \in Binders, bind'[b].pc = "create"
        PROVE  ScreenCount < DeviceLimit
    <3>1. bind[b].pc = "create" \/ Claimable(bind[b].of)
      BY <2>3, BindMoves DEF IInv
    <3> QED BY <3>1 DEF Claimable, PlanInv
  <2> QED BY <2>2, <2>3 DEF PlanInv
<1> QED BY <1>1, <1>2

LEMMA PlanInit == Init => PlanInv
<1> SUFFICES ASSUME Init PROVE PlanInv
    OBVIOUS
<1>1. TenantScreens = {}
  <2>1. 1 .. 0 = {}
    OBVIOUS
  <2> QED BY <2>1 DEF Init, TenantScreens
<1>2. IsFiniteSet({}) /\ Cardinality({}) = 0
    BY FS_EmptySet
<1> QED BY <1>1, <1>2, PairingAssumption DEF Init, PlanInv, ScreenCount, IdleBind

(* The tenant never has more screens than its plan allows (WithinPlan), as *)
(* long as no two binds are in their transactions at the same time, for    *)
(* any number of sessions, users and devices and whatever dies or is lost. *)
THEOREM PlanIsKept == Spec /\ []OneClaimAtATime => []WithinPlan
<1>1. PlanInv => WithinPlan
    BY DEF PlanInv, WithinPlan
<1>2. IInv /\ PlanInv /\ OneClaimAtATime /\ [Next]_vars => PlanInv'
    BY PlanStep
<1> QED BY <1>1, <1>2, PlanInit, Invariance, PTL DEF Spec

\* The binds that may still add a screen, whatever the plan says by then.
Creating == {b \in Binders : bind[b].pc = "create"}
OvershootInv ==
    /\ IsFiniteSet(TenantScreens)
    /\ ScreenCount + Cardinality(Creating) < DeviceLimit + Cardinality(Binders)

LEMMA OvershootStep ==
    ASSUME IInv, OvershootInv, IsFiniteSet(Binders), [Next]_vars
    PROVE  OvershootInv'
<1>1. /\ ScreenCount \in Nat /\ DeviceLimit \in Nat
      /\ IsFiniteSet(Creating) /\ IsFiniteSet(Creating')
      /\ Cardinality(Creating) \in Nat /\ Cardinality(Creating') \in Nat
      /\ Cardinality(Binders) \in Nat /\ Cardinality(Creating') <= Cardinality(Binders)
  <2>1. Creating \subseteq Binders /\ Creating' \subseteq Binders
    BY DEF Creating
  <2> QED BY <2>1, FS_Subset, FS_CardinalityType, PairingAssumption DEF OvershootInv, ScreenCount
<1>2. CASE \E b \in Binders : BindCommit(b)
  <2> PICK b \in Binders : BindCommit(b)
    BY <1>2
  <2>1. bind[b].pc = "create" /\ bind[b].of \in Sessions
    BY DEF BindCommit, IInv, Links, Known
  <2>2. IsFiniteSet(TenantScreens') /\ ScreenCount' = ScreenCount + 1
    BY <2>1, CommitCounts DEF IInv, OvershootInv
  <2>3. b \in Creating /\ Creating' = Creating \ {b}
    BY <2>1 DEF Creating, BindCommit, IInv, TypeOK, IdleBind
  <2>4. Cardinality(Creating') = Cardinality(Creating) - 1
    BY <1>1, <2>3, FS_RemoveElement
  <2> QED BY <1>1, <2>2, <2>4 DEF OvershootInv
<1>3. CASE ~ \E b \in Binders : BindCommit(b)
  <2>1. \A s \in Sessions : screen'[s].rows = screen[s].rows
    BY <1>3, Moves DEF IInv, Stays, Offered, Lapses, Binds
  <2>2. TenantScreens' = TenantScreens /\ ScreenCount' = ScreenCount
    BY <2>1 DEF TenantScreens, ScreenCount
  <2>3. CASE Creating' \subseteq Creating
    <3>1. Cardinality(Creating') <= Cardinality(Creating)
      BY <1>1, <2>3, FS_Subset
    <3> QED BY <1>1, <2>2, <3>1 DEF OvershootInv
  <2>4. CASE ~ (Creating' \subseteq Creating)
    <3>1. PICK b \in Binders : bind'[b].pc = "create" /\ bind[b].pc # "create"
      BY <2>4 DEF Creating
    <3>2. ScreenCount < DeviceLimit
      BY <3>1, BindMoves DEF IInv, Claimable
    <3> QED BY <1>1, <2>2, <3>2 DEF OvershootInv
  <2> QED BY <2>3, <2>4
<1> QED BY <1>2, <1>3

(* Without that restriction the plan is exceeded by less than the number of *)
(* binds that the server handles at a time, however they overlap: a bind    *)
(* asks the plan once and none is let through when it is full.              *)
THEOREM PlanOvershoot ==
    ASSUME IsFiniteSet(Binders), Binders # {}
    PROVE  Spec => [](ScreenCount < DeviceLimit + Cardinality(Binders))
<1>1. Init => OvershootInv
  <2> SUFFICES ASSUME Init PROVE OvershootInv
    OBVIOUS
  <2>1. IsFiniteSet(TenantScreens) /\ ScreenCount = 0
    <3>1. TenantScreens = {}
      <4>1. 1 .. 0 = {}
        OBVIOUS
      <4> QED BY <4>1 DEF Init, TenantScreens
    <3> QED BY <3>1, FS_EmptySet DEF ScreenCount
  <2>2. Creating = {}
    BY DEF Init, Creating, IdleBind
  <2>3. Cardinality(Binders) \in Nat \ {0}
    BY FS_CardinalityType, FS_EmptySet
  <2> QED BY <2>1, <2>2, <2>3, FS_EmptySet, PairingAssumption DEF OvershootInv
<1>2. IInv /\ OvershootInv /\ [Next]_vars => OvershootInv'
    BY OvershootStep
<1>3. OvershootInv => ScreenCount < DeviceLimit + Cardinality(Binders)
  <2> SUFFICES ASSUME OvershootInv PROVE ScreenCount < DeviceLimit + Cardinality(Binders)
    OBVIOUS
  <2>1. IsFiniteSet(Creating)
    BY FS_Subset DEF Creating
  <2>2. /\ ScreenCount \in Nat /\ Cardinality(Creating) \in Nat
        /\ DeviceLimit \in Nat /\ Cardinality(Binders) \in Nat
    BY <2>1, FS_CardinalityType, PairingAssumption DEF OvershootInv, ScreenCount
  <2> QED BY <2>2 DEF OvershootInv
<1> QED BY <1>1, <1>2, <1>3, Invariance, PTL DEF Spec

-----------------------------------------------------------------------------
(* The identities that TVs store.  The hash of a screen is replaced by     *)
(* every poll that finds the activation undelivered, so a token may be     *)
(* outdated when two polls of one session overlap; and by the dashboard.   *)

PollsApart ==
    \A p, q \in Polls :
        poll[p].pc # "idle" /\ poll[q].pc # "idle" /\ poll[p].of = poll[q].of => p = q

\* The token that was delivered last, which no poll will replace any more.
Current(s, token) == Known(s) /\ session[s].delivered /\ token = screen[s].hash

\* A poll issues a token only before one is delivered, and answers the last.
AnswerWorks(p) ==
    /\ poll[p].pc = "expire" => poll[p].answer # "token"
    /\ poll[p].pc \in {"issue", "mark"} => ~session[poll[p].of].delivered
    /\ poll[p].pc = "mark" => poll[p].token = screen[poll[p].of].hash
    /\ poll[p].pc = "answer" /\ poll[p].answer = "token" =>
           Current(poll[p].of, poll[p].token)
AnswersWork == \A p \in Polls : AnswerWorks(p)

\* A page that works never gets a 401, so it has never come back to pair under the
\* route of another screen.
CurrentIdentity(id) == Current(id.screen, id.token)
PageWorks(d) ==
    /\ \A i \in 1 .. Len(tv[d].welcome) : CurrentIdentity(tv[d].welcome[i])
    /\ tv[d].held # NoIdentity => CurrentIdentity(tv[d].held)
    /\ IF tv[d].mounted THEN tv[d].route = NoSession ELSE tv[d].held # NoIdentity
    /\ ~Stranded(d)
PagesWork == \A d \in Devices : PageWorks(d)

IdentityInv == budget.ops = 0 => AnswersWork /\ PagesWork

LEMMA DeliveredMoves ==
    ASSUME TypeOK, Links, [Next]_vars, NEW s \in Sessions
    PROVE  \/ session'[s].delivered = session[s].delivered
           \/ session[s].status = "absent" /\ ~session'[s].delivered
           \/ /\ \E p \in Polls : MarkDelivered(p) /\ poll[p].of = s
              /\ session'[s].delivered
<1>1. CASE UNCHANGED session
    BY <1>1
<1>2. ASSUME NEW d \in Devices, NEW q \in Sessions, Generate(d, q)
      PROVE  \/ session'[s].delivered = session[s].delivered
             \/ session[s].status = "absent" /\ ~session'[s].delivered
    BY <1>2 DEF Generate, TypeOK
<1>3. ASSUME NEW q, MarkExpired(q)
      PROVE  session'[s].delivered = session[s].delivered
    BY <1>3 DEF MarkExpired, TypeOK, SessionRows
<1>4. ASSUME NEW p \in Polls, MarkDelivered(p)
      PROVE  \/ session'[s].delivered = session[s].delivered
             \/ poll[p].of = s /\ session'[s].delivered
    BY <1>4 DEF MarkDelivered, TypeOK, SessionRows
<1>5. ASSUME NEW b \in Binders, BindCommit(b)
      PROVE  session'[s].delivered = session[s].delivered
    BY <1>5 DEF BindCommit, Bound, TypeOK, SessionRows
<1>6. CASE CleanUp
    BY <1>6 DEF CleanUp, TypeOK, SessionRows
<1>7. CASE \/ \E d \in Devices : \/ Countdown(d) \/ Welcome(d) \/ Rejected(d)
                                 \/ \E p \in Polls : SendPoll(d, p)
           \/ \E p \in Polls : ReadSession(p) \/ IssueToken(p) \/ ReceiveAnswer(p) \/ LosePoll(p)
           \/ \E b \in Binders : BindLock(b) \/ BindFails(b) \/ \E q \in Sessions : BindLookup(b, q)
           \/ \E q \in Sessions : RegenerateToken(q) \/ RevokeToken(q)
           \/ Tick \/ UNCHANGED vars
  <2>1. UNCHANGED session
    BY <1>7 DEF Countdown, Welcome, Rejected, SendPoll, ReadSession, IssueToken, ReceiveAnswer,
         LosePoll, BindLock, BindFails, BindLookup, RegenerateToken, RevokeToken, TokenOp, Tick,
         vars
  <2> QED BY <1>1, <2>1
<1> QED BY <1>2, <1>3, <1>4, <1>5, <1>6, <1>7
        DEF Next, Page, StatusHandler, PollExpires, BindHandler, BindExpires

\* Without the dashboard, a hash is replaced only by a poll that issues a token.
LEMMA HashMoves ==
    ASSUME TypeOK, Links, [Next]_vars, budget'.ops = 0, NEW s \in Sessions
    PROVE  \/ screen'[s].hash = screen[s].hash
           \/ \E p \in Polls : IssueToken(p) /\ poll[p].of = s
<1>1. CASE UNCHANGED screen
    BY <1>1
<1>2. ASSUME NEW p \in Polls, IssueToken(p)
      PROVE  screen'[s].hash = screen[s].hash \/ poll[p].of = s
    BY <1>2 DEF IssueToken, TypeOK
<1>3. ASSUME NEW b \in Binders, BindCommit(b)
      PROVE  screen'[s].hash = screen[s].hash
    BY <1>3 DEF BindCommit, TypeOK, ScreenRows
<1>4. ~TokenOp
    BY BudgetType DEF TokenOp, TypeOK
<1>5. CASE \/ \E d \in Devices : Page(d) \/ \E p \in Polls : SendPoll(d, p)
           \/ \E p \in Polls : ReadSession(p) \/ PollExpires(p) \/ MarkDelivered(p)
                               \/ ReceiveAnswer(p) \/ LosePoll(p)
           \/ \E b \in Binders : \/ BindExpires(b) \/ BindLock(b) \/ BindFails(b)
                                 \/ \E q \in Sessions : BindLookup(b, q)
           \/ CleanUp \/ Tick \/ UNCHANGED vars
  <2>1. UNCHANGED screen
    BY <1>5 DEF Page, Generate, Countdown, Welcome, Rejected, SendPoll, ReadSession, PollExpires,
         MarkDelivered, ReceiveAnswer, LosePoll, BindExpires, BindLock, BindFails, BindLookup,
         CleanUp, Tick, vars
  <2> QED BY <1>1, <2>1
<1> QED BY <1>2, <1>3, <1>4, <1>5 DEF Next, StatusHandler, BindHandler, RegenerateToken, RevokeToken

LEMMA CurrentStays ==
    ASSUME IInv, AnswersWork, [Next]_vars, budget'.ops = 0, NEW s, NEW token, Current(s, token)
    PROVE  /\ s \in Sessions /\ session'[s].status # "absent" /\ session'[s].delivered
           /\ token = screen'[s].hash
<1>1. s \in Sessions /\ session[s].status # "absent" /\ session[s].delivered
    BY DEF Current, Known
<1>2. Known(s)'
    BY KnownStays DEF Current, IInv
<1>3. session'[s].delivered
    BY <1>1, DeliveredMoves DEF IInv
<1>4. screen'[s].hash = screen[s].hash
  <2>1. \A p \in Polls : IssueToken(p) => poll[p].of # s
    BY <1>1 DEF IssueToken, AnswersWork, AnswerWorks
  <2> QED BY <1>1, <2>1, HashMoves DEF IInv
<1> QED BY <1>2, <1>3, <1>4 DEF Current, Known

\* What a step does to a poll.
SamePoll(p) ==
    /\ poll'[p].pc = poll[p].pc /\ poll'[p].of = poll[p].of
    /\ poll'[p].token = poll[p].token /\ poll'[p].answer = poll[p].answer

LEMMA PollActs ==
    ASSUME TypeOK, [Next]_vars, NEW p \in Polls
    PROVE  \/ SamePoll(p)
           \/ poll'[p].pc \in {"idle", "sent"}
           \/ ReadSession(p) \/ PollExpires(p) \/ IssueToken(p) \/ MarkDelivered(p)
<1>1. CASE UNCHANGED poll
    BY <1>1 DEF SamePoll
<1>2. ASSUME NEW d \in Devices, NEW q \in Polls, SendPoll(d, q)
      PROVE  poll'[p] = poll[p] \/ poll'[p].pc = "sent"
    BY <1>2 DEF SendPoll, TypeOK
<1>3. ASSUME NEW d \in Devices, Welcome(d)
      PROVE  SamePoll(p)
    BY <1>3 DEF Welcome, SamePoll, TypeOK, PollRecords
<1>4. ASSUME NEW q \in Polls, q # p,
             ReadSession(q) \/ PollExpires(q) \/ IssueToken(q) \/ MarkDelivered(q)
      PROVE  poll'[p] = poll[p]
    BY <1>4 DEF ReadSession, PollExpires, IssueToken, MarkDelivered, TypeOK
<1>5. ASSUME NEW q \in Polls, ReceiveAnswer(q) \/ LosePoll(q)
      PROVE  poll'[p] = poll[p] \/ poll'[p].pc = "idle"
    BY <1>5 DEF ReceiveAnswer, LosePoll, IdlePoll, TypeOK
<1>6. CASE \/ \E d \in Devices : Countdown(d) \/ Rejected(d) \/ \E s \in Sessions : Generate(d, s)
           \/ \E b \in Binders : BindHandler(b) \/ BindFails(b)
                                 \/ \E s \in Sessions : BindLookup(b, s)
           \/ \E s \in Sessions : RegenerateToken(s) \/ RevokeToken(s)
           \/ CleanUp \/ Tick \/ UNCHANGED vars
  <2>1. UNCHANGED poll
    BY <1>6 DEF Countdown, Rejected, Generate, BindHandler, BindExpires, BindLock, BindCommit,
         BindFails, BindLookup, RegenerateToken, RevokeToken, TokenOp, CleanUp, Tick, vars
  <2> QED BY <1>1, <2>1
<1> QED BY <1>2, <1>3, <1>4, <1>5, <1>6 DEF Next, Page, StatusHandler, SamePoll

LEMMA AnswersStep ==
    ASSUME IInv, AnswersWork, PollsApart, [Next]_vars, budget'.ops = 0
    PROVE  AnswersWork'
<1> SUFFICES ASSUME NEW p \in Polls
             PROVE  AnswerWorks(p)'
    BY DEF AnswersWork
<1> DEFINE s == poll[p].of
<1>0. AnswerWorks(p) /\ poll[p] \in PollRecords
    BY DEF AnswersWork, IInv, TypeOK
<1>1. poll[p].pc # "idle" => Known(s)
    BY DEF IInv, Links
<1>2. CASE SamePoll(p)
  <2>1. ASSUME poll[p].pc \in {"issue", "mark"}
        PROVE  ~session'[s].delivered
    <3>1. ~session[s].delivered /\ Known(s)
      BY <1>0, <1>1, <2>1 DEF AnswerWorks
    <3>2. \A q \in Polls : MarkDelivered(q) => poll[q].of # s
      <4> SUFFICES ASSUME NEW q \in Polls, MarkDelivered(q), poll[q].of = s
                   PROVE  FALSE
        OBVIOUS
      <4>1. q = p
        BY <2>1 DEF MarkDelivered, PollsApart
      <4>2. poll'[p].pc = "answer"
        BY <4>1 DEF MarkDelivered, IInv, TypeOK, PollRecords
      <4> QED BY <1>2, <2>1, <4>2 DEF SamePoll
    <3> QED BY <3>1, <3>2, DeliveredMoves DEF IInv, Known
  <2>2. ASSUME poll[p].pc = "mark"
        PROVE  screen'[s].hash = screen[s].hash
    <3>1. \A q \in Polls : IssueToken(q) => poll[q].of # s
      BY <2>2 DEF IssueToken, PollsApart
    <3> QED BY <1>1, <2>2, <3>1, HashMoves DEF IInv, Known
  <2>3. ASSUME poll[p].pc = "answer", poll[p].answer = "token"
        PROVE  Current(poll[p].of, poll[p].token)'
    <3>1. Current(s, poll[p].token)
      BY <1>0, <2>3 DEF AnswerWorks
    <3>2. /\ s \in Sessions /\ session'[s].status # "absent" /\ session'[s].delivered
          /\ poll[p].token = screen'[s].hash
      BY <3>1, CurrentStays
    <3> QED BY <1>2, <3>2 DEF Current, Known, SamePoll
  <2> QED BY <1>0, <1>2, <2>1, <2>2, <2>3 DEF AnswerWorks, SamePoll
<1>3. CASE poll'[p].pc \in {"idle", "sent"}
    BY <1>3 DEF AnswerWorks
<1>4. CASE ReadSession(p)
  <2>1. /\ poll'[p].pc = Decided(s) /\ poll'[p].answer = Reply(s) /\ poll'[p].of = s
        /\ session' = session
    BY <1>0, <1>4 DEF ReadSession, IInv, TypeOK, PollRecords
  <2>2. Decided(s) = "expire" => Reply(s) # "token"
    BY DEF Decided, Reply
  <2>3. Decided(s) \in {"issue", "mark"} => ~session[s].delivered
    BY DEF Decided
  <2>4. Decided(s) # "mark" /\ (Decided(s) = "answer" => Reply(s) # "token")
    BY DEF Decided, Reply
  <2> QED BY <2>1, <2>2, <2>3, <2>4 DEF AnswerWorks
<1>5. CASE PollExpires(p)
    BY <1>0, <1>5 DEF PollExpires, AnswerWorks, IInv, TypeOK, PollRecords
<1>6. CASE IssueToken(p)
  <2>1. /\ poll'[p].pc = "mark" /\ poll'[p].token = screen[s].issued + 1 /\ poll'[p].of = s
        /\ session' = session
    BY <1>0, <1>6 DEF IssueToken, IInv, TypeOK, PollRecords
  <2>2. s \in Sessions /\ ~session[s].delivered
    BY <1>0, <1>1, <1>6 DEF IssueToken, AnswerWorks, Known
  <2>3. screen'[s].hash = screen[s].issued + 1
    BY <1>6, <2>2 DEF IssueToken, Issued, IInv, TypeOK, ScreenRows
  <2> QED BY <2>1, <2>2, <2>3 DEF AnswerWorks
<1>7. CASE MarkDelivered(p)
  <2>1. /\ poll'[p].pc = "answer" /\ poll'[p].token = poll[p].token /\ poll'[p].of = s
        /\ screen' = screen
    BY <1>0, <1>7 DEF MarkDelivered, IInv, TypeOK, PollRecords
  <2>2. Known(s) /\ poll[p].token = screen[s].hash
    BY <1>0, <1>1, <1>7 DEF MarkDelivered, AnswerWorks
  <2>3. session'[s].delivered
    BY <1>7, <2>2 DEF MarkDelivered, Known, IInv, TypeOK, SessionRows
  <2>4. s \in Sessions /\ session'[s].status # "absent"
    BY <2>2, KnownStays DEF IInv, Known
  <2> HIDE DEF s
  <2> QED BY <2>1, <2>2, <2>3, <2>4 DEF AnswerWorks, Current, Known
<1> QED BY <1>2, <1>3, <1>4, <1>5, <1>6, <1>7, PollActs DEF IInv

\* What a step does to a page.
LEMMA PageActs ==
    ASSUME TypeOK, [Next]_vars, NEW d \in Devices
    PROVE  \/ tv'[d] = tv[d]
           \/ \E s \in Sessions : Generate(d, s)
           \/ Countdown(d) \/ Welcome(d) \/ Rejected(d)
           \/ \E p \in Polls : poll[p].pc = "answer" /\ tv'[d] = Told(tv[d], poll[p])
<1>1. CASE UNCHANGED tv
    BY <1>1
<1>2. ASSUME NEW e \in Devices, e # d, Page(e)
      PROVE  tv'[d] = tv[d]
    BY <1>2 DEF Page, Generate, Countdown, Welcome, Rejected, TypeOK
<1>3. ASSUME NEW p \in Polls, ReceiveAnswer(p)
      PROVE  tv'[d] = tv[d] \/ (poll[p].pc = "answer" /\ tv'[d] = Told(tv[d], poll[p]))
    BY <1>3 DEF ReceiveAnswer
<1>4. CASE \/ \E e \in Devices, p \in Polls : SendPoll(e, p)
           \/ \E p \in Polls : StatusHandler(p) \/ LosePoll(p)
           \/ \E b \in Binders : BindHandler(b) \/ BindFails(b)
                                 \/ \E s \in Sessions : BindLookup(b, s)
           \/ \E s \in Sessions : RegenerateToken(s) \/ RevokeToken(s)
           \/ CleanUp \/ Tick \/ UNCHANGED vars
  <2>1. UNCHANGED tv
    BY <1>4 DEF SendPoll, StatusHandler, ReadSession, PollExpires, IssueToken, MarkDelivered,
         LosePoll, BindHandler, BindExpires, BindLock, BindCommit, BindFails, BindLookup,
         RegenerateToken, RevokeToken, TokenOp, CleanUp, Tick, vars
  <2> QED BY <1>1, <2>1
<1> QED BY <1>2, <1>3, <1>4 DEF Next, Page

LEMMA StartsOverKeeps ==
    ASSUME NEW t \in TVs
    PROVE  LET u == StartsOver(t)
           IN  /\ u.welcome = t.welcome /\ u.held = t.held
               /\ u.mounted = t.mounted /\ u.route = t.route
               /\ u.again # 0
<1>1. t.again + 1 # 0
    BY TVUpdate
<1> QED BY <1>1 DEF StartsOver, TVs

LEMMA PagesStep ==
    ASSUME IInv, AnswersWork, PagesWork, [Next]_vars, budget'.ops = 0
    PROVE  PagesWork'
<1> SUFFICES ASSUME NEW d \in Devices
             PROVE  PageWorks(d)'
    BY DEF PagesWork
<1> DEFINE Good(id) == /\ id.screen \in Sessions /\ session'[id.screen].status # "absent"
                       /\ session'[id.screen].delivered
                       /\ id.token = screen'[id.screen].hash
       Fine(t) == /\ \A i \in 1 .. Len(t.welcome) : Good(t.welcome[i])
                  /\ t.held # NoIdentity => Good(t.held)
                  /\ IF t.mounted THEN t.route = NoSession ELSE t.held # NoIdentity
                  /\ t.mounted /\ ~t.polling /\ t.again = 0 => t.welcome # <<>>
<1>0. tv[d] \in TVs /\ tv'[d] \in TVs /\ PageWorks(d)
  <2>1. IInv'
    BY InvStep
  <2> QED BY <2>1 DEF IInv, TypeOK, PagesWork
<1>1. ASSUME NEW id, CurrentIdentity(id)
      PROVE  Good(id)
  <2> DEFINE s == id.screen
             token == id.token
  <2>1. Current(s, token)
    BY <1>1 DEF CurrentIdentity
  <2>2. /\ s \in Sessions /\ session'[s].status # "absent" /\ session'[s].delivered
        /\ token = screen'[s].hash
    <3> HIDE DEF s, token
    <3> QED BY <2>1, CurrentStays
  <2> QED BY <2>2
<1>2. SUFFICES Fine(tv'[d])
    BY DEF PageWorks, CurrentIdentity, Current, Known, Stranded
<1>3. Fine(tv[d])
    BY <1>0, <1>1 DEF PageWorks, Stranded
<1> HIDE DEF Good
<1>4. CASE tv'[d] = tv[d]
    BY <1>3, <1>4
<1>5. ASSUME NEW s \in Sessions, Generate(d, s)
      PROVE  /\ tv'[d].welcome = tv[d].welcome /\ tv'[d].held = tv[d].held
             /\ tv'[d].mounted = tv[d].mounted /\ tv'[d].route = tv[d].route
             /\ tv'[d].polling
    BY <1>0, <1>5 DEF Generate, TVs, IInv, TypeOK
<1>6. ASSUME StartsOver(tv[d]) = tv'[d]
      PROVE  /\ tv'[d].welcome = tv[d].welcome /\ tv'[d].held = tv[d].held
             /\ tv'[d].mounted = tv[d].mounted /\ tv'[d].route = tv[d].route
             /\ tv'[d].again # 0
    BY <1>0, <1>6, StartsOverKeeps
<1>7. CASE Countdown(d)
  <2>1. StartsOver(tv[d]) = tv'[d]
    BY <1>7 DEF Countdown, IInv, TypeOK
  <2> QED BY <1>3, <1>6, <2>1
<1>8. CASE Welcome(d)
  <2> DEFINE id == Head(tv[d].welcome)
  <2>1. /\ tv[d].mounted /\ tv[d].welcome # <<>> /\ tv[d].welcome \in Seq(Identities)
    BY <1>0, <1>8, TVUpdate DEF Welcome
  <2>2. 1 \in 1 .. Len(tv[d].welcome) /\ id = tv[d].welcome[1]
    BY <2>1
  <2>3. Good(id)
    BY <1>3, <2>2
  <2>4. tv[d].route = NoSession
    BY <1>3, <2>1
  <2>5. tv'[d] = [mounted |-> FALSE, polling |-> FALSE, again |-> 0, code |-> NoSession,
                  welcome |-> <<>>, held |-> id, route |-> id.screen]
    BY <1>8, <2>4 DEF Welcome, IInv, TypeOK
  <2>6. id # NoIdentity
    BY <2>3, PairingAssumption DEF Good, NoIdentity
  <2> HIDE DEF id
  <2>7. Len(tv'[d].welcome) = 0
    BY <2>5
  <2> QED BY <2>3, <2>5, <2>6, <2>7
<1>9. ~Rejected(d)
  <2>1. ~tv[d].mounted => CurrentIdentity(tv[d].held)
    BY <1>0, <1>3 DEF PageWorks
  <2> QED BY <2>1 DEF Rejected, CurrentIdentity, Current
<1>10. ASSUME NEW p \in Polls, poll[p].pc = "answer", tv'[d] = Told(tv[d], poll[p])
       PROVE  Fine(tv'[d])
  <2>1. CASE poll[p].answer = "token"
    <3> DEFINE id == [screen |-> poll[p].of, token |-> poll[p].token]
    <3>1. Good(id)
      BY <1>1, <1>10, <2>1 DEF AnswersWork, AnswerWorks, CurrentIdentity
    <3>2. id \in Identities /\ tv[d].welcome \in Seq(Identities)
      BY <1>0, PollUpdate, TVUpdate DEF IInv, TypeOK, Identities
    <3>3. /\ tv'[d].welcome = Append(tv[d].welcome, id) /\ tv'[d].held = tv[d].held
          /\ tv'[d].mounted = tv[d].mounted /\ tv'[d].route = tv[d].route
      BY <1>0, <1>10, <2>1 DEF Told, TVs
    <3> HIDE DEF id
    <3>4. tv'[d].welcome # <<>>
      BY <3>2, <3>3, AppendProperties
    <3>5. ASSUME NEW i \in 1 .. Len(tv'[d].welcome)
          PROVE  Good(tv'[d].welcome[i])
      BY <1>3, <3>1, <3>2, <3>3, <3>5, AppendProperties
    <3> QED BY <1>3, <3>3, <3>4, <3>5
  <2>2. CASE poll[p].answer \in {"delivered", "expired"}
    <3>1. StartsOver(tv[d]) = tv'[d]
      BY <1>10, <2>2 DEF Told
    <3> QED BY <1>3, <1>6, <3>1
  <2>3. CASE poll[p].answer \notin {"token", "delivered", "expired"}
    <3>1. tv'[d] = tv[d]
      BY <1>10, <2>3 DEF Told
    <3> QED BY <1>3, <3>1
  <2> QED BY <2>1, <2>2, <2>3
<1> QED BY <1>3, <1>4, <1>5, <1>7, <1>8, <1>9, <1>10, PageActs DEF IInv

\* Token operations are counted and nothing takes them back.
LEMMA OpsMoves ==
    ASSUME TypeOK, [Next]_vars, budget'.ops = 0
    PROVE  budget.ops = 0
<1>1. CASE UNCHANGED budget
    BY <1>1
<1>2. CASE TokenOp
    BY <1>2 DEF TokenOp, TypeOK
<1>3. ASSUME budget' = [budget EXCEPT !.losses = @ + 1]
      PROVE  budget'.ops = budget.ops
    BY <1>3 DEF TypeOK
<1>4. CASE \/ \E d \in Devices : Page(d) \/ \E p \in Polls : SendPoll(d, p)
           \/ \E p \in Polls : StatusHandler(p) \/ ReceiveAnswer(p)
           \/ \E b \in Binders : BindHandler(b) \/ \E s \in Sessions : BindLookup(b, s)
           \/ CleanUp \/ Tick \/ UNCHANGED vars
  <2>1. UNCHANGED budget
    BY <1>4 DEF Page, Generate, Countdown, Welcome, Rejected, SendPoll, StatusHandler, ReadSession,
         PollExpires, IssueToken, MarkDelivered, ReceiveAnswer, BindHandler, BindExpires, BindLock,
         BindCommit, BindLookup, CleanUp, Tick, vars
  <2> QED BY <1>1, <2>1
<1>5. ASSUME \/ \E p \in Polls : LosePoll(p)
             \/ \E b \in Binders : BindFails(b)
      PROVE  budget' = [budget EXCEPT !.losses = @ + 1]
    BY <1>5 DEF LosePoll, BindFails
<1> QED BY <1>2, <1>3, <1>4, <1>5 DEF Next, RegenerateToken, RevokeToken

LEMMA IdentityStep ==
    ASSUME IInv, IdentityInv, PollsApart, [Next]_vars
    PROVE  IdentityInv'
<1> SUFFICES ASSUME budget'.ops = 0
             PROVE  AnswersWork' /\ PagesWork'
    BY DEF IdentityInv
<1>1. budget.ops = 0
    BY OpsMoves DEF IInv
<1> QED BY <1>1, AnswersStep, PagesStep DEF IdentityInv

LEMMA IdentityInit == Init => IdentityInv
<1> SUFFICES ASSUME Init PROVE AnswersWork /\ PagesWork
    BY DEF IdentityInv
<1>1. AnswersWork
    BY DEF Init, IdlePoll, AnswersWork, AnswerWorks
<1>2. Len(<<>>) = 0
    OBVIOUS
<1> QED BY <1>1, <1>2 DEF Init, Mounted, PagesWork, PageWorks, Stranded

(* The identity a TV has stored is accepted until the dashboard changes    *)
(* the token (StoredIdentityWorks), if no two status polls of one session  *)
(* are ever under way together: whatever other TVs do, whatever is lost.   *)
THEOREM IdentitiesWork == Spec /\ []PollsApart => []StoredIdentityWorks
<1>1. IdentityInv => StoredIdentityWorks
    BY DEF IdentityInv, PagesWork, PageWorks, CurrentIdentity, Current, StoredIdentityWorks
<1>2. IInv /\ IdentityInv /\ PollsApart /\ [Next]_vars => IdentityInv'
    BY IdentityStep
<1> QED BY <1>1, <1>2, IdentityInit, Invariance, PTL DEF Spec

(* No pairing page is left without a timer, an animation or a time-out     *)
(* that will move it (NotStranded), if in addition the dashboard leaves    *)
(* the tokens alone: a late or repeated answer alone cannot strand a TV.   *)
THEOREM NeverStranded ==
    Spec /\ []PollsApart /\ [](budget.ops = 0) => []NotStranded
<1>1. IdentityInv /\ budget.ops = 0 => NotStranded
    BY DEF IdentityInv, PagesWork, PageWorks, NotStranded
<1>2. IInv /\ IdentityInv /\ PollsApart /\ [Next]_vars => IdentityInv'
    BY IdentityStep
<1> QED BY <1>1, <1>2, IdentityInit, Invariance, PTL DEF Spec

-----------------------------------------------------------------------------
(* Refinement of PairingContract.                                          *)

LEMMA StaysPhase ==
    ASSUME NEW s \in Sessions, Stays(s)
    PROVE  Phase(s)' = Phase(s)
    BY DEF Stays, Phase

LEMMA Stutter ==
    ASSUME \A s \in Sessions : Stays(s) /\ screen'[s].issued = screen[s].issued
    PROVE  UNCHANGED Contract!vars
    BY StaysPhase DEF Contract!vars, Stays

\* Sessions of S that were offered become lapsed, the others stay.
LEMMA LapseStep ==
    ASSUME NEW S \in SUBSET Sessions, UNCHANGED screen,
           \A s \in S : Phase(s) = "offered" /\ session'[s].status = "expired",
           \A s \in Sessions \ S : Stays(s)
    PROVE  Contract!Next
<1>1. \A s \in S : Phase(s)' = "lapsed"
    BY DEF Phase
<1>2. \A s \in Sessions \ S : Phase(s)' = Phase(s)
    BY StaysPhase
<1>3. Contract!Lapse(S)
    BY <1>1, <1>2 DEF Contract!Lapse
<1> QED BY <1>3 DEF Contract!Next

LEMMA MarkExpiredRefines ==
    ASSUME IInv, NEW q, Known(q), MarkExpired(q), UNCHANGED screen
    PROVE  Contract!Next \/ UNCHANGED Contract!vars
<1> USE DEF IInv
<1>1. ASSUME NEW s \in Sessions, s # q
      PROVE  Stays(s)
    BY <1>1 DEF MarkExpired, TypeOK, Stays
<1>2. session'[q].status = "expired" /\ q \in Sessions /\ session[q].status # "absent"
    BY DEF MarkExpired, TypeOK, SessionRows, Known
<1>3. CASE Phase(q) = "offered"
  <2>1. {q} \in SUBSET Sessions
    BY <1>2
  <2>2. \A s \in {q} : Phase(s) = "offered" /\ session'[s].status = "expired"
    BY <1>2, <1>3
  <2>3. \A s \in Sessions \ {q} : Stays(s)
    BY <1>1
  <2> QED BY <2>1, <2>2, <2>3, LapseStep
<1>4. CASE Phase(q) # "offered"
  <2>1. Phase(q)' = Phase(q)
    BY <1>2, <1>4 DEF Phase
  <2>2. \A s \in Sessions : Phase(s)' = Phase(s)
    BY <1>1, <2>1, StaysPhase
  <2> QED BY <2>2 DEF Contract!vars
<1> QED BY <1>3, <1>4

LEMMA IssueRefines ==
    ASSUME IInv, NEW q \in Sessions, screen[q].rows > 0, UNCHANGED session,
           screen' = [screen EXCEPT ![q] = Issued(@)]
    PROVE  Contract!Next
<1> USE DEF IInv
<1>1. \A s \in Sessions : screen'[s].rows = screen[s].rows
    BY IssuedRows
<1>2. \A s \in Sessions : Phase(s)' = Phase(s)
    BY <1>1, StaysPhase DEF Stays
<1>3. screen'[q].issued = screen[q].issued + 1
    BY DEF TypeOK, ScreenRows, Issued
<1>4. \A s \in Sessions : s # q => screen'[s].issued = screen[s].issued
    BY DEF TypeOK
<1>5. Phase(q) = "bound"
    BY DEF Phase
<1>6. Contract!Issue(q)
    BY <1>1, <1>2, <1>3, <1>4, <1>5 DEF Contract!Issue
<1> QED BY <1>6 DEF Contract!Next

LEMMA CommitRefines ==
    ASSUME IInv, NEW b \in Binders, NEW q \in Sessions, bind[b].of = q, BindCommit(b)
    PROVE  Contract!Next
<1> USE DEF IInv
<1>1. session[q].status = "pending" /\ screen[q].rows = 0
    BY DEF BindCommit, Claims, Holds, RowsAgree
<1>2. /\ screen'[q].rows = screen[q].rows + 1
      /\ \A s \in Sessions : screen'[s].issued = screen[s].issued
    BY <1>1 DEF BindCommit, TypeOK, ScreenRows
<1>3. \A s \in Sessions : s # q => Stays(s)
    BY DEF BindCommit, TypeOK, Stays
<1>4. \A s \in Sessions : s # q => Phase(s)' = Phase(s) /\ screen'[s].rows = screen[s].rows
    BY <1>3, StaysPhase DEF Stays
<1>5. Phase(q) = "offered" /\ Phase(q)' = "bound"
    BY <1>1, <1>2 DEF Phase
<1>6. Contract!Bind(q)
    BY <1>1, <1>2, <1>4, <1>5 DEF Contract!Bind
<1> QED BY <1>6 DEF Contract!Next

LEMMA OfferRefines ==
    ASSUME IInv, NEW d \in Devices, NEW q \in Sessions, Generate(d, q)
    PROVE  Contract!Next
<1> USE DEF IInv
<1>1. session[q].status = "absent" /\ session'[q].status = "pending" /\ UNCHANGED screen
    BY DEF Generate, TypeOK
<1>2. \A s \in Sessions : s # q => Stays(s)
    BY DEF Generate, TypeOK, Stays
<1>3. \A s \in Sessions : s # q => Phase(s)' = Phase(s)
    BY <1>2, StaysPhase
<1>4. screen[q].rows = 0
    BY <1>1 DEF RowsAgree
<1>5. Phase(q) = "absent" /\ Phase(q)' = "offered"
    BY <1>1, <1>4 DEF Phase
<1>6. Contract!Offer(q)
    BY <1>1, <1>3, <1>5 DEF Contract!Offer
<1> QED BY <1>6 DEF Contract!Next

LEMMA CleanUpRefines ==
    ASSUME IInv, CleanUp
    PROVE  Contract!Next
<1> USE DEF IInv
<1> DEFINE S == {s \in Sessions : session[s].status = "pending" /\ Expired(s)}
<1>1. \A s \in S : Phase(s) = "offered"
    BY DEF Phase, RowsAgree
<1>2. \A s \in S : session'[s].status = "expired"
    BY DEF CleanUp, TypeOK, SessionRows
<1>3. \A s \in Sessions \ S : Stays(s)
    BY DEF CleanUp, Stays
<1>4. UNCHANGED screen
    BY DEF CleanUp
<1> HIDE DEF S
<1>5. S \in SUBSET Sessions
    BY DEF S
<1> QED BY <1>1, <1>2, <1>3, <1>4, <1>5, LapseStep

LEMMA StepRefines ==
    ASSUME IInv, [Next]_vars
    PROVE  [Contract!Next]_Contract!vars
<1> USE DEF IInv
<1>1. ASSUME NEW p \in Polls, PollExpires(p)
      PROVE  Contract!Next \/ UNCHANGED Contract!vars
    BY <1>1, MarkExpiredRefines DEF PollExpires, Links
<1>2. ASSUME NEW b \in Binders, BindExpires(b)
      PROVE  Contract!Next \/ UNCHANGED Contract!vars
    BY <1>2, MarkExpiredRefines DEF BindExpires, Links
<1>3. ASSUME NEW p \in Polls, IssueToken(p)
      PROVE  Contract!Next
  <2>1. poll[p].of \in Sessions /\ screen[poll[p].of].rows > 0
    BY <1>3 DEF IssueToken, Links, Known, RowsAgree
  <2> QED BY <1>3, <2>1, IssueRefines DEF IssueToken
<1>4. ASSUME NEW s \in Sessions, RegenerateToken(s)
      PROVE  Contract!Next
    BY <1>4, IssueRefines DEF RegenerateToken, TokenOp
<1>5. ASSUME NEW p \in Polls, MarkDelivered(p)
      PROVE  UNCHANGED Contract!vars
    BY <1>5, Stutter DEF MarkDelivered, Stays, TypeOK, SessionRows
<1>6. ASSUME NEW s \in Sessions, RevokeToken(s)
      PROVE  UNCHANGED Contract!vars
    BY <1>6, Stutter DEF RevokeToken, TokenOp, Stays, TypeOK, ScreenRows
<1>7. ASSUME UNCHANGED <<session, screen>>
      PROVE  UNCHANGED Contract!vars
    BY <1>7, Stutter DEF Stays
<1>8. ASSUME NEW d \in Devices, Countdown(d) \/ Welcome(d) \/ Rejected(d)
                               \/ \E p \in Polls : SendPoll(d, p)
      PROVE  UNCHANGED Contract!vars
    BY <1>7, <1>8 DEF Countdown, Welcome, Rejected, SendPoll
<1>9. ASSUME NEW p \in Polls, ReadSession(p) \/ ReceiveAnswer(p) \/ LosePoll(p)
      PROVE  UNCHANGED Contract!vars
    BY <1>7, <1>9 DEF ReadSession, ReceiveAnswer, LosePoll
<1>10. ASSUME NEW b \in Binders, BindLock(b) \/ BindFails(b)
                                \/ \E q \in Sessions : BindLookup(b, q)
       PROVE  UNCHANGED Contract!vars
    BY <1>7, <1>10 DEF BindLock, BindFails, BindLookup
<1>11. CASE Tick \/ UNCHANGED vars
    BY <1>7, <1>11 DEF Tick, vars
<1>12. ASSUME NEW b \in Binders, BindCommit(b)
       PROVE  Contract!Next
  <2>1. bind[b].of \in Sessions
    BY <1>12 DEF BindCommit, Links, Known
  <2> QED BY <1>12, <2>1, CommitRefines
<1> QED BY <1>1, <1>2, <1>3, <1>4, <1>5, <1>6, <1>8, <1>9, <1>10, <1>11,
           <1>12, OfferRefines, CleanUpRefines
        DEF Next, Page, StatusHandler, BindHandler

(* Every behaviour of the handlers is one of the contract: a code is bound *)
(* to at most one screen and only while it is offered, and tokens are      *)
(* issued for bound screens only.                                          *)
THEOREM PairingRefines == Spec => KeepsContract
<1>1. Init => Contract!Init
    BY DEF Init, Contract!Init, Phase
<1>2. IInv /\ [Next]_vars => [Contract!Next]_Contract!vars
    BY StepRefines
<1> QED BY <1>1, <1>2, Invariance, PTL DEF Spec, KeepsContract, Contract!Spec

-----------------------------------------------------------------------------
(* What follows from the contract.                                         *)

OneScreen(s) == screen[s].rows = IF Phase(s) = "bound" THEN 1 ELSE 0
OnlyBound(s) == screen[s].issued > 0 => Phase(s) = "bound"
ContractInv == \A s \in Sessions : OneScreen(s) /\ OnlyBound(s)

LEMMA ContractStep ==
    ASSUME TypeOK, ContractInv, [Contract!Next]_Contract!vars
    PROVE  ContractInv'
<1> DEFINE ph == [s \in Sessions |-> Phase(s)]
           sc == [s \in Sessions |-> screen[s].rows]
           is == [s \in Sessions |-> screen[s].issued]
           Good == \A s \in Sessions : /\ sc[s] = IF ph[s] = "bound" THEN 1 ELSE 0
                                       /\ is[s] > 0 => ph[s] = "bound"
<1>1. /\ ph = [s \in Sessions |-> ph[s]] /\ sc = [s \in Sessions |-> sc[s]]
      /\ is = [s \in Sessions |-> is[s]]
    OBVIOUS
<1>2. \A s \in Sessions : is[s] \in Nat
    BY DEF TypeOK, ScreenRows
<1>3. Good
    BY DEF ContractInv, OneScreen, OnlyBound
<1>4. [Contract!Next]_<<ph, sc, is>>
    BY DEF Contract!vars
<1>5. (\E s \in Sessions : Contract!Offer(s) \/ Contract!Bind(s) \/ Contract!Issue(s))
      \/ (\E S \in SUBSET Sessions : Contract!Lapse(S))
      \/ (ph' = ph /\ sc' = sc /\ is' = is)
    BY <1>4 DEF Contract!Next
<1>6. \A s \in Sessions : Contract!Offer(s) =>
          ph[s] = "absent" /\ ph' = [ph EXCEPT ![s] = "offered"] /\ sc' = sc /\ is' = is
    BY DEF Contract!Offer
<1>7. \A s \in Sessions : Contract!Bind(s) =>
          ph[s] = "offered" /\ ph' = [ph EXCEPT ![s] = "bound"]
          /\ sc' = [sc EXCEPT ![s] = sc[s] + 1] /\ is' = is
    BY DEF Contract!Bind
<1>8. \A s \in Sessions : Contract!Issue(s) =>
          ph[s] = "bound" /\ is' = [is EXCEPT ![s] = is[s] + 1] /\ ph' = ph /\ sc' = sc
    BY DEF Contract!Issue
<1>9. \A S \in SUBSET Sessions : Contract!Lapse(S) =>
          (\A s \in S : ph[s] = "offered") /\ sc' = sc /\ is' = is
          /\ ph' = [s \in Sessions |-> IF s \in S THEN "lapsed" ELSE ph[s]]
    BY DEF Contract!Lapse
<1>10. Good' => ContractInv'
    BY DEF ContractInv, OneScreen, OnlyBound
<1> HIDE DEF ph, sc, is
<1>11. Good'
  <2>1. ASSUME NEW s \in Sessions, Contract!Offer(s) PROVE Good'
    BY <1>1, <1>2, <1>3, <1>6, <2>1
  <2>2. ASSUME NEW s \in Sessions, Contract!Bind(s) PROVE Good'
    BY <1>1, <1>2, <1>3, <1>7, <2>2
  <2>3. ASSUME NEW s \in Sessions, Contract!Issue(s) PROVE Good'
    BY <1>1, <1>2, <1>3, <1>8, <2>3
  <2>4. ASSUME NEW S \in SUBSET Sessions, Contract!Lapse(S) PROVE Good'
    BY <1>1, <1>2, <1>3, <1>9, <2>4
  <2>5. CASE ph' = ph /\ sc' = sc /\ is' = is
    BY <1>3, <2>5
  <2> QED
    BY <1>5, <2>1, <2>2, <2>3, <2>4, <2>5
<1> QED
    BY <1>10, <1>11

LEMMA ContractHolds == Spec => []ContractInv
<1>1. Init => ContractInv
    BY DEF Init, ContractInv, OneScreen, OnlyBound, Phase
<1>2. IInv /\ [Next]_vars => [Contract!Next]_Contract!vars
    BY StepRefines
<1>3. IInv => TypeOK
    BY DEF IInv
<1>4. ContractInv /\ TypeOK /\ [Contract!Next]_Contract!vars => ContractInv'
    BY ContractStep
<1> QED BY <1>1, <1>2, <1>3, <1>4, Invariance, PTL DEF Spec

(* A code that was bound has exactly one screen and no other code has any: *)
(* two users who enter the same code never get two screens out of it.      *)
THEOREM OneScreenPerCode == Spec => []Contract!OneScreenEach
<1>1. ContractInv => Contract!OneScreenEach
    BY DEF ContractInv, OneScreen, Contract!OneScreenEach
<1> QED BY <1>1, ContractHolds, PTL

(* Tokens are only ever issued for screens that a user bound.              *)
THEOREM TokensForBoundScreens == Spec => []Contract!TokensNeedBinding
<1>1. ContractInv => Contract!TokensNeedBinding
    BY DEF ContractInv, OnlyBound, Contract!TokensNeedBinding
<1> QED BY <1>1, ContractHolds, PTL
=============================================================================
