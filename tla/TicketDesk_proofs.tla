-------------------------- MODULE TicketDesk_proofs --------------------------
(* Proofs about TicketDesk and the notifier in it: what the log and the        *)
(* cooldowns say, what becomes of a breach and how often it is told.           *)
EXTENDS TicketDesk, TLAPS, FiniteSetTheorems

-----------------------------------------------------------------------------
(* The invariant                                                             *)

\* A notice has been queued for a channel of a rule.
Queued(r, n, ch) ==
    \E l \in Logs : log[l].rule = r /\ log[l].notice = n /\ log[l].channel = ch /\ Accepted(l)

\* The channels that a dispatch has dealt with without a failure are served,
\* and it comes to each rule once.
DispatchGood(c) ==
    /\ disp[c].pc # "idle" => disp[c].notice \in Notices
    /\ disp[c].pc = "channels" => disp[c].rule \in Rules
    /\ disp[c].pc # "channels" => disp[c].rule = Nothing /\ disp[c].channels = {}
    /\ disp[c].rule \notin disp[c].rules
    /\ disp[c].pc = "channels" /\ ~disp[c].failed =>
          \A ch \in ChannelsOf[disp[c].rule] \ disp[c].channels :
              Queued(disp[c].rule, disp[c].notice, ch)
DispatchesGood == \A c \in Callers : DispatchGood(c)

\* What a row says of its deliveries before and after the last one.
RowGood(row) ==
    /\ row.status = "sent" => row.task = "ended" /\ row.copies \in 1..(row.retries + 1)
    /\ row.task = "queued" => row.copies <= row.retries
    /\ row.task = "delivered" => row.copies \in 1..(row.retries + 1)
LogGood ==
    /\ \A l \in Logs : RowGood(log[l])
    /\ \A l \in Logs : l > made => log[l] = NoLog

\* One check at a time; what it has listed has not been told as breached yet,
\* and what is being told about service levels is told by it.
OneCheck == \A c, d \in Callers : check[c].pc # "idle" /\ check[d].pc # "idle" => c = d
CheckGood(c) ==
    /\ check[c].pc = "idle" => check[c].list = {}
    /\ disp[c].pc # "idle" /\ disp[c].notice \notin OtherNotices => check[c].pc # "idle"
    /\ \A s \in check[c].list : snap[s.metric].status # "breached"
    /\ \A s, t \in check[c].list : s.metric = t.metric => s = t
ChecksGood == OneCheck /\ \A c \in Callers : CheckGood(c)

\* A request that has looked at the snapshots would change only intact ones.
AgentsGood == \A a \in Agents : agent[a].unmet \subseteq agent[a].intact

\* The entries of a breach, an entry to come from a dispatch that is going on,
\* and a breach to come from a snapshot that is not breached or is listed.
Entries(m, r, ch) ==
    {l \in Logs : log[l].notice = <<m, "breached">> /\ log[l].rule = r /\ log[l].channel = ch}
ComingFrom(c, m, r, ch) ==
    /\ disp[c].pc # "idle"
    /\ disp[c].notice = <<m, "breached">>
    /\ \/ disp[c].pc = "looking" \/ r \in disp[c].rules
       \/ disp[c].rule = r /\ ch \in disp[c].channels
Coming(m, r, ch) == \E c \in Callers : ComingFrom(c, m, r, ch)
ListedNow(m) == \E c \in Callers : \E s \in check[c].list : s.metric = m
Open(m) == snap[m].status \in {"on_track", "warning"} \/ ListedNow(m)
One(b) == IF b THEN 1 ELSE 0
Counted ==
    \A m \in Metrics, r \in Rules, ch \in Channels :
        Cardinality(Entries(m, r, ch)) + One(Coming(m, r, ch)) + One(Open(m)) <= restarts + 1

IInv == TypeOK /\ DispatchesGood /\ LogGood /\ CooldownEarned /\ ChecksGood /\ AgentsGood /\ Counted

-----------------------------------------------------------------------------
(* Records                                                                   *)

LEMMA SpendType ==
    ASSUME budget \in [failures : Nat, events : Nat, checks : Nat, ops : Nat],
           NEW what \in {"failures", "events", "checks", "ops"}, Spend(what)
    PROVE  budget' \in [failures : Nat, events : Nat, checks : Nat, ops : Nat]
BY DEF Spend

LEMMA NoDispatchType == NoDispatch \in Dispatch
BY DEF NoDispatch, Dispatch

LEMMA NoDispatchFields ==
    /\ NoDispatch.pc = "idle" /\ NoDispatch.notice = Nothing /\ NoDispatch.rules = {}
    /\ NoDispatch.rule = Nothing /\ NoDispatch.channels = {} /\ NoDispatch.failed = FALSE
BY DEF NoDispatch

LEMMA DispatchFields ==
    ASSUME NEW d \in Dispatch
    PROVE  /\ d.pc \in {"idle", "looking", "rules", "channels"}
           /\ d.notice \in Notices \cup {Nothing} /\ d.rules \subseteq Rules
           /\ d.rule \in Rules \cup {Nothing} /\ d.channels \subseteq Channels
           /\ d.failed \in BOOLEAN
BY DEF Dispatch

LEMMA NoLogType == NoLog \in LogRows
BY NotifierAssumption DEF NoLog, LogRows

LEMMA LogFields ==
    ASSUME NEW row \in LogRows
    PROVE  /\ row.status \in {"none", "pending", "sent", "failed"}
           /\ row.task \in {"none", "queued", "delivered", "ended", "dead"}
           /\ row.retries \in 0..MaxRetries /\ row.copies \in Nat
BY DEF LogRows

LEMMA NoLogGood == RowGood(NoLog) /\ NoLog.task = "none"
BY DEF NoLog, RowGood

-----------------------------------------------------------------------------
(* Tasks                                                                     *)

\* A task changes its row into a good one about the same notice, rule and channel.
TaskShape(l) ==
    /\ log' \in [Logs -> LogRows]
    /\ \A k \in Logs : k # l => log'[k] = log[k]
    /\ log[l].task # "none" /\ log'[l].task # "none"
    /\ log'[l].notice = log[l].notice /\ log'[l].rule = log[l].rule
    /\ log'[l].channel = log[l].channel
    /\ RowGood(log'[l])
    /\ budget' \in [failures : Nat, events : Nat, checks : Nat, ops : Nat]
    /\ UNCHANGED <<disp, window, cooling, made>>

LEMMA RowShape ==
    ASSUME NotifierTypeOK, NEW l \in Logs, NEW row \in LogRows, log' = [log EXCEPT ![l] = row],
           log[l].task # "none", row.task # "none", RowGood(row),
           row.notice = log[l].notice, row.rule = log[l].rule, row.channel = log[l].channel,
           budget' \in [failures : Nat, events : Nat, checks : Nat, ops : Nat],
           UNCHANGED <<disp, window, cooling, made>>
    PROVE  TaskShape(l)
<1>1. log' \in [Logs -> LogRows] /\ log'[l] = row /\ \A k \in Logs : k # l => log'[k] = log[k]
  BY DEF NotifierTypeOK
<1> QED
  BY <1>1, Zenon DEF TaskShape

LEMMA TaskHasShape ==
    ASSUME NotifierTypeOK, LogGood, NEW l \in Logs, Task(l)
    PROVE  TaskShape(l)
<1>1. log \in [Logs -> LogRows] /\ log[l] \in LogRows /\ RowGood(log[l])
      /\ budget \in [failures : Nat, events : Nat, checks : Nat, ops : Nat]
  BY DEF NotifierTypeOK, LogGood
<1>2. MaxRetries \in Nat
  BY NotifierAssumption
<1>3. CASE Deliver(l)
  <2> DEFINE row == [log[l] EXCEPT !.task = "delivered", !.copies = @ + 1]
  <2>1. log' = [log EXCEPT ![l] = row]
    BY <1>1, <1>3 DEF Deliver
  <2>a. log[l].copies + 1 \in Nat
    BY <1>1, LogFields
  <2>2. row \in LogRows /\ row.task = "delivered" /\ row.status = log[l].status
        /\ row.copies = log[l].copies + 1 /\ row.retries = log[l].retries
        /\ row.notice = log[l].notice /\ row.rule = log[l].rule /\ row.channel = log[l].channel
    BY <1>1, <2>a DEF LogRows
  <2> HIDE DEF row
  <2>3. RowGood(row)
    BY <1>1, <1>2, <1>3, <2>2, LogFields DEF RowGood, Deliver
  <2> QED
    BY <1>1, <1>3, <2>1, <2>2, <2>3, RowShape DEF Deliver
<1>4. CASE Refuse(l)
  <2> DEFINE row == [log[l] EXCEPT !.task = "ended", !.status = "failed"]
  <2>1. log' = [log EXCEPT ![l] = row]
    BY <1>1, <1>4 DEF Refuse
  <2>2. row \in LogRows /\ row.task = "ended" /\ row.status = "failed"
        /\ row.notice = log[l].notice /\ row.rule = log[l].rule /\ row.channel = log[l].channel
    BY <1>1 DEF LogRows
  <2> HIDE DEF row
  <2>3. RowGood(row)
    BY <2>2 DEF RowGood
  <2>4. budget' \in [failures : Nat, events : Nat, checks : Nat, ops : Nat]
    BY <1>1, <1>4, SpendType DEF Refuse, Fail
  <2> QED
    BY <1>1, <1>4, <2>1, <2>2, <2>3, <2>4, RowShape DEF Refuse
<1>5. CASE SaveSent(l)
  <2> DEFINE row == [log[l] EXCEPT !.task = "ended", !.status = "sent"]
  <2>1. log' = [log EXCEPT ![l] = row]
    BY <1>1, <1>5 DEF SaveSent
  <2>2. row \in LogRows /\ row.task = "ended" /\ row.status = "sent"
        /\ row.copies = log[l].copies /\ row.retries = log[l].retries
        /\ row.notice = log[l].notice /\ row.rule = log[l].rule /\ row.channel = log[l].channel
    BY <1>1 DEF LogRows
  <2> HIDE DEF row
  <2>3. RowGood(row)
    BY <1>1, <1>5, <2>2 DEF RowGood, SaveSent
  <2> QED
    BY <1>1, <1>5, <2>1, <2>2, <2>3, RowShape DEF SaveSent
<1>6. CASE Raise(l)
  <2>1. budget' \in [failures : Nat, events : Nat, checks : Nat, ops : Nat]
    BY <1>1, <1>6, SpendType DEF Raise, Fail
  <2>2. PICK st \in {log[l].status, "failed"} :
          \/ /\ log[l].retries = MaxRetries
             /\ log' = [log EXCEPT ![l].status = st, ![l].task = "ended"]
          \/ /\ log[l].retries < MaxRetries
             /\ log' = [log EXCEPT ![l].status = st, ![l].task = "queued",
                                  ![l].retries = @ + 1]
    BY <1>6 DEF Raise
  <2>3. st \in {"none", "pending", "sent", "failed"} /\ st # "sent" /\ log[l].task # "none"
    BY <1>1, <1>6, LogFields DEF Raise, RowGood
  <2>4. CASE log[l].retries = MaxRetries
    <3> DEFINE row == [log[l] EXCEPT !.status = st, !.task = "ended"]
    <3>0. log' = [log EXCEPT ![l].status = st, ![l].task = "ended"]
      BY <1>2, <2>2, <2>4
    <3>1. log' = [log EXCEPT ![l] = row]
      BY <1>1, <3>0
    <3>2. row \in LogRows /\ row.task = "ended" /\ row.status = st
          /\ row.notice = log[l].notice /\ row.rule = log[l].rule /\ row.channel = log[l].channel
      BY <1>1, <2>3 DEF LogRows
    <3> HIDE DEF row
    <3>3. RowGood(row)
      BY <2>3, <3>2 DEF RowGood
    <3> QED
      BY <1>1, <1>6, <2>1, <2>3, <3>1, <3>2, <3>3, RowShape DEF Raise
  <2>5. CASE log[l].retries # MaxRetries
    <3> DEFINE row == [log[l] EXCEPT !.status = st, !.task = "queued", !.retries = @ + 1]
    <3>1. log' = [log EXCEPT ![l] = row]
      BY <1>1, <1>2, <2>2, <2>5
    <3>a. log[l].retries \in 0..MaxRetries
      BY <1>1, LogFields
    <3>b. log[l].retries + 1 \in 0..MaxRetries
      BY <3>a, <1>2, <2>5
    <3>2. row \in LogRows /\ row.task = "queued" /\ row.status = st
          /\ row.copies = log[l].copies /\ row.retries = log[l].retries + 1
          /\ row.notice = log[l].notice /\ row.rule = log[l].rule /\ row.channel = log[l].channel
      BY <1>1, <2>3, <3>b DEF LogRows
    <3> HIDE DEF row
    <3>3. RowGood(row)
      BY <1>1, <1>2, <1>6, <2>3, <3>2, <3>a, LogFields DEF RowGood, Raise
    <3> QED
      BY <1>1, <1>6, <2>1, <2>3, <3>1, <3>2, <3>3, RowShape DEF Raise
  <2> QED
    BY <2>4, <2>5
<1>7. CASE WorkerDies(l)
  <2> DEFINE row == [log[l] EXCEPT !.task = "dead"]
  <2>1. log' = [log EXCEPT ![l] = row]
    BY <1>1, <1>7 DEF WorkerDies
  <2>2. row \in LogRows /\ row.task = "dead" /\ row.status = log[l].status
        /\ row.notice = log[l].notice /\ row.rule = log[l].rule /\ row.channel = log[l].channel
    BY <1>1 DEF LogRows
  <2> HIDE DEF row
  <2>3. RowGood(row)
    BY <1>1, <1>7, <2>2 DEF RowGood, WorkerDies
  <2>4. budget' \in [failures : Nat, events : Nat, checks : Nat, ops : Nat]
    BY <1>1, <1>7, SpendType DEF WorkerDies, Fail
  <2> QED
    BY <1>1, <1>7, <2>1, <2>2, <2>3, <2>4, RowShape DEF WorkerDies
<1> QED
  BY <1>3, <1>4, <1>5, <1>6, <1>7 DEF Task

-----------------------------------------------------------------------------
(* Dispatches                                                                *)

\* The dispatch of c goes on or ends, and tells of nothing it did not tell of.
Follows(c) ==
    /\ disp' \in [Callers -> Dispatch]
    /\ \A d \in Callers : d # c => disp'[d] = disp[d]
    /\ disp'[c].pc # "idle" => disp[c].pc # "idle" /\ disp'[c].notice = disp[c].notice
    /\ \A m \in Metrics, r \in Rules, ch \in Channels :
          ComingFrom(c, m, r, ch)' => ComingFrom(c, m, r, ch)

LEMMA DispatchUpdate ==
    ASSUME NotifierTypeOK, NEW c \in Callers, NEW d \in Dispatch, disp' = [disp EXCEPT ![c] = d],
           d.pc # "idle" => disp[c].pc # "idle" /\ d.notice = disp[c].notice,
           d.pc = "looking" => disp[c].pc = "looking",
           d.rules \subseteq disp[c].rules \/ disp[c].pc = "looking",
           \/ d.rule = Nothing
           \/ d.rule \in disp[c].rules
           \/ d.rule = disp[c].rule /\ d.channels \subseteq disp[c].channels
    PROVE  Follows(c) /\ disp'[c] = d
<1>1. disp'[c] = d /\ disp' \in [Callers -> Dispatch] /\ \A e \in Callers : e # c => disp'[e] = disp[e]
  BY DEF NotifierTypeOK
<1>2. ASSUME NEW m \in Metrics, NEW r \in Rules, NEW ch \in Channels, ComingFrom(c, m, r, ch)'
      PROVE  ComingFrom(c, m, r, ch)
  <2>1. d.pc # "idle" /\ d.notice = <<m, "breached">>
        /\ (d.pc = "looking" \/ r \in d.rules \/ (d.rule = r /\ ch \in d.channels))
    BY <1>1, <1>2 DEF ComingFrom
  <2>2. r # Nothing
    BY NotifierAssumption
  <2> QED
    BY <2>1, <2>2 DEF ComingFrom
<1> QED
  BY <1>1, <1>2 DEF Follows

LEMMA DispatchIdle ==
    ASSUME NotifierTypeOK, NEW c \in Callers, disp' = [disp EXCEPT ![c] = NoDispatch]
    PROVE  Follows(c) /\ disp'[c] = NoDispatch /\ DispatchGood(c)'
<1>1. NoDispatch.rules \subseteq disp[c].rules
  BY NoDispatchFields
<1>2. Follows(c) /\ disp'[c] = NoDispatch
  BY <1>1, NoDispatchType, NoDispatchFields, DispatchUpdate
<1> QED
  BY <1>2, NoDispatchFields DEF DispatchGood

\* A step of a dispatch that leaves the log alone.
Quiet(c) ==
    /\ Follows(c)
    /\ DispatchGood(c)'
    /\ NotifierTypeOK'
    /\ CooldownEarned'
    /\ UNCHANGED log
    /\ UNCHANGED made

LEMMA LookUpQuiet ==
    ASSUME NotifierTypeOK, CooldownEarned, NEW c \in Callers, DispatchGood(c), LookUp(c)
    PROVE  Quiet(c)
<1> DEFINE n == disp[c].notice
<1> DEFINE d == [disp[c] EXCEPT !.pc = "rules", !.rules = RulesOf[n]]
<1>1. disp[c] \in Dispatch /\ disp[c].pc = "looking" /\ n \in Notices
      /\ disp[c].rule = Nothing /\ disp[c].channels = {}
  BY DEF NotifierTypeOK, DispatchGood, LookUp
<1>2. UNCHANGED <<window, cooling, log, made, budget>>
  BY DEF LookUp
<1>3. CASE disp' = [disp EXCEPT ![c] = NoDispatch]
  <2>1. Follows(c) /\ DispatchGood(c)'
    BY <1>3, DispatchIdle
  <2> QED
    BY <1>2, <2>1 DEF Quiet, NotifierTypeOK, Follows, CooldownEarned, Accepted
<1>4. CASE disp' = [disp EXCEPT ![c] = d]
  <2>1. RulesOf[n] \subseteq Rules
    BY <1>1, NotifierAssumption
  <2>2. d \in Dispatch /\ d.pc = "rules" /\ d.rules = RulesOf[n] /\ d.notice = n
        /\ d.rule = Nothing /\ d.channels = {}
    BY <1>1, <2>1 DEF Dispatch
  <2> HIDE DEF d
  <2>3. Follows(c) /\ disp'[c] = d
    BY <1>1, <1>4, <2>2, DispatchUpdate
  <2>4. DispatchGood(c)'
    BY <1>1, <2>1, <2>2, <2>3, NotifierAssumption DEF DispatchGood
  <2> QED
    BY <1>2, <2>3, <2>4 DEF Quiet, NotifierTypeOK, Follows, CooldownEarned, Accepted
<1> QED
  BY <1>3, <1>4 DEF LookUp

LEMMA TakeRuleQuiet ==
    ASSUME NotifierTypeOK, CooldownEarned, NEW c \in Callers, DispatchGood(c), NEW r \in Rules,
           TakeRule(c, r)
    PROVE  Quiet(c)
<1> DEFINE d == [disp[c] EXCEPT !.rules = disp[c].rules \ {r}]
<1> DEFINE e == [disp[c] EXCEPT !.pc = "channels", !.rule = r, !.rules = disp[c].rules \ {r},
                                !.channels = ChannelsOf[r], !.failed = FALSE]
<1>1. disp[c] \in Dispatch /\ disp[c].pc = "rules" /\ disp[c].notice \in Notices
      /\ disp[c].rule = Nothing /\ disp[c].channels = {} /\ disp[c].rules \subseteq Rules
      /\ r \in disp[c].rules
  BY DispatchFields DEF NotifierTypeOK, DispatchGood, TakeRule
<1>2. UNCHANGED <<window, cooling, log, made, budget>>
  BY DEF TakeRule
<1>3. CASE disp' = [disp EXCEPT ![c].rules = @ \ {r}]
  <2>1. disp' = [disp EXCEPT ![c] = d]
    BY <1>3
  <2>2. d \in Dispatch /\ d.pc = "rules" /\ d.rules = disp[c].rules \ {r}
        /\ d.notice = disp[c].notice /\ d.rule = Nothing /\ d.channels = {}
    BY <1>1 DEF Dispatch
  <2> HIDE DEF d
  <2>3. Follows(c) /\ disp'[c] = d
    BY <1>1, <2>1, <2>2, DispatchUpdate
  <2>4. DispatchGood(c)'
    BY <1>1, <2>2, <2>3, NotifierAssumption DEF DispatchGood
  <2> QED
    BY <1>2, <2>3, <2>4 DEF Quiet, NotifierTypeOK, Follows, CooldownEarned, Accepted
<1>4. CASE disp' = [disp EXCEPT ![c] = e]
  <2>1. ChannelsOf[r] \subseteq Channels
    BY NotifierAssumption
  <2>2. e \in Dispatch /\ e.pc = "channels" /\ e.rules = disp[c].rules \ {r}
        /\ e.notice = disp[c].notice /\ e.rule = r /\ e.channels = ChannelsOf[r]
    BY <1>1, <2>1 DEF Dispatch
  <2> HIDE DEF e
  <2>3. Follows(c) /\ disp'[c] = e
    BY <1>1, <1>4, <2>2, DispatchUpdate
  <2>4. DispatchGood(c)'
    BY <1>1, <2>2, <2>3 DEF DispatchGood
  <2> QED
    BY <1>2, <2>3, <2>4 DEF Quiet, NotifierTypeOK, Follows, CooldownEarned, Accepted
<1> QED
  BY <1>3, <1>4 DEF TakeRule

\* The property in terms of what has been queued.
CooldownServed ==
    \A r \in Rules : cooling[r] > 0 =>
        \E n \in Notices : \A ch \in ChannelsOf[r] : Queued(r, n, ch)

LEMMA CooldownMeans == (CooldownEarned <=> CooldownServed) /\ (CooldownEarned' <=> CooldownServed')
BY DEF CooldownEarned, CooldownServed, Queued

LEMMA EndRuleQuiet ==
    ASSUME NotifierTypeOK, CooldownEarned, NEW c \in Callers, DispatchGood(c), EndRule(c)
    PROVE  Quiet(c)
<1> DEFINE r == disp[c].rule
<1> DEFINE d == [disp[c] EXCEPT !.pc = "rules", !.rule = Nothing]
<1>1. disp[c] \in Dispatch /\ disp[c].pc = "channels" /\ disp[c].notice \in Notices
      /\ r \in Rules /\ disp[c].channels = {} /\ disp[c].rules \subseteq Rules
  BY DispatchFields DEF NotifierTypeOK, DispatchGood, EndRule
<1>2. UNCHANGED <<window, log, made, budget>>
  BY DEF EndRule
<1>3. disp' = [disp EXCEPT ![c] = d]
  BY <1>1 DEF EndRule, NotifierTypeOK
<1>4. d \in Dispatch /\ d.pc = "rules" /\ d.rules = disp[c].rules
      /\ d.notice = disp[c].notice /\ d.rule = Nothing /\ d.channels = {}
  BY <1>1 DEF Dispatch
<1> HIDE DEF d
<1>5. Follows(c) /\ disp'[c] = d
  BY <1>1, <1>3, <1>4, DispatchUpdate
<1>6. DispatchGood(c)'
  BY <1>1, <1>4, <1>5, NotifierAssumption DEF DispatchGood
<1>7. Cooldown[r] \in Nat
  BY <1>1, NotifierAssumption
<1>8. DOMAIN cooling = Rules /\ \A s \in Rules : cooling[s] \in 0..Cooldown[s]
  BY DEF NotifierTypeOK
<1>9. DOMAIN cooling' = Rules /\ \A s \in Rules : cooling'[s] \in 0..Cooldown[s]
  BY <1>1, <1>7, <1>8 DEF EndRule
<1>10. NotifierTypeOK'
  BY <1>2, <1>5, <1>9 DEF NotifierTypeOK, Follows
<1>11. CooldownEarned'
  <2>0. \A s \in Rules, n \in Notices : \A ch \in ChannelsOf[s] : Queued(s, n, ch) => Queued(s, n, ch)'
    BY <1>2 DEF Queued, Accepted
  <2> SUFFICES ASSUME NEW s \in Rules, cooling'[s] > 0
               PROVE  \E n \in Notices : \A ch \in ChannelsOf[s] : Queued(s, n, ch)
    BY <2>0, CooldownMeans DEF CooldownServed
  <2>1. CASE cooling[s] > 0
    BY <2>1, CooldownMeans DEF CooldownServed
  <2>2. CASE ~(cooling[s] > 0)
    <3>1. s = r /\ ~disp[c].failed
      BY <1>8, <2>2 DEF EndRule
    <3>2. \A ch \in ChannelsOf[s] : Queued(s, disp[c].notice, ch)
      BY <1>1, <3>1 DEF DispatchGood
    <3> QED
      BY <1>1, <3>2
  <2> QED
    BY <2>1, <2>2
<1> QED
  BY <1>2, <1>5, <1>6, <1>10, <1>11 DEF Quiet

LEMMA MarkQuiet ==
    ASSUME NotifierTypeOK, CooldownEarned, NEW c \in Callers, DispatchGood(c), Mark(c)
    PROVE  Quiet(c)
<1>1. Follows(c) /\ DispatchGood(c)'
  BY DispatchIdle DEF Mark
<1>2. window' \in [Notices -> 0..Window]
  <2>1. Window \in 0..Window
    BY NotifierAssumption
  <2> QED
    BY <2>1 DEF Mark, NotifierTypeOK
<1> QED
  BY <1>1, <1>2 DEF Mark, Quiet, NotifierTypeOK, Follows, CooldownEarned, Accepted

-----------------------------------------------------------------------------
(* The log grows                                                             *)

LEMMA OneMore ==
    ASSUME NEW S, IsFiniteSet(S), NEW x
    PROVE  Cardinality(S \cup {x}) <= Cardinality(S) + 1
<1>1. Cardinality(S) \in Nat
  BY FS_CardinalityType
<1>2. Cardinality(S \cup {x}) = Cardinality(S) \/ Cardinality(S \cup {x}) = Cardinality(S) + 1
  BY FS_AddElement
<1> QED
  BY <1>1, <1>2

LEMMA EntriesFinite ==
    ASSUME NEW m, NEW r, NEW ch
    PROVE  /\ IsFiniteSet(Entries(m, r, ch)) /\ Cardinality(Entries(m, r, ch)) \in Nat
           /\ IsFiniteSet(Entries(m, r, ch)') /\ Cardinality(Entries(m, r, ch)') \in Nat
<1>1. IsFiniteSet(Logs)
  BY FS_Interval, NotifierAssumption DEF Logs
<1>2. Entries(m, r, ch) \subseteq Logs /\ Entries(m, r, ch)' \subseteq Logs
  BY DEF Entries
<1> QED
  BY <1>1, <1>2, FS_Subset, FS_CardinalityType

LEMMA CountKept ==
    ASSUME Counted, restarts \in Nat, UNCHANGED restarts,
           NEW m \in Metrics, NEW r \in Rules, NEW ch \in Channels,
           Entries(m, r, ch)' = Entries(m, r, ch),
           Coming(m, r, ch)' => Coming(m, r, ch),
           Open(m)' => Open(m)
    PROVE  Cardinality(Entries(m, r, ch)') + One(Coming(m, r, ch)') + One(Open(m)')
               <= restarts' + 1
<1>1. Cardinality(Entries(m, r, ch)) + One(Coming(m, r, ch)) + One(Open(m)) <= restarts + 1
  BY DEF Counted
<1>2. One(Coming(m, r, ch)') <= One(Coming(m, r, ch)) /\ One(Open(m)') <= One(Open(m))
  BY DEF One
<1>3. One(Coming(m, r, ch)') \in Nat /\ One(Coming(m, r, ch)) \in Nat
      /\ One(Open(m)') \in Nat /\ One(Open(m)) \in Nat
  BY DEF One
<1> QED
  BY <1>1, <1>2, <1>3, EntriesFinite

\* What the log says of accepted entries stays.
Keeps ==
    \A l \in Logs : Accepted(l) =>
        /\ Accepted(l)'
        /\ log'[l].rule = log[l].rule /\ log'[l].notice = log[l].notice
        /\ log'[l].channel = log[l].channel

LEMMA QueuedKept ==
    ASSUME Keeps, NEW r, NEW n, NEW ch, Queued(r, n, ch)
    PROVE  Queued(r, n, ch)'
BY DEF Keeps, Queued

LEMMA CooldownKept ==
    ASSUME Keeps, CooldownEarned, \A r \in Rules : cooling'[r] > 0 => cooling[r] > 0
    PROVE  CooldownEarned'
BY QueuedKept, CooldownMeans DEF CooldownServed

LEMMA DispatchKept ==
    ASSUME Keeps, NEW c \in Callers, DispatchGood(c), disp'[c] = disp[c]
    PROVE  DispatchGood(c)'
BY QueuedKept DEF DispatchGood

\* A new row at the end of the log.
LEMMA LogGrows ==
    ASSUME NotifierTypeOK, LogGood, made < MaxLogs, NEW row \in LogRows, RowGood(row),
           log' = [log EXCEPT ![made + 1] = row], made' = made + 1
    PROVE  /\ made + 1 \in Logs /\ log'[made + 1] = row
           /\ log' \in [Logs -> LogRows] /\ made' \in 0..MaxLogs
           /\ \A l \in Logs : l # made + 1 => log'[l] = log[l]
           /\ LogGood' /\ Keeps
<1>1. made \in 0..MaxLogs /\ log \in [Logs -> LogRows]
  BY DEF NotifierTypeOK
<1>2. made + 1 \in Logs /\ made' \in 0..MaxLogs
  BY <1>1, NotifierAssumption DEF Logs
<1>3. log'[made + 1] = row /\ log' \in [Logs -> LogRows]
      /\ \A l \in Logs : l # made + 1 => log'[l] = log[l]
  BY <1>1, <1>2
<1>4. LogGood'
  <2>1. \A l \in Logs : l > made' => l > made /\ l # made + 1
    BY <1>1, NotifierAssumption DEF Logs
  <2> QED
    BY <1>3, <2>1 DEF LogGood
<1>5. ~Accepted(made + 1)
  <2>1. made + 1 > made
    BY <1>1, NotifierAssumption
  <2> QED
    BY <1>2, <2>1, NoLogGood DEF LogGood, Accepted
<1>6. Keeps
  BY <1>3, <1>5 DEF Keeps, Accepted
<1> QED
  BY <1>2, <1>3, <1>4, <1>6

\* What a step that queues one channel of a dispatch does.
Queues(c, ch) ==
    /\ disp[c].pc = "channels" /\ ch \in disp[c].channels
    /\ Follows(c)
    /\ disp'[c].pc = "channels" /\ disp'[c].rule = disp[c].rule
    /\ disp'[c].rules = disp[c].rules /\ disp'[c].notice = disp[c].notice
    /\ disp'[c].channels = disp[c].channels \ {ch}
    /\ NotifierTypeOK' /\ LogGood' /\ Keeps
    /\ ~disp'[c].failed =>
          /\ ~disp[c].failed
          /\ \E r \in Rules, n \in Notices :
                disp[c].rule = r /\ disp[c].notice = n /\ Queued(r, n, ch)'
    /\ \/ UNCHANGED log
       \/ /\ made + 1 \in Logs
          /\ \A l \in Logs : l # made + 1 => log'[l] = log[l]
          /\ log'[made + 1].rule = disp[c].rule /\ log'[made + 1].channel = ch
          /\ log'[made + 1].notice = disp[c].notice
          /\ log[made + 1] = NoLog
    /\ UNCHANGED <<window, cooling>>

LEMMA QueueQueues ==
    ASSUME NotifierTypeOK, LogGood, NEW c \in Callers, DispatchGood(c), NEW ch \in Channels,
           Queue(c, ch)
    PROVE  Queues(c, ch)
<1> DEFINE d == [disp[c] EXCEPT !.channels = disp[c].channels \ {ch}]
<1> DEFINE e == [disp[c] EXCEPT !.channels = disp[c].channels \ {ch}, !.failed = TRUE]
<1>1. disp[c] \in Dispatch /\ disp[c].pc = "channels" /\ ch \in disp[c].channels
      /\ disp[c].notice \in Notices /\ disp[c].rule \in Rules /\ made < MaxLogs
      /\ disp[c].channels \subseteq Channels /\ UNCHANGED <<window, cooling>>
  BY DispatchFields DEF NotifierTypeOK, DispatchGood, Queue
<1>2. ASSUME NEW task \in {"none", "queued"}
      PROVE  /\ Entry(c, ch, task) \in LogRows
             /\ Entry(c, ch, task).task = task /\ Entry(c, ch, task).rule = disp[c].rule
             /\ Entry(c, ch, task).notice = disp[c].notice /\ Entry(c, ch, task).channel = ch
             /\ RowGood(Entry(c, ch, task))
  <2>1. 0 \in 0..MaxRetries
    BY NotifierAssumption
  <2> DEFINE row == Entry(c, ch, task)
  <2>2. row = [NoLog EXCEPT !.status = "pending", !.task = task, !.notice = disp[c].notice,
                            !.rule = disp[c].rule, !.channel = ch]
    BY DEF Entry
  <2>3. NoLog \in LogRows /\ NoLog.copies = 0 /\ NoLog.retries = 0
    BY NoLogType DEF NoLog
  <2> HIDE DEF row
  <2>4. task \in {"none", "queued", "delivered", "ended", "dead"}
    BY <1>2
  <2>5. row \in LogRows /\ row.status = "pending" /\ row.task = task /\ row.rule = disp[c].rule
        /\ row.notice = disp[c].notice /\ row.channel = ch /\ row.copies = 0 /\ row.retries = 0
    BY <1>1, <2>2, <2>3, <2>4 DEF LogRows
  <2>6. RowGood(row)
    BY <1>2, <2>1, <2>5 DEF RowGood
  <2> QED
    BY <2>5, <2>6 DEF row
<1>3. d \in Dispatch /\ d.pc = "channels" /\ d.rule = disp[c].rule /\ d.rules = disp[c].rules
      /\ d.notice = disp[c].notice /\ d.channels = disp[c].channels \ {ch}
      /\ d.failed = disp[c].failed
  BY <1>1 DEF Dispatch
<1>4. e \in Dispatch /\ e.pc = "channels" /\ e.rule = disp[c].rule /\ e.rules = disp[c].rules
      /\ e.notice = disp[c].notice /\ e.channels = disp[c].channels \ {ch}
      /\ e.failed = TRUE
  BY <1>1 DEF Dispatch
<1>a. ASSUME made + 1 \in Logs
      PROVE  log[made + 1] = NoLog
  <2>1. made + 1 > made
    BY NotifierAssumption DEF NotifierTypeOK
  <2> QED
    BY <1>a, <2>1 DEF LogGood
<1>5. CASE /\ log' = [log EXCEPT ![made + 1] = Entry(c, ch, "queued")]
           /\ made' = made + 1
           /\ disp' = [disp EXCEPT ![c].channels = @ \ {ch}]
           /\ UNCHANGED budget
  <2>1. disp' = [disp EXCEPT ![c] = d]
    BY <1>5
  <2> HIDE DEF d, e
  <2>2. Follows(c) /\ disp'[c] = d
    BY <1>1, <1>3, <2>1, DispatchUpdate
  <2>3. /\ made + 1 \in Logs /\ log'[made + 1] = Entry(c, ch, "queued")
        /\ log' \in [Logs -> LogRows] /\ made' \in 0..MaxLogs
        /\ \A l \in Logs : l # made + 1 => log'[l] = log[l]
        /\ LogGood' /\ Keeps
    BY <1>1, <1>2, <1>5, LogGrows
  <2>4. NotifierTypeOK'
    BY <1>1, <1>5, <2>2, <2>3 DEF NotifierTypeOK, Follows
  <2>a. /\ Entry(c, ch, "queued").task = "queued" /\ Entry(c, ch, "queued").rule = disp[c].rule
        /\ Entry(c, ch, "queued").notice = disp[c].notice
        /\ Entry(c, ch, "queued").channel = ch
    BY <1>2
  <2>5. \E r \in Rules, n \in Notices :
            disp[c].rule = r /\ disp[c].notice = n /\ Queued(r, n, ch)'
    <3>1. PICK r \in Rules, n \in Notices : disp[c].rule = r /\ disp[c].notice = n
      BY <1>1
    <3>2. Queued(r, n, ch)'
      BY <2>3, <2>a, <3>1 DEF Queued, Accepted
    <3> QED
      BY <3>1, <3>2
  <2> QED
    BY <1>1, <1>2, <1>3, <1>a, <2>2, <2>3, <2>4, <2>5 DEF Queues
<1>6. CASE /\ Fail
           /\ log' = [log EXCEPT ![made + 1] = Entry(c, ch, "none")] /\ made' = made + 1
           /\ disp' = [disp EXCEPT ![c].channels = @ \ {ch}, ![c].failed = TRUE]
  <2>1. disp' = [disp EXCEPT ![c] = e]
    BY <1>1, <1>6 DEF NotifierTypeOK
  <2> HIDE DEF d, e
  <2>2. Follows(c) /\ disp'[c] = e
    BY <1>1, <1>4, <2>1, DispatchUpdate
  <2>3. /\ made + 1 \in Logs /\ log'[made + 1] = Entry(c, ch, "none")
        /\ log' \in [Logs -> LogRows] /\ made' \in 0..MaxLogs
        /\ \A l \in Logs : l # made + 1 => log'[l] = log[l]
        /\ LogGood' /\ Keeps
    BY <1>1, <1>2, <1>6, LogGrows
  <2>4. budget' \in [failures : Nat, events : Nat, checks : Nat, ops : Nat]
    BY <1>6, SpendType DEF Fail, NotifierTypeOK
  <2>5. NotifierTypeOK'
    BY <1>1, <2>2, <2>3, <2>4 DEF NotifierTypeOK, Follows
  <2> QED
    BY <1>1, <1>2, <1>4, <1>a, <2>2, <2>3, <2>5 DEF Queues
<1>7. CASE /\ Fail /\ UNCHANGED <<log, made>>
           /\ disp' = [disp EXCEPT ![c].channels = @ \ {ch}, ![c].failed = TRUE]
  <2>1. disp' = [disp EXCEPT ![c] = e]
    BY <1>1, <1>7 DEF NotifierTypeOK
  <2> HIDE DEF d, e
  <2>2. Follows(c) /\ disp'[c] = e
    BY <1>1, <1>4, <2>1, DispatchUpdate
  <2>3. LogGood' /\ Keeps
    BY <1>7 DEF LogGood, Keeps, Accepted
  <2>4. budget' \in [failures : Nat, events : Nat, checks : Nat, ops : Nat]
    BY <1>7, SpendType DEF Fail, NotifierTypeOK
  <2>5. NotifierTypeOK'
    BY <1>1, <1>7, <2>2, <2>4 DEF NotifierTypeOK, Follows
  <2> QED
    BY <1>1, <1>4, <1>7, <2>2, <2>3, <2>5 DEF Queues
<1> QED
  BY <1>5, <1>6, <1>7 DEF Queue

-----------------------------------------------------------------------------
(* Steps of the notifier                                                     *)

LEMMA DeskTypeKept ==
    ASSUME TypeOK, NotifierTypeOK', UNCHANGED deskVars
    PROVE  TypeOK'
BY DEF TypeOK, deskVars

\* The invariant of the desk, while its rows stay and dispatches only go on.
LEMMA DeskKept ==
    ASSUME ChecksGood, AgentsGood, NEW c \in Callers, Follows(c), UNCHANGED deskVars
    PROVE  ChecksGood' /\ AgentsGood' /\ \A m \in Metrics : Open(m)' <=> Open(m)
<1>1. UNCHANGED <<snap, agent, check>>
  BY DEF deskVars
<1>2. OneCheck'
  BY <1>1 DEF OneCheck, ChecksGood
<1>3. ASSUME NEW d \in Callers PROVE CheckGood(d)'
  <2>1. CheckGood(d)
    BY DEF ChecksGood
  <2>2. disp'[d].pc # "idle" => disp[d].pc # "idle" /\ disp'[d].notice = disp[d].notice
    BY DEF Follows
  <2> QED
    BY <1>1, <2>1, <2>2 DEF CheckGood
<1>4. \A m \in Metrics : Open(m)' <=> Open(m)
  BY <1>1 DEF Open, ListedNow
<1> QED
  BY <1>1, <1>2, <1>3, <1>4 DEF ChecksGood, AgentsGood

LEMMA ComingKept ==
    ASSUME NEW c \in Callers, Follows(c), NEW m \in Metrics, NEW r \in Rules, NEW ch \in Channels,
           Coming(m, r, ch)'
    PROVE  Coming(m, r, ch)
<1>1. PICK d \in Callers : ComingFrom(d, m, r, ch)'
  BY DEF Coming
<1>2. ComingFrom(d, m, r, ch)
  BY <1>1 DEF Follows, ComingFrom
<1> QED
  BY <1>2 DEF Coming

LEMMA QuietStep ==
    ASSUME IInv, NEW c \in Callers, Quiet(c), UNCHANGED deskVars
    PROVE  IInv'
<1>1. Keeps
  BY DEF Quiet, Keeps, Accepted
<1>2. DispatchesGood'
  <2> SUFFICES ASSUME NEW d \in Callers, d # c PROVE DispatchGood(d)'
    BY DEF DispatchesGood, Quiet
  <2> QED
    BY <1>1, DispatchKept DEF IInv, DispatchesGood, Quiet, Follows
<1>3. LogGood'
  BY DEF IInv, LogGood, Quiet
<1>4. TypeOK' /\ ChecksGood' /\ AgentsGood' /\ \A m \in Metrics : Open(m)' <=> Open(m)
  BY DeskTypeKept, DeskKept DEF IInv, Quiet
<1>5. Counted'
  <2>1. UNCHANGED restarts /\ restarts \in Nat
    BY DEF deskVars, IInv, TypeOK
  <2> SUFFICES ASSUME NEW m \in Metrics, NEW r \in Rules, NEW ch \in Channels
               PROVE  Cardinality(Entries(m, r, ch)') + One(Coming(m, r, ch)') + One(Open(m)')
                          <= restarts' + 1
    BY DEF Counted
  <2>2. Entries(m, r, ch)' = Entries(m, r, ch)
    BY DEF Quiet, Entries
  <2> QED
    BY <1>4, <2>1, <2>2, CountKept, ComingKept DEF IInv, Quiet
<1> QED
  BY <1>2, <1>3, <1>4, <1>5 DEF IInv, Quiet

LEMMA TaskStep ==
    ASSUME IInv, NEW l \in Logs, TaskShape(l), UNCHANGED deskVars
    PROVE  IInv'
<1>1. Keeps
  BY DEF TaskShape, Keeps, Accepted
<1>2. DispatchesGood'
  BY <1>1, DispatchKept DEF IInv, DispatchesGood, TaskShape
<1>3. LogGood'
  <2>1. ~(l > made)
    BY NoLogGood DEF IInv, LogGood, TaskShape
  <2> QED
    BY <2>1 DEF IInv, LogGood, TaskShape
<1>4. NotifierTypeOK'
  BY DEF TaskShape, NotifierTypeOK, IInv, TypeOK
<1>5. TypeOK'
  BY <1>4, DeskTypeKept DEF IInv
<1>6. CooldownEarned'
  BY <1>1, CooldownKept DEF IInv, TaskShape
<1>7. ChecksGood' /\ AgentsGood' /\ \A m \in Metrics : Open(m)' <=> Open(m)
  BY DEF IInv, ChecksGood, OneCheck, CheckGood, AgentsGood, TaskShape, deskVars, Open, ListedNow
<1>8. Counted'
  <2>1. UNCHANGED restarts /\ restarts \in Nat
    BY DEF deskVars, IInv, TypeOK
  <2> SUFFICES ASSUME NEW m \in Metrics, NEW r \in Rules, NEW ch \in Channels
               PROVE  Cardinality(Entries(m, r, ch)') + One(Coming(m, r, ch)') + One(Open(m)')
                          <= restarts' + 1
    BY DEF Counted
  <2>2. Entries(m, r, ch)' = Entries(m, r, ch)
    BY DEF TaskShape, Entries
  <2>3. Coming(m, r, ch)' => Coming(m, r, ch)
    BY DEF TaskShape, Coming, ComingFrom
  <2> QED
    BY <1>7, <2>1, <2>2, <2>3, CountKept DEF IInv
<1> QED
  BY <1>2, <1>3, <1>5, <1>6, <1>7, <1>8 DEF IInv

LEMMA QueueStep ==
    ASSUME IInv, NEW c \in Callers, NEW ch \in Channels, Queues(c, ch), UNCHANGED deskVars
    PROVE  IInv'
<1>1. DispatchesGood'
  <2>1. ASSUME NEW d \in Callers, d # c PROVE DispatchGood(d)'
    BY <2>1, DispatchKept DEF IInv, DispatchesGood, Queues, Follows
  <2>2. DispatchGood(c)'
    <3>1. DispatchGood(c)
      BY DEF IInv, DispatchesGood
    <3>2. PICK r \in Rules, n \in Notices : disp[c].rule = r /\ disp[c].notice = n
      BY <3>1 DEF DispatchGood, Queues
    <3>3. ASSUME ~disp'[c].failed, NEW k \in ChannelsOf[r] \ disp'[c].channels
          PROVE  Queued(r, n, k)'
      <4>1. CASE k = ch
        BY <3>2, <3>3, <4>1 DEF Queues
      <4>2. CASE k # ch
        <5>1. Queued(r, n, k)
          BY <3>1, <3>2, <3>3, <4>2 DEF DispatchGood, Queues
        <5> QED
          BY <5>1, QueuedKept DEF Queues
      <4> QED
        BY <4>1, <4>2
    <3>4. disp'[c].rule = r /\ disp'[c].notice = n
      BY <3>2 DEF Queues
    <3>5. ~disp'[c].failed => \A k \in ChannelsOf[disp'[c].rule] \ disp'[c].channels :
              \E l \in Logs : /\ log'[l].rule = disp'[c].rule /\ log'[l].notice = disp'[c].notice
                             /\ log'[l].channel = k /\ log'[l].task # "none"
      BY <3>3, <3>4 DEF Queued, Accepted
    <3>6. /\ disp'[c].pc = "channels" /\ disp'[c].notice \in Notices /\ disp'[c].rule \in Rules
          /\ disp'[c].rule \notin disp'[c].rules
      BY <3>1, <3>2 DEF DispatchGood, Queues
    <3> QED
      BY <3>5, <3>6 DEF DispatchGood, Queued, Accepted
  <2> QED
    BY <2>1, <2>2 DEF DispatchesGood
<1>2. TypeOK' /\ ChecksGood' /\ AgentsGood' /\ \A m \in Metrics : Open(m)' <=> Open(m)
  BY DeskTypeKept, DeskKept DEF IInv, Queues
<1>3. CooldownEarned'
  BY CooldownKept DEF IInv, Queues
<1>4. Counted'
  <2>1. UNCHANGED restarts /\ restarts \in Nat
    BY DEF deskVars, IInv, TypeOK
  <2> SUFFICES ASSUME NEW m \in Metrics, NEW r \in Rules, NEW k \in Channels
               PROVE  Cardinality(Entries(m, r, k)') + One(Coming(m, r, k)') + One(Open(m)')
                          <= restarts' + 1
    BY DEF Counted
  <2>2. CASE Entries(m, r, k)' = Entries(m, r, k)
    BY <1>2, <2>1, <2>2, CountKept, ComingKept DEF IInv, Queues
  <2>3. CASE Entries(m, r, k)' # Entries(m, r, k)
    <3>a. /\ made + 1 \in Logs
          /\ \A l \in Logs : l # made + 1 => log'[l] = log[l]
          /\ log'[made + 1].rule = disp[c].rule /\ log'[made + 1].channel = ch
          /\ log'[made + 1].notice = disp[c].notice
          /\ log[made + 1].rule = Nothing
      BY <2>3 DEF Queues, Entries, NoLog
    <3>b. made + 1 \notin Entries(m, r, k)
      BY <3>a, NotifierAssumption DEF Entries
    <3>c. \A l \in Logs : l # made + 1 => (l \in Entries(m, r, k)' <=> l \in Entries(m, r, k))
      BY <3>a DEF Entries
    <3>d. Entries(m, r, k) \subseteq Logs /\ Entries(m, r, k)' \subseteq Logs
      BY DEF Entries
    <3>e. made + 1 \in Entries(m, r, k)' /\ Entries(m, r, k)' = Entries(m, r, k) \cup {made + 1}
      BY <2>3, <3>a, <3>b, <3>c, <3>d
    <3>1. /\ made + 1 \in Logs /\ Entries(m, r, k)' = Entries(m, r, k) \cup {made + 1}
          /\ disp[c].rule = r /\ ch = k /\ disp[c].notice = <<m, "breached">>
      BY <3>a, <3>e DEF Entries
    <3>f. Cardinality(Entries(m, r, k) \cup {made + 1}) <= Cardinality(Entries(m, r, k)) + 1
      BY EntriesFinite, OneMore
    <3>2. Cardinality(Entries(m, r, k)') <= Cardinality(Entries(m, r, k)) + 1
      BY <3>1, <3>f
    <3>3. Coming(m, r, k)
      BY <3>1 DEF Coming, ComingFrom, Queues
    <3>4. ~Coming(m, r, k)'
      <4> SUFFICES ASSUME NEW d \in Callers, ComingFrom(d, m, r, k)' PROVE FALSE
        BY DEF Coming
      <4>1. d # c
        BY <3>1 DEF ComingFrom, Queues, IInv, DispatchesGood, DispatchGood
      <4>2. disp[d].pc # "idle" /\ disp[d].notice = <<m, "breached">>
        BY <4>1 DEF ComingFrom, Queues, Follows
      <4>3. <<m, "breached">> \notin OtherNotices
        BY TicketDeskAssumption DEF Levels
      <4>4. check[c].pc # "idle" /\ check[d].pc # "idle"
        BY <3>1, <4>2, <4>3 DEF IInv, ChecksGood, CheckGood, Queues
      <4> QED
        BY <4>1, <4>4 DEF IInv, ChecksGood, OneCheck
    <3>5. One(Coming(m, r, k)') = 0 /\ One(Coming(m, r, k)) = 1
      BY <3>3, <3>4 DEF One
    <3>6. One(Open(m)') = One(Open(m)) /\ One(Open(m)) \in Nat
      BY <1>2 DEF One
    <3>7. Cardinality(Entries(m, r, k)) + One(Coming(m, r, k)) + One(Open(m)) <= restarts + 1
      BY DEF IInv, Counted
    <3> QED
      BY <2>1, <3>2, <3>5, <3>6, <3>7, EntriesFinite
  <2> QED
    BY <2>2, <2>3
<1> QED
  BY <1>1, <1>2, <1>3, <1>4 DEF IInv, Queues

LEMMA NotifierStep ==
    ASSUME IInv, NotifierNext, UNCHANGED deskVars
    PROVE  IInv'
<1>1. ASSUME NEW c \in Callers, Dispatching(c) PROVE IInv'
  <2>1. NotifierTypeOK /\ LogGood /\ CooldownEarned /\ DispatchGood(c)
    BY DEF IInv, TypeOK, DispatchesGood
  <2>2. CASE LookUp(c)
    BY <2>1, <2>2, LookUpQuiet, QuietStep
  <2>3. CASE EndRule(c)
    BY <2>1, <2>3, EndRuleQuiet, QuietStep
  <2>4. CASE Mark(c)
    BY <2>1, <2>4, MarkQuiet, QuietStep
  <2>5. ASSUME NEW r \in Rules, TakeRule(c, r) PROVE IInv'
    BY <2>1, <2>5, TakeRuleQuiet, QuietStep
  <2>6. ASSUME NEW ch \in Channels, Queue(c, ch) PROVE IInv'
    BY <2>1, <2>6, QueueQueues, QueueStep
  <2> QED
    BY <1>1, <2>2, <2>3, <2>4, <2>5, <2>6 DEF Dispatching
<1>2. ASSUME NEW l \in Logs, Task(l) PROVE IInv'
  BY <1>2, TaskHasShape, TaskStep DEF IInv, TypeOK
<1> QED
  BY <1>1, <1>2 DEF NotifierNext

-----------------------------------------------------------------------------
(* The beginning of a dispatch                                               *)

\* Caller c begins to tell of n, or finds no rule for it.
Begins(c, n) ==
    /\ disp' \in [Callers -> Dispatch]
    /\ \A d \in Callers : d # c => disp'[d] = disp[d]
    /\ DispatchGood(c)'
    /\ disp'[c].pc # "idle" => disp'[c].notice = n

LEMMA BeginBegins ==
    ASSUME NotifierTypeOK, NEW c \in Callers, NEW n \in Notices, Begin(c, n)
    PROVE  Begins(c, n)
<1> DEFINE d == [NoDispatch EXCEPT !.pc = "looking", !.notice = n]
<1>1. d \in Dispatch /\ d.pc = "looking" /\ d.notice = n /\ d.rules = {} /\ d.rule = Nothing
      /\ d.channels = {}
  BY NoDispatchType, NoDispatchFields DEF Dispatch
<1>2. disp' = [disp EXCEPT ![c] = NoDispatch] \/ disp' = [disp EXCEPT ![c] = d]
  BY DEF Begin
<1> HIDE DEF d
<1>3. CASE disp' = [disp EXCEPT ![c] = NoDispatch]
  BY <1>3, DispatchIdle, NoDispatchFields DEF Begins, Follows
<1>4. CASE disp' = [disp EXCEPT ![c] = d]
  <2>1. disp'[c] = d /\ disp' \in [Callers -> Dispatch]
        /\ \A e \in Callers : e # c => disp'[e] = disp[e]
    BY <1>1, <1>4 DEF NotifierTypeOK
  <2> QED
    BY <1>1, <2>1 DEF Begins, DispatchGood
<1> QED
  BY <1>2, <1>3, <1>4

LEMMA LogStays ==
    ASSUME IInv, UNCHANGED log, UNCHANGED made
    PROVE  /\ LogGood' /\ Keeps
           /\ UNCHANGED cooling => CooldownEarned'
           /\ \A m \in Metrics, r \in Rules, ch \in Channels :
                 Entries(m, r, ch)' = Entries(m, r, ch)
<1>1. Keeps
  BY DEF Keeps, Accepted
<1>2. UNCHANGED cooling => CooldownEarned'
  BY <1>1, CooldownKept DEF IInv
<1> QED
  BY <1>1, <1>2 DEF IInv, LogGood, Entries

LEMMA BeginsDispatches ==
    ASSUME IInv, UNCHANGED log, UNCHANGED made, NEW c \in Callers, NEW n, Begins(c, n)
    PROVE  DispatchesGood'
<1> SUFFICES ASSUME NEW d \in Callers, d # c PROVE DispatchGood(d)'
  BY DEF DispatchesGood, Begins
<1> QED
  BY LogStays, DispatchKept DEF IInv, DispatchesGood, Begins

LEMMA AnnounceStep ==
    ASSUME IInv, NEW c \in Callers, NEW n \in OtherNotices, check[c].pc = "idle",
           Announce(c, n), UNCHANGED deskVars
    PROVE  IInv'
<1>1. n \in Notices /\ \A m \in Metrics : n # <<m, "breached">>
  BY TicketDeskAssumption DEF Levels
<1>2. Begins(c, n) /\ UNCHANGED <<window, cooling, log, made>>
  BY <1>1, BeginBegins DEF Announce, IInv, TypeOK
<1>3. LogGood' /\ Keeps /\ CooldownEarned' /\ DispatchesGood'
  BY <1>2, LogStays, BeginsDispatches
<1>4. budget' \in [failures : Nat, events : Nat, checks : Nat, ops : Nat]
  BY SpendType DEF Announce, IInv, TypeOK, NotifierTypeOK
<1>5. NotifierTypeOK'
  BY <1>2, <1>4 DEF IInv, TypeOK, NotifierTypeOK, Begins
<1>6. TypeOK'
  BY <1>5, DeskTypeKept DEF IInv
<1>7. UNCHANGED <<snap, agent, check, restarts>>
  BY DEF deskVars
<1>8. OneCheck' /\ AgentsGood' /\ \A m \in Metrics : Open(m)' <=> Open(m)
  BY <1>7 DEF IInv, ChecksGood, OneCheck, AgentsGood, Open, ListedNow
<1>9. ASSUME NEW d \in Callers PROVE CheckGood(d)'
  <2>1. CheckGood(d)
    BY DEF IInv, ChecksGood
  <2>2. CASE d = c
    BY <1>2, <1>7, <2>1, <2>2 DEF CheckGood, Begins
  <2>3. CASE d # c
    BY <1>2, <1>7, <2>1, <2>3 DEF CheckGood, Begins
  <2> QED
    BY <2>2, <2>3
<1>10. Counted'
  <2>1. restarts \in Nat
    BY DEF IInv, TypeOK
  <2> SUFFICES ASSUME NEW m \in Metrics, NEW r \in Rules, NEW ch \in Channels
               PROVE  Cardinality(Entries(m, r, ch)') + One(Coming(m, r, ch)') + One(Open(m)')
                          <= restarts' + 1
    BY DEF Counted
  <2>2. Entries(m, r, ch)' = Entries(m, r, ch)
    BY <1>2, LogStays
  <2>3. ASSUME NEW d \in Callers, ComingFrom(d, m, r, ch)' PROVE ComingFrom(d, m, r, ch)
    BY <1>1, <1>2, <2>3 DEF ComingFrom, Begins
  <2>4. Coming(m, r, ch)' => Coming(m, r, ch)
    BY <2>3 DEF Coming
  <2> QED
    BY <1>7, <1>8, <2>1, <2>2, <2>4, CountKept DEF IInv
<1> QED
  BY <1>3, <1>6, <1>8, <1>9, <1>10 DEF IInv, ChecksGood

-----------------------------------------------------------------------------
(* Steps that leave the notifier alone, but for its clocks                   *)

LEMMA NotifierStays ==
    ASSUME IInv, UNCHANGED <<disp, log, made>>,
           \A r \in Rules : cooling'[r] > 0 => cooling[r] > 0
    PROVE  /\ DispatchesGood' /\ LogGood' /\ CooldownEarned'
           /\ \A m \in Metrics, r \in Rules, ch \in Channels :
                 /\ Entries(m, r, ch)' = Entries(m, r, ch)
                 /\ Coming(m, r, ch)' => Coming(m, r, ch)
<1>1. Keeps /\ LogGood' /\ \A m \in Metrics, r \in Rules, ch \in Channels :
          Entries(m, r, ch)' = Entries(m, r, ch)
  BY LogStays
<1>2. CooldownEarned'
  BY <1>1, CooldownKept DEF IInv
<1>3. DispatchesGood'
  BY <1>1, DispatchKept DEF IInv, DispatchesGood
<1>4. \A m \in Metrics, r \in Rules, ch \in Channels : Coming(m, r, ch)' => Coming(m, r, ch)
  BY DEF Coming, ComingFrom
<1> QED
  BY <1>1, <1>2, <1>3, <1>4

LEMMA TickStep ==
    ASSUME IInv, Tick
    PROVE  IInv'
<1>1. UNCHANGED <<ticket, snap, agent, check, restarts, disp, log, made, budget>>
  BY DEF Tick, NotifierTick
<1>2. window' \in [Notices -> 0..Window]
  <2>1. \A n \in Notices : window[n] \in 0..Window
    BY DEF IInv, TypeOK, NotifierTypeOK
  <2>2. \A n \in Notices : (IF window[n] > 0 THEN window[n] - 1 ELSE 0) \in 0..Window
    BY <2>1, NotifierAssumption
  <2> QED
    BY <2>2 DEF Tick, NotifierTick
<1>3. /\ DOMAIN cooling' = Rules
      /\ \A r \in Rules : cooling'[r] \in 0..Cooldown[r] /\ (cooling'[r] > 0 => cooling[r] > 0)
  <2>1. \A r \in Rules : cooling[r] \in 0..Cooldown[r] /\ Cooldown[r] \in Nat
    BY NotifierAssumption DEF IInv, TypeOK, NotifierTypeOK
  <2> QED
    BY <2>1 DEF Tick, NotifierTick
<1>4. time' \in 0..MaxTime
  BY TicketDeskAssumption DEF Tick, IInv, TypeOK
<1>5. NotifierTypeOK'
  BY <1>1, <1>2, <1>3 DEF IInv, TypeOK, NotifierTypeOK
<1>6. TypeOK'
  BY <1>1, <1>4, <1>5 DEF IInv, TypeOK
<1>7. /\ DispatchesGood' /\ LogGood' /\ CooldownEarned'
      /\ \A m \in Metrics, r \in Rules, ch \in Channels :
            Entries(m, r, ch)' = Entries(m, r, ch) /\ (Coming(m, r, ch)' => Coming(m, r, ch))
  BY <1>1, <1>3, NotifierStays
<1>8. ChecksGood' /\ AgentsGood' /\ \A m \in Metrics : Open(m)' <=> Open(m)
  BY <1>1 DEF IInv, ChecksGood, OneCheck, CheckGood, AgentsGood, Open, ListedNow
<1>9. Counted'
  <2>1. restarts \in Nat
    BY DEF IInv, TypeOK
  <2> QED
    BY <1>1, <1>7, <1>8, <2>1, CountKept DEF IInv, Counted
<1> QED
  BY <1>6, <1>7, <1>8, <1>9 DEF IInv

-----------------------------------------------------------------------------
(* The agents                                                                *)

\* A snapshot is left alone or achieved, or both clocks are started again.
SnapsMove ==
    \/ /\ UNCHANGED restarts
       /\ \A m \in Metrics : snap'[m] = snap[m] \/ snap'[m].status = "achieved"
    \/ /\ restarts' = restarts + 1
       /\ \A m \in Metrics : snap'[m].status = "on_track"

LEMMA SnapsKeepInvariant ==
    ASSUME IInv, TypeOK', SnapsMove, AgentsGood',
           UNCHANGED <<check, disp, log, made, cooling>>
    PROVE  IInv'
<1>1. /\ DispatchesGood' /\ LogGood' /\ CooldownEarned'
      /\ \A m \in Metrics, r \in Rules, ch \in Channels :
            Entries(m, r, ch)' = Entries(m, r, ch) /\ (Coming(m, r, ch)' => Coming(m, r, ch))
  BY NotifierStays
<1>2. \A m \in Metrics : snap[m].status # "breached" => snap'[m].status # "breached"
  BY DEF SnapsMove
<1>3. ChecksGood'
  <2>1. OneCheck'
    BY DEF IInv, ChecksGood, OneCheck
  <2>2. ASSUME NEW c \in Callers PROVE CheckGood(c)'
    <3>1. CheckGood(c) /\ \A s \in check[c].list : s.metric \in Metrics
      BY DEF IInv, ChecksGood, TypeOK, Checks
    <3> QED
      BY <1>2, <3>1 DEF CheckGood
  <2> QED
    BY <2>1, <2>2 DEF ChecksGood
<1>4. Counted'
  <2>1. restarts \in Nat
    BY DEF IInv, TypeOK
  <2> SUFFICES ASSUME NEW m \in Metrics, NEW r \in Rules, NEW ch \in Channels
               PROVE  Cardinality(Entries(m, r, ch)') + One(Coming(m, r, ch)') + One(Open(m)')
                          <= restarts' + 1
    BY DEF Counted
  <2>2. CASE UNCHANGED restarts /\ \A k \in Metrics : snap'[k] = snap[k] \/ snap'[k].status = "achieved"
    <3>1. Open(m)' => Open(m)
      BY <2>2 DEF Open, ListedNow
    <3> QED
      BY <1>1, <2>1, <2>2, <3>1, CountKept DEF IInv
  <2>3. CASE restarts' = restarts + 1
    <3>1. Cardinality(Entries(m, r, ch)) + One(Coming(m, r, ch)) + One(Open(m)) <= restarts + 1
      BY DEF IInv, Counted
    <3>2. One(Coming(m, r, ch)') <= One(Coming(m, r, ch)) /\ One(Coming(m, r, ch)') \in Nat
          /\ One(Coming(m, r, ch)) \in Nat /\ One(Open(m)') \in 0..1 /\ One(Open(m)) \in Nat
      BY <1>1 DEF One
    <3>3. Cardinality(Entries(m, r, ch)') = Cardinality(Entries(m, r, ch))
      BY <1>1
    <3> QED
      BY <2>1, <2>3, <3>1, <3>2, <3>3, EntriesFinite
  <2> QED
    BY <2>2, <2>3 DEF SnapsMove
<1> QED
  BY <1>1, <1>3, <1>4 DEF IInv

LEMMA NoRequestGood == NoRequest \in Requests /\ NoRequest.unmet \subseteq NoRequest.intact
BY DEF NoRequest, Requests, NewTicket, Tickets, Statuses, Priorities

LEMMA AgentUpdate ==
    ASSUME IInv, NEW a \in Agents, NEW q \in Requests, q.unmet \subseteq q.intact,
           agent' = [agent EXCEPT ![a] = q]
    PROVE  agent' \in [Agents -> Requests] /\ AgentsGood' /\ agent'[a] = q
BY DEF IInv, TypeOK, AgentsGood

LEMMA ReadStep ==
    ASSUME IInv, NEW a \in Agents, Read(a)
    PROVE  IInv'
<1> DEFINE q == [NoRequest EXCEPT !.reading = TRUE, !.seen = ticket]
<1>1. q \in Requests /\ q.unmet \subseteq q.intact
  <2>1. ticket \in Tickets
    BY DEF IInv, TypeOK
  <2> QED
    BY <2>1, NoRequestGood DEF Requests
<1>2. agent' = [agent EXCEPT ![a] = q]
  BY DEF Read
<1> HIDE DEF q
<1>3. agent' \in [Agents -> Requests] /\ AgentsGood'
  BY <1>1, <1>2, AgentUpdate
<1>4. budget' \in [failures : Nat, events : Nat, checks : Nat, ops : Nat]
  BY SpendType DEF Read, IInv, TypeOK, NotifierTypeOK
<1>5. NotifierTypeOK'
  BY <1>4 DEF Read, IInv, TypeOK, NotifierTypeOK
<1>6. TypeOK'
  BY <1>3, <1>5 DEF Read, IInv, TypeOK
<1> QED
  BY <1>3, <1>6, SnapsKeepInvariant DEF Read, SnapsMove

LEMMA LookStep ==
    ASSUME IInv, NEW a \in Agents, Look(a)
    PROVE  IInv'
<1> DEFINE q == [agent[a] EXCEPT !.looked = TRUE, !.unmet = Unmet, !.intact = Intact]
<1>1. agent[a] \in Requests /\ agent \in [Agents -> Requests]
  BY DEF IInv, TypeOK
<1>2. Unmet \subseteq Intact /\ Intact \subseteq Metrics /\ Unmet \subseteq Metrics
  BY DEF Unmet, Intact
<1>3. q \in Requests /\ q.unmet = Unmet /\ q.intact = Intact
  BY <1>1, <1>2 DEF Requests
<1>4. agent' = [agent EXCEPT ![a] = q]
  BY <1>1 DEF Look
<1> HIDE DEF q
<1>5. agent' \in [Agents -> Requests] /\ AgentsGood'
  BY <1>2, <1>3, <1>4, AgentUpdate
<1>6. UNCHANGED <<ticket, snap, check, time, restarts, notifierVars>>
  BY DEF Look
<1>7. NotifierTypeOK'
  BY <1>6 DEF IInv, TypeOK, NotifierTypeOK, notifierVars
<1>8. TypeOK'
  BY <1>5, <1>6, <1>7 DEF IInv, TypeOK
<1> QED
  BY <1>5, <1>6, <1>8, SnapsKeepInvariant DEF notifierVars, SnapsMove

\* What serving a request may do to the ticket and its snapshots.
Serves(a) ==
    /\ agent[a].reading /\ ~agent'[a].reading /\ ~agent'[a].looked
    /\ ticket' \in Tickets
    /\ \/ UNCHANGED <<snap, restarts>>
       \/ \E m \in Metrics : agent[a].looked /\ UNCHANGED restarts /\ snap' = Achieved(a, m)
       \/ \E p \in Priorities : ApplySla(p)
    /\ agent' = [agent EXCEPT ![a] = NoRequest]
    /\ UNCHANGED <<check, time, notifierVars>>

LEMMA TicketMoves ==
    ASSUME ticket \in Tickets, NEW u \in Tickets, NEW st \in Statuses, NEW p \in Priorities,
           NEW x \in BOOLEAN, NEW y \in BOOLEAN
    PROVE  /\ [ticket EXCEPT !.status = st] \in Tickets
           /\ [ticket EXCEPT !.status = st, !.resolved = x, !.closed = y] \in Tickets
           /\ [ticket EXCEPT !.status = st, !.resolved = x, !.closed = y, !.responded = TRUE]
                  \in Tickets
           /\ [ticket EXCEPT !.priority = p] \in Tickets
           /\ [ticket EXCEPT !.status = st, !.closed = y] \in Tickets
           /\ [ticket EXCEPT !.responded = TRUE] \in Tickets
BY DEF Tickets

LEMMA ServeServes ==
    ASSUME IInv, NEW a \in Agents, Serve(a)
    PROVE  Serves(a)
<1>1. agent \in [Agents -> Requests] /\ agent[a] \in Requests /\ ticket \in Tickets
  BY DEF IInv, TypeOK
<1>2. Seen(a) \in Tickets /\ Seen(a).status \in Statuses /\ Seen(a).priority \in Priorities
      /\ Seen(a).resolved \in BOOLEAN /\ Seen(a).closed \in BOOLEAN
  BY <1>1 DEF Seen, Requests, Tickets
<1>3. Serving(a)
  BY DEF Serve, assign_ticket, start_progress, pend_ticket, resolve_ticket, close_ticket,
         reopen_ticket, escalate_ticket, merge_tickets, add_reply, Rejected
<1>4. agent[a].reading /\ ~agent'[a].reading /\ ~agent'[a].looked
      /\ agent' = [agent EXCEPT ![a] = NoRequest] /\ UNCHANGED <<check, time, notifierVars>>
  BY <1>1, <1>3 DEF Serving, NoRequest
<1>5. {"open", "assigned", "in_progress", "pending", "resolved", "closed"} = Statuses
      /\ "critical" \in Priorities /\ "first_response" \in Metrics /\ "resolution" \in Metrics
  BY DEF Statuses, Priorities, Metrics
<1>6. ASSUME NEW new \in Statuses, Transition(a, new) PROVE ticket' \in Tickets
  <2>1. (new = "resolved" \/ Seen(a).resolved) \in BOOLEAN
        /\ (new = "closed" \/ Seen(a).closed) \in BOOLEAN
    OBVIOUS
  <2> QED
    BY <1>1, <1>2, <1>6, <2>1, TicketMoves DEF Transition
<1>7. CASE assign_ticket(a)
  <2>1. (IF Seen(a).status = "open" THEN "assigned" ELSE Seen(a).status) \in Statuses
    BY <1>2, <1>5
  <2>2. ticket' \in Tickets
    BY <1>1, <1>2, <1>7, <2>1, TicketMoves DEF assign_ticket
  <2> QED
    BY <1>4, <1>7, <2>2 DEF assign_ticket, Serves
<1>8. CASE start_progress(a)
  <2>1. ticket' \in Tickets
    BY <1>1, <1>2, <1>5, <1>8, TicketMoves DEF start_progress
  <2> QED
    BY <1>4, <1>5, <1>8, <2>1 DEF start_progress, Serves
<1>9. CASE pend_ticket(a)
  BY <1>4, <1>5, <1>6, <1>9 DEF pend_ticket, Serves
<1>10. CASE resolve_ticket(a)
  BY <1>4, <1>5, <1>6, <1>10 DEF resolve_ticket, Serves
<1>11. CASE close_ticket(a)
  BY <1>4, <1>5, <1>6, <1>11 DEF close_ticket, Serves
<1>12. CASE reopen_ticket(a)
  <2>1. ticket' \in Tickets
    BY <1>1, <1>2, <1>5, <1>12, TicketMoves DEF reopen_ticket
  <2> QED
    BY <1>2, <1>4, <1>12, <2>1 DEF reopen_ticket, Serves
<1>13. CASE escalate_ticket(a)
  <2>1. ticket' \in Tickets
    BY <1>1, <1>2, <1>5, <1>13, TicketMoves DEF escalate_ticket
  <2> QED
    BY <1>4, <1>5, <1>13, <2>1 DEF escalate_ticket, Serves
<1>14. CASE merge_tickets(a)
  <2>1. ticket' \in Tickets
    BY <1>1, <1>2, <1>5, <1>14, TicketMoves DEF merge_tickets
  <2> QED
    BY <1>4, <1>14, <2>1 DEF merge_tickets, Serves
<1>15. CASE add_reply(a)
  <2>1. ticket' \in Tickets
    BY <1>1, <1>2, <1>5, <1>15, TicketMoves DEF add_reply
  <2> QED
    BY <1>4, <1>5, <1>15, <2>1 DEF add_reply, Serves
<1>16. CASE Rejected(a)
  BY <1>1, <1>4, <1>16 DEF Rejected, Serves
<1> QED
  BY <1>7, <1>8, <1>9, <1>10, <1>11, <1>12, <1>13, <1>14, <1>15, <1>16 DEF Serve

LEMMA ServeStep ==
    ASSUME IInv, NEW a \in Agents, Serve(a)
    PROVE  IInv'
<1>1. Serves(a)
  BY ServeServes
<1>2. agent' \in [Agents -> Requests] /\ AgentsGood'
  BY <1>1, NoRequestGood, AgentUpdate DEF Serves
<1>3. snap \in [Metrics -> Snaps] /\ restarts \in Nat /\ time \in Nat
  BY TicketDeskAssumption DEF IInv, TypeOK
<1>4. SnapsMove /\ snap' \in [Metrics -> Snaps] /\ restarts' \in Nat
  <2>1. CASE UNCHANGED <<snap, restarts>>
    BY <1>3, <2>1 DEF SnapsMove
  <2>2. ASSUME NEW m \in Metrics, UNCHANGED restarts, snap' = Achieved(a, m)
        PROVE  SnapsMove /\ snap' \in [Metrics -> Snaps]
    <3>1. snap'[m] = snap[m] \/ snap'[m].status = "achieved"
      BY <1>3, <2>2 DEF Achieved, Snaps
    <3>2. snap' \in [Metrics -> Snaps] /\ \A k \in Metrics : k # m => snap'[k] = snap[k]
      BY <1>3, <2>2 DEF Achieved, Snaps, SnapStatuses
    <3> QED
      BY <2>2, <3>1, <3>2 DEF SnapsMove
  <2>3. ASSUME NEW p \in Priorities, ApplySla(p)
        PROVE  SnapsMove /\ snap' \in [Metrics -> Snaps] /\ restarts' \in Nat
    <3>1. \A m \in Metrics : time + Policy[p][m] \in Nat
      BY <1>3, TicketDeskAssumption
    <3> QED
      BY <1>3, <2>3, <3>1 DEF ApplySla, Started, SnapsMove, Snaps, SnapStatuses, Targets
  <2> QED
    BY <1>1, <1>3, <2>1, <2>2, <2>3 DEF Serves
<1>5. NotifierTypeOK'
  BY <1>1 DEF Serves, notifierVars, IInv, TypeOK, NotifierTypeOK
<1>6. TypeOK'
  BY <1>1, <1>2, <1>4, <1>5 DEF Serves, IInv, TypeOK
<1> QED
  BY <1>1, <1>2, <1>4, <1>6, SnapsKeepInvariant DEF Serves, notifierVars

-----------------------------------------------------------------------------
(* The check of the service levels                                           *)

LEMMA NoCheckGood == NoCheck \in Checks /\ NoCheck.pc = "idle" /\ NoCheck.list = {}
BY TicketDeskAssumption DEF NoCheck, Checks

LEMMA ListedType ==
    ASSUME IInv, NEW status
    PROVE  /\ Listed(status) \subseteq [metric : Metrics, target : Targets]
           /\ \A s \in Listed(status) : snap[s.metric].status = status
           /\ \A s, t \in Listed(status) : s.metric = t.metric => s = t
<1>1. \A m \in Metrics : snap[m].target \in Targets
  BY DEF IInv, TypeOK, Snaps
<1> QED
  BY <1>1 DEF Listed

LEMMA CheckUpdate ==
    ASSUME IInv, NEW c \in Callers, NEW k \in Checks, check' = [check EXCEPT ![c] = k]
    PROVE  /\ check' \in [Callers -> Checks] /\ check'[c] = k
           /\ \A d \in Callers : d # c => check'[d] = check[d]
BY DEF IInv, TypeOK

\* A step of one check that does not touch the snapshots.
LEMMA CheckMoves ==
    ASSUME IInv, NEW c \in Callers, NEW k \in Checks, check' = [check EXCEPT ![c] = k],
           NotifierTypeOK', UNCHANGED <<ticket, snap, agent, time, restarts, log, made, cooling>>,
           disp'[c].pc = "idle", \A d \in Callers : d # c => disp'[d] = disp[d],
           DispatchGood(c)',
           k.pc # "idle" => check[c].pc # "idle" \/ \A d \in Callers : check[d].pc = "idle",
           k.pc = "idle" => k.list = {},
           \A s \in k.list : snap[s.metric].status \in {"on_track", "warning"},
           \A s, t \in k.list : s.metric = t.metric => s = t
    PROVE  IInv'
<1>1. /\ check' \in [Callers -> Checks] /\ check'[c] = k
      /\ \A d \in Callers : d # c => check'[d] = check[d]
  BY CheckUpdate
<1>2. TypeOK'
  BY <1>1 DEF IInv, TypeOK
<1>3. LogGood' /\ CooldownEarned' /\ Keeps
      /\ \A m \in Metrics, r \in Rules, ch \in Channels : Entries(m, r, ch)' = Entries(m, r, ch)
  BY LogStays
<1>4. DispatchesGood'
  <2> SUFFICES ASSUME NEW d \in Callers, d # c PROVE DispatchGood(d)'
    BY DEF DispatchesGood
  <2> QED
    BY <1>3, DispatchKept DEF IInv, DispatchesGood
<1>5. ChecksGood'
  <2>1. OneCheck'
    BY <1>1 DEF IInv, ChecksGood, OneCheck
  <2>2. ASSUME NEW d \in Callers PROVE CheckGood(d)'
    <3>1. CASE d = c
      BY <1>1, <3>1 DEF CheckGood
    <3>2. CASE d # c
      BY <1>1, <3>2 DEF IInv, ChecksGood, CheckGood
    <3> QED
      BY <3>1, <3>2
  <2> QED
    BY <2>1, <2>2 DEF ChecksGood
<1>6. ASSUME NEW m \in Metrics, Open(m)' PROVE Open(m)
  BY <1>1, <1>6 DEF Open, ListedNow
<1>7. ASSUME NEW m \in Metrics, NEW r \in Rules, NEW ch \in Channels, Coming(m, r, ch)'
      PROVE  Coming(m, r, ch)
  BY <1>7 DEF Coming, ComingFrom
<1>8. Counted'
  <2>1. restarts \in Nat
    BY DEF IInv, TypeOK
  <2> QED
    BY <1>3, <1>6, <1>7, <2>1, CountKept DEF IInv, Counted
<1> QED
  BY <1>2, <1>3, <1>4, <1>5, <1>8 DEF IInv, AgentsGood

LEMMA StartCheckStep ==
    ASSUME IInv, NEW c \in Callers, StartCheck(c)
    PROVE  IInv'
<1> DEFINE k == [pc |-> "first", now |-> time, list |-> Listed("on_track")]
<1>1. k \in Checks /\ k.pc = "first" /\ k.list = Listed("on_track")
  BY ListedType DEF IInv, TypeOK, Checks
<1>2. check' = [check EXCEPT ![c] = k]
  BY DEF StartCheck
<1> HIDE DEF k
<1>3. budget' \in [failures : Nat, events : Nat, checks : Nat, ops : Nat]
  BY SpendType DEF StartCheck, IInv, TypeOK, NotifierTypeOK
<1>4. NotifierTypeOK'
  BY <1>3 DEF StartCheck, IInv, TypeOK, NotifierTypeOK
<1>5. UNCHANGED <<ticket, snap, agent, time, restarts, disp, log, made, cooling>>
      /\ disp[c].pc = "idle" /\ \A d \in Callers : check[d].pc = "idle"
  BY DEF StartCheck
<1>6. DispatchGood(c)'
  BY <1>5, LogStays, DispatchKept DEF IInv, DispatchesGood
<1>7. /\ \A s \in k.list : snap[s.metric].status \in {"on_track", "warning"}
      /\ \A s, t \in k.list : s.metric = t.metric => s = t
  BY <1>1, ListedType
<1> QED
  BY <1>1, <1>2, <1>4, <1>5, <1>6, <1>7, CheckMoves

LEMMA NextLoopStep ==
    ASSUME IInv, NEW c \in Callers, NextLoop(c)
    PROVE  IInv'
<1>1. UNCHANGED <<ticket, snap, agent, time, restarts, disp, log, made, cooling, window, budget>>
      /\ disp[c].pc = "idle"
  BY DEF NextLoop, notifierVars
<1>2. NotifierTypeOK'
  BY <1>1 DEF IInv, TypeOK, NotifierTypeOK
<1>3. DispatchGood(c)'
  BY <1>1, LogStays, DispatchKept DEF IInv, DispatchesGood
<1>4. CASE /\ check[c].pc = "first"
           /\ check' = [check EXCEPT ![c].pc = "second", ![c].list = Listed("warning")]
  <2> DEFINE k == [check[c] EXCEPT !.pc = "second", !.list = Listed("warning")]
  <2>1. check[c] \in Checks /\ check \in [Callers -> Checks]
    BY DEF IInv, TypeOK
  <2>2. k \in Checks /\ k.pc = "second" /\ k.list = Listed("warning")
    BY <2>1, ListedType DEF Checks
  <2>3. check' = [check EXCEPT ![c] = k]
    BY <1>4, <2>1
  <2> HIDE DEF k
  <2>4. /\ \A s \in k.list : snap[s.metric].status \in {"on_track", "warning"}
        /\ \A s, t \in k.list : s.metric = t.metric => s = t
    BY <2>2, ListedType
  <2> QED
    BY <1>1, <1>2, <1>3, <1>4, <2>2, <2>3, <2>4, CheckMoves
<1>5. CASE check' = [check EXCEPT ![c] = NoCheck]
  BY <1>1, <1>2, <1>3, <1>5, NoCheckGood, CheckMoves
<1> QED
  BY <1>4, <1>5 DEF NextLoop

LEMMA CheckDiesStep ==
    ASSUME IInv, NEW c \in Callers, CheckDies(c)
    PROVE  IInv'
<1>1. UNCHANGED <<ticket, snap, agent, time, restarts, log, made, cooling, window>>
      /\ check' = [check EXCEPT ![c] = NoCheck] /\ disp' = [disp EXCEPT ![c] = NoDispatch]
  BY DEF CheckDies
<1>2. Follows(c) /\ disp'[c] = NoDispatch /\ DispatchGood(c)'
  BY <1>1, DispatchIdle DEF IInv, TypeOK
<1>3. budget' \in [failures : Nat, events : Nat, checks : Nat, ops : Nat]
  BY SpendType DEF CheckDies, Fail, IInv, TypeOK, NotifierTypeOK
<1>4. NotifierTypeOK'
  BY <1>1, <1>2, <1>3 DEF Follows, IInv, TypeOK, NotifierTypeOK
<1> QED
  BY <1>1, <1>2, <1>4, NoCheckGood, NoDispatchFields, CheckMoves DEF Follows

\* One snapshot is judged: its level is saved and told, or nothing is to be said.
Judges(c, s) ==
    /\ s \in check[c].list
    /\ check' = [check EXCEPT ![c].list = @ \ {s}]
    /\ disp[c].pc = "idle"
    /\ UNCHANGED <<ticket, agent, time, restarts>>
    /\ \/ UNCHANGED <<snap, notifierVars>>
       \/ \E level \in Levels : Save(c, s.metric, level)

LEMMA JudgeJudges ==
    ASSUME NEW c \in Callers, Judge(c)
    PROVE  \E s \in check[c].list : Judges(c, s)
BY DEF Judge, Judges, Levels

LEMMA JudgeListed ==
    ASSUME IInv, NEW c \in Callers, NEW s, Judges(c, s)
    PROVE  /\ check' \in [Callers -> Checks]
           /\ check'[c].list = check[c].list \ {s} /\ check'[c].pc = check[c].pc
           /\ \A d \in Callers : d # c => check'[d] = check[d]
           /\ check[c].pc # "idle" /\ s.metric \in Metrics
           /\ OneCheck'
           /\ \A t \in check[c].list : t # s => t.metric # s.metric
           /\ \A d \in Callers : d # c => check[d].list = {}
<1> DEFINE k == [check[c] EXCEPT !.list = check[c].list \ {s}]
<1>1. check \in [Callers -> Checks] /\ check[c] \in Checks
  BY DEF IInv, TypeOK
<1>2. k \in Checks /\ k.list = check[c].list \ {s} /\ k.pc = check[c].pc
  BY <1>1 DEF Checks
<1>3. check' = [check EXCEPT ![c] = k]
  BY <1>1 DEF Judges
<1> HIDE DEF k
<1>4. /\ check' \in [Callers -> Checks] /\ check'[c] = k
      /\ \A d \in Callers : d # c => check'[d] = check[d]
  BY <1>2, <1>3, CheckUpdate
<1>5. CheckGood(c) /\ OneCheck
  BY DEF IInv, ChecksGood
<1>6. check[c].pc # "idle" /\ \A t \in check[c].list : t # s => t.metric # s.metric
  BY <1>5 DEF CheckGood, Judges
<1>7. s.metric \in Metrics
  BY <1>1 DEF Checks, Judges
<1>8. OneCheck'
  BY <1>2, <1>4, <1>5 DEF OneCheck
<1>9. \A d \in Callers : d # c => check[d].list = {}
  BY <1>6 DEF IInv, ChecksGood, OneCheck, CheckGood
<1> QED
  BY <1>2, <1>4, <1>6, <1>7, <1>8, <1>9

LEMMA JudgeStep ==
    ASSUME IInv, NEW c \in Callers, Judge(c)
    PROVE  IInv'
<1>1. PICK s \in check[c].list : Judges(c, s)
  BY JudgeJudges
<1>2. /\ check' \in [Callers -> Checks]
      /\ check'[c].list = check[c].list \ {s} /\ check'[c].pc = check[c].pc
      /\ \A d \in Callers : d # c => check'[d] = check[d]
      /\ check[c].pc # "idle" /\ s.metric \in Metrics
      /\ OneCheck'
      /\ \A t \in check[c].list : t # s => t.metric # s.metric
      /\ \A d \in Callers : d # c => check[d].list = {}
  BY <1>1, JudgeListed
<1>3. UNCHANGED <<ticket, agent, time, restarts>> /\ disp[c].pc = "idle" /\ restarts \in Nat
      /\ AgentsGood'
  BY <1>1 DEF Judges, IInv, TypeOK, AgentsGood
<1>4. CASE UNCHANGED <<snap, notifierVars>>
  <2>1. UNCHANGED <<disp, log, made, cooling, window, budget>>
    BY <1>4 DEF notifierVars
  <2>2. /\ DispatchesGood' /\ LogGood' /\ CooldownEarned'
        /\ \A m \in Metrics, r \in Rules, ch \in Channels :
              Entries(m, r, ch)' = Entries(m, r, ch) /\ (Coming(m, r, ch)' => Coming(m, r, ch))
    BY <2>1, NotifierStays
  <2>3. TypeOK'
    BY <1>2, <1>3, <1>4, <2>1 DEF IInv, TypeOK, NotifierTypeOK
  <2>4. \A d \in Callers : check'[d].list \subseteq check[d].list /\ check'[d].pc = check[d].pc
    BY <1>2
  <2>5. ASSUME NEW d \in Callers PROVE CheckGood(d)'
    <3>1. CheckGood(d)
      BY DEF IInv, ChecksGood
    <3> QED
      BY <1>4, <2>1, <2>4, <3>1 DEF CheckGood
  <2>6. \A m \in Metrics : Open(m)' => Open(m)
    BY <1>4, <2>4 DEF Open, ListedNow
  <2>7. Counted'
    BY <1>3, <2>2, <2>6, CountKept DEF IInv, Counted
  <2> QED
    BY <1>2, <1>3, <2>2, <2>3, <2>5, <2>7 DEF IInv, ChecksGood
<1>5. ASSUME NEW level \in Levels, Save(c, s.metric, level)
      PROVE  IInv'
  <2> DEFINE n == <<s.metric, level>>
  <2>1. n \in Notices /\ n \notin OtherNotices
    BY <1>2, TicketDeskAssumption
  <2>2. Begins(c, n) /\ UNCHANGED <<window, cooling, log, made, budget>>
    BY <1>5, <2>1, BeginBegins DEF Save, IInv, TypeOK
  <2>3. LogGood' /\ CooldownEarned' /\ DispatchesGood'
        /\ \A m \in Metrics, r \in Rules, ch \in Channels : Entries(m, r, ch)' = Entries(m, r, ch)
    BY <2>2, LogStays, BeginsDispatches
  <2>4. snap \in [Metrics -> Snaps] /\ snap[s.metric] \in Snaps
    BY <1>2 DEF IInv, TypeOK
  <2>5. snap' \in [Metrics -> Snaps] /\ snap'[s.metric].status = level
        /\ \A m \in Metrics : m # s.metric => snap'[m] = snap[m]
    BY <1>2, <1>5, <2>4 DEF Save, Snaps, SnapStatuses, Levels
  <2>6. TypeOK'
    BY <1>2, <1>3, <2>2, <2>5 DEF IInv, TypeOK, NotifierTypeOK, Begins
  <2>7. ASSUME NEW d \in Callers PROVE CheckGood(d)'
    <3>1. CheckGood(d)
      BY DEF IInv, ChecksGood
    <3>2. CASE d # c
      BY <1>2, <2>2, <3>1, <3>2 DEF CheckGood, Begins
    <3>3. CASE d = c
      <4>1. \A t \in check'[c].list : t \in check[c].list /\ t.metric # s.metric /\ t.metric \in Metrics
        BY <1>2 DEF IInv, TypeOK, Checks
      <4> QED
        BY <1>2, <2>5, <3>1, <3>3, <4>1 DEF CheckGood
    <3> QED
      BY <3>2, <3>3
  <2>8. Counted'
    <3> SUFFICES ASSUME NEW m \in Metrics, NEW r \in Rules, NEW ch \in Channels
                 PROVE  Cardinality(Entries(m, r, ch)') + One(Coming(m, r, ch)') + One(Open(m)')
                            <= restarts' + 1
      BY DEF Counted
    <3>1. CASE m # s.metric
      <4>1. Open(m)' => Open(m)
        BY <1>2, <2>5, <3>1 DEF Open, ListedNow
      <4>2. Coming(m, r, ch)' => Coming(m, r, ch)
        <5> SUFFICES ASSUME NEW d \in Callers, ComingFrom(d, m, r, ch)'
                     PROVE  ComingFrom(d, m, r, ch)
          BY DEF Coming
        <5> QED
          BY <2>2, <3>1 DEF ComingFrom, Begins
      <4> QED
        BY <1>3, <2>3, <4>1, <4>2, CountKept DEF IInv
    <3>2. CASE m = s.metric
      <4>1. Open(m)
        BY <3>2 DEF Open, ListedNow
      <4>2. ~Coming(m, r, ch)
        <5> SUFFICES ASSUME NEW d \in Callers, ComingFrom(d, m, r, ch) PROVE FALSE
          BY DEF Coming
        <5>1. <<m, "breached">> \notin OtherNotices
          BY TicketDeskAssumption DEF Levels
        <5>2. check[d].pc # "idle"
          BY <5>1 DEF ComingFrom, IInv, ChecksGood, CheckGood
        <5>3. d = c
          BY <1>2, <5>2 DEF IInv, ChecksGood, OneCheck
        <5> QED
          BY <1>3, <5>3 DEF ComingFrom
      <4>3. Cardinality(Entries(m, r, ch)) + 0 + 1 <= restarts + 1
        BY <4>1, <4>2 DEF IInv, Counted, One
      <4>4. CASE level = "warning"
        <5>1. ~Coming(m, r, ch)'
          <6> SUFFICES ASSUME NEW d \in Callers, ComingFrom(d, m, r, ch)' PROVE FALSE
            BY DEF Coming
          <6>1. d # c
            BY <2>2, <4>4 DEF ComingFrom, Begins
          <6>2. ComingFrom(d, m, r, ch)
            BY <2>2, <6>1 DEF ComingFrom, Begins
          <6> QED
            BY <4>2, <6>2 DEF Coming
        <5>2. One(Coming(m, r, ch)') = 0 /\ One(Open(m)') \in 0..1
          BY <5>1 DEF One
        <5> QED
          BY <1>3, <2>3, <4>3, <5>2, EntriesFinite
      <4>5. CASE level = "breached"
        <5>1. ~Open(m)'
          BY <1>2, <2>5, <3>2, <4>5 DEF Open, ListedNow
        <5>2. One(Open(m)') = 0 /\ One(Coming(m, r, ch)') \in 0..1
          BY <5>1 DEF One
        <5> QED
          BY <1>3, <2>3, <4>3, <5>2, EntriesFinite
      <4> QED
        BY <4>4, <4>5 DEF Levels
    <3> QED
      BY <3>1, <3>2
  <2> QED
    BY <1>2, <1>3, <2>3, <2>6, <2>7, <2>8 DEF IInv, ChecksGood
<1> QED
  BY <1>1, <1>4, <1>5 DEF Judges

-----------------------------------------------------------------------------
(* The invariant is inductive                                                *)

LEMMA InitInvariant == Init => IInv
<1> SUFFICES ASSUME Init PROVE IInv
  OBVIOUS
<1>1. NotifierInit /\ budget \in Budgets /\ restarts = 0 /\ time = 0
      /\ agent = [a \in Agents |-> NoRequest] /\ check = [c \in Callers |-> NoCheck]
      /\ snap = Started("high")
  BY DEF Init
<1>2. budget \in [failures : Nat, events : Nat, checks : Nat, ops : Nat]
  BY <1>1, TicketDeskAssumption
<1>3. disp = [c \in Callers |-> NoDispatch] /\ log = [l \in Logs |-> NoLog] /\ made = 0
      /\ window = [n \in Notices |-> 0] /\ cooling = [r \in Rules |-> 0]
  BY <1>1 DEF NotifierInit
<1>4. NotifierTypeOK
  BY <1>2, <1>3, NoDispatchType, NoLogType, NotifierAssumption DEF NotifierTypeOK
<1>5. ticket \in Tickets
  <2>1. PICK st \in {"open", "assigned"} : ticket = [NewTicket EXCEPT !.status = st]
    BY DEF Init
  <2> QED
    BY <2>1 DEF NewTicket, Tickets, Statuses, Priorities
<1>6. snap \in [Metrics -> Snaps] /\ \A m \in Metrics : snap[m].status = "on_track"
  <2>1. \A m \in Metrics : time + Policy["high"][m] \in Nat
    BY <1>1, TicketDeskAssumption DEF Priorities
  <2> QED
    BY <1>1, <2>1 DEF Started, Snaps, SnapStatuses, Targets
<1>7. TypeOK
  BY <1>1, <1>4, <1>5, <1>6, NoRequestGood, NoCheckGood, TicketDeskAssumption DEF TypeOK
<1>8. DispatchesGood /\ ChecksGood /\ AgentsGood
  BY <1>1, <1>3, NoDispatchFields, NoCheckGood, NoRequestGood, NotifierAssumption
     DEF DispatchesGood, DispatchGood, ChecksGood, OneCheck, CheckGood, AgentsGood
<1>9. LogGood /\ CooldownEarned
  BY <1>3, NoLogGood DEF LogGood, CooldownEarned
<1>10. Counted
  <2> SUFFICES ASSUME NEW m \in Metrics, NEW r \in Rules, NEW ch \in Channels
               PROVE  Cardinality(Entries(m, r, ch)) + One(Coming(m, r, ch)) + One(Open(m)) <= 1
    BY <1>1 DEF Counted
  <2>1. Entries(m, r, ch) = {}
    BY <1>3, NotifierAssumption DEF Entries, NoLog
  <2>2. Cardinality(Entries(m, r, ch)) = 0
    BY <2>1, FS_EmptySet
  <2>3. ~Coming(m, r, ch)
    BY <1>3, NoDispatchFields DEF Coming, ComingFrom
  <2>4. One(Coming(m, r, ch)) = 0 /\ One(Open(m)) \in 0..1
    BY <2>3 DEF One
  <2> QED
    BY <2>2, <2>4
<1> QED
  BY <1>7, <1>8, <1>9, <1>10 DEF IInv

LEMMA NextInvariant == IInv /\ [Next]_vars => IInv'
<1> SUFFICES ASSUME IInv, [Next]_vars PROVE IInv'
  OBVIOUS
<1>1. ASSUME NEW a \in Agents, Read(a) \/ Look(a) \/ Serve(a) PROVE IInv'
  BY <1>1, ReadStep, LookStep, ServeStep
<1>2. ASSUME NEW c \in Callers, StartCheck(c) \/ Judge(c) \/ NextLoop(c) \/ CheckDies(c)
      PROVE  IInv'
  BY <1>2, StartCheckStep, JudgeStep, NextLoopStep, CheckDiesStep
<1>3. ASSUME NEW c \in Callers, NEW n \in OtherNotices, check[c].pc = "idle", Announce(c, n),
             UNCHANGED deskVars
      PROVE  IInv'
  BY <1>3, AnnounceStep
<1>4. CASE NotifierNext /\ UNCHANGED deskVars
  BY <1>4, NotifierStep
<1>5. CASE Tick
  BY <1>5, TickStep
<1>6. CASE UNCHANGED vars
  <2>1. UNCHANGED <<disp, log, made, cooling, window, budget, ticket, snap, agent, check,
                    time, restarts>>
    BY <1>6 DEF vars, deskVars, notifierVars
  <2>2. TypeOK'
    BY <2>1 DEF IInv, TypeOK, NotifierTypeOK
  <2>3. SnapsMove /\ AgentsGood'
    BY <2>1 DEF SnapsMove, IInv, AgentsGood
  <2> QED
    BY <2>1, <2>2, <2>3, SnapsKeepInvariant
<1> QED
  BY <1>1, <1>2, <1>3, <1>4, <1>5, <1>6 DEF Next

LEMMA Inductive == Spec => []IInv
BY InitInvariant, NextInvariant, PTL DEF Spec

-----------------------------------------------------------------------------
(* Every variable keeps its type, whatever agents, rules and budgets there are.
   (tickets/services.py, notifications/dispatcher.py, tasks.py)              *)
THEOREM TypeCorrect == Spec => []TypeOK
<1>1. IInv => TypeOK
  BY DEF IInv
<1> QED
  BY <1>1, Inductive, PTL

(* A rule is put into cooldown only on account of one notice that was queued
   for all its channels, however many dispatches and failures there are.
   (_dispatch_to_rule, _set_cooldown)                                        *)
THEOREM CooldownIsEarned == Spec => []CooldownEarned
<1>1. IInv => CooldownEarned
  BY DEF IInv
<1> QED
  BY <1>1, Inductive, PTL

(* An entry that says sent was delivered, and not more often than its retries
   account for. (send_notification_async)                                    *)
THEOREM SentIsDelivered == Spec => []SentMeansDelivered
<1>1. IInv => SentMeansDelivered
  BY DEF IInv, LogGood, RowGood, SentMeansDelivered
<1> QED
  BY <1>1, Inductive, PTL

(* A breach is told once for each start of the clocks, whatever the agents do
   while the check runs and whenever its worker dies. (check_sla_deadlines)  *)
THEOREM BreachIsToldOnce == Spec => []OneNoticePerBreach
<1>1. IInv => OneNoticePerBreach
  <2> SUFFICES ASSUME IInv, NEW m \in Metrics, NEW r \in Rules, NEW ch \in Channels
               PROVE  Cardinality(Entries(m, r, ch)) <= restarts + 1
    BY DEF OneNoticePerBreach, Entries
  <2>1. Cardinality(Entries(m, r, ch)) + One(Coming(m, r, ch)) + One(Open(m)) <= restarts + 1
    BY DEF IInv, Counted
  <2>2. One(Coming(m, r, ch)) \in Nat /\ One(Open(m)) \in Nat
    BY DEF One
  <2>3. restarts \in Nat
    BY DEF IInv, TypeOK
  <2> QED
    BY <2>1, <2>2, <2>3, EntriesFinite
<1> QED
  BY <1>1, Inductive, PTL

LEMMA SnapOfServe ==
    ASSUME IInv, NEW a \in Agents, Serve(a), NEW m \in Metrics,
           snap[m].status = "breached", snap'[m].status # "breached"
    PROVE  \/ snap'[m].status = "on_track" /\ restarts' > restarts
           \/ /\ snap'[m].status = "achieved"
              /\ agent[a].looked /\ ~agent'[a].looked /\ m \in agent[a].intact
<1>1. Serves(a)
  BY ServeServes
<1>2. snap \in [Metrics -> Snaps] /\ restarts \in Nat /\ agent[a].unmet \subseteq agent[a].intact
  BY DEF IInv, TypeOK, AgentsGood
<1>3. ASSUME NEW k \in Metrics, agent[a].looked, snap' = Achieved(a, k)
      PROVE  snap'[m].status = "achieved" /\ m \in agent[a].unmet
  BY <1>2, <1>3 DEF Achieved, Snaps
<1>4. ASSUME NEW p \in Priorities, ApplySla(p)
      PROVE  snap'[m].status = "on_track" /\ restarts' > restarts
  BY <1>2, <1>4 DEF ApplySla, Started
<1>5. ~UNCHANGED snap
  OBVIOUS
<1> QED
  BY <1>1, <1>2, <1>3, <1>4, <1>5 DEF Serves

(* A recorded breach stands until the clocks start again, unless a request that
   had looked before answers late. (_mark_sla_achieved, _apply_sla)          *)
THEOREM BreachesStand == Spec => BreachStands
<1> DEFINE Stands == \A m \in Metrics :
          snap[m].status = "breached" /\ snap'[m].status # "breached" =>
              \/ snap'[m].status = "on_track" /\ restarts' > restarts
              \/ /\ snap'[m].status = "achieved"
                 /\ \E a \in Agents : agent[a].looked /\ ~agent'[a].looked /\ m \in agent[a].intact
<1>1. IInv /\ [Next]_vars => [Stands]_vars
  <2> SUFFICES ASSUME IInv, Next, NEW m \in Metrics,
                      snap[m].status = "breached", snap'[m].status # "breached"
               PROVE  \/ snap'[m].status = "on_track" /\ restarts' > restarts
                      \/ /\ snap'[m].status = "achieved"
                         /\ \E a \in Agents :
                               agent[a].looked /\ ~agent'[a].looked /\ m \in agent[a].intact
    OBVIOUS
  <2>1. ~UNCHANGED snap
    OBVIOUS
  <2>2. ASSUME NEW a \in Agents, Read(a) \/ Look(a) PROVE FALSE
    BY <2>1, <2>2 DEF Read, Look
  <2>3. ASSUME NEW c \in Callers, StartCheck(c) \/ NextLoop(c) \/ CheckDies(c) PROVE FALSE
    BY <2>1, <2>3 DEF StartCheck, NextLoop, CheckDies
  <2>4. ~UNCHANGED deskVars
    BY <2>1 DEF deskVars
  <2>5. ~Tick
    BY <2>1 DEF Tick
  <2>6. ASSUME NEW c \in Callers, Judge(c) PROVE FALSE
    <3>1. PICK s \in check[c].list : Judges(c, s)
      BY <2>6, JudgeJudges
    <3>2. PICK level \in Levels : Save(c, s.metric, level)
      BY <2>1, <3>1 DEF Judges
    <3>3. snap[s.metric].status # "breached"
      BY DEF IInv, ChecksGood, CheckGood
    <3> QED
      BY <3>2, <3>3 DEF Save, IInv, TypeOK
  <2>7. PICK a \in Agents : Serve(a)
    BY <2>2, <2>3, <2>4, <2>5, <2>6 DEF Next
  <2> QED
    BY <2>7, SnapOfServe
<1> HIDE DEF Stands
<1>2. Spec => [][Stands]_vars
  BY <1>1, Inductive, PTL DEF Spec
<1> QED
  BY <1>2 DEF BreachStands, Stands

(* A move outside the table comes only of a request with an outdated instance:
   requests that do not overlap keep to VALID_TRANSITIONS. (_transition)     *)
THEOREM MovesAreValid == Spec => InvalidMoveIsStale
<1> DEFINE Moves ==
          ticket'.status # ticket.status =>
          \/ ticket'.status \in VALID_TRANSITIONS[ticket.status] \cup {"open", "closed"}
          \/ \E a \in Agents : /\ agent[a].reading /\ ~agent'[a].reading
                             /\ Seen(a).status # ticket.status
<1>1. IInv /\ [Next]_vars => [Moves]_vars
  <2> SUFFICES ASSUME IInv, Next, ticket'.status # ticket.status
               PROVE  \/ ticket'.status \in VALID_TRANSITIONS[ticket.status] \cup {"open", "closed"}
                      \/ \E a \in Agents : /\ agent[a].reading /\ ~agent'[a].reading
                                         /\ Seen(a).status # ticket.status
    OBVIOUS
  <2>1. ~UNCHANGED ticket
    OBVIOUS
  <2>2. PICK a \in Agents : Serve(a)
    BY <2>1 DEF Next, Read, Look, StartCheck, Judge, NextLoop, CheckDies, Tick, deskVars
  <2>3. agent[a].reading /\ ~agent'[a].reading
    BY <2>2, ServeServes DEF Serves
  <2> SUFFICES ASSUME Seen(a).status = ticket.status
               PROVE  ticket'.status \in VALID_TRANSITIONS[ticket.status] \cup {"open", "closed"}
    BY <2>3
  <2>4. ticket \in Tickets /\ ticket.status \in Statuses
    BY DEF IInv, TypeOK, Tickets
  <2>5. ASSUME NEW new, Transition(a, new)
        PROVE  ticket'.status \in VALID_TRANSITIONS[ticket.status]
    BY <2>4, <2>5 DEF Transition, Tickets
  <2>6. CASE assign_ticket(a)
    <3>1. ticket'.status = IF Seen(a).status = "open" THEN "assigned" ELSE Seen(a).status
      BY <2>4, <2>6 DEF assign_ticket, Tickets
    <3>2. "assigned" \in VALID_TRANSITIONS["open"]
      BY DEF VALID_TRANSITIONS
    <3> QED
      BY <3>1, <3>2
  <2>7. CASE start_progress(a)
    BY <2>4, <2>7 DEF start_progress, Tickets
  <2>8. CASE pend_ticket(a) \/ resolve_ticket(a) \/ close_ticket(a)
    BY <2>5, <2>8 DEF pend_ticket, resolve_ticket, close_ticket
  <2>9. CASE reopen_ticket(a) \/ merge_tickets(a)
    BY <2>4, <2>9 DEF reopen_ticket, merge_tickets, Tickets
  <2>10. CASE escalate_ticket(a) \/ add_reply(a) \/ Rejected(a)
    BY <2>4, <2>10 DEF escalate_ticket, add_reply, Rejected, Tickets
  <2> QED
    BY <2>2, <2>6, <2>7, <2>8, <2>9, <2>10 DEF Serve
<1> HIDE DEF Moves
<1>2. Spec => [][Moves]_vars
  BY <1>1, Inductive, PTL DEF Spec
<1> QED
  BY <1>2 DEF InvalidMoveIsStale, Moves

=============================================================================
