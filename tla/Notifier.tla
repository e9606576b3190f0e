------------------------------ MODULE Notifier ------------------------------
(* Notification dispatch: notifications/dispatcher.py, which finds the rules  *)
(* of an event and queues one Celery task per channel, with deduplication and *)
(* cooldown in the cache, and notifications/tasks.py, which delivers.         *)
(*                                                                            *)
(* A notice is an event with its payload; all dispatches of one notice have   *)
(* the same idempotency key. Lookups in the cache, the work on one channel    *)
(* and the writes to the cache are steps of their own: several callers        *)
(* dispatch at a time. Forced dispatches, which bypass the cache, have no     *)
(* caller in the code.                                                        *)
EXTENDS Naturals, FiniteSets

CONSTANTS
    Callers,      \* threads that may be dispatching at the same time
    Notices,
    Rules,
    Channels,
    RulesOf,      \* RulesOf[n]: the enabled rules that apply to notice n
    ChannelsOf,   \* ChannelsOf[r]: the enabled channels of rule r
    Nothing,      \* no notice, no rule, no channel
    Window,       \* DEDUP_WINDOW_SECONDS
    Cooldown,     \* Cooldown[r]: cooldown_seconds of rule r
    MaxRetries,   \* max_retries of the task
    MaxLogs       \* log entries in all

ASSUME NotifierAssumption ==
    /\ RulesOf \in [Notices -> SUBSET Rules]
    /\ ChannelsOf \in [Rules -> (SUBSET Channels) \ {{}}]
    /\ Nothing \notin Notices \cup Rules \cup Channels
    /\ Window \in Nat /\ Cooldown \in [Rules -> Nat]
    /\ MaxRetries \in Nat /\ MaxLogs \in Nat

VARIABLES
    disp,      \* disp[c]: the dispatch of caller c
    window,    \* window[n]: how long notice n counts as a duplicate
    cooling,   \* cooling[r]: how long rule r is in cooldown
    log,       \* log[l]: a NotificationLog row with the task that delivers it
    made,      \* log entries so far
    budget     \* exceptions, refusals, deaths of workers and other events to come

notifierVars == <<disp, window, cooling, log, made, budget>>

Logs == 1..MaxLogs
Dispatch == [pc : {"idle", "looking", "rules", "channels"},
             notice : Notices \cup {Nothing}, rules : SUBSET Rules,
             rule : Rules \cup {Nothing}, channels : SUBSET Channels, failed : BOOLEAN]
NoDispatch == [pc |-> "idle", notice |-> Nothing, rules |-> {}, rule |-> Nothing,
               channels |-> {}, failed |-> FALSE]
LogRows == [status : {"none", "pending", "sent", "failed"},
            task : {"none", "queued", "delivered", "ended", "dead"},
            notice : Notices \cup {Nothing}, rule : Rules \cup {Nothing},
            channel : Channels \cup {Nothing},
            retries : 0..MaxRetries, copies : Nat]
NoLog == [status |-> "none", task |-> "none", notice |-> Nothing, rule |-> Nothing,
          channel |-> Nothing, retries |-> 0, copies |-> 0]

NotifierTypeOK ==
    /\ disp \in [Callers -> Dispatch]
    /\ window \in [Notices -> 0..Window]
    /\ DOMAIN cooling = Rules /\ \A r \in Rules : cooling[r] \in 0..Cooldown[r]
    /\ log \in [Logs -> LogRows]
    /\ made \in 0..MaxLogs
    /\ budget \in [failures : Nat, events : Nat, checks : Nat, ops : Nat]

NotifierInit ==
    /\ disp = [c \in Callers |-> NoDispatch]
    /\ window = [n \in Notices |-> 0]
    /\ cooling = [r \in Rules |-> 0]
    /\ log = [l \in Logs |-> NoLog]
    /\ made = 0

Spend(what) == budget[what] > 0 /\ budget' = [budget EXCEPT ![what] = @ - 1]
Fail == Spend("failures")

-----------------------------------------------------------------------------
(* NotificationDispatcher.dispatch()                                         *)

\* The validation of event and payload and the query for the rules come before
\* the lookup; without a rule there is nothing to do.
Begin(c, n) ==
    disp' = [disp EXCEPT ![c] =
        IF RulesOf[n] = {} THEN NoDispatch
        ELSE [NoDispatch EXCEPT !.pc = "looking", !.notice = n]]

\* An event of another component, a lost screen for one.
Announce(c, n) ==
    /\ disp[c].pc = "idle"
    /\ Spend("events")
    /\ Begin(c, n)
    /\ UNCHANGED <<window, cooling, log, made>>

\* _is_duplicate()
LookUp(c) ==
    LET n == disp[c].notice
    IN  /\ disp[c].pc = "looking"
        /\ disp' = [disp EXCEPT ![c] =
              IF window[n] > 0 THEN NoDispatch
              ELSE [@ EXCEPT !.pc = "rules", !.rules = RulesOf[n]]]
        /\ UNCHANGED <<window, cooling, log, made, budget>>

\* The next rule is passed over while it is in cooldown.
TakeRule(c, r) ==
    /\ disp[c].pc = "rules" /\ r \in disp[c].rules
    /\ \/ /\ cooling[r] > 0
          /\ disp' = [disp EXCEPT ![c].rules = @ \ {r}]
       \/ /\ cooling[r] = 0
          /\ disp' = [disp EXCEPT ![c] = [@ EXCEPT !.pc = "channels", !.rule = r,
                        !.rules = disp[c].rules \ {r}, !.channels = ChannelsOf[r], !.failed = FALSE]]
    /\ UNCHANGED <<window, cooling, log, made, budget>>

Entry(c, ch, task) ==
    [NoLog EXCEPT !.status = "pending", !.task = task, !.notice = disp[c].notice,
                  !.rule = disp[c].rule, !.channel = ch]

\* One channel of _dispatch_to_rule(): the entry is created, then the task is
\* queued; an exception of either leaves the other channels to be served.
Queue(c, ch) ==
    /\ disp[c].pc = "channels" /\ ch \in disp[c].channels
    /\ made < MaxLogs
    /\ \/ /\ log' = [log EXCEPT ![made + 1] = Entry(c, ch, "queued")]
          /\ made' = made + 1
          /\ disp' = [disp EXCEPT ![c].channels = @ \ {ch}]
          /\ UNCHANGED budget
       \/ /\ Fail
          /\ \/ /\ log' = [log EXCEPT ![made + 1] = Entry(c, ch, "none")]
                /\ made' = made + 1
             \/ UNCHANGED <<log, made>>
          /\ disp' = [disp EXCEPT ![c].channels = @ \ {ch}, ![c].failed = TRUE]
    /\ UNCHANGED <<window, cooling>>

EndRuleAnyway(c) ==
    /\ disp[c].pc = "channels" /\ disp[c].channels = {}
    /\ cooling' = [cooling EXCEPT ![disp[c].rule] = Cooldown[disp[c].rule]]
    /\ disp' = [disp EXCEPT ![c].pc = "rules", ![c].rule = Nothing]
    /\ UNCHANGED <<window, log, made, budget>>

\* A rule all of whose channels were served is put into cooldown.
EndRule(c) ==
    LET r == disp[c].rule
    IN  /\ disp[c].pc = "channels" /\ disp[c].channels = {}
        /\ cooling' = IF disp[c].failed THEN cooling ELSE [cooling EXCEPT ![r] = Cooldown[r]]
        /\ disp' = [disp EXCEPT ![c].pc = "rules", ![c].rule = Nothing]
        /\ UNCHANGED <<window, log, made, budget>>

\* _mark_deduplication(), whatever became of the rules.
Mark(c) ==
    /\ disp[c].pc = "rules" /\ disp[c].rules = {}
    /\ window' = [window EXCEPT ![disp[c].notice] = Window]
    /\ disp' = [disp EXCEPT ![c] = NoDispatch]
    /\ UNCHANGED <<cooling, log, made, budget>>

-----------------------------------------------------------------------------
(* send_notification_async()                                                 *)

\* The provider takes the message.
Deliver(l) ==
    /\ log[l].task = "queued"
    /\ log' = [log EXCEPT ![l].task = "delivered", ![l].copies = @ + 1]
    /\ UNCHANGED <<disp, window, cooling, made, budget>>

\* The provider refuses it, which is final: there is no retry.
Refuse(l) ==
    /\ log[l].task = "queued"
    /\ Fail
    /\ log' = [log EXCEPT ![l].task = "ended", ![l].status = "failed"]
    /\ UNCHANGED <<disp, window, cooling, made>>

SaveSent(l) ==
    /\ log[l].task = "delivered"
    /\ log' = [log EXCEPT ![l].task = "ended", ![l].status = "sent"]
    /\ UNCHANGED <<disp, window, cooling, made, budget>>

RaiseUncounted(l) ==
    /\ log[l].task \in {"queued", "delivered"}
    /\ Fail
    /\ \E status \in {log[l].status, "failed"} :
          log' = [log EXCEPT ![l].status = status, ![l].task = "queued"]
    /\ UNCHANGED <<disp, window, cooling, made>>

\* An exception, of the provider or of anything after it: the entry is marked
\* failed if that can be saved, and the task is retried.
Raise(l) ==
    /\ log[l].task \in {"queued", "delivered"}
    /\ Fail
    /\ \E status \in {log[l].status, "failed"} :
          \/ /\ log[l].retries = MaxRetries
             /\ log' = [log EXCEPT ![l].status = status, ![l].task = "ended"]
          \/ /\ log[l].retries < MaxRetries
             /\ log' = [log EXCEPT ![l].status = status, ![l].task = "queued",
                                  ![l].retries = @ + 1]
    /\ UNCHANGED <<disp, window, cooling, made>>

\* Celery acknowledges a task before it runs: one whose worker dies is gone.
WorkerDies(l) ==
    /\ log[l].task \in {"queued", "delivered"}
    /\ Fail
    /\ log' = [log EXCEPT ![l].task = "dead"]
    /\ UNCHANGED <<disp, window, cooling, made>>

\* The cache forgets with time.
NotifierTick ==
    /\ window' = [n \in Notices |-> IF window[n] > 0 THEN window[n] - 1 ELSE 0]
    /\ cooling' = [r \in Rules |-> IF cooling[r] > 0 THEN cooling[r] - 1 ELSE 0]
    /\ UNCHANGED <<disp, log, made, budget>>

Dispatching(c) ==
    \/ LookUp(c) \/ EndRule(c) \/ Mark(c)
    \/ \E r \in Rules : TakeRule(c, r)
    \/ \E ch \in Channels : Queue(c, ch)

Task(l) == Deliver(l) \/ Refuse(l) \/ SaveSent(l) \/ Raise(l) \/ WorkerDies(l)

NotifierNext ==
    \/ \E c \in Callers : Dispatching(c)
    \/ \E l \in Logs : Task(l)

-----------------------------------------------------------------------------
Accepted(l) == log[l].task # "none"

(* A rule is in cooldown only after one notice of its event has been queued   *)
(* for every one of its channels: a failing channel silences nobody, however *)
(* several dispatches work on the rule at the same time.                     *)
CooldownEarned ==
    \A r \in Rules : cooling[r] > 0 =>
        \E n \in Notices : \A ch \in ChannelsOf[r] :
            \E l \in Logs : /\ log[l].rule = r /\ log[l].notice = n
                           /\ log[l].channel = ch /\ Accepted(l)

(* The log does not hide repetitions: an entry that ends as sent was delivered *)
(* at least once and at most once more than the retries it shows, although   *)
(* every exception after a delivery delivers again.                          *)
SentMeansDelivered ==
    \A l \in Logs : log[l].status = "sent" => log[l].copies \in 1..(log[l].retries + 1)
=============================================================================
