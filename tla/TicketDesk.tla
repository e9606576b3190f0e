----------------------------- MODULE TicketDesk -----------------------------
(* A support ticket, the agents that work on it and the check of its service *)
(* levels (tickets/services.py, tickets/views.py, tickets/tasks.py), with the *)
(* notification dispatcher that the check calls.                             *)
(*                                                                           *)
(* A view reads the ticket without a lock; the service function then judges  *)
(* and saves that instance, some columns at a time, in one transaction. The  *)
(* check reads the snapshots with one query and judges them one by one.      *)
EXTENDS Notifier

CONSTANTS
    Agents,
    Policy,      \* Policy[p][m]: the time that policy p allows for metric m
    Threshold,   \* warning_threshold_pct
    MaxTime,
    OtherNotices, \* what other components announce
    Budgets      \* the budgets a behaviour may have

Metrics == {"first_response", "resolution"}
Levels == {"warning", "breached"}
Priorities == {"high", "critical"}
Statuses == {"open", "assigned", "in_progress", "pending", "resolved", "closed"}
Targets == Nat

ASSUME TicketDeskAssumption ==
    /\ Policy \in [Priorities -> [Metrics -> Nat]]
    /\ Notices = (Metrics \X Levels) \cup OtherNotices
    /\ \A n \in OtherNotices : n \notin Metrics \X Levels
    /\ Threshold \in Nat /\ MaxTime \in Nat
    /\ Budgets \subseteq [failures : Nat, events : Nat, checks : Nat, ops : Nat]

VARIABLES
    ticket,    \* the row of the ticket
    snap,      \* snap[m]: its service level snapshot for metric m
    agent,     \* agent[a]: the instance that agent a's request has read
    check,     \* check[c]: a run of check_sla_deadlines
    time,
    restarts   \* how often the service level clocks have been started again

deskVars == <<ticket, snap, agent, check, time, restarts>>
vars == <<deskVars, notifierVars>>

Tickets == [status : Statuses, resolved : BOOLEAN, closed : BOOLEAN,
            responded : BOOLEAN, priority : Priorities]
SnapStatuses == {"on_track", "warning", "breached", "achieved"}
Snaps == [status : SnapStatuses, target : Targets]
NewTicket == [status |-> "open", resolved |-> FALSE, closed |-> FALSE,
              responded |-> FALSE, priority |-> "high"]
Requests == [reading : BOOLEAN, seen : Tickets, looked : BOOLEAN, unmet : SUBSET Metrics,
             intact : SUBSET Metrics]
NoRequest == [reading |-> FALSE, seen |-> NewTicket, looked |-> FALSE, unmet |-> {},
              intact |-> {}]
Checks == [pc : {"idle", "first", "second"}, now : 0..MaxTime,
           list : SUBSET [metric : Metrics, target : Targets]]
NoCheck == [pc |-> "idle", now |-> 0, list |-> {}]

TypeOK ==
    /\ NotifierTypeOK
    /\ ticket \in Tickets
    /\ snap \in [Metrics -> Snaps]
    /\ agent \in [Agents -> Requests]
    /\ check \in [Callers -> Checks]
    /\ time \in 0..MaxTime /\ restarts \in Nat

Started(priority) ==
    [m \in Metrics |-> [status |-> "on_track", target |-> time + Policy[priority][m]]]

\* create_ticket(): no rule for routing, or one that assigns it at once.
Init ==
    /\ NotifierInit
    /\ \E status \in {"open", "assigned"} : ticket = [NewTicket EXCEPT !.status = status]
    /\ time = 0
    /\ snap = Started("high")
    /\ agent = [a \in Agents |-> NoRequest]
    /\ check = [c \in Callers |-> NoCheck]
    /\ restarts = 0
    /\ budget \in Budgets

-----------------------------------------------------------------------------
(* The agents                                                                *)

VALID_TRANSITIONS ==
    [open        |-> {"assigned", "in_progress", "closed"},
     assigned    |-> {"in_progress", "pending", "resolved", "closed"},
     in_progress |-> {"pending", "resolved", "closed"},
     pending     |-> {"in_progress", "resolved", "closed"},
     resolved    |-> {"closed"},
     closed      |-> {}]

\* get_object_or_404()
Read(a) ==
    /\ ~agent[a].reading
    /\ Spend("ops")
    /\ agent' = [agent EXCEPT ![a] = [NoRequest EXCEPT !.reading = TRUE, !.seen = ticket]]
    /\ UNCHANGED <<ticket, snap, check, time, restarts, disp, window, cooling, log, made>>

Seen(a) == agent[a].seen
Serving(a) ==
    /\ agent[a].reading
    /\ agent' = [agent EXCEPT ![a] = NoRequest]
    /\ UNCHANGED <<check, time, notifierVars>>

TransitionUnchecked(a, new) ==
    ticket' = [ticket EXCEPT !.status = new,
                                !.resolved = new = "resolved" \/ Seen(a).resolved,
                                !.closed = new = "closed" \/ Seen(a).closed]

\* _transition() saves the status and both dates of the instance.
Transition(a, new) ==
    /\ new \in VALID_TRANSITIONS[Seen(a).status]
    /\ ticket' = [ticket EXCEPT !.status = new,
                                !.resolved = new = "resolved" \/ Seen(a).resolved,
                                !.closed = new = "closed" \/ Seen(a).closed]

\* _mark_sla_achieved() reads the snapshots that are neither achieved nor
\* breached ...
UnmetOrBreached == {m \in Metrics : snap[m].status # "achieved"}
Unmet == {m \in Metrics : snap[m].status \in {"on_track", "warning"}}
Intact == {m \in Metrics : snap[m].status # "breached"}   \* for BreachStands
Look(a) ==
    /\ agent[a].reading /\ ~agent[a].looked
    /\ agent' = [agent EXCEPT ![a].looked = TRUE, ![a].unmet = Unmet, ![a].intact = Intact]
    /\ UNCHANGED <<ticket, snap, check, time, restarts, notifierVars>>

\* ... and saves one of them, whatever it has become.
Achieved(a, m) ==
    [snap EXCEPT ![m].status = IF m \in agent[a].unmet THEN "achieved" ELSE @]

\* _apply_sla() starts both clocks again, whatever the snapshots say.
ApplySla(priority) ==
    /\ snap' = Started(priority)
    /\ restarts' = restarts + 1

assign_ticket(a) ==
    /\ Serving(a) /\ ~agent[a].looked
    /\ ticket' = [ticket EXCEPT !.status = IF Seen(a).status = "open" THEN "assigned"
                                           ELSE Seen(a).status]
    /\ UNCHANGED <<snap, restarts>>

start_progress(a) ==
    /\ Serving(a) /\ agent[a].looked
    /\ "in_progress" \in VALID_TRANSITIONS[Seen(a).status]
    /\ ticket' = [ticket EXCEPT !.status = "in_progress", !.resolved = Seen(a).resolved,
                                !.closed = Seen(a).closed, !.responded = TRUE]
    /\ snap' = IF Seen(a).responded THEN snap ELSE Achieved(a, "first_response")
    /\ UNCHANGED restarts

pend_ticket(a) ==
    /\ Serving(a) /\ ~agent[a].looked
    /\ Transition(a, "pending")
    /\ UNCHANGED <<snap, restarts>>

resolve_ticket(a) ==
    /\ Serving(a) /\ agent[a].looked /\ Transition(a, "resolved")
    /\ snap' = Achieved(a, "resolution")
    /\ UNCHANGED restarts

close_ticket(a) ==
    /\ Serving(a) /\ ~agent[a].looked
    /\ Transition(a, "closed")
    /\ UNCHANGED <<snap, restarts>>

reopen_ticket(a) ==
    /\ Serving(a) /\ ~agent[a].looked
    /\ Seen(a).status \in {"resolved", "closed"}
    /\ ticket' = [ticket EXCEPT !.status = "open", !.resolved = FALSE, !.closed = FALSE]
    /\ ApplySla(Seen(a).priority)

escalate_ticket(a) ==
    /\ Serving(a) /\ ~agent[a].looked
    /\ ticket' = [ticket EXCEPT !.priority = "critical"]
    /\ ApplySla("critical")

\* The ticket is merged into another one, whatever its status.
merge_tickets(a) ==
    /\ Serving(a) /\ ~agent[a].looked
    /\ ticket' = [ticket EXCEPT !.status = "closed", !.closed = TRUE]
    /\ UNCHANGED <<snap, restarts>>

\* A reply of somebody else than the requester; every other reply and every
\* internal note only adds a message. Nothing wraps its saves in a transaction.
add_reply(a) ==
    /\ Serving(a) /\ agent[a].looked
    /\ ticket' = [ticket EXCEPT !.responded = TRUE]
    /\ snap' = IF Seen(a).responded THEN snap ELSE Achieved(a, "first_response")
    /\ UNCHANGED restarts

\* The instance does not allow what was asked for, or nothing is to be done.
Rejected(a) == Serving(a) /\ ~agent[a].looked /\ UNCHANGED <<ticket, snap, restarts>>

Serve(a) ==
    \/ assign_ticket(a) \/ start_progress(a) \/ pend_ticket(a) \/ resolve_ticket(a)
    \/ close_ticket(a) \/ reopen_ticket(a) \/ escalate_ticket(a) \/ merge_tickets(a)
    \/ add_reply(a) \/ Rejected(a)

-----------------------------------------------------------------------------
(* check_sla_deadlines()                                                     *)

Listed(status) ==
    {[metric |-> m, target |-> snap[m].target] : m \in {k \in Metrics : snap[k].status = status}}

\* A run has ended before the next begins, minutes later.
StartCheck(c) ==
    /\ disp[c].pc = "idle"
    /\ \A d \in Callers : check[d].pc = "idle"
    /\ Spend("checks")
    /\ check' = [check EXCEPT ![c] = [pc |-> "first", now |-> time, list |-> Listed("on_track")]]
    /\ UNCHANGED <<ticket, snap, agent, time, restarts, disp, window, cooling, log, made>>

\* The ticket was created at time 0.
Due(c, s) == check[c].now >= s.target
Near(c, s) == check[c].now * 100 >= s.target * Threshold

SaveForgotten(c, m, level) ==
    /\ Begin(c, <<m, level>>)
    /\ UNCHANGED <<snap, window, cooling, log, made, budget>>

\* The status is saved over whatever it has become, and then told.
Save(c, m, level) ==
    /\ snap' = [snap EXCEPT ![m].status = level]
    /\ Begin(c, <<m, level>>)
    /\ UNCHANGED <<window, cooling, log, made, budget>>

Judge(c) ==
    /\ disp[c].pc = "idle"
    /\ \E s \in check[c].list :
          /\ check' = [check EXCEPT ![c].list = @ \ {s}]
          /\ \/ Due(c, s) /\ Save(c, s.metric, "breached")
             \/ /\ ~Due(c, s)
                /\ \/ check[c].pc = "first" /\ Near(c, s) /\ Save(c, s.metric, "warning")
                   \/ /\ check[c].pc = "second" \/ ~Near(c, s)
                      /\ UNCHANGED <<snap, notifierVars>>
    /\ UNCHANGED <<ticket, agent, time, restarts>>

\* After the snapshots that were on track come those with a warning, the new
\* ones among them.
NextLoop(c) ==
    /\ disp[c].pc = "idle" /\ check[c].list = {}
    /\ \/ /\ check[c].pc = "first"
          /\ check' = [check EXCEPT ![c].pc = "second", ![c].list = Listed("warning")]
       \/ /\ check[c].pc = "second"
          /\ check' = [check EXCEPT ![c] = NoCheck]
    /\ UNCHANGED <<ticket, snap, agent, time, restarts, notifierVars>>

\* The worker is killed, in the middle of a dispatch or not.
CheckDies(c) ==
    /\ check[c].pc # "idle"
    /\ Fail
    /\ check' = [check EXCEPT ![c] = NoCheck]
    /\ disp' = [disp EXCEPT ![c] = NoDispatch]
    /\ UNCHANGED <<ticket, snap, agent, time, restarts, window, cooling, log, made>>

Tick ==
    /\ time < MaxTime
    /\ time' = time + 1
    /\ NotifierTick
    /\ UNCHANGED <<ticket, snap, agent, check, restarts>>

Next ==
    \/ \E a \in Agents : Read(a) \/ Look(a) \/ Serve(a)
    \/ \E c \in Callers : StartCheck(c) \/ Judge(c) \/ NextLoop(c) \/ CheckDies(c)
    \/ \E c \in Callers, n \in OtherNotices :
          check[c].pc = "idle" /\ Announce(c, n) /\ UNCHANGED deskVars
    \/ NotifierNext /\ UNCHANGED deskVars
    \/ Tick

Spec == Init /\ [][Next]_vars

-----------------------------------------------------------------------------
(* A breach that was recorded stands: only a reopened or an escalated ticket   *)
(* gets new deadlines, and a late answer turns a breach into an achievement    *)
(* only if its request had looked at the snapshot before the check saved it.   *)
BreachStands ==
    [][\A m \in Metrics :
          snap[m].status = "breached" /\ snap'[m].status # "breached" =>
              \/ snap'[m].status = "on_track" /\ restarts' > restarts
              \/ /\ snap'[m].status = "achieved"
                 /\ \E a \in Agents : agent[a].looked /\ ~agent'[a].looked /\ m \in agent[a].intact]_vars

(* One breach makes one entry per rule and channel, and not more than one for *)
(* each time the clocks were started: whatever the agents save while the     *)
(* check runs, no snapshot comes before it as unbreached a second time.      *)
OneNoticePerBreach ==
    \A m \in Metrics, r \in Rules, ch \in Channels :
        Cardinality({l \in Logs : /\ log[l].notice = <<m, "breached">>
                                  /\ log[l].rule = r /\ log[l].channel = ch}) <= restarts + 1

(* VALID_TRANSITIONS and test_invalid_transition_raises say which status follows *)
(* which; reopening, merging and the status an assignment keeps aside, a move   *)
(* outside the table comes only of a request whose instance was outdated: no    *)
(* sequence of requests that do not overlap makes one.                          *)
InvalidMoveIsStale ==
    [][ticket'.status # ticket.status =>
          \/ ticket'.status \in VALID_TRANSITIONS[ticket.status] \cup {"open", "closed"}
          \/ \E a \in Agents : /\ agent[a].reading /\ ~agent'[a].reading
                             /\ Seen(a).status # ticket.status]_vars
=============================================================================
