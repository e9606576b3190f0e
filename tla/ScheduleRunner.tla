--------------------------- MODULE ScheduleRunner ---------------------------
(* The runs of execute_schedules, the requests that execute a schedule or    *)
(* activate a template by hand, and what the screens show because of them    *)
(* (Schedule in templates/models.py, Screen.activate_template).              *)
(*                                                                           *)
(* A run reads the active schedules with one query and executes the ones     *)
(* that are due, the highest priority first; for each screen it looks up the *)
(* conflicts again. Nothing keeps two runs or requests apart but the lock    *)
(* that saving a screen holds until its activation commits. The flag         *)
(* is_currently_running and last_executed_at are left out: no code acts on   *)
(* them. So are --force, --schedule-id and --dry-run.                        *)
EXTENDS ContentDelivery, Recurrence

CONSTANTS
    Schedules,
    Runners,
    TemplateOf,    \* TemplateOf[s]: the template of schedule s
    Assigned,      \* Assigned[s]: the screens of schedule s
    Choices,       \* the windows an operator gives to schedules
    NoTemplate,
    NoSchedule

ASSUME RunnerAssumption ==
    /\ TemplateOf \in [Schedules -> Templates]
    /\ Assigned \in [Schedules -> SUBSET Screens]
    /\ Choices \subseteq Windows
    /\ \A w \in Choices : w.start < w.end
    /\ NoTemplate \notin Templates /\ NoSchedule \notin Schedules

VARIABLES
    plan,    \* plan[s]: is_active and the window of schedule s
    shown,   \* shown[x]: active_template of screen x
    run,     \* run[p]: what runner p is doing
    now

runnerVars == <<plan, shown, run, now>>
vars == <<deliveryVars, runnerVars>>
unspent == <<content, online, told, sender, asked, confirmed>>

Rows == [active : BOOLEAN, window : Choices]
RunPcs == {"pass", "begin", "screens", "activate", "commit"}
Kinds == {"pass", "request", "manual"}
Runs == [pc : RunPcs, kind : Kinds, seen : [Schedules -> Rows], todo : SUBSET Schedules,
         cur : Schedules \cup {NoSchedule}, template : Templates \cup {NoTemplate},
         todoScreens : SUBSET Screens, screen : SUBSET Screens, item : Items,
         result : Results, reached : BOOLEAN, alone : BOOLEAN]

Idle == [pc |-> "idle"]

TypeOK ==
    /\ DeliveryTypeOK
    /\ plan \in [Schedules -> Rows]
    /\ shown \in [Screens -> Templates \cup {NoTemplate}]
    /\ run \in [Runners -> Runs \cup {Idle}]
    /\ now \in Nat

Init ==
    /\ DeliveryInit
    /\ plan \in [Schedules -> {r \in Rows : r.active}]
    /\ shown = [x \in Screens |-> NoTemplate]
    /\ run = [p \in Runners |-> Idle]
    /\ now = 0

\* priority, which save() computes from start_time.
Priority(row) == row.window.start
Due(row) == row.active /\ RunningAt(row.window, now)

Starting(kind) ==
    [pc |-> "pass", kind |-> kind, seen |-> plan, todo |-> {}, cur |-> NoSchedule,
     template |-> NoTemplate, todoScreens |-> {}, screen |-> {}, item |-> NewItem,
     result |-> "none", reached |-> FALSE, alone |-> FALSE]

\* Anything that changes schedules, screens or the time, or works beside a run.
Disturbed ==
    [p \in Runners |-> IF run[p] = Idle THEN Idle ELSE [run[p] EXCEPT !.alone = FALSE]]

-----------------------------------------------------------------------------
(* execute_schedules and the views                                           *)

StartPass(p) ==
    /\ run[p].pc = "idle"
    /\ Spend({"passes"})
    /\ run' = [Disturbed EXCEPT ![p] =
         [Starting("pass") EXCEPT !.todo = {s \in Schedules : plan[s].active},
                                  !.alone = \A q \in Runners : run[q].pc = "idle"]]
    /\ UNCHANGED <<unspent, plan, shown, now>>

\* The schedules come ordered by priority; it is judged at its turn whether the
\* one that was read is due.
NextSchedule(p) ==
    /\ run[p].pc = "pass"
    /\ \E s \in run[p].todo :
         /\ \A t \in run[p].todo : Priority(run[p].seen[t]) <= Priority(run[p].seen[s])
         /\ run' = [run EXCEPT ![p].todo = @ \ {s},
                      ![p].pc = IF Due(run[p].seen[s]) THEN "begin" ELSE "pass",
                      ![p].cur = IF Due(run[p].seen[s]) THEN s ELSE NoSchedule]
    /\ UNCHANGED <<deliveryVars, plan, shown, now>>

EndRun(p) ==
    /\ run[p].pc = "pass"
    /\ run[p].todo = {}
    /\ run' = [run EXCEPT ![p] = Idle]
    /\ UNCHANGED <<deliveryVars, plan, shown, now>>

\* POST schedules/{id}/execute/; its force only skips the view's own check.
ExecuteRequest(p, s) ==
    /\ run[p].pc = "idle"
    /\ Spend({"requests"})
    /\ plan[s].active
    /\ Assigned[s] # {}
    /\ run' = [Disturbed EXCEPT ![p] = [Starting("request") EXCEPT !.pc = "begin", !.cur = s]]
    /\ UNCHANGED <<unspent, plan, shown, now>>

\* POST templates/{id}/activate_on_screen/: no schedule is looked at.
ActivateRequest(p, c, x) ==
    /\ run[p].pc = "idle"
    /\ Spend({"requests"})
    /\ run' = [Disturbed EXCEPT ![p] = [Starting("manual") EXCEPT !.pc = "activate",
                                          !.template = c, !.screen = {x}]]
    /\ UNCHANGED <<unspent, plan, shown, now>>

-----------------------------------------------------------------------------
(* execute_on_screens                                                        *)

OnlineOf(s) == {x \in Assigned[s] : online[x]}

BeginExecute(p) ==
    /\ run[p].pc = "begin"
    /\ IF Due(run[p].seen[run[p].cur])
       THEN run' = [run EXCEPT ![p].pc = "screens", ![p].todoScreens = OnlineOf(run[p].cur),
                                ![p].template = TemplateOf[run[p].cur]]
       ELSE run' = [run EXCEPT ![p].pc = "pass", ![p].cur = NoSchedule]
    /\ UNCHANGED <<deliveryVars, plan, shown, now>>

\* _get_conflicting_schedules_for_screen(): the others are read afresh, the
\* schedule itself is the instance that the run has read.
HigherConflicts(p, x) ==
    LET s == run[p].cur
        self == run[p].seen[s]
    IN {h \in Schedules \ {s} :
          /\ x \in Assigned[h]
          /\ plan[h].active
          /\ Conflicting(self.window, plan[h].window, now)
          /\ Priority(self) < Priority(plan[h])}

CheckConflicts(p, x) ==
    /\ run[p].pc = "screens"
    /\ x \in run[p].todoScreens
    /\ IF HigherConflicts(p, x) # {}
       THEN run' = [run EXCEPT ![p].todoScreens = @ \ {x}]
       ELSE run' = [run EXCEPT ![p].todoScreens = @ \ {x}, ![p].pc = "activate",
                               ![p].screen = {x}]
    /\ UNCHANGED <<deliveryVars, plan, shown, now>>

FinishSchedule(p) ==
    /\ run[p].pc = "screens"
    /\ run[p].todoScreens = {}
    /\ run' = [run EXCEPT ![p].pc = "pass", ![p].cur = NoSchedule, ![p].template = NoTemplate]
    /\ UNCHANGED <<deliveryVars, plan, shown, now>>

-----------------------------------------------------------------------------
(* activate_template                                                         *)

\* Where a runner goes on after an activation.
Onward(p) == IF run[p].kind = "manual" THEN "pass" ELSE "screens"

\* The template is not active, or the activation raised and was rolled back.
ActivationFails(p) ==
    /\ run[p].pc = "activate"
    /\ Spend({"failures"})
    /\ run' = [run EXCEPT ![p].pc = Onward(p), ![p].screen = {}, ![p].alone = FALSE]
    /\ UNCHANGED <<unspent, plan, shown, now>>

Locked(x) == \E q \in Runners : run[q].pc = "commit" /\ x \in run[q].screen

\* The transaction saves the screen, which locks its row, reads the content
\* and sends what needs sending; the device gets it before the commit.
OpenActivation(p, x) ==
    LET c == run[p].template
        item == content[c]
    IN
    /\ run[p].pc = "activate"
    /\ x \in run[p].screen
    /\ ~Locked(x)
    /\ \E result \in IF NeedsDownload(item) THEN DownloadResults(c, item, online[x]) ELSE {"none"} :
         /\ Spend(Failing(result))
         /\ Ask(c, x, result)
         /\ run' = [run EXCEPT ![p].pc = "commit", ![p].item = item, ![p].result = result,
                               ![p].reached = online[x]]
    /\ UNCHANGED <<content, online, sender, confirmed, plan, shown, now>>

CommitActivation(p, x) ==
    LET c == run[p].template IN
    /\ run[p].pc = "commit"
    /\ x \in run[p].screen
    /\ shown' = [shown EXCEPT ![x] = c]
    /\ content' = [content EXCEPT ![c] = Settled(@, run[p].item, run[p].result)]
    /\ run' = [run EXCEPT ![p].pc = Onward(p), ![p].screen = {},
                             ![p].item = NewItem, ![p].result = "none", ![p].reached = FALSE]
    /\ UNCHANGED <<online, told, sender, left, asked, confirmed, plan, now>>

-----------------------------------------------------------------------------
(* The environment                                                           *)

\* PUT or PATCH of a schedule, which may also switch it on or off.
EditSchedule(s, row) ==
    /\ Spend({"edits"})
    /\ plan' = [plan EXCEPT ![s] = row]
    /\ run' = Disturbed
    /\ UNCHANGED <<unspent, shown, now>>

ScreenToggles(x) ==
    /\ Toggle(x)
    /\ run' = Disturbed
    /\ UNCHANGED <<plan, shown, now>>

Tick ==
    /\ Spend({"ticks"})
    /\ now' = now + 1
    /\ run' = Disturbed
    /\ UNCHANGED <<unspent, plan, shown>>

RunnerStep(p) ==
    \/ StartPass(p)
    \/ NextSchedule(p)
    \/ EndRun(p)
    \/ \E s \in Schedules : ExecuteRequest(p, s)
    \/ \E c \in Templates, x \in Screens : ActivateRequest(p, c, x)
    \/ BeginExecute(p)
    \/ \E x \in Screens : CheckConflicts(p, x) \/ OpenActivation(p, x) \/ CommitActivation(p, x)
    \/ FinishSchedule(p)
    \/ ActivationFails(p)

Next ==
    \/ \E p \in Runners : RunnerStep(p)
    \/ SenderStep /\ UNCHANGED runnerVars
    \/ \E s \in Schedules, row \in Rows : EditSchedule(s, row)
    \/ \E x \in Screens : ScreenToggles(x)
    \/ Tick

Spec == Init /\ [][Next]_vars

-----------------------------------------------------------------------------
(* Properties                                                                *)

UndisturbedEnd(p) == run[p].pc = "pass" /\ run[p].alone /\ run'[p].pc = "idle"

On(x) == {s \in Schedules : x \in Assigned[s] /\ plan[s].active}
Alike(S) == \A s, t \in S : plan[s].window.repeat = plan[t].window.repeat

\* Does window w cover the tick from u to u + 1, and do two that repeat alike cover one?
Covers(w, u) ==
    \E n \in 0 .. (IF w.repeat = "none" THEN 0 ELSE MostRuns - 1) :
        w.start + n * Period(w) <= u /\ u < w.end + n * Period(w)
Clash(v, w) ==
    \E u \in 0 .. (IF v.repeat = "none" THEN v.end ELSE now + Horizon) : Covers(v, u) /\ Covers(w, u)

DueOn(x) == {s \in On(x) : Due(plan[s])}
Unrivalled(x) ==
    {s \in DueOn(x) : \A h \in On(x) :
        Priority(plan[h]) > Priority(plan[s]) => ~Clash(plan[h].window, plan[s].window)}

(* A run that nothing disturbs and in which every activation works leaves each
   online screen whose schedules repeat alike with the template of a due
   schedule that no schedule of higher priority ever overlaps, if there is one:
   the order of the run and the conflicts it looks up agree.
   (execute_schedules, execute_on_screens, is_conflicting)                   *)
WinnerIsShown ==
    [][\A p \in Runners : UndisturbedEnd(p) =>
         \A x \in Screens : online[x] /\ Alike(On(x)) /\ Unrivalled(x) # {} =>
             shown[x] \in {TemplateOf[s] : s \in Unrivalled(x)}]_vars

(* An activation that reached its screen online leaves the screen told to fetch
   the content, unless an attempt has failed or another screen has reported the
   content as downloaded: the one status of the item stands for all screens.
   (activate_template, sync_template_content, needs_download)                *)
ServedOrExcused ==
    [][\A p \in Runners, x \in Screens :
         CommitActivation(p, x) /\ run[p].reached /\ IsFile[run[p].template] =>
             \/ <<run[p].template, x>> \in asked
             \/ run[p].template \in confirmed
             \/ content'[run[p].template].retries > 0]_vars

(* Whenever a run that nothing disturbs ends, an online screen with schedules
   that are due shows one of them: "execute schedules that are due to run".
   (execute_schedules)                                                       *)
DueIsShown ==
    [][\A p \in Runners : UndisturbedEnd(p) =>
         \A x \in Screens : online[x] /\ DueOn(x) # {} =>
             shown[x] \in {TemplateOf[s] : s \in DueOn(x)}]_vars
=============================================================================
