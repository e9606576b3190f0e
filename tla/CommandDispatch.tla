--------------------------- MODULE CommandDispatch ---------------------------
(***************************************************************************)
(* The life of the commands queued for one screen: the rows of             *)
(* commands.models.Command and their CommandExecutionLog entries, the      *)
(* request handlers of the dashboard (execute, retry, edit) and the two    *)
(* ways a device takes commands: the polling protocol of the web player    *)
(* (/iot/commands/pending/ and /iot/commands/status/) and the WebSocket    *)
(* push.  Django runs each handler in autocommit mode on its own instance  *)
(* of the row, so every read and every save is a step of its own and a     *)
(* save writes the fields it names from the instance that was read.        *)
(*                                                                         *)
(* A handler that raises leaves what it already saved and answers 500.     *)
(* Command.save() validates the whole row first, so every save of a row    *)
(* whose expire_at has come raises (Saves).                                *)
(***************************************************************************)
EXTENDS Naturals, Sequences, FiniteSets

CONSTANTS
    Commands,        \* command rows of the screen
    Workers,         \* request handlers of the dashboard, one request each
    Pollers,         \* polls of the device that may overlap (timer of 5 s, timeout of 10 s)
    LegacyPollers,   \* those that use /api/screens/command-pull/ instead of /iot/
    NoCommand,       \* no command at hand
    Kind,            \* Kind[c]: how _execute_by_type_for_screen treats c
    Rank,            \* Rank[c]: position of c in order_by('-priority', 'created_at')
    Limit,           \* the "limit" parameter of a poll
    Expiries,        \* the expire_at values that are given to commands
    HasSocket,       \* the device is one that opens a WebSocket
    MaxTime,         \* bound on the clock
    Requests,        \* what the dashboard asks for: "execute", "retry", "edit"
    MaxRequests,     \* bound on the dashboard requests
    MaxLegacyPulls,  \* bound on the polls that leave a command pending
    MaxLosses        \* bound on the lost requests and answers of the device

NoExpiry == MaxTime + 1      \* expire_at is null: later than any instant
MaxRetries == 3              \* the default of can_retry

ASSUME CommandDispatchAssumption ==
    /\ NoCommand \notin Commands
    /\ Kind \in [Commands -> {"push", "sync", "template"}]
    /\ Rank \in [Commands -> Nat]
    /\ LegacyPollers \subseteq Pollers
    /\ MaxTime \in Nat
    /\ MaxRequests \in Nat
    /\ MaxLosses \in Nat
    /\ MaxLegacyPulls \in Nat
    /\ Limit \in Nat
    /\ Expiries \subseteq 0 .. MaxTime + 1
    /\ HasSocket \in BOOLEAN

VARIABLES
    row,         \* row[c]: the columns of c that decide what happens to it
    logs,        \* logs[c]: the statuses of the CommandExecutionLog rows of c, oldest first
    screen,      \* is_online, is_busy and the entry of ScreenConnectionRegistry
    now,
    wk,          \* wk[w]: the handler that worker w runs
    pl,          \* pl[p]: the poll p, its server side and the device's loop over the answer
    budget,      \* requests and losses so far
    ghost        \* what really happened, for the properties only

vars == <<row, logs, screen, now, wk, pl, budget, ghost>>

-----------------------------------------------------------------------------
Statuses == {"absent", "pending", "executing", "done", "failed"}
LogStatuses == {"pending", "running", "done", "failed"}

Instants == 0 .. NoExpiry

Rows == [status : Statuses, attempts : Nat, expire : Instants]

Absent == [status |-> "absent", attempts |-> 0, expire |-> NoExpiry]

Queued(e) == [status |-> "pending", attempts |-> 0, expire |-> e]

\* is_expired(): strictly after expire_at; clean(): expire_at <= now is refused.
Expired(r) == now > r.expire
SavesUnchecked(r) == TRUE
Saves(r) == now < r.expire

CanRetry(r) ==
    /\ r.status \in {"failed", "pending"}
    /\ ~Expired(r)
    /\ r.attempts < MaxRetries

\* mark_done() and mark_failed() of instance i, saved over the row r.
Done(r) == [r EXCEPT !.status = "done"]
Failed(r, i) == [r EXCEPT !.status = "failed", !.attempts = i.attempts + 1]

\* What execute() and a report of the device make of the row.
OutcomeIgnoringFailure(r, ok) == Done(r)
OutcomeRequeued(r, ok) == IF ok THEN Done(r) ELSE [Failed(r, r) EXCEPT !.status = "pending"]
Outcome(r, ok) == IF ok THEN Done(r) ELSE Failed(r, r)

ReportedIfDone(r, i, s) == IF s = "done" THEN Done(r) ELSE r
Reported(r, i, s) == IF s = "done" THEN Done(r) ELSE Failed(r, i)

\* The index of the next log entry of c.
NextEntry(c) == Len(logs[c]) + 1

\* The newest log entry of c that is still 'running' takes the outcome s; when
\* there is none an entry with that outcome is created.
CloseRunning(c, s) ==
    LET running == {i \in DOMAIN logs[c] : logs[c][i] = "running"}
    IN  IF running = {}
        THEN [logs EXCEPT ![c] = Append(@, s)]
        ELSE [logs EXCEPT ![c][CHOOSE i \in running : \A j \in running : j <= i] = s]

\* The first elements of S in the order of the queue.
Before(c, d) == Rank[c] < Rank[d]
ForemostButOne(S) == {c \in S : Cardinality({d \in S : Before(d, c)}) + 1 < Limit}
Foremost(S) == {c \in S : Cardinality({d \in S : Before(d, c)}) < Limit}
Next1(S) == {c \in S : \A d \in S : ~Before(d, c)}

IdleWorker == [pc |-> "idle", cmd |-> NoCommand, seen |-> Absent, log |-> 0, ok |-> FALSE]

IdlePoller == [pc |-> "idle", queue |-> {}, seen |-> [c \in Commands |-> Absent], todo |-> {},
               cur |-> NoCommand, report |-> "done", again |-> FALSE]

Init ==
    /\ row = [c \in Commands |-> Absent]
    /\ logs = [c \in Commands |-> <<>>]
    /\ screen = [online |-> FALSE, busy |-> FALSE, registered |-> FALSE]
    /\ now = 0
    /\ wk = [w \in Workers |-> IdleWorker]
    /\ pl = [p \in Pollers |-> IdlePoller]
    /\ budget = [requests |-> 0, losses |-> 0, pulls |-> 0]
    /\ ghost = [pulled |-> [p \in Pollers |-> [c \in Commands |-> 0]],
                requeued |-> [c \in Commands |-> 0],
                sent |-> {}, pushed |-> {}, reported |-> {}, rescheduled |-> {}]

-----------------------------------------------------------------------------
(* The dashboard.  A request is one handler that runs on worker w.         *)

Request(w, kind) ==
    /\ kind \in Requests
    /\ wk[w].pc = "idle"
    /\ budget.requests < MaxRequests
    /\ budget' = [budget EXCEPT !.requests = @ + 1]

\* The handler has read the row of c.
Arrived(pc, c) == [pc |-> pc, cmd |-> c, seen |-> row[c], log |-> 0, ok |-> FALSE]

Goto(w, pc) == wk' = [wk EXCEPT ![w].pc = pc]
EndRequest(w) == wk' = [wk EXCEPT ![w] = IdleWorker]

\* queue_command(): objects.create() goes through save(), hence full_clean().
QueueCommand(c) ==
    /\ row[c].status = "absent"
    /\ \E e \in Expiries :
          /\ now < e
          /\ row' = [row EXCEPT ![c] = Queued(e)]
    /\ UNCHANGED <<logs, screen, now, wk, pl, budget, ghost>>

\* POST /api/commands/{id}/execute/: the view reads the row and calls execute().
ExecuteRequest(w, c) ==
    /\ Request(w, "execute")
    /\ row[c].status # "absent"
    /\ wk' = [wk EXCEPT ![w] = Arrived("begin", c)]
    /\ UNCHANGED <<row, logs, screen, now, pl, ghost>>

\* POST /api/commands/{id}/retry/: can_retry() on the instance just read.
RetryRequest(w, c) ==
    /\ Request(w, "retry")
    /\ CanRetry(row[c])
    /\ wk' = [wk EXCEPT ![w] = Arrived("reset", c)]
    /\ UNCHANGED <<row, logs, screen, now, pl, ghost>>

\* reset_status(); raises when the instance has expired since.
ResetStatus(w) ==
    LET c == wk[w].cmd IN
    /\ wk[w].pc = "reset"
    /\ \/ /\ Saves(wk[w].seen)
          /\ row' = [row EXCEPT ![c].status = "pending"]
          /\ ghost' = [ghost EXCEPT !.requeued[c] = @ + 1]
          /\ Goto(w, "begin")
       \/ /\ ~Saves(wk[w].seen)
          /\ EndRequest(w)
          /\ UNCHANGED <<row, ghost>>
    /\ UNCHANGED <<logs, screen, now, pl, budget>>

\* The checks at the head of execute(), on the instance and on the screen it
\* loads.  Saving the failure of an expired command raises, like any save.
ExecuteBegin(w) ==
    LET c == wk[w].cmd IN
    /\ wk[w].pc = "begin"
    /\ \/ /\ Expired(wk[w].seen)
          /\ EndRequest(w)
          /\ UNCHANGED logs
       \/ /\ ~Expired(wk[w].seen)
          /\ ~screen.online
          /\ logs' = [logs EXCEPT ![c] = Append(@, "pending")]
          /\ EndRequest(w)
       \/ /\ ~Expired(wk[w].seen)
          /\ screen.online
          /\ Goto(w, "claim")
          /\ UNCHANGED logs
    /\ UNCHANGED <<row, screen, now, pl, budget, ghost>>

\* The first transaction of execute(): the row is read again under its lock, its
\* status is not looked at.
ExecuteClaim(w) ==
    LET c == wk[w].cmd IN
    /\ wk[w].pc = "claim"
    /\ \/ /\ Saves(row[c])
          /\ row' = [row EXCEPT ![c].status = "executing", ![c].attempts = @ + 1]
          /\ logs' = [logs EXCEPT ![c] = Append(@, "running")]
          /\ wk' = [wk EXCEPT ![w].pc = "send", ![w].log = NextEntry(c)]
       \/ /\ ~Saves(row[c])
          /\ EndRequest(w)
          /\ UNCHANGED <<row, logs>>
    /\ UNCHANGED <<screen, now, pl, budget, ghost>>

\* _execute_by_type_for_screen(), outside any transaction.  The instance of the
\* screen is the one found online before, so only the registry decides; the HTTP
\* fallback always fails, and a sync_content that cannot be pushed counts as sent.
\* A template is activated by the server, which may fail.
ExecuteSend(w) ==
    LET c == wk[w].cmd IN
    /\ wk[w].pc = "send"
    /\ \E ok \in BOOLEAN :
          /\ Kind[c] = "push" => ok = screen.registered
          /\ Kind[c] = "sync" => ok
          /\ wk' = [wk EXCEPT ![w].pc = "finish", ![w].ok = ok]
          /\ ghost' = [ghost EXCEPT
                !.sent = IF ok THEN @ \cup {c} ELSE @,
                !.pushed = IF screen.registered /\ Kind[c] # "template" THEN @ \cup {c} ELSE @]
    /\ UNCHANGED <<row, logs, screen, now, pl, budget>>

\* The second transaction of execute().  On an expired row mark_done() raises, the
\* except branch calls mark_failed(), which raises again: nothing is written.
ExecuteFinish(w) ==
    LET c == wk[w].cmd IN
    /\ wk[w].pc = "finish"
    /\ \/ /\ Saves(row[c])
          /\ row' = [row EXCEPT ![c] = Outcome(@, wk[w].ok)]
          /\ logs' = [logs EXCEPT ![c][wk[w].log] = IF wk[w].ok THEN "done" ELSE "failed"]
       \/ /\ ~Saves(row[c])
          /\ UNCHANGED <<row, logs>>
    /\ EndRequest(w)
    /\ UNCHANGED <<screen, now, pl, budget, ghost>>

\* PUT/PATCH /api/commands/{id}/: update() reads the row, perform_update() reads it
\* again for its status check, and the serializer saves every column of the first.
EditRequest(w, c) ==
    /\ Request(w, "edit")
    /\ row[c].status # "absent"
    /\ wk' = [wk EXCEPT ![w] = Arrived("check", c)]
    /\ UNCHANGED <<row, logs, screen, now, pl, ghost>>

EditCheck(w) ==
    /\ wk[w].pc = "check"
    /\ IF row[wk[w].cmd].status \in {"executing", "done"} THEN EndRequest(w) ELSE Goto(w, "edit")
    /\ UNCHANGED <<row, logs, screen, now, pl, budget, ghost>>

EditSave(w) ==
    LET c == wk[w].cmd IN
    /\ wk[w].pc = "edit"
    /\ \E e \in Expiries \cup {wk[w].seen.expire} :
          IF now < e
          THEN /\ row' = [row EXCEPT ![c] = [wk[w].seen EXCEPT !.expire = e]]
               /\ ghost' = [ghost EXCEPT
                     !.requeued[c] = IF wk[w].seen.status = "pending" THEN @ + 1 ELSE @,
                     !.rescheduled = IF e # row[c].expire THEN @ \cup {c} ELSE @]
          ELSE UNCHANGED <<row, ghost>>
    /\ EndRequest(w)
    /\ UNCHANGED <<logs, screen, now, pl, budget>>

-----------------------------------------------------------------------------
(* The device that polls.                                                  *)

Lose == /\ budget.losses < MaxLosses
        /\ budget' = [budget EXCEPT !.losses = @ + 1]

\* The query of the poll: pending commands whose expire_at is not yet past.
PullQuery(p) ==
    LET q == Foremost({c \in Commands : row[c].status = "pending" /\ ~Expired(row[c])}) IN
    /\ pl[p].pc = "idle"
    /\ q # {}
    /\ pl' = [pl EXCEPT ![p] = [IdlePoller EXCEPT !.pc = "marking", !.queue = q,
                  !.seen = [c \in Commands |-> IF c \in q THEN row[c] ELSE Absent]]]
    /\ \/ p \notin LegacyPollers /\ UNCHANGED budget
       \/ /\ p \in LegacyPollers
          /\ budget.pulls < MaxLegacyPulls
          /\ budget' = [budget EXCEPT !.pulls = @ + 1]
    /\ UNCHANGED <<row, logs, screen, now, wk, ghost>>

\* The row r after poll p has saved its instance i of it: the legacy endpoint
\* leaves the status alone.
MarkedUnclaimed(p, r, i) == [r EXCEPT !.attempts = i.attempts + 1]
Marked(p, r, i) ==
    [r EXCEPT !.status = IF p \in LegacyPollers THEN @ ELSE "executing",
              !.attempts = i.attempts + 1]

\* One turn of the loop over the result: the save of the instance and its log
\* entry.  A save that raises ends the request with a 500: what was marked before
\* it stays marked and is never delivered.
PullMark(p) ==
    /\ pl[p].pc = "marking"
    /\ \E c \in Next1(pl[p].queue) :
          \/ /\ Saves(pl[p].seen[c])
             /\ row' = [row EXCEPT ![c] = Marked(p, @, pl[p].seen[c])]
             /\ logs' = [logs EXCEPT ![c] = Append(@, "running")]
             /\ pl' = [pl EXCEPT ![p].queue = @ \ {c}, ![p].todo = @ \cup {c}]
             /\ ghost' = [ghost EXCEPT !.pulled[p][c] = @ + 1]
          \/ /\ ~Saves(pl[p].seen[c])
             /\ pl' = [pl EXCEPT ![p] = IdlePoller]
             /\ UNCHANGED <<row, logs, ghost>>
    /\ UNCHANGED <<screen, now, wk, budget>>

\* The answer: it reaches the device, or the device gives up on the request.
PullAnswer(p) ==
    /\ pl[p].pc = "marking"
    /\ pl[p].queue = {}
    /\ screen' = [screen EXCEPT !.busy = TRUE]
    /\ \/ /\ pl' = [pl EXCEPT ![p] = [IdlePoller EXCEPT !.pc = "loop", !.todo = pl[p].todo]]
          /\ UNCHANGED budget
       \/ /\ Lose
          /\ pl' = [pl EXCEPT ![p] = IdlePoller]
    /\ UNCHANGED <<row, logs, now, wk, ghost>>

\* executeCommand() of the player: it runs the next command of the answer, with
\* success or not, and posts the outcome; the loop ends when none is left.
DeviceExecute(p) ==
    /\ pl[p].pc = "loop"
    /\ \/ \E c \in Next1(pl[p].todo), s \in {"done", "failed"} :
             pl' = [pl EXCEPT ![p].pc = "posting", ![p].cur = c, ![p].todo = @ \ {c},
                              ![p].report = s, ![p].again = FALSE]
       \/ /\ pl[p].todo = {}
          /\ pl' = [pl EXCEPT ![p] = IdlePoller]
    /\ UNCHANGED <<row, logs, screen, now, wk, budget, ghost>>

\* A status post that fails, for whatever reason, makes the player post 'failed'
\* once; a second failure is ignored.
PostError(p) ==
    IF pl[p].again
    THEN [pl EXCEPT ![p].pc = "loop", ![p].cur = NoCommand, ![p].report = "done",
                    ![p].again = FALSE, ![p].seen = [c \in Commands |-> Absent]]
    ELSE [pl EXCEPT ![p].pc = "posting", ![p].report = "failed", ![p].again = TRUE,
                    ![p].seen = [c \in Commands |-> Absent]]

PostAnswered(p) ==
    [pl EXCEPT ![p].pc = "loop", ![p].cur = NoCommand, ![p].report = "done",
               ![p].again = FALSE, ![p].seen = [c \in Commands |-> Absent]]

\* The status post: lost on its way, or read by the server, which reads the row.
PostStatus(p) ==
    LET c == pl[p].cur IN
    /\ pl[p].pc = "posting"
    /\ \/ /\ pl' = [pl EXCEPT ![p].pc = "saving", ![p].seen[c] = row[c]]
          /\ UNCHANGED budget
       \/ /\ Lose
          /\ pl' = PostError(p)
    /\ UNCHANGED <<row, logs, screen, now, wk, ghost>>

\* mark_done() or mark_failed() on that instance, whatever its status; then the
\* screen and the log.  The answer may be lost after all was written.
SaveStatus(p) ==
    LET c == pl[p].cur
        i == pl[p].seen[c]
    IN
    /\ pl[p].pc = "saving"
    /\ \/ /\ Saves(i)
          /\ row' = [row EXCEPT ![c] = Reported(@, i, pl[p].report)]
          /\ logs' = CloseRunning(c, pl[p].report)
          /\ screen' = [screen EXCEPT !.busy = FALSE]
          /\ ghost' = IF pl[p].report = "done"
                      THEN [ghost EXCEPT !.reported = @ \cup {c}] ELSE ghost
          /\ \/ pl' = PostAnswered(p) /\ UNCHANGED budget
             \/ pl' = PostError(p) /\ Lose
       \/ /\ ~Saves(i)
          /\ pl' = PostError(p)
          /\ UNCHANGED <<row, logs, screen, budget, ghost>>
    /\ UNCHANGED <<now, wk>>

-----------------------------------------------------------------------------
(* The rest of the world.                                                  *)

\* The device opens or closes its WebSocket: the consumer sets the registry and
\* is_online together.
SocketConnect ==
    /\ HasSocket
    /\ \E b \in BOOLEAN : screen' = [screen EXCEPT !.online = b, !.registered = b]
    /\ UNCHANGED <<row, logs, now, wk, pl, budget, ghost>>

\* A heartbeat sets is_online, check_heartbeats clears it.
Heartbeat ==
    /\ \E b \in BOOLEAN : screen' = [screen EXCEPT !.online = b]
    /\ UNCHANGED <<row, logs, now, wk, pl, budget, ghost>>

\* handle_command_status_update(): a WebSocket device says it has started on a
\* command that was pushed to it; the status is set whatever it was.
SocketExecuting(c) ==
    /\ HasSocket
    /\ c \in ghost.pushed
    /\ Saves(row[c])
    /\ row' = [row EXCEPT ![c].status = "executing"]
    /\ UNCHANGED <<logs, screen, now, wk, pl, budget, ghost>>

Tick ==
    /\ now < MaxTime
    /\ now' = now + 1
    /\ UNCHANGED <<row, logs, screen, wk, pl, budget, ghost>>

ExecuteStep(w) == ExecuteBegin(w) \/ ExecuteClaim(w) \/ ExecuteSend(w) \/ ExecuteFinish(w)

WorkerStep(w) == ResetStatus(w) \/ ExecuteStep(w) \/ EditCheck(w) \/ EditSave(w)

PollerStep(p) ==
    \/ PullQuery(p) \/ PullMark(p) \/ PullAnswer(p)
    \/ DeviceExecute(p) \/ PostStatus(p) \/ SaveStatus(p)

Next ==
    \/ \E c \in Commands : QueueCommand(c) \/ SocketExecuting(c)
    \/ \E w \in Workers, c \in Commands :
          ExecuteRequest(w, c) \/ RetryRequest(w, c) \/ EditRequest(w, c)
    \/ \E w \in Workers : WorkerStep(w)
    \/ \E p \in Pollers : PollerStep(p)
    \/ SocketConnect \/ Heartbeat \/ Tick

Spec == Init /\ [][Next]_vars

\* A request handler runs to its end; the timers of the player poll for ever and
\* its axios client gives up on a request that gets no answer.
Fairness ==
    /\ \A w \in Workers : WF_vars(WorkerStep(w))
    /\ \A p \in Pollers : WF_vars(PollerStep(p))

FairSpec == Spec /\ Fairness

-----------------------------------------------------------------------------
(* Properties.                                                             *)

WorkerPcs == {"idle", "begin", "reset", "claim", "send", "finish", "check", "edit"}

Workings == [pc : WorkerPcs, cmd : Commands \cup {NoCommand}, seen : Rows, log : Nat, ok : BOOLEAN]

PollerPcs == {"idle", "marking", "loop", "posting", "saving"}

Outcomes == {"done", "failed"}

Pollings == [pc : PollerPcs, queue : SUBSET Commands, seen : [Commands -> Rows],
             todo : SUBSET Commands, cur : Commands \cup {NoCommand},
             report : Outcomes, again : BOOLEAN]

Screens == [online : BOOLEAN, busy : BOOLEAN, registered : BOOLEAN]

Budgets == [requests : 0 .. MaxRequests, losses : 0 .. MaxLosses, pulls : 0 .. MaxLegacyPulls]

Ghosts == [pulled : [Pollers -> [Commands -> Nat]], requeued : [Commands -> Nat],
           sent : SUBSET Commands, pushed : SUBSET Commands,
           reported : SUBSET Commands, rescheduled : SUBSET Commands]

StoreOK ==
    /\ row \in [Commands -> Rows]
    /\ logs \in [Commands -> Seq(LogStatuses)]

WorldOK ==
    /\ screen \in Screens
    /\ now \in 0 .. MaxTime
    /\ budget \in Budgets
    /\ ghost \in Ghosts

WorkersOK ==
    /\ wk \in [Workers -> Workings]
    /\ \A w \in Workers : wk[w].pc # "idle" => wk[w].cmd \in Commands
    /\ \A w \in Workers : wk[w].pc \in {"send", "finish"} => wk[w].log \in DOMAIN logs[wk[w].cmd]

PollersOK ==
    /\ pl \in [Pollers -> Pollings]
    /\ \A p \in Pollers : pl[p].pc \in {"posting", "saving"} => pl[p].cur \in Commands

\* The type of every variable; a handler at work has a command at hand, and one
\* that is sending has the log entry it will close.
TypeOK == StoreOK /\ WorldOK /\ WorkersOK /\ PollersOK

\* The guarantee of the polling protocol: since a poll marks a command 'executing'
\* before it hands it out, one poll loop never takes a command twice unless an
\* operator's write put it back to 'pending' in between, whatever is lost and
\* whatever races with it.  (Overlapping polls may each take it once.)
TakenOncePerQueueing ==
    \A p \in Pollers \ LegacyPollers, c \in Commands :
        ghost.pulled[p][c] <= 1 + ghost.requeued[c]

\* A command is 'done' only if the device said so or execute() believed it sent:
\* no interleaving of stale saves invents a success.
DoneHasEvidence ==
    \A c \in Commands : row[c].status = "done" => c \in ghost.sent \cup ghost.reported

\* Because save() validates the whole row, once expire_at has come no handler can
\* move the status any more: not the device's report, not execute(), not a retry.
\* (An edit that moves expire_at is the only exception.)
FrozenOnceExpired ==
    [][\A c \in Commands \ ghost'.rescheduled :
          row'[c].status # row[c].status => now < row'[c].expire]_vars

\* A pending command without expiry does not stay pending while the device polls.
PendingIsTaken ==
    \A c \in Commands :
        (row[c].status = "pending" /\ row[c].expire = NoExpiry)
            ~> (row[c].status # "pending" \/ row[c].expire # NoExpiry)

\* When no answer is lost, every execution of a command without expiry comes to an
\* outcome.
ExecutingSettles ==
    \A c \in Commands :
        (row[c].status = "executing" /\ row[c].expire = NoExpiry)
            ~> (row[c].status # "executing" \/ row[c].expire # NoExpiry)

(* The handlers and the polls implement the contract of a command.  Somebody has  *)
(* taken a command when its log has an entry other than that of an offline screen.*)
Taken == {c \in Commands : \E i \in DOMAIN logs[c] : logs[c][i] # "pending"}

Contract == INSTANCE CommandContract WITH
    Loops <- Pollers \ LegacyPollers,
    Deadlines <- Instants,
    Never <- NoExpiry,
    status <- [c \in Commands |-> row[c].status],
    deadline <- [c \in Commands |-> row[c].expire],
    clock <- now,
    taken <- Taken,
    evidence <- ghost.sent \cup ghost.reported,
    delivered <- [p \in Pollers \ LegacyPollers |-> ghost.pulled[p]],
    requeued <- ghost.requeued,
    moved <- ghost.rescheduled

(* Whatever stale instance a handler or a poll saves, and in which order, a       *)
(* command leaves 'pending' only when somebody takes it, is concluded only then,  *)
(* shows no status that it never earned, and keeps it when it has expired.        *)
KeepsContract == Contract!Spec

-----------------------------------------------------------------------------
(* What the comments and the help texts of the code say, and the code does *)
(* not do.                                                                 *)

\* commands/models.py, execute(): "Lock command row to prevent concurrent
\* execution" -- two requests that execute the same command at the same time.
NoConcurrentExecution ==
    \A v, w \in Workers :
        (v # w /\ wk[v].pc \in {"send", "finish"} /\ wk[w].pc \in {"send", "finish"})
            => wk[v].cmd # wk[w].cmd
=============================================================================
