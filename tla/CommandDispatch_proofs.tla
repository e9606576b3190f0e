------------------------ MODULE CommandDispatch_proofs ------------------------
(***************************************************************************)
(* Proofs about CommandDispatch, for any commands, workers and pollers.    *)
(***************************************************************************)
EXTENDS CommandDispatch, SequenceTheorems, TLAPS

-----------------------------------------------------------------------------
(* Log entries.                                                            *)

\* Appending an element keeps the indices there are and adds the next one.
LEMMA AppendSeq ==
    ASSUME NEW S, NEW q \in Seq(S), NEW s \in S
    PROVE  /\ Append(q, s) \in Seq(S)
           /\ DOMAIN q \subseteq DOMAIN Append(q, s)
           /\ Len(q) + 1 \in DOMAIN Append(q, s)
           /\ Len(q) + 1 \in Nat
    BY AppendProperties, LenProperties

\* Overwriting an element keeps the type of a sequence and its indices.
LEMMA OverwriteSeq ==
    ASSUME NEW S, NEW q \in Seq(S), NEW i, NEW s \in S
    PROVE  /\ [q EXCEPT ![i] = s] \in Seq(S)
           /\ DOMAIN [q EXCEPT ![i] = s] = DOMAIN q
<1>1. CASE i \in DOMAIN q
    BY <1>1, ExceptSeq, LenProperties
<1>2. CASE i \notin DOMAIN q
  <2>1. q \in [1 .. Len(q) -> S]
    BY LenProperties
  <2>2. [q EXCEPT ![i] = s] = q
    BY <1>2, <2>1, Zenon
  <2> QED BY <2>2
<1> QED BY <1>1, <1>2

\* Closing a running entry never loses an entry.
LEMMA CloseRunningType ==
    ASSUME logs \in [Commands -> Seq(LogStatuses)],
           NEW c \in Commands, NEW s \in LogStatuses
    PROVE  /\ CloseRunning(c, s) \in [Commands -> Seq(LogStatuses)]
           /\ \A d \in Commands : DOMAIN logs[d] \subseteq DOMAIN CloseRunning(c, s)[d]
<1> DEFINE running == {i \in DOMAIN logs[c] : logs[c][i] = "running"}
           last == CHOOSE i \in running : \A j \in running : j <= i
<1>1. CASE running = {}
  <2>1. CloseRunning(c, s) = [logs EXCEPT ![c] = Append(logs[c], s)]
    BY <1>1 DEF CloseRunning
  <2>2. /\ Append(logs[c], s) \in Seq(LogStatuses)
        /\ DOMAIN logs[c] \subseteq DOMAIN Append(logs[c], s)
    BY AppendSeq
  <2> QED BY <2>1, <2>2
<1>2. CASE running # {}
  <2>1. CloseRunning(c, s) = [logs EXCEPT ![c] = [logs[c] EXCEPT ![last] = s]]
    BY <1>2 DEF CloseRunning
  <2> HIDE DEF last
  <2>2. /\ [logs[c] EXCEPT ![last] = s] \in Seq(LogStatuses)
        /\ DOMAIN [logs[c] EXCEPT ![last] = s] = DOMAIN logs[c]
    BY OverwriteSeq
  <2> QED BY <2>1, <2>2
<1> QED BY <1>1, <1>2

-----------------------------------------------------------------------------
(* Updates of a record keep its type.                                      *)

LEMMA RowFields ==
    ASSUME NEW r \in Rows
    PROVE  /\ r.status \in Statuses
           /\ r.attempts + 1 \in Nat
           /\ r.expire \in Instants
    BY DEF Rows

LEMMA RowStatus ==
    ASSUME NEW r \in Rows, NEW s \in Statuses
    PROVE  [r EXCEPT !.status = s] \in Rows
    BY DEF Rows

LEMMA RowAttempts ==
    ASSUME NEW r \in Rows, NEW n \in Nat
    PROVE  [r EXCEPT !.attempts = n] \in Rows
    BY DEF Rows

LEMMA RowExpire ==
    ASSUME NEW r \in Rows, NEW e \in Instants
    PROVE  [r EXCEPT !.expire = e] \in Rows
    BY DEF Rows

LEMMA WorkerPc ==
    ASSUME NEW x \in Workings, NEW q \in WorkerPcs
    PROVE  /\ [x EXCEPT !.pc = q] \in Workings
           /\ [x EXCEPT !.pc = q].pc = q
           /\ [x EXCEPT !.pc = q].cmd = x.cmd
           /\ [x EXCEPT !.pc = q].log = x.log
    BY DEF Workings

LEMMA WorkerCmd ==
    ASSUME NEW x \in Workings, NEW c \in Commands
    PROVE  /\ [x EXCEPT !.cmd = c] \in Workings
           /\ [x EXCEPT !.cmd = c].cmd = c
    BY DEF Workings

LEMMA WorkerSeen ==
    ASSUME NEW x \in Workings, NEW r \in Rows
    PROVE  [x EXCEPT !.seen = r] \in Workings
    BY DEF Workings

LEMMA WorkerLog ==
    ASSUME NEW x \in Workings, NEW n \in Nat
    PROVE  /\ [x EXCEPT !.log = n] \in Workings
           /\ [x EXCEPT !.log = n].log = n
    BY DEF Workings

LEMMA WorkerOk ==
    ASSUME NEW x \in Workings, NEW b \in BOOLEAN
    PROVE  [x EXCEPT !.ok = b] \in Workings
    BY DEF Workings

LEMMA AbsentType == Absent \in Rows
    BY CommandDispatchAssumption DEF Absent, Rows, Statuses, Instants, NoExpiry

LEMMA IdleWorkerType ==
    /\ IdleWorker \in Workings
    /\ IdleWorker.pc = "idle"
    BY AbsentType DEF IdleWorker, Workings, WorkerPcs

LEMMA IdlePollerType ==
    /\ IdlePoller \in Pollings
    /\ IdlePoller.pc = "idle"
    BY AbsentType DEF IdlePoller, Pollings, PollerPcs, Outcomes

LEMMA PollerPc ==
    ASSUME NEW x \in Pollings, NEW v \in PollerPcs
    PROVE  [x EXCEPT !.pc = v] \in Pollings
    BY DEF Pollings

LEMMA PollerQueue ==
    ASSUME NEW x \in Pollings, NEW v \in SUBSET Commands
    PROVE  [x EXCEPT !.queue = v] \in Pollings
    BY DEF Pollings

LEMMA PollerSeen ==
    ASSUME NEW x \in Pollings, NEW v \in [Commands -> Rows]
    PROVE  [x EXCEPT !.seen = v] \in Pollings
    BY DEF Pollings

LEMMA PollerTodo ==
    ASSUME NEW x \in Pollings, NEW v \in SUBSET Commands
    PROVE  [x EXCEPT !.todo = v] \in Pollings
    BY DEF Pollings

LEMMA PollerCur ==
    ASSUME NEW x \in Pollings, NEW v \in Commands \cup {NoCommand}
    PROVE  [x EXCEPT !.cur = v] \in Pollings
    BY DEF Pollings

LEMMA PollerReport ==
    ASSUME NEW x \in Pollings, NEW v \in Outcomes
    PROVE  [x EXCEPT !.report = v] \in Pollings
    BY DEF Pollings

LEMMA PollerAgain ==
    ASSUME NEW x \in Pollings, NEW v \in BOOLEAN
    PROVE  [x EXCEPT !.again = v] \in Pollings
    BY DEF Pollings

LEMMA PollerFields ==
    ASSUME NEW x \in Pollings
    PROVE  /\ x.pc \in PollerPcs
           /\ x.queue \in SUBSET Commands
           /\ x.seen \in [Commands -> Rows]
           /\ x.todo \in SUBSET Commands
           /\ x.cur \in Commands \cup {NoCommand}
           /\ x.report \in Outcomes
    BY DEF Pollings

-----------------------------------------------------------------------------
(* Types.                                                                  *)

\* What the handlers make of a row is a row.
LEMMA DoneType ==
    ASSUME NEW r \in Rows
    PROVE  Done(r) \in Rows
<1>1. "done" \in Statuses
  BY DEF Statuses
<1>2. [r EXCEPT !.status = "done"] \in Rows
  BY <1>1, RowStatus
<1> QED BY <1>2 DEF Done

LEMMA FailedType ==
    ASSUME NEW r \in Rows, NEW i \in Rows
    PROVE  Failed(r, i) \in Rows
<1>1. "failed" \in Statuses /\ i.attempts + 1 \in Nat
  BY RowFields DEF Statuses
<1>2. [r EXCEPT !.status = "failed"] \in Rows
  BY <1>1, RowStatus
<1> QED BY <1>1, <1>2, RowAttempts DEF Failed

LEMMA MarkedType ==
    ASSUME NEW r \in Rows, NEW i \in Rows, NEW p
    PROVE  Marked(p, r, i) \in Rows
<1>1. "executing" \in Statuses /\ i.attempts + 1 \in Nat /\ r.status \in Statuses
  BY RowFields DEF Statuses
<1> DEFINE s == IF p \in LegacyPollers THEN r.status ELSE "executing"
<1>2. s \in Statuses
  BY <1>1
<1>3. [r EXCEPT !.status = s] \in Rows
  BY <1>2, RowStatus
<1>4. [r EXCEPT !.status = s, !.attempts = i.attempts + 1] \in Rows
  BY <1>1, <1>3, RowAttempts
<1> QED BY <1>4 DEF Marked

LEMMA TypeInit == Init => TypeOK
<1> SUFFICES ASSUME Init PROVE TypeOK
  OBVIOUS
<1>1. StoreOK
  BY AbsentType, EmptySeq DEF Init, StoreOK
<1>2. WorldOK
  BY CommandDispatchAssumption DEF Init, WorldOK, Screens, Budgets, Ghosts
<1>3. WorkersOK
  BY IdleWorkerType DEF Init, WorkersOK
<1>4. PollersOK
  BY IdlePollerType DEF Init, PollersOK
<1> QED BY <1>1, <1>2, <1>3, <1>4 DEF TypeOK

\* Replacing the record of worker w by a good one, with the logs only growing.
LEMMA WorkersStep ==
    ASSUME WorkersOK, NEW w \in Workers, NEW x \in Workings,
           wk' = [wk EXCEPT ![w] = x],
           x.pc # "idle" => x.cmd \in Commands,
           x.pc \in {"send", "finish"} => x.log \in DOMAIN logs'[x.cmd],
           \A c \in Commands : DOMAIN logs[c] \subseteq DOMAIN logs'[c]
    PROVE  WorkersOK'
<1>1. wk' \in [Workers -> Workings]
  BY DEF WorkersOK
<1>2. \A v \in Workers : wk'[v] = IF v = w THEN x ELSE wk[v]
  BY DEF WorkersOK
<1>3. ASSUME NEW v \in Workers, wk'[v].pc # "idle" PROVE wk'[v].cmd \in Commands
  BY <1>2, <1>3 DEF WorkersOK
<1>4. ASSUME NEW v \in Workers, wk'[v].pc \in {"send", "finish"}
      PROVE  wk'[v].log \in DOMAIN logs'[wk'[v].cmd]
  BY <1>2, <1>4 DEF WorkersOK
<1> QED BY <1>1, <1>3, <1>4 DEF WorkersOK

\* Leaving the workers alone, with the logs only growing.
LEMMA WorkersStay ==
    ASSUME WorkersOK, wk' = wk,
           \A c \in Commands : DOMAIN logs[c] \subseteq DOMAIN logs'[c]
    PROVE  WorkersOK'
<1>1. ASSUME NEW v \in Workers, wk[v].pc \in {"send", "finish"}
      PROVE  wk[v].log \in DOMAIN logs'[wk[v].cmd]
  BY <1>1 DEF WorkersOK
<1> QED BY <1>1 DEF WorkersOK

\* Replacing the record of poll p by a good one.
LEMMA PollersStep ==
    ASSUME PollersOK, NEW p \in Pollers, NEW x \in Pollings,
           pl' = [pl EXCEPT ![p] = x],
           x.pc \in {"posting", "saving"} => x.cur \in Commands
    PROVE  PollersOK'
    BY DEF PollersOK

LEMMA ArrivedType ==
    ASSUME TypeOK, NEW q \in WorkerPcs, NEW c \in Commands
    PROVE  /\ Arrived(q, c) \in Workings
           /\ Arrived(q, c).pc = q
           /\ Arrived(q, c).cmd = c
<1>1. row[c] \in Rows
  BY DEF TypeOK, StoreOK
<1> QED BY <1>1 DEF Arrived, Workings

LEMMA TypeQueueCommand ==
    ASSUME TypeOK, NEW c \in Commands, QueueCommand(c)
    PROVE  TypeOK'
<1>1. PICK e \in Expiries : row' = [row EXCEPT ![c] = Queued(e)]
  BY DEF QueueCommand
<1>2. e \in Instants
  BY CommandDispatchAssumption DEF Instants, NoExpiry
<1>4. Queued(e) \in Rows
  BY <1>2 DEF Queued, Rows, Statuses
<1>5. StoreOK'
  BY <1>1, <1>4 DEF TypeOK, StoreOK, QueueCommand
<1> QED BY <1>5, WorkersStay DEF TypeOK, WorldOK, PollersOK, QueueCommand

\* Counting a request or a loss stays within its bound.
LEMMA BudgetUp ==
    ASSUME NEW n \in Nat, NEW m \in 0 .. n, m < n
    PROVE  m + 1 \in 0 .. n
    OBVIOUS

LEMMA RequestType ==
    ASSUME budget \in Budgets, NEW w, NEW k, Request(w, k)
    PROVE  budget' \in Budgets
<1>1. budget.requests + 1 \in 0 .. MaxRequests
  BY BudgetUp, CommandDispatchAssumption DEF Budgets, Request
<1> QED BY <1>1 DEF Budgets, Request

LEMMA LoseType ==
    ASSUME budget \in Budgets, Lose
    PROVE  budget' \in Budgets
<1>1. budget.losses + 1 \in 0 .. MaxLosses
  BY BudgetUp, CommandDispatchAssumption DEF Budgets, Lose
<1> QED BY <1>1 DEF Budgets, Lose

LEMMA TypeExecuteRequest ==
    ASSUME TypeOK, NEW w \in Workers, NEW c \in Commands, ExecuteRequest(w, c)
    PROVE  TypeOK'
<1>1. wk' = [wk EXCEPT ![w] = Arrived("begin", c)] /\ logs' = logs
  BY DEF ExecuteRequest
<1>2. "begin" \in WorkerPcs
  BY DEF WorkerPcs
<1>3. WorkersOK'
  BY <1>1, <1>2, ArrivedType, WorkersStep DEF TypeOK
<1>4. WorldOK'
  BY RequestType DEF TypeOK, WorldOK, ExecuteRequest
<1> QED BY <1>3, <1>4 DEF TypeOK, StoreOK, PollersOK, ExecuteRequest

LEMMA TypeRetryRequest ==
    ASSUME TypeOK, NEW w \in Workers, NEW c \in Commands, RetryRequest(w, c)
    PROVE  TypeOK'
<1>1. wk' = [wk EXCEPT ![w] = Arrived("reset", c)] /\ logs' = logs
  BY DEF RetryRequest
<1>2. "reset" \in WorkerPcs
  BY DEF WorkerPcs
<1>3. WorkersOK'
  BY <1>1, <1>2, ArrivedType, WorkersStep DEF TypeOK
<1>4. WorldOK'
  BY RequestType DEF TypeOK, WorldOK, RetryRequest
<1> QED BY <1>3, <1>4 DEF TypeOK, StoreOK, PollersOK, RetryRequest

LEMMA TypeEditRequest ==
    ASSUME TypeOK, NEW w \in Workers, NEW c \in Commands, EditRequest(w, c)
    PROVE  TypeOK'
<1>1. wk' = [wk EXCEPT ![w] = Arrived("check", c)] /\ logs' = logs
  BY DEF EditRequest
<1>2. "check" \in WorkerPcs
  BY DEF WorkerPcs
<1>3. WorkersOK'
  BY <1>1, <1>2, ArrivedType, WorkersStep DEF TypeOK
<1>4. WorldOK'
  BY RequestType DEF TypeOK, WorldOK, EditRequest
<1> QED BY <1>3, <1>4 DEF TypeOK, StoreOK, PollersOK, EditRequest

\* A request that ends leaves its worker idle.
LEMMA EndRequestType ==
    ASSUME WorkersOK, NEW w \in Workers, EndRequest(w),
           \A c \in Commands : DOMAIN logs[c] \subseteq DOMAIN logs'[c]
    PROVE  WorkersOK'
    BY IdleWorkerType, WorkersStep DEF EndRequest

\* A handler that goes on keeps its command and its log entry.
LEMMA GotoType ==
    ASSUME WorkersOK, NEW w \in Workers, NEW q \in WorkerPcs \ {"send", "finish"}, Goto(w, q),
           wk[w].pc # "idle",
           \A c \in Commands : DOMAIN logs[c] \subseteq DOMAIN logs'[c]
    PROVE  WorkersOK'
<1>1. wk[w] \in Workings /\ wk[w].cmd \in Commands
  BY DEF WorkersOK
<1> DEFINE x == [wk[w] EXCEPT !.pc = q]
<1>2. x \in Workings /\ x.pc = q /\ x.cmd \in Commands
  BY <1>1, WorkerPc
<1>3. wk' = [wk EXCEPT ![w] = x]
  BY DEF Goto
<1> HIDE DEF x
<1> QED BY <1>2, <1>3, WorkersStep

\* The log of c grows by one entry, or has one of its entries overwritten.
LEMMA LogAppend ==
    ASSUME StoreOK, NEW c \in Commands, NEW s \in LogStatuses,
           logs' = [logs EXCEPT ![c] = Append(@, s)]
    PROVE  /\ logs' \in [Commands -> Seq(LogStatuses)]
           /\ \A d \in Commands : DOMAIN logs[d] \subseteq DOMAIN logs'[d]
           /\ NextEntry(c) \in DOMAIN logs'[c]
           /\ NextEntry(c) \in Nat
<1>1. logs[c] \in Seq(LogStatuses)
  BY DEF StoreOK
<1>2. /\ Append(logs[c], s) \in Seq(LogStatuses)
      /\ DOMAIN logs[c] \subseteq DOMAIN Append(logs[c], s)
      /\ NextEntry(c) \in DOMAIN Append(logs[c], s)
      /\ NextEntry(c) \in Nat
  BY <1>1, AppendSeq DEF NextEntry
<1> QED BY <1>2 DEF StoreOK

LEMMA LogOverwrite ==
    ASSUME StoreOK, NEW c \in Commands, NEW i, NEW s \in LogStatuses,
           logs' = [logs EXCEPT ![c] = [logs[c] EXCEPT ![i] = s]]
    PROVE  /\ logs' \in [Commands -> Seq(LogStatuses)]
           /\ \A d \in Commands : DOMAIN logs[d] \subseteq DOMAIN logs'[d]
<1>1. logs[c] \in Seq(LogStatuses)
  BY DEF StoreOK
<1>2. /\ [logs[c] EXCEPT ![i] = s] \in Seq(LogStatuses)
      /\ DOMAIN [logs[c] EXCEPT ![i] = s] = DOMAIN logs[c]
  BY <1>1, OverwriteSeq
<1> QED BY <1>2 DEF StoreOK

\* What is counted for the properties keeps its type.
LEMMA GhostWith ==
    ASSUME NEW g \in Ghosts, NEW q \in [Commands -> Nat]
    PROVE  [g EXCEPT !.requeued = q] \in Ghosts
    BY DEF Ghosts

LEMMA GhostRescheduled ==
    ASSUME NEW g \in Ghosts, NEW s \in SUBSET Commands
    PROVE  [g EXCEPT !.rescheduled = s] \in Ghosts
    BY DEF Ghosts

LEMMA GhostReported ==
    ASSUME NEW g \in Ghosts, NEW s \in SUBSET Commands
    PROVE  [g EXCEPT !.reported = s] \in Ghosts
    BY DEF Ghosts

LEMMA GhostPulled ==
    ASSUME NEW g \in Ghosts, NEW q \in [Pollers -> [Commands -> Nat]]
    PROVE  [g EXCEPT !.pulled = q] \in Ghosts
    BY DEF Ghosts

LEMMA GhostRequeued ==
    ASSUME NEW g \in Ghosts, NEW c \in Commands
    PROVE  /\ [g.requeued EXCEPT ![c] = @ + 1] \in [Commands -> Nat]
           /\ g.requeued \in [Commands -> Nat]
           /\ [g EXCEPT !.requeued = [g.requeued EXCEPT ![c] = @ + 1]] \in Ghosts
<1>1. g.requeued \in [Commands -> Nat]
  BY DEF Ghosts
<1>2. [g.requeued EXCEPT ![c] = @ + 1] \in [Commands -> Nat]
  BY <1>1
<1> QED BY <1>1, <1>2, GhostWith

LEMMA TypeResetStatus ==
    ASSUME TypeOK, NEW w \in Workers, ResetStatus(w)
    PROVE  TypeOK'
<1> DEFINE c == wk[w].cmd
<1>1. c \in Commands /\ row[c] \in Rows /\ wk[w].pc # "idle" /\ logs' = logs
  BY DEF TypeOK, WorkersOK, StoreOK, ResetStatus
<1>2. StoreOK'
  <2>1. [row[c] EXCEPT !.status = "pending"] \in Rows
    BY <1>1, RowStatus DEF Statuses
  <2>2. row' \in [Commands -> Rows]
    BY <1>1, <2>1 DEF TypeOK, StoreOK, ResetStatus
  <2> QED BY <1>1, <2>2 DEF TypeOK, StoreOK
<1>3. WorkersOK'
  <2>1. "begin" \in WorkerPcs \ {"send", "finish"}
    BY DEF WorkerPcs
  <2> QED BY <1>1, <2>1, GotoType, EndRequestType DEF TypeOK, ResetStatus
<1>4. ghost' \in Ghosts
  <2>1. ghost \in Ghosts
    BY DEF TypeOK, WorldOK
  <2>2. CASE ghost' = ghost
    BY <2>1, <2>2
  <2>3. CASE ghost' = [ghost EXCEPT !.requeued = [ghost.requeued EXCEPT ![c] = @ + 1]]
    BY <1>1, <2>1, <2>3, GhostRequeued
  <2> QED BY <2>2, <2>3 DEF ResetStatus
<1> QED BY <1>2, <1>3, <1>4 DEF TypeOK, WorldOK, PollersOK, ResetStatus

LEMMA TypeExecuteBegin ==
    ASSUME TypeOK, NEW w \in Workers, ExecuteBegin(w)
    PROVE  TypeOK'
<1> DEFINE c == wk[w].cmd
<1>1. c \in Commands /\ wk[w].pc # "idle"
  BY DEF TypeOK, WorkersOK, ExecuteBegin
<1>2. /\ logs' \in [Commands -> Seq(LogStatuses)]
      /\ \A d \in Commands : DOMAIN logs[d] \subseteq DOMAIN logs'[d]
  <2>1. CASE logs' = [logs EXCEPT ![c] = Append(@, "pending")]
    BY <1>1, <2>1, LogAppend DEF TypeOK, LogStatuses
  <2>2. CASE logs' = logs
    BY <2>2 DEF TypeOK, StoreOK
  <2> QED BY <2>1, <2>2 DEF ExecuteBegin
<1>3. WorkersOK'
  <2>1. "claim" \in WorkerPcs \ {"send", "finish"}
    BY DEF WorkerPcs
  <2> QED BY <1>1, <1>2, <2>1, GotoType, EndRequestType DEF TypeOK, ExecuteBegin
<1> QED BY <1>2, <1>3 DEF TypeOK, StoreOK, WorldOK, PollersOK, ExecuteBegin

LEMMA TypeExecuteClaim ==
    ASSUME TypeOK, NEW w \in Workers, ExecuteClaim(w)
    PROVE  TypeOK'
<1> DEFINE c == wk[w].cmd
           r == [row[c] EXCEPT !.status = "executing", !.attempts = @ + 1]
           x == [wk[w] EXCEPT !.pc = "send", !.log = NextEntry(c)]
<1>1. c \in Commands /\ row[c] \in Rows /\ wk[w] \in Workings /\ wk[w].pc # "idle"
  BY DEF TypeOK, WorkersOK, StoreOK, ExecuteClaim
<1>2. CASE Saves(row[c])
  <2>1. r \in Rows
    <3>1. [row[c] EXCEPT !.status = "executing"] \in Rows
      BY <1>1, RowStatus DEF Statuses
    <3>2. row[c].attempts + 1 \in Nat
      BY <1>1, RowFields
    <3> QED BY <3>1, <3>2, RowAttempts
  <2>2. /\ logs' \in [Commands -> Seq(LogStatuses)]
        /\ \A d \in Commands : DOMAIN logs[d] \subseteq DOMAIN logs'[d]
        /\ NextEntry(c) \in DOMAIN logs'[c]
        /\ NextEntry(c) \in Nat
    <3>1. logs' = [logs EXCEPT ![c] = Append(@, "running")] /\ "running" \in LogStatuses
      BY <1>2 DEF ExecuteClaim, LogStatuses
    <3> QED BY <1>1, <3>1, LogAppend DEF TypeOK
  <2>3. StoreOK'
    <3>1. row' = [row EXCEPT ![c] = r]
      BY <1>2 DEF ExecuteClaim
    <3> HIDE DEF r
    <3> QED BY <1>1, <2>1, <2>2, <3>1 DEF TypeOK, StoreOK
  <2>4. x \in Workings /\ x.cmd = c /\ x.log = NextEntry(c)
    <3>1. [wk[w] EXCEPT !.pc = "send"] \in Workings
      BY <1>1, WorkerPc DEF WorkerPcs
    <3> QED BY <2>2, <3>1, WorkerLog DEF Workings
  <2>5. WorkersOK'
    <3>1. wk' = [wk EXCEPT ![w] = x]
      BY <1>2 DEF ExecuteClaim
    <3> HIDE DEF x
    <3> QED BY <1>1, <2>2, <2>4, <3>1, WorkersStep DEF TypeOK
  <2> QED BY <2>3, <2>5 DEF TypeOK, WorldOK, PollersOK, ExecuteClaim
<1>3. CASE ~Saves(row[c])
  <2>1. WorkersOK'
    BY <1>3, EndRequestType DEF TypeOK, ExecuteClaim
  <2> QED BY <1>3, <2>1 DEF TypeOK, StoreOK, WorldOK, PollersOK, ExecuteClaim
<1> QED BY <1>2, <1>3

LEMMA TypeExecuteSend ==
    ASSUME TypeOK, NEW w \in Workers, ExecuteSend(w)
    PROVE  TypeOK'
<1> DEFINE c == wk[w].cmd
<1>1. /\ c \in Commands /\ wk[w] \in Workings /\ wk[w].log \in DOMAIN logs[c]
      /\ logs' = logs
  BY DEF TypeOK, WorkersOK, ExecuteSend
<1>2. PICK ok \in BOOLEAN :
        /\ wk' = [wk EXCEPT ![w].pc = "finish", ![w].ok = ok]
        /\ ghost' = [ghost EXCEPT
              !.sent = IF ok THEN @ \cup {c} ELSE @,
              !.pushed = IF screen.registered /\ Kind[c] # "template" THEN @ \cup {c} ELSE @]
  BY DEF ExecuteSend
<1> DEFINE x == [wk[w] EXCEPT !.pc = "finish", !.ok = ok]
<1>3. x \in Workings /\ x.cmd = c /\ x.log = wk[w].log
  <2>1. [wk[w] EXCEPT !.pc = "finish"] \in Workings
    BY <1>1, WorkerPc DEF WorkerPcs
  <2> QED BY <1>1, <2>1, WorkerOk DEF Workings
<1>4. WorkersOK'
  <2>1. wk' = [wk EXCEPT ![w] = x]
    BY <1>2
  <2> HIDE DEF x
  <2> QED BY <1>1, <1>3, <2>1, WorkersStep DEF TypeOK
<1>5. ghost' \in Ghosts
  BY <1>1, <1>2 DEF TypeOK, WorldOK, Ghosts
<1> QED BY <1>4, <1>5 DEF TypeOK, StoreOK, WorldOK, PollersOK, ExecuteSend

LEMMA TypeExecuteFinish ==
    ASSUME TypeOK, NEW w \in Workers, ExecuteFinish(w)
    PROVE  TypeOK'
<1> DEFINE c == wk[w].cmd
<1>1. c \in Commands /\ row[c] \in Rows /\ Outcome(row[c], wk[w].ok) \in Rows
  BY DoneType, FailedType DEF TypeOK, WorkersOK, StoreOK, ExecuteFinish, Outcome
<1>2. row' \in [Commands -> Rows]
  BY <1>1 DEF TypeOK, StoreOK, ExecuteFinish
<1>3. /\ logs' \in [Commands -> Seq(LogStatuses)]
      /\ \A d \in Commands : DOMAIN logs[d] \subseteq DOMAIN logs'[d]
  <2> DEFINE s == IF wk[w].ok THEN "done" ELSE "failed"
  <2>1. CASE logs' = [logs EXCEPT ![c] = [logs[c] EXCEPT ![wk[w].log] = s]]
    <3>1. s \in LogStatuses
      BY DEF LogStatuses
    <3> HIDE DEF s
    <3> QED BY <1>1, <2>1, <3>1, LogOverwrite DEF TypeOK
  <2>2. CASE logs' = logs
    BY <2>2 DEF TypeOK, StoreOK
  <2> QED BY <2>1, <2>2 DEF ExecuteFinish
<1>4. WorkersOK'
  BY <1>3, EndRequestType DEF TypeOK, ExecuteFinish
<1> QED BY <1>2, <1>3, <1>4 DEF TypeOK, StoreOK, WorldOK, PollersOK, ExecuteFinish

LEMMA TypeEditCheck ==
    ASSUME TypeOK, NEW w \in Workers, EditCheck(w)
    PROVE  TypeOK'
<1>1. "edit" \in WorkerPcs \ {"send", "finish"} /\ wk[w].pc # "idle" /\ logs' = logs
  BY DEF WorkerPcs, EditCheck
<1>2. WorkersOK'
  BY <1>1, GotoType, EndRequestType DEF TypeOK, EditCheck
<1> QED BY <1>2 DEF TypeOK, StoreOK, WorldOK, PollersOK, EditCheck

LEMMA TypeEditSave ==
    ASSUME TypeOK, NEW w \in Workers, EditSave(w)
    PROVE  TypeOK'
<1> DEFINE c == wk[w].cmd
<1>1. c \in Commands /\ wk[w].seen \in Rows /\ logs' = logs
  BY DEF TypeOK, WorkersOK, Workings, EditSave
<1>2. \A e \in Expiries \cup {wk[w].seen.expire} : [wk[w].seen EXCEPT !.expire = e] \in Rows
  BY <1>1, RowExpire, RowFields, CommandDispatchAssumption DEF Instants, NoExpiry
<1>3. row' \in [Commands -> Rows]
  BY <1>1, <1>2 DEF TypeOK, StoreOK, EditSave
<1>4. ghost' \in Ghosts
  <2>1. ghost \in Ghosts
    BY DEF TypeOK, WorldOK
  <2>2. CASE ghost' = ghost
    BY <2>1, <2>2
  <2>3. ASSUME NEW e,
               ghost' = [ghost EXCEPT
                   !.requeued[c] = IF wk[w].seen.status = "pending" THEN @ + 1 ELSE @,
                   !.rescheduled = IF e # row[c].expire THEN @ \cup {c} ELSE @]
        PROVE  ghost' \in Ghosts
    <3> DEFINE q == IF wk[w].seen.status = "pending"
                    THEN [ghost.requeued EXCEPT ![c] = @ + 1] ELSE ghost.requeued
               g == [ghost EXCEPT !.requeued = q]
               s == IF e # row[c].expire THEN g.rescheduled \cup {c} ELSE g.rescheduled
    <3>1. q \in [Commands -> Nat]
      BY <2>1, <1>1, GhostRequeued
    <3>2. g \in Ghosts
      BY <2>1, <3>1, GhostWith
    <3>3. s \in SUBSET Commands
      BY <1>1, <3>2 DEF Ghosts
    <3>4. ghost' = [g EXCEPT !.rescheduled = s]
      BY <2>1, <2>3 DEF Ghosts
    <3> HIDE DEF g, s
    <3> QED BY <3>2, <3>3, <3>4, GhostRescheduled
  <2> QED BY <2>2, <2>3 DEF EditSave
<1>5. WorkersOK'
  BY <1>1, EndRequestType DEF TypeOK, EditSave
<1> QED BY <1>3, <1>4, <1>5 DEF TypeOK, StoreOK, WorldOK, PollersOK, EditSave

LEMMA TypePullQuery ==
    ASSUME TypeOK, NEW p \in Pollers, PullQuery(p)
    PROVE  TypeOK'
<1> DEFINE q == Foremost({c \in Commands : row[c].status = "pending" /\ ~Expired(row[c])})
           f == [c \in Commands |-> IF c \in q THEN row[c] ELSE Absent]
           x == [IdlePoller EXCEPT !.pc = "marking", !.queue = q, !.seen = f]
<1>1. q \in SUBSET Commands
  BY DEF Foremost
<1>2. f \in [Commands -> Rows]
  BY AbsentType DEF TypeOK, StoreOK
<1>3. pl' = [pl EXCEPT ![p] = x]
  BY DEF PullQuery
<1>4. x \in Pollings /\ x.pc = "marking"
  <2> HIDE DEF q, f
  <2>1. [IdlePoller EXCEPT !.pc = "marking"] \in Pollings
    BY IdlePollerType, PollerPc DEF PollerPcs
  <2>2. [IdlePoller EXCEPT !.pc = "marking", !.queue = q] \in Pollings
    BY <1>1, <2>1, PollerQueue
  <2>3. x \in Pollings
    BY <1>2, <2>2, PollerSeen
  <2> QED BY <2>3 DEF IdlePoller
<1>5. PollersOK'
  <2> HIDE DEF x
  <2> QED BY <1>3, <1>4, PollersStep DEF TypeOK
<1>6. budget' \in Budgets
  <2>1. CASE budget' = budget
    BY <2>1 DEF TypeOK, WorldOK
  <2>2. CASE budget.pulls < MaxLegacyPulls /\ budget' = [budget EXCEPT !.pulls = @ + 1]
    <3>1. budget \in Budgets
      BY DEF TypeOK, WorldOK
    <3>2. budget.pulls + 1 \in 0 .. MaxLegacyPulls
      BY <2>2, <3>1, BudgetUp, CommandDispatchAssumption DEF Budgets
    <3> QED BY <2>2, <3>1, <3>2 DEF Budgets
  <2> QED BY <2>1, <2>2 DEF PullQuery
<1> QED BY <1>5, <1>6 DEF TypeOK, StoreOK, WorldOK, WorkersOK, PullQuery

LEMMA TypePullMark ==
    ASSUME TypeOK, NEW p \in Pollers, PullMark(p)
    PROVE  TypeOK'
<1>1. pl[p] \in Pollings /\ pl[p].pc = "marking"
  BY DEF TypeOK, PollersOK, PullMark
<1>2. PICK c \in Next1(pl[p].queue) :
          \/ /\ Saves(pl[p].seen[c])
             /\ row' = [row EXCEPT ![c] = Marked(p, @, pl[p].seen[c])]
             /\ logs' = [logs EXCEPT ![c] = Append(@, "running")]
             /\ pl' = [pl EXCEPT ![p].queue = @ \ {c}, ![p].todo = @ \cup {c}]
             /\ ghost' = [ghost EXCEPT !.pulled[p][c] = @ + 1]
          \/ /\ ~Saves(pl[p].seen[c])
             /\ pl' = [pl EXCEPT ![p] = IdlePoller]
             /\ UNCHANGED <<row, logs, ghost>>
  BY DEF PullMark
<1>3. c \in Commands /\ row[c] \in Rows /\ pl[p].seen[c] \in Rows
  BY <1>1, PollerFields DEF Next1, TypeOK, StoreOK
<1>4. CASE Saves(pl[p].seen[c])
  <2> DEFINE x == [pl[p] EXCEPT !.queue = @ \ {c}, !.todo = @ \cup {c}]
  <2>1. Marked(p, row[c], pl[p].seen[c]) \in Rows
    BY <1>3, MarkedType
  <2>2. row' \in [Commands -> Rows]
    BY <1>2, <1>3, <1>4, <2>1 DEF TypeOK, StoreOK
  <2>3. /\ logs' \in [Commands -> Seq(LogStatuses)]
        /\ \A d \in Commands : DOMAIN logs[d] \subseteq DOMAIN logs'[d]
    <3>1. logs' = [logs EXCEPT ![c] = Append(@, "running")] /\ "running" \in LogStatuses
      BY <1>2, <1>4 DEF LogStatuses
    <3> QED BY <1>3, <3>1, LogAppend DEF TypeOK
  <2>4. x \in Pollings /\ x.pc = "marking"
    <3>1. pl[p].queue \ {c} \in SUBSET Commands /\ pl[p].todo \cup {c} \in SUBSET Commands
      BY <1>1, <1>3, PollerFields
    <3>2. [pl[p] EXCEPT !.queue = @ \ {c}] \in Pollings
      BY <1>1, <3>1, PollerQueue
    <3>3. x \in Pollings
      BY <3>1, <3>2, PollerTodo
    <3> QED BY <1>1, <3>3 DEF Pollings
  <2>5. PollersOK'
    <3>1. pl' = [pl EXCEPT ![p] = x]
      BY <1>2, <1>4
    <3> HIDE DEF x
    <3> QED BY <2>4, <3>1, PollersStep DEF TypeOK
  <2>6. ghost' \in Ghosts
    <3>1. ghost \in Ghosts /\ ghost.pulled \in [Pollers -> [Commands -> Nat]]
      BY DEF TypeOK, WorldOK, Ghosts
    <3>2. [ghost.pulled EXCEPT ![p][c] = @ + 1] \in [Pollers -> [Commands -> Nat]]
      BY <1>3, <3>1
    <3>3. ghost' = [ghost EXCEPT !.pulled = [ghost.pulled EXCEPT ![p][c] = @ + 1]]
      BY <1>2, <1>4
    <3> QED BY <3>1, <3>2, <3>3, GhostPulled
  <2>7. WorkersOK'
    BY <2>3, WorkersStay DEF TypeOK, PullMark
  <2> QED BY <2>2, <2>3, <2>5, <2>6, <2>7 DEF TypeOK, StoreOK, WorldOK, PullMark
<1>5. CASE ~Saves(pl[p].seen[c])
  <2>1. PollersOK'
    BY <1>2, <1>5, IdlePollerType, PollersStep DEF TypeOK
  <2> QED BY <1>2, <1>5, <2>1 DEF TypeOK, StoreOK, WorldOK, WorkersOK, PullMark
<1> QED BY <1>4, <1>5

LEMMA TypePullAnswer ==
    ASSUME TypeOK, NEW p \in Pollers, PullAnswer(p)
    PROVE  TypeOK'
<1> DEFINE x == [IdlePoller EXCEPT !.pc = "loop", !.todo = pl[p].todo]
<1>1. pl[p] \in Pollings
  BY DEF TypeOK, PollersOK
<1>2. x \in Pollings /\ x.pc = "loop"
  <2>1. [IdlePoller EXCEPT !.pc = "loop"] \in Pollings
    BY IdlePollerType, PollerPc DEF PollerPcs
  <2>2. x \in Pollings
    BY <1>1, <2>1, PollerTodo, PollerFields
  <2> QED BY <2>2 DEF IdlePoller
<1>3. PollersOK'
  <2>1. pl' = [pl EXCEPT ![p] = x] \/ pl' = [pl EXCEPT ![p] = IdlePoller]
    BY DEF PullAnswer
  <2> HIDE DEF x
  <2> QED BY <1>2, <2>1, IdlePollerType, PollersStep DEF TypeOK
<1>4. budget' \in Budgets
  BY LoseType DEF TypeOK, WorldOK, PullAnswer
<1>5. screen' \in Screens
  BY DEF TypeOK, WorldOK, Screens, PullAnswer
<1> QED BY <1>3, <1>4, <1>5 DEF TypeOK, StoreOK, WorldOK, WorkersOK, PullAnswer

\* The device's loop: what the four exits of a status post leave.
LEMMA PollerAfterPost ==
    ASSUME PollersOK, NEW p \in Pollers, pl[p].cur \in Commands,
           pl' = PostError(p) \/ pl' = PostAnswered(p)
    PROVE  PollersOK'
<1>1. pl[p] \in Pollings /\ [c \in Commands |-> Absent] \in [Commands -> Rows]
  BY AbsentType DEF PollersOK
<1> DEFINE f == [c \in Commands |-> Absent]
           x == [pl[p] EXCEPT !.pc = "loop", !.cur = NoCommand, !.report = "done",
                              !.again = FALSE, !.seen = f]
           y == [pl[p] EXCEPT !.pc = "posting", !.report = "failed", !.again = TRUE, !.seen = f]
<1>2. x \in Pollings /\ x.pc = "loop"
  <2>1. [pl[p] EXCEPT !.pc = "loop"] \in Pollings
    BY <1>1, PollerPc DEF PollerPcs
  <2>2. [pl[p] EXCEPT !.pc = "loop", !.cur = NoCommand] \in Pollings
    BY <2>1, PollerCur
  <2>3. [pl[p] EXCEPT !.pc = "loop", !.cur = NoCommand, !.report = "done"] \in Pollings
    BY <2>2, PollerReport DEF Outcomes
  <2>4. [pl[p] EXCEPT !.pc = "loop", !.cur = NoCommand, !.report = "done",
                      !.again = FALSE] \in Pollings
    BY <2>3, PollerAgain
  <2>5. x \in Pollings
    BY <1>1, <2>4, PollerSeen
  <2> QED BY <1>1, <2>5 DEF Pollings
<1>3. y \in Pollings /\ y.cur \in Commands
  <2>1. [pl[p] EXCEPT !.pc = "posting"] \in Pollings
    BY <1>1, PollerPc DEF PollerPcs
  <2>2. [pl[p] EXCEPT !.pc = "posting", !.report = "failed"] \in Pollings
    BY <2>1, PollerReport DEF Outcomes
  <2>3. [pl[p] EXCEPT !.pc = "posting", !.report = "failed", !.again = TRUE] \in Pollings
    BY <2>2, PollerAgain
  <2>4. y \in Pollings
    BY <1>1, <2>3, PollerSeen
  <2> QED BY <1>1, <2>4 DEF Pollings
<1>4. pl' = [pl EXCEPT ![p] = x] \/ pl' = [pl EXCEPT ![p] = y]
  BY DEF PostError, PostAnswered
<1> HIDE DEF x, y
<1> QED BY <1>2, <1>3, <1>4, PollersStep

LEMMA TypeDeviceExecute ==
    ASSUME TypeOK, NEW p \in Pollers, DeviceExecute(p)
    PROVE  TypeOK'
<1>1. pl[p] \in Pollings
  BY DEF TypeOK, PollersOK
<1>2. PollersOK'
  <2>1. CASE pl' = [pl EXCEPT ![p] = IdlePoller]
    BY <2>1, IdlePollerType, PollersStep DEF TypeOK
  <2>2. ASSUME NEW c \in Next1(pl[p].todo), NEW s \in {"done", "failed"},
               pl' = [pl EXCEPT ![p].pc = "posting", ![p].cur = c, ![p].todo = @ \ {c},
                                ![p].report = s, ![p].again = FALSE]
        PROVE  PollersOK'
    <3> DEFINE x == [pl[p] EXCEPT !.pc = "posting", !.cur = c, !.todo = @ \ {c},
                                  !.report = s, !.again = FALSE]
    <3>1. c \in Commands /\ pl[p].todo \ {c} \in SUBSET Commands /\ s \in Outcomes
      BY <1>1, PollerFields DEF Next1, Outcomes
    <3>2. [pl[p] EXCEPT !.pc = "posting"] \in Pollings
      BY <1>1, PollerPc DEF PollerPcs
    <3>3. [pl[p] EXCEPT !.pc = "posting", !.cur = c] \in Pollings
      BY <3>1, <3>2, PollerCur
    <3>4. [pl[p] EXCEPT !.pc = "posting", !.cur = c, !.todo = @ \ {c}] \in Pollings
      BY <3>1, <3>3, PollerTodo
    <3>5. [pl[p] EXCEPT !.pc = "posting", !.cur = c, !.todo = @ \ {c}, !.report = s] \in Pollings
      BY <3>1, <3>4, PollerReport
    <3>6. x \in Pollings
      BY <3>5, PollerAgain
    <3>7. x.cur = c
      BY <1>1 DEF Pollings
    <3>8. pl' = [pl EXCEPT ![p] = x]
      BY <2>2
    <3> HIDE DEF x
    <3> QED BY <3>1, <3>6, <3>7, <3>8, PollersStep DEF TypeOK
  <2> QED BY <2>1, <2>2 DEF DeviceExecute
<1> QED BY <1>2 DEF TypeOK, StoreOK, WorldOK, WorkersOK, DeviceExecute

LEMMA TypePostStatus ==
    ASSUME TypeOK, NEW p \in Pollers, PostStatus(p)
    PROVE  TypeOK'
<1> DEFINE c == pl[p].cur
           x == [pl[p] EXCEPT !.pc = "saving", !.seen[c] = row[c]]
<1>1. pl[p] \in Pollings /\ c \in Commands /\ row[c] \in Rows
  BY DEF TypeOK, StoreOK, PollersOK, PostStatus
<1>2. x \in Pollings /\ x.cur = c
  <2>1. [pl[p] EXCEPT !.pc = "saving"] \in Pollings
    BY <1>1, PollerPc DEF PollerPcs
  <2>2. [pl[p].seen EXCEPT ![c] = row[c]] \in [Commands -> Rows]
    BY <1>1, PollerFields
  <2>3. [pl[p] EXCEPT !.pc = "saving", !.seen = [pl[p].seen EXCEPT ![c] = row[c]]] \in Pollings
    BY <2>1, <2>2, PollerSeen
  <2> QED BY <1>1, <2>3 DEF Pollings
<1>3. PollersOK'
  <2>1. CASE pl' = [pl EXCEPT ![p] = x]
    <3> HIDE DEF x
    <3> QED BY <1>1, <1>2, <2>1, PollersStep DEF TypeOK
  <2>2. CASE pl' = PostError(p)
    BY <1>1, <2>2, PollerAfterPost DEF TypeOK
  <2> QED BY <2>1, <2>2 DEF PostStatus
<1>4. budget' \in Budgets
  BY LoseType DEF TypeOK, WorldOK, PostStatus
<1> QED BY <1>3, <1>4 DEF TypeOK, StoreOK, WorldOK, WorkersOK, PostStatus

LEMMA TypeSaveStatus ==
    ASSUME TypeOK, NEW p \in Pollers, SaveStatus(p)
    PROVE  TypeOK'
<1> DEFINE c == pl[p].cur
           i == pl[p].seen[c]
           s == pl[p].report
<1>1. c \in Commands /\ row[c] \in Rows /\ i \in Rows /\ s \in Outcomes
  BY PollerFields DEF TypeOK, StoreOK, PollersOK, SaveStatus
<1>2. PollersOK'
  BY <1>1, PollerAfterPost DEF TypeOK, SaveStatus
<1>3. budget' \in Budgets
  BY LoseType DEF TypeOK, WorldOK, SaveStatus
<1>4. CASE Saves(i)
  <2>1. Reported(row[c], i, s) \in Rows
    BY <1>1, DoneType, FailedType DEF Reported
  <2>2. row' \in [Commands -> Rows]
    BY <1>1, <1>4, <2>1 DEF TypeOK, StoreOK, SaveStatus
  <2>3. /\ logs' \in [Commands -> Seq(LogStatuses)]
        /\ \A d \in Commands : DOMAIN logs[d] \subseteq DOMAIN logs'[d]
    <3>1. logs' = CloseRunning(c, s) /\ s \in LogStatuses
      BY <1>1, <1>4 DEF SaveStatus, Outcomes, LogStatuses
    <3> QED BY <1>1, <3>1, CloseRunningType DEF TypeOK, StoreOK
  <2>4. screen' \in Screens
    BY <1>4 DEF TypeOK, WorldOK, Screens, SaveStatus
  <2>5. ghost' \in Ghosts
    <3>1. ghost \in Ghosts /\ ghost.reported \cup {c} \in SUBSET Commands
      BY <1>1 DEF TypeOK, WorldOK, Ghosts
    <3>2. ghost' = ghost \/ ghost' = [ghost EXCEPT !.reported = ghost.reported \cup {c}]
      BY <1>4 DEF SaveStatus
    <3> QED BY <3>1, <3>2, GhostReported
  <2>6. WorkersOK'
    BY <2>3, WorkersStay DEF TypeOK, SaveStatus
  <2> QED BY <1>2, <1>3, <2>2, <2>3, <2>4, <2>5, <2>6 DEF TypeOK, StoreOK, WorldOK, SaveStatus
<1>5. CASE ~Saves(i)
  BY <1>2, <1>5 DEF TypeOK, StoreOK, WorldOK, WorkersOK, SaveStatus
<1> QED BY <1>4, <1>5

LEMMA TypeSocketExecuting ==
    ASSUME TypeOK, NEW c \in Commands, SocketExecuting(c)
    PROVE  TypeOK'
<1>1. [row[c] EXCEPT !.status = "executing"] \in Rows
  BY RowStatus DEF TypeOK, StoreOK, Statuses
<1> QED BY <1>1 DEF TypeOK, StoreOK, WorldOK, WorkersOK, PollersOK, SocketExecuting

LEMMA TypeWorld ==
    ASSUME TypeOK, SocketConnect \/ Heartbeat \/ Tick
    PROVE  TypeOK'
<1>1. screen' \in Screens
  BY DEF TypeOK, WorldOK, Screens, SocketConnect, Heartbeat, Tick
<1>2. now' \in 0 .. MaxTime
  <2>1. now \in 0 .. MaxTime
    BY DEF TypeOK, WorldOK
  <2>2. now' = now \/ (now < MaxTime /\ now' = now + 1)
    BY DEF SocketConnect, Heartbeat, Tick
  <2> QED BY <2>1, <2>2, BudgetUp, CommandDispatchAssumption
<1> QED BY <1>1, <1>2
        DEF TypeOK, StoreOK, WorldOK, WorkersOK, PollersOK, SocketConnect, Heartbeat, Tick

LEMMA TypeNext == TypeOK /\ [Next]_vars => TypeOK'
<1> SUFFICES ASSUME TypeOK, [Next]_vars PROVE TypeOK'
  OBVIOUS
<1>1. ASSUME NEW c \in Commands, QueueCommand(c) \/ SocketExecuting(c) PROVE TypeOK'
  BY <1>1, TypeQueueCommand, TypeSocketExecuting
<1>2. ASSUME NEW w \in Workers, NEW c \in Commands,
             ExecuteRequest(w, c) \/ RetryRequest(w, c) \/ EditRequest(w, c)
      PROVE  TypeOK'
  BY <1>2, TypeExecuteRequest, TypeRetryRequest, TypeEditRequest
<1>3. ASSUME NEW w \in Workers, WorkerStep(w) PROVE TypeOK'
  BY <1>3, TypeResetStatus, TypeExecuteBegin, TypeExecuteClaim, TypeExecuteSend,
     TypeExecuteFinish, TypeEditCheck, TypeEditSave DEF WorkerStep, ExecuteStep
<1>4. ASSUME NEW p \in Pollers, PollerStep(p) PROVE TypeOK'
  BY <1>4, TypePullQuery, TypePullMark, TypePullAnswer, TypeDeviceExecute,
     TypePostStatus, TypeSaveStatus DEF PollerStep
<1>5. CASE SocketConnect \/ Heartbeat \/ Tick
  BY <1>5, TypeWorld
<1>6. CASE UNCHANGED vars
  BY <1>6 DEF vars, TypeOK, StoreOK, WorldOK, WorkersOK, PollersOK
<1> QED BY <1>1, <1>2, <1>3, <1>4, <1>5, <1>6 DEF Next

\* Every variable keeps its type, a handler at work has a command at hand and one
\* that is sending has the log entry it will close.
THEOREM TypeCorrect == Spec => []TypeOK
    BY TypeInit, TypeNext, PTL DEF Spec

-----------------------------------------------------------------------------
(* What the handlers do to the status and the expiry of a row.             *)

LEMMA DoneEffect ==
    ASSUME NEW r \in Rows
    PROVE  Done(r).status = "done" /\ Done(r).expire = r.expire
    BY DEF Rows, Done

LEMMA FailedEffect ==
    ASSUME NEW r \in Rows, NEW i
    PROVE  Failed(r, i).status = "failed" /\ Failed(r, i).expire = r.expire
    BY DEF Rows, Failed

LEMMA OutcomeEffect ==
    ASSUME NEW r \in Rows, NEW ok
    PROVE  /\ Outcome(r, ok).status \in Outcomes
           /\ Outcome(r, ok).status = "done" => ok
           /\ Outcome(r, ok).expire = r.expire
    BY DoneEffect, FailedEffect DEF Outcome, Outcomes

LEMMA ReportedEffect ==
    ASSUME NEW r \in Rows, NEW i, NEW s
    PROVE  /\ Reported(r, i, s).status \in Outcomes
           /\ Reported(r, i, s).status = "done" => s = "done"
           /\ Reported(r, i, s).expire = r.expire
    BY DoneEffect, FailedEffect DEF Reported, Outcomes

LEMMA MarkedEffect ==
    ASSUME NEW r \in Rows, NEW i, NEW p
    PROVE  /\ p \notin LegacyPollers => Marked(p, r, i).status = "executing"
           /\ p \in LegacyPollers => Marked(p, r, i).status = r.status
           /\ Marked(p, r, i).expire = r.expire
    BY DEF Rows, Marked

LEMMA StatusEffect ==
    ASSUME NEW r \in Rows, NEW s
    PROVE  /\ [r EXCEPT !.status = s].status = s
           /\ [r EXCEPT !.status = s].expire = r.expire
    BY DEF Rows

LEMMA ClaimEffect ==
    ASSUME NEW r \in Rows, NEW n
    PROVE  /\ [r EXCEPT !.status = "executing", !.attempts = n].status = "executing"
           /\ [r EXCEPT !.status = "executing", !.attempts = n].expire = r.expire
    BY DEF Rows

LEMMA EditEffect ==
    ASSUME NEW r \in Rows, NEW e
    PROVE  /\ [r EXCEPT !.expire = e].status = r.status
           /\ [r EXCEPT !.expire = e].expire = e
    BY DEF Rows

\* The instance of c that some handler is about to save has not expired.
Unexpired(c) ==
    \/ Saves(row[c])
    \/ \E p \in Pollers :
          /\ c \in pl[p].queue \/ (pl[p].pc = "saving" /\ pl[p].cur = c)
          /\ Saves(pl[p].seen[c])

\* The ways a step may change the row of c.
Settles(c) ==
    /\ row'[c].status \in {"executing", "done", "failed"}
    /\ row'[c].status = "done" =>
          \/ c \in ghost'.reported
          \/ \E w \in Workers : wk[w].pc = "finish" /\ wk[w].ok /\ wk[w].cmd = c
    /\ row'[c].expire = row[c].expire
    /\ Unexpired(c)

Queues(c) ==
    /\ row[c].status = "absent" /\ row'[c].status = "pending"
    /\ now < row'[c].expire

Counts(c) == row'[c].status = row[c].status /\ row'[c].expire = row[c].expire

Resets(w, c) ==
    /\ wk[w].pc = "reset" /\ wk[w].cmd = c
    /\ Saves(wk[w].seen)
    /\ row'[c].expire = row[c].expire
    /\ row'[c].status = "pending"
    /\ ghost'.requeued[c] = ghost.requeued[c] + 1

Edits(w, c) ==
    /\ wk[w].pc = "edit" /\ wk[w].cmd = c
    /\ row'[c].status = wk[w].seen.status
    /\ now < row'[c].expire
    /\ row'[c].expire # row[c].expire => c \in ghost'.rescheduled
    /\ wk[w].seen.status = "pending" => ghost'.requeued[c] = ghost.requeued[c] + 1

LEMMA StatusStep ==
    ASSUME TypeOK, NEW c \in Commands, [Next]_vars
    PROVE  \/ row'[c] = row[c]
           \/ Settles(c) \/ Queues(c) \/ Counts(c)
           \/ \E w \in Workers : Resets(w, c) \/ Edits(w, c)
<1> USE DEF TypeOK, StoreOK
<1>1. row[c] \in Rows
  OBVIOUS
<1>2. ASSUME NEW d \in Commands, QueueCommand(d)
      PROVE  row'[c] = row[c] \/ Queues(c)
  <2>1. PICK e \in Expiries : now < e /\ row' = [row EXCEPT ![d] = Queued(e)]
    BY <1>2 DEF QueueCommand
  <2>2. Queued(e).expire = e /\ Queued(e).status = "pending"
    BY DEF Queued
  <2> QED BY <1>2, <2>1, <2>2 DEF QueueCommand, Queues
<1>3. ASSUME NEW d \in Commands, SocketExecuting(d)
      PROVE  row'[c] = row[c] \/ Settles(c)
  <2>1. row' = [row EXCEPT ![d] = [row[d] EXCEPT !.status = "executing"]] /\ Saves(row[d])
    BY <1>3 DEF SocketExecuting
  <2> DEFINE r == [row[c] EXCEPT !.status = "executing"]
  <2>2. row'[c] = row[c] \/ (row'[c] = r /\ Saves(row[c]))
    BY <2>1
  <2>3. r.status = "executing" /\ r.expire = row[c].expire
    BY <1>1, StatusEffect
  <2> HIDE DEF r
  <2> QED BY <2>2, <2>3 DEF Settles, Unexpired
<1>4. ASSUME NEW w \in Workers, NEW d \in Commands,
             ExecuteRequest(w, d) \/ RetryRequest(w, d) \/ EditRequest(w, d)
      PROVE  row'[c] = row[c]
  BY <1>4 DEF ExecuteRequest, RetryRequest, EditRequest
<1>5. ASSUME NEW w \in Workers, ResetStatus(w)
      PROVE  row'[c] = row[c] \/ Resets(w, c)
  <2>1. CASE wk[w].cmd = c /\ Saves(wk[w].seen)
    <3> DEFINE r == [row[c] EXCEPT !.status = "pending"]
    <3>1. row'[c] = r
      BY <1>5, <2>1 DEF ResetStatus
    <3>2. r.status = "pending" /\ r.expire = row[c].expire
      BY <1>1, StatusEffect
    <3>3. ghost'.requeued[c] = ghost.requeued[c] + 1
      BY <1>5, <2>1 DEF ResetStatus, WorldOK, Ghosts
    <3> HIDE DEF r
    <3> QED BY <1>5, <2>1, <3>1, <3>2, <3>3 DEF Resets, ResetStatus
  <2>2. CASE ~(wk[w].cmd = c /\ Saves(wk[w].seen))
    BY <1>5, <2>2 DEF ResetStatus
  <2> QED BY <2>1, <2>2
<1>6. ASSUME NEW w \in Workers, ExecuteStep(w)
      PROVE  row'[c] = row[c] \/ Settles(c)
  <2>1. CASE ExecuteBegin(w) \/ ExecuteSend(w)
    BY <2>1 DEF ExecuteBegin, ExecuteSend
  <2>2. CASE ExecuteClaim(w)
    <3> DEFINE d == wk[w].cmd
               r == [row[c] EXCEPT !.status = "executing", !.attempts = row[c].attempts + 1]
    <3>1. \/ row' = row
          \/ /\ row' = [row EXCEPT ![d] = [row[d] EXCEPT !.status = "executing",
                                                        !.attempts = row[d].attempts + 1]]
             /\ Saves(row[d])
      <4>1. CASE row' = row
        BY <4>1
      <4>2. CASE /\ Saves(row[d])
                 /\ row' = [row EXCEPT ![d].status = "executing", ![d].attempts = @ + 1]
        BY <4>2
      <4> QED BY <2>2, <4>1, <4>2 DEF ExecuteClaim
    <3>2. row'[c] = row[c] \/ (row'[c] = r /\ Saves(row[c]))
      BY <3>1
    <3>3. r.status = "executing" /\ r.expire = row[c].expire
      BY <1>1, ClaimEffect
    <3> HIDE DEF r
    <3> QED BY <3>2, <3>3 DEF Settles, Unexpired
  <2>3. CASE ExecuteFinish(w)
    <3>1. \/ row'[c] = row[c]
          \/ row'[c] = Outcome(row[c], wk[w].ok) /\ Saves(row[c]) /\ wk[w].cmd = c
      BY <2>3 DEF ExecuteFinish
    <3> QED BY <1>1, <2>3, <3>1, OutcomeEffect DEF Outcomes, ExecuteFinish, Settles, Unexpired
  <2> QED BY <1>6, <2>1, <2>2, <2>3 DEF ExecuteStep
<1>7. ASSUME NEW w \in Workers, EditCheck(w)
      PROVE  row'[c] = row[c]
  BY <1>7 DEF EditCheck
<1>8. ASSUME NEW w \in Workers, EditSave(w)
      PROVE  row'[c] = row[c] \/ Edits(w, c)
  <2>1. wk[w].seen \in Rows
    BY DEF WorkersOK, Workings
  <2> DEFINE r(e) == [wk[w].seen EXCEPT !.expire = e]
  <2>2. \/ row'[c] = row[c]
        \/ \E e : /\ wk[w].cmd = c /\ now < e /\ row'[c] = r(e)
                  /\ ghost' = [ghost EXCEPT
                        !.requeued[c] = IF wk[w].seen.status = "pending" THEN @ + 1 ELSE @,
                        !.rescheduled = IF e # row[c].expire THEN @ \cup {c} ELSE @]
    BY <1>8 DEF EditSave
  <2>3. \A e : r(e).status = wk[w].seen.status /\ r(e).expire = e
    BY <2>1, EditEffect
  <2> HIDE DEF r
  <2>4. ASSUME NEW e, wk[w].cmd = c, now < e, row'[c] = r(e),
               ghost' = [ghost EXCEPT
                   !.requeued[c] = IF wk[w].seen.status = "pending" THEN @ + 1 ELSE @,
                   !.rescheduled = IF e # row[c].expire THEN @ \cup {c} ELSE @]
        PROVE  Edits(w, c)
    <3>1. e # row[c].expire => c \in ghost'.rescheduled
      BY <2>4 DEF WorldOK, Ghosts
    <3>2. wk[w].seen.status = "pending" => ghost'.requeued[c] = ghost.requeued[c] + 1
      BY <2>4 DEF WorldOK, Ghosts
    <3> QED BY <1>8, <2>3, <2>4, <3>1, <3>2 DEF EditSave, Edits
  <2> QED BY <2>2, <2>4
<1>9. ASSUME NEW p \in Pollers, PullMark(p)
      PROVE  row'[c] = row[c] \/ Settles(c) \/ Counts(c)
  <2>1. \/ row'[c] = row[c]
        \/ /\ c \in pl[p].queue /\ Saves(pl[p].seen[c])
           /\ \E i : row'[c] = Marked(p, row[c], i)
    BY <1>9 DEF PullMark, Next1
  <2> QED BY <1>1, <2>1, MarkedEffect DEF Settles, Counts, Unexpired
<1>10. ASSUME NEW p \in Pollers, PullQuery(p) \/ PullAnswer(p) \/ DeviceExecute(p) \/ PostStatus(p)
       PROVE  row'[c] = row[c]
  BY <1>10 DEF PullQuery, PullAnswer, DeviceExecute, PostStatus
<1>11. ASSUME NEW p \in Pollers, SaveStatus(p)
       PROVE  row'[c] = row[c] \/ Settles(c)
  <2> DEFINE s == pl[p].report
  <2>1. \/ row'[c] = row[c]
        \/ /\ pl[p].cur = c /\ Saves(pl[p].seen[c]) /\ pl[p].pc = "saving"
           /\ row'[c] = Reported(row[c], pl[p].seen[c], s)
           /\ s = "done" => ghost' = [ghost EXCEPT !.reported = @ \cup {c}]
    BY <1>11 DEF SaveStatus
  <2>2. s = "done" /\ ghost' = [ghost EXCEPT !.reported = @ \cup {c}] => c \in ghost'.reported
    BY DEF WorldOK, Ghosts
  <2> HIDE DEF s
  <2> QED BY <1>1, <2>1, <2>2, ReportedEffect DEF Outcomes, Settles, Unexpired
<1>12. CASE SocketConnect \/ Heartbeat \/ Tick \/ UNCHANGED vars
  BY <1>12 DEF SocketConnect, Heartbeat, Tick, vars
<1>13. ASSUME NEW w \in Workers, WorkerStep(w)
       PROVE  row'[c] = row[c] \/ Settles(c) \/ Resets(w, c) \/ Edits(w, c)
  BY <1>5, <1>6, <1>7, <1>8, <1>13 DEF WorkerStep
<1>14. ASSUME NEW p \in Pollers, PollerStep(p)
       PROVE  row'[c] = row[c] \/ Settles(c) \/ Counts(c)
  BY <1>9, <1>10, <1>11, <1>14 DEF PollerStep
<1> QED BY <1>2, <1>3, <1>4, <1>12, <1>13, <1>14 DEF Next

-----------------------------------------------------------------------------
(* What a step does to the record of one worker and of one poll.           *)

\* A worker is left alone, ends, arrives with a row that exists, or goes on with
\* the command and the instance it has.
LEMMA WorkerFrame ==
    ASSUME TypeOK, NEW v \in Workers, [Next]_vars
    PROVE  \/ wk'[v] = wk[v]
           \/ wk'[v].pc = "idle"
           \/ \E c \in Commands :
                 /\ row[c].status # "absent"
                 /\ wk'[v].pc # "finish" /\ wk'[v].cmd = c /\ wk'[v].seen = row[c]
                 /\ row' = row /\ ghost' = ghost
           \/ /\ wk[v].pc # "idle" /\ wk'[v].cmd = wk[v].cmd /\ wk'[v].seen = wk[v].seen
              /\ wk'[v].pc = "finish" /\ wk'[v].ok => wk[v].cmd \in ghost'.sent
<1> USE DEF TypeOK, WorkersOK
<1>1. ASSUME NEW w \in Workers, NEW c \in Commands,
             ExecuteRequest(w, c) \/ RetryRequest(w, c) \/ EditRequest(w, c)
      PROVE  \/ wk'[v] = wk[v]
             \/ /\ row[c].status # "absent"
                /\ wk'[v].pc # "finish" /\ wk'[v].cmd = c /\ wk'[v].seen = row[c]
                /\ row' = row /\ ghost' = ghost
  <2>1. PICK q \in {"begin", "reset", "check"} : wk' = [wk EXCEPT ![w] = Arrived(q, c)]
    BY <1>1 DEF ExecuteRequest, RetryRequest, EditRequest
  <2>2. row[c].status # "absent" /\ row' = row /\ ghost' = ghost
    BY <1>1 DEF ExecuteRequest, RetryRequest, EditRequest, CanRetry
  <2> QED BY <2>1, <2>2 DEF Arrived
<1>2. ASSUME NEW w \in Workers, EndRequest(w)
      PROVE  wk'[v] = wk[v] \/ wk'[v].pc = "idle"
  BY <1>2, IdleWorkerType DEF EndRequest
<1>3. ASSUME NEW w \in Workers, NEW q \in WorkerPcs \ {"finish"}, Goto(w, q), wk[w].pc # "idle"
      PROVE  \/ wk'[v] = wk[v]
             \/ /\ wk[v].pc # "idle" /\ wk'[v].cmd = wk[v].cmd /\ wk'[v].seen = wk[v].seen
                /\ wk'[v].pc # "finish"
  BY <1>3 DEF Goto, Workings
<1>4. ASSUME NEW w \in Workers, WorkerStep(w)
      PROVE  \/ wk'[v] = wk[v]
             \/ wk'[v].pc = "idle"
             \/ /\ wk[v].pc # "idle" /\ wk'[v].cmd = wk[v].cmd /\ wk'[v].seen = wk[v].seen
                /\ wk'[v].pc = "finish" /\ wk'[v].ok => wk[v].cmd \in ghost'.sent
  <2>1. CASE ResetStatus(w) \/ ExecuteBegin(w) \/ EditCheck(w)
    <3>1. wk[w].pc # "idle" /\ (EndRequest(w) \/ Goto(w, "begin") \/ Goto(w, "claim") \/ Goto(w, "edit"))
      BY <2>1 DEF ResetStatus, ExecuteBegin, EditCheck
    <3>2. {"begin", "claim", "edit"} \subseteq WorkerPcs \ {"finish"}
      BY DEF WorkerPcs
    <3> QED BY <3>1, <3>2, <1>2, <1>3
  <2>2. CASE ExecuteClaim(w)
    <3>1. CASE EndRequest(w)
      BY <3>1, <1>2
    <3>2. CASE wk' = [wk EXCEPT ![w].pc = "send", ![w].log = NextEntry(wk[w].cmd)]
      BY <2>2, <3>2 DEF ExecuteClaim, Workings
    <3> QED BY <2>2, <3>1, <3>2 DEF ExecuteClaim
  <2>3. CASE ExecuteSend(w)
    <3>1. PICK ok \in BOOLEAN :
            /\ wk' = [wk EXCEPT ![w].pc = "finish", ![w].ok = ok]
            /\ ghost' = [ghost EXCEPT
                  !.sent = IF ok THEN @ \cup {wk[w].cmd} ELSE @,
                  !.pushed = IF screen.registered /\ Kind[wk[w].cmd] # "template"
                             THEN @ \cup {wk[w].cmd} ELSE @]
      BY <2>3 DEF ExecuteSend
    <3>2. ok => wk[w].cmd \in ghost'.sent
      BY <3>1 DEF WorldOK, Ghosts
    <3> QED BY <2>3, <3>1, <3>2 DEF ExecuteSend, Workings
  <2>4. CASE ExecuteFinish(w) \/ EditSave(w)
    BY <2>4, <1>2 DEF ExecuteFinish, EditSave
  <2> QED BY <1>4, <2>1, <2>2, <2>3, <2>4 DEF WorkerStep, ExecuteStep
<1>5. ASSUME NEW p \in Pollers, PollerStep(p)
      PROVE  wk' = wk
  BY <1>5 DEF PollerStep, PullQuery, PullMark, PullAnswer, DeviceExecute, PostStatus, SaveStatus
<1>6. ASSUME NEW c \in Commands, QueueCommand(c) \/ SocketExecuting(c)
      PROVE  wk' = wk
  BY <1>6 DEF QueueCommand, SocketExecuting
<1>7. CASE SocketConnect \/ Heartbeat \/ Tick \/ UNCHANGED vars
  BY <1>7 DEF SocketConnect, Heartbeat, Tick, vars
<1> QED BY <1>1, <1>4, <1>5, <1>6, <1>7 DEF Next

\* The commands a poll has at hand.
Known(p) == pl[p].queue \cup pl[p].todo \cup (Commands \cap {pl[p].cur})

\* A poll is left alone, queries rows that are pending, goes on marking, reads the
\* row of the status it saves, or does something that leaves its queue empty or
\* alone; only the query brings it commands.
LEMMA PollerFrame ==
    ASSUME TypeOK, NEW p \in Pollers, [Next]_vars
    PROVE  \/ pl'[p] = pl[p]
           \/ /\ row' = row /\ ghost' = ghost
              /\ pl'[p].pc = "marking"
              /\ \A c \in Known(p)' : row[c].status = "pending" /\ pl'[p].seen[c] = row[c]
           \/ /\ pl[p].pc = "marking" /\ pl'[p].pc = "marking"
              /\ pl'[p].queue \subseteq pl[p].queue /\ pl'[p].seen = pl[p].seen
              /\ Known(p)' \subseteq Known(p)
           \/ /\ pl'[p].pc \notin {"marking", "saving"}
              /\ pl'[p].queue = {} \/ (pl[p].pc # "marking" /\ pl'[p].queue = pl[p].queue)
              /\ Known(p)' \subseteq Known(p)
           \/ /\ row' = row /\ ghost' = ghost
              /\ pl[p].pc = "posting" /\ pl'[p].pc = "saving" /\ pl'[p].queue = pl[p].queue
              /\ pl'[p].cur = pl[p].cur /\ pl[p].cur \in Commands
              /\ pl'[p].seen[pl[p].cur] = row[pl[p].cur]
              /\ Known(p)' \subseteq Known(p)
<1> USE DEF TypeOK, PollersOK
<1>1. pl \in [Pollers -> Pollings] /\ pl[p] \in Pollings
  OBVIOUS
<1>2. ASSUME NEW q \in Pollers, q # p, PollerStep(q)
      PROVE  pl'[p] = pl[p]
  BY <1>1, <1>2 DEF PollerStep, PullQuery, PullMark, PullAnswer, DeviceExecute, PostStatus,
                    SaveStatus, PostError, PostAnswered
<1>3. CASE PullQuery(p)
  <2> DEFINE q == Foremost({c \in Commands : row[c].status = "pending" /\ ~Expired(row[c])})
             f == [c \in Commands |-> IF c \in q THEN row[c] ELSE Absent]
  <2>1. \A c \in q : c \in Commands /\ row[c].status = "pending"
    BY DEF Foremost
  <2>2. \A c \in q : f[c] = row[c]
    BY <2>1
  <2>3. row' = row /\ ghost' = ghost
    BY <1>3 DEF PullQuery
  <2>4. pl'[p] = [IdlePoller EXCEPT !.pc = "marking", !.queue = q, !.seen = f]
    BY <1>1, <1>3 DEF PullQuery
  <2> HIDE DEF q, f
  <2>5. /\ pl'[p].pc = "marking" /\ pl'[p].queue = q /\ pl'[p].seen = f
        /\ pl'[p].todo = {} /\ pl'[p].cur = NoCommand
    BY <2>4 DEF IdlePoller
  <2>6. Known(p)' = q
    BY <2>1, <2>5, CommandDispatchAssumption DEF Known
  <2> QED BY <2>1, <2>2, <2>3, <2>5, <2>6
<1>4. CASE PullMark(p)
  <2>1. PICK c \in Next1(pl[p].queue) :
            \/ pl' = [pl EXCEPT ![p].queue = @ \ {c}, ![p].todo = @ \cup {c}]
            \/ pl' = [pl EXCEPT ![p] = IdlePoller]
    BY <1>4 DEF PullMark
  <2>2. c \in pl[p].queue /\ pl[p].pc = "marking"
    BY <1>4 DEF Next1, PullMark
  <2>3. CASE pl' = [pl EXCEPT ![p].queue = @ \ {c}, ![p].todo = @ \cup {c}]
    <3>1. /\ pl'[p].queue = pl[p].queue \ {c} /\ pl'[p].todo = pl[p].todo \cup {c}
          /\ pl'[p].cur = pl[p].cur /\ pl'[p].pc = pl[p].pc /\ pl'[p].seen = pl[p].seen
      BY <1>1, <2>3 DEF Pollings
    <3> QED BY <2>2, <3>1 DEF Known
  <2>4. CASE pl' = [pl EXCEPT ![p] = IdlePoller]
    <3>1. pl'[p] = IdlePoller
      BY <1>1, <2>4
    <3> QED BY <3>1, CommandDispatchAssumption DEF IdlePoller, Known
  <2> QED BY <2>1, <2>3, <2>4
<1>5. CASE PullAnswer(p)
  <2> DEFINE x == [IdlePoller EXCEPT !.pc = "loop", !.todo = pl[p].todo]
  <2>1. x.queue = {} /\ x.todo = pl[p].todo /\ x.cur = NoCommand /\ x.pc = "loop"
    BY DEF IdlePoller
  <2>2. /\ IdlePoller.queue = {} /\ IdlePoller.todo = {} /\ IdlePoller.cur = NoCommand
        /\ IdlePoller.pc = "idle"
    BY DEF IdlePoller
  <2>3. pl'[p] = x \/ pl'[p] = IdlePoller
    BY <1>1, <1>5 DEF PullAnswer
  <2> HIDE DEF x
  <2>4. /\ pl'[p].queue = {} /\ pl'[p].todo \subseteq pl[p].todo /\ pl'[p].cur = NoCommand
        /\ pl'[p].pc \in {"idle", "loop"}
    BY <2>1, <2>2, <2>3
  <2> QED BY <2>4, CommandDispatchAssumption DEF Known
<1>6. CASE DeviceExecute(p)
  <2>1. CASE pl' = [pl EXCEPT ![p] = IdlePoller]
    <3>1. pl'[p] = IdlePoller
      BY <1>1, <2>1
    <3> QED BY <3>1, CommandDispatchAssumption DEF IdlePoller, Known
  <2>2. ASSUME NEW c \in Next1(pl[p].todo), NEW s,
               pl' = [pl EXCEPT ![p].pc = "posting", ![p].cur = c, ![p].todo = @ \ {c},
                                ![p].report = s, ![p].again = FALSE]
        PROVE  /\ pl'[p].pc = "posting" /\ pl'[p].queue = pl[p].queue
               /\ Known(p)' \subseteq Known(p)
    <3>1. /\ pl'[p].pc = "posting" /\ pl'[p].queue = pl[p].queue
          /\ pl'[p].todo = pl[p].todo \ {c} /\ pl'[p].cur = c
      BY <1>1, <2>2 DEF Pollings
    <3> QED BY <3>1 DEF Known, Next1
  <2>3. pl[p].pc = "loop"
    BY <1>6 DEF DeviceExecute
  <2> QED BY <1>6, <2>1, <2>2, <2>3 DEF DeviceExecute
<1>7. ASSUME pl' = PostError(p) \/ pl' = PostAnswered(p), pl[p].pc \in {"posting", "saving"}
      PROVE  /\ pl'[p].pc \notin {"marking", "saving"} /\ pl[p].pc # "marking"
             /\ pl'[p].queue = pl[p].queue
             /\ Known(p)' \subseteq Known(p)
  <2>1. /\ pl'[p].pc \in {"loop", "posting"} /\ pl'[p].queue = pl[p].queue
        /\ pl'[p].todo = pl[p].todo /\ pl'[p].cur \in {pl[p].cur, NoCommand}
    BY <1>1, <1>7 DEF PostError, PostAnswered, Pollings
  <2> QED BY <1>7, <2>1, CommandDispatchAssumption DEF Known
<1>8. CASE PostStatus(p)
  <2>1. CASE pl' = PostError(p)
    BY <1>7, <1>8, <2>1 DEF PostStatus
  <2>2. CASE pl' = [pl EXCEPT ![p].pc = "saving", ![p].seen[pl[p].cur] = row[pl[p].cur]]
    <3>1. pl[p].cur \in Commands /\ pl[p].pc = "posting" /\ row' = row /\ ghost' = ghost
      BY <1>8 DEF PostStatus
    <3>2. /\ pl'[p].pc = "saving" /\ pl'[p].queue = pl[p].queue /\ pl'[p].todo = pl[p].todo
          /\ pl'[p].cur = pl[p].cur
          /\ pl'[p].seen = [pl[p].seen EXCEPT ![pl[p].cur] = row[pl[p].cur]]
      BY <1>1, <2>2 DEF Pollings
    <3>3. pl'[p].seen[pl[p].cur] = row[pl[p].cur]
      BY <1>1, <3>1, <3>2, PollerFields
    <3> QED BY <3>1, <3>2, <3>3 DEF Known
  <2> QED BY <1>8, <2>1, <2>2 DEF PostStatus
<1>9. CASE SaveStatus(p)
  BY <1>7, <1>9 DEF SaveStatus
<1>10. CASE PollerStep(p)
  BY <1>3, <1>4, <1>5, <1>6, <1>8, <1>9, <1>10 DEF PollerStep
<1>11. ASSUME NEW w \in Workers, WorkerStep(w)
       PROVE  pl' = pl
  BY <1>11 DEF WorkerStep, ExecuteStep, ResetStatus, ExecuteBegin, ExecuteClaim, ExecuteSend,
               ExecuteFinish, EditCheck, EditSave
<1>12. ASSUME NEW w \in Workers, NEW c \in Commands,
              ExecuteRequest(w, c) \/ RetryRequest(w, c) \/ EditRequest(w, c)
       PROVE  pl' = pl
  BY <1>12 DEF ExecuteRequest, RetryRequest, EditRequest
<1>13. ASSUME NEW c \in Commands, QueueCommand(c) \/ SocketExecuting(c)
       PROVE  pl' = pl
  BY <1>13 DEF QueueCommand, SocketExecuting
<1>14. CASE SocketConnect \/ Heartbeat \/ Tick \/ UNCHANGED vars
  BY <1>14 DEF SocketConnect, Heartbeat, Tick, vars
<1> QED BY <1>2, <1>10, <1>11, <1>12, <1>13, <1>14 DEF Next

-----------------------------------------------------------------------------
(* What is recorded in ghost only grows.                                   *)

LEMMA GhostGrows ==
    ASSUME TypeOK, [Next]_vars
    PROVE  /\ ghost.sent \subseteq ghost'.sent
           /\ ghost.reported \subseteq ghost'.reported
           /\ ghost.rescheduled \subseteq ghost'.rescheduled
           /\ \A c \in Commands : ghost'.requeued[c] \in {ghost.requeued[c], ghost.requeued[c] + 1}
<1>1. ghost \in Ghosts
  BY DEF TypeOK, WorldOK
<1>2. ASSUME NEW w \in Workers, NEW c \in Commands,
             ExecuteRequest(w, c) \/ RetryRequest(w, c) \/ EditRequest(w, c)
      PROVE  ghost' = ghost
  BY <1>2 DEF ExecuteRequest, RetryRequest, EditRequest
<1>3. ASSUME NEW c \in Commands, QueueCommand(c) \/ SocketExecuting(c)
      PROVE  ghost' = ghost
  BY <1>3 DEF QueueCommand, SocketExecuting
<1>4. ASSUME NEW w \in Workers, WorkerStep(w)
      PROVE  /\ ghost.sent \subseteq ghost'.sent
             /\ ghost.reported \subseteq ghost'.reported
             /\ ghost.rescheduled \subseteq ghost'.rescheduled
             /\ \A c \in Commands : ghost'.requeued[c] \in {ghost.requeued[c], ghost.requeued[c] + 1}
  <2>1. CASE ghost' = ghost
    BY <2>1
  <2>2. CASE ResetStatus(w)
    BY <1>1, <2>2 DEF ResetStatus, Ghosts
  <2>3. CASE ExecuteSend(w)
    <3>1. PICK ok \in BOOLEAN :
            ghost' = [ghost EXCEPT
                  !.sent = IF ok THEN @ \cup {wk[w].cmd} ELSE @,
                  !.pushed = IF screen.registered /\ Kind[wk[w].cmd] # "template"
                             THEN @ \cup {wk[w].cmd} ELSE @]
      BY <2>3 DEF ExecuteSend
    <3> QED BY <1>1, <3>1 DEF Ghosts
  <2>4. CASE EditSave(w)
    <3>1. \/ ghost' = ghost
          \/ \E e : ghost' = [ghost EXCEPT
                   !.requeued[wk[w].cmd] = IF wk[w].seen.status = "pending" THEN @ + 1 ELSE @,
                   !.rescheduled = IF e # row[wk[w].cmd].expire THEN @ \cup {wk[w].cmd} ELSE @]
      BY <2>4 DEF EditSave
    <3>2. ASSUME NEW e,
                 ghost' = [ghost EXCEPT
                   !.requeued[wk[w].cmd] = IF wk[w].seen.status = "pending" THEN @ + 1 ELSE @,
                   !.rescheduled = IF e # row[wk[w].cmd].expire THEN @ \cup {wk[w].cmd} ELSE @]
          PROVE  /\ ghost'.sent = ghost.sent /\ ghost'.reported = ghost.reported
                 /\ ghost.rescheduled \subseteq ghost'.rescheduled
                 /\ ghost'.requeued \in {ghost.requeued, [ghost.requeued EXCEPT ![wk[w].cmd] = @ + 1]}
      BY <1>1, <3>2 DEF Ghosts
    <3>3. ghost.requeued \in [Commands -> Nat]
      BY <1>1 DEF Ghosts
    <3> QED BY <3>1, <3>2, <3>3
  <2> QED BY <1>4, <2>1, <2>2, <2>3, <2>4
          DEF WorkerStep, ExecuteStep, ExecuteBegin, ExecuteClaim, ExecuteFinish, EditCheck
<1>5. ASSUME NEW p \in Pollers, PollerStep(p)
      PROVE  /\ ghost.sent \subseteq ghost'.sent
             /\ ghost.reported \subseteq ghost'.reported
             /\ ghost.rescheduled = ghost'.rescheduled
             /\ ghost.requeued = ghost'.requeued
  <2>1. CASE ghost' = ghost
    BY <2>1
  <2>2. CASE PullMark(p)
    BY <1>1, <2>2 DEF PullMark, Ghosts
  <2>3. CASE SaveStatus(p)
    BY <1>1, <2>3 DEF SaveStatus, Ghosts
  <2> QED BY <1>5, <2>1, <2>2, <2>3 DEF PollerStep, PullQuery, PullAnswer, DeviceExecute, PostStatus
<1>6. CASE SocketConnect \/ Heartbeat \/ Tick \/ UNCHANGED vars
  BY <1>6 DEF SocketConnect, Heartbeat, Tick, vars
<1> QED BY <1>2, <1>3, <1>4, <1>5, <1>6 DEF Next

-----------------------------------------------------------------------------
(* A command is 'done' only on evidence.                                   *)

Evidence == ghost.sent \cup ghost.reported

\* DoneHasEvidence is not inductive: an edit may write back the status 'done' of
\* the instance it read, and a handler that believes the command sent has yet to
\* write it.
DoneInv ==
    /\ DoneHasEvidence
    /\ \A w \in Workers :
          wk[w].pc # "idle" /\ wk[w].seen.status = "done" => wk[w].cmd \in Evidence
    /\ \A w \in Workers : wk[w].pc = "finish" /\ wk[w].ok => wk[w].cmd \in Evidence

LEMMA DoneStep == TypeOK /\ DoneInv /\ [Next]_vars => DoneInv'
<1> SUFFICES ASSUME TypeOK, DoneInv, [Next]_vars PROVE DoneInv'
  OBVIOUS
<1>1. Evidence \subseteq Evidence'
  BY GhostGrows DEF Evidence
<1>2. ASSUME NEW c \in Commands, row'[c].status = "done" PROVE c \in Evidence'
  <2>1. CASE row'[c].status = row[c].status
    BY <1>1, <1>2, <2>1 DEF DoneInv, DoneHasEvidence, Evidence
  <2>2. CASE Settles(c)
    BY <1>1, <1>2, <2>2 DEF Settles, DoneInv, Evidence
  <2>3. CASE Queues(c)
    BY <1>2, <2>3 DEF Queues
  <2>4. ASSUME NEW w \in Workers, Resets(w, c) \/ Edits(w, c) PROVE c \in Evidence'
    BY <1>1, <1>2, <2>4 DEF Resets, Edits, DoneInv
  <2> QED BY <2>1, <2>2, <2>3, <2>4, StatusStep DEF Counts
<1>3. ASSUME NEW w \in Workers, wk'[w].pc # "idle", wk'[w].seen.status = "done"
      PROVE  wk'[w].cmd \in Evidence'
  <2>1. CASE wk'[w] = wk[w]
    BY <1>1, <1>3, <2>1 DEF DoneInv
  <2>2. ASSUME NEW c \in Commands, wk'[w].cmd = c, wk'[w].seen = row[c], row' = row, ghost' = ghost
        PROVE  wk'[w].cmd \in Evidence'
    BY <1>1, <1>3, <2>2 DEF DoneInv, DoneHasEvidence, Evidence
  <2>3. CASE wk[w].pc # "idle" /\ wk'[w].cmd = wk[w].cmd /\ wk'[w].seen = wk[w].seen
    BY <1>1, <1>3, <2>3 DEF DoneInv
  <2> QED BY <1>3, <2>1, <2>2, <2>3, WorkerFrame
<1>4. ASSUME NEW w \in Workers, wk'[w].pc = "finish", wk'[w].ok
      PROVE  wk'[w].cmd \in Evidence'
  <2>1. CASE wk'[w] = wk[w]
    BY <1>1, <1>4, <2>1 DEF DoneInv
  <2>2. CASE wk'[w].cmd = wk[w].cmd /\ wk[w].cmd \in ghost'.sent
    BY <2>2 DEF Evidence
  <2> QED BY <1>4, <2>1, <2>2, WorkerFrame
<1> QED BY <1>2, <1>3, <1>4 DEF DoneInv, DoneHasEvidence, Evidence

\* No interleaving of handlers, polls and stale saves makes a command 'done' that
\* was neither reported done by the device nor believed sent by execute().
THEOREM DoneOnEvidence == Spec => []DoneHasEvidence
<1>1. Init => DoneInv
  BY IdleWorkerType DEF Init, DoneInv, DoneHasEvidence, Absent
<1>2. DoneInv => DoneHasEvidence
  BY DEF DoneInv
<1> QED BY <1>1, <1>2, DoneStep, TypeCorrect, PTL DEF Spec

-----------------------------------------------------------------------------
(* A poll loop takes a command once per queueing.                          *)

\* Poll p may still take c once without a new queueing.
Credit(p, c) == IF c \in pl[p].queue \/ row[c].status \in {"pending", "absent"} THEN 1 ELSE 0

\* TakenOncePerQueueing is not inductive: a command that is pending, or in the
\* result of a query, is a delivery to come.  And an edit may only write back the
\* status of a row that existed.
TakenInv ==
    /\ \A w \in Workers : wk[w].pc # "idle" => wk[w].seen.status # "absent"
    /\ \A p \in Pollers \ LegacyPollers, c \in Commands :
          ghost.pulled[p][c] + Credit(p, c) <= 1 + ghost.requeued[c]

LEMMA PullCount ==
    ASSUME TypeOK, NEW p \in Pollers \ LegacyPollers, NEW c \in Commands, [Next]_vars
    PROVE  \/ ghost'.pulled[p][c] = ghost.pulled[p][c]
           \/ /\ ghost'.pulled[p][c] = ghost.pulled[p][c] + 1
              /\ c \in pl[p].queue /\ c \notin pl'[p].queue
              /\ row'[c].status = "executing"
<1>1. ghost \in Ghosts /\ row[c] \in Rows /\ pl \in [Pollers -> Pollings]
  BY DEF TypeOK, WorldOK, StoreOK, PollersOK
<1>2. ASSUME NEW q \in Pollers, PollerStep(q)
      PROVE  \/ ghost'.pulled[p][c] = ghost.pulled[p][c]
             \/ /\ ghost'.pulled[p][c] = ghost.pulled[p][c] + 1
                /\ c \in pl[p].queue /\ c \notin pl'[p].queue
                /\ row'[c].status = "executing"
  <2>1. CASE PullMark(q)
    <3>1. PICK d \in Next1(pl[q].queue) :
            \/ /\ row' = [row EXCEPT ![d] = Marked(q, @, pl[q].seen[d])]
               /\ pl' = [pl EXCEPT ![q].queue = @ \ {d}, ![q].todo = @ \cup {d}]
               /\ ghost' = [ghost EXCEPT !.pulled[q][d] = @ + 1]
            \/ UNCHANGED ghost
      BY <2>1 DEF PullMark
    <3>2. CASE ghost' = ghost
      BY <3>2
    <3>3. CASE ghost' = [ghost EXCEPT !.pulled[q][d] = @ + 1] /\ ~(q = p /\ d = c)
      BY <1>1, <3>3 DEF Ghosts
    <3>4. CASE /\ q = p /\ d = c
               /\ row' = [row EXCEPT ![d] = Marked(q, @, pl[q].seen[d])]
               /\ pl' = [pl EXCEPT ![q].queue = @ \ {d}, ![q].todo = @ \cup {d}]
               /\ ghost' = [ghost EXCEPT !.pulled[q][d] = @ + 1]
      <4>1. ghost'.pulled[p][c] = ghost.pulled[p][c] + 1
        BY <1>1, <3>4 DEF Ghosts
      <4>2. c \in pl[p].queue /\ c \notin pl'[p].queue
        BY <1>1, <3>1, <3>4 DEF Pollings, Next1
      <4>3. row'[c] = Marked(p, row[c], pl[p].seen[c])
        BY <3>4 DEF TypeOK, StoreOK
      <4>4. row'[c].status = "executing"
        BY <1>1, <4>3, MarkedEffect
      <4> QED BY <4>1, <4>2, <4>4
    <3> QED BY <3>1, <3>2, <3>3, <3>4
  <2>2. CASE SaveStatus(q)
    <3>1. ghost' = ghost \/ \E s : ghost' = [ghost EXCEPT !.reported = s]
      BY <2>2 DEF SaveStatus
    <3> QED BY <1>1, <3>1 DEF Ghosts
  <2> QED BY <1>2, <2>1, <2>2 DEF PollerStep, PullQuery, PullAnswer, DeviceExecute, PostStatus
<1>3. ASSUME NEW w \in Workers, WorkerStep(w)
      PROVE  ghost'.pulled = ghost.pulled
  <2>1. CASE ResetStatus(w)
    BY <1>1, <2>1 DEF ResetStatus, Ghosts
  <2>2. CASE ExecuteSend(w)
    <3>1. \E s, q : ghost' = [ghost EXCEPT !.sent = s, !.pushed = q]
      BY <2>2 DEF ExecuteSend
    <3> QED BY <1>1, <3>1 DEF Ghosts
  <2>3. CASE EditSave(w)
    <3>1. ghost' = ghost \/ \E s, q : ghost' = [ghost EXCEPT !.requeued = q, !.rescheduled = s]
      BY <2>3 DEF EditSave
    <3> QED BY <1>1, <3>1 DEF Ghosts
  <2> QED BY <1>3, <2>1, <2>2, <2>3
          DEF WorkerStep, ExecuteStep, ExecuteBegin, ExecuteClaim, ExecuteFinish, EditCheck
<1>4. ASSUME NEW w \in Workers, NEW d \in Commands,
             ExecuteRequest(w, d) \/ RetryRequest(w, d) \/ EditRequest(w, d)
      PROVE  ghost' = ghost
  BY <1>4 DEF ExecuteRequest, RetryRequest, EditRequest
<1>5. ASSUME NEW d \in Commands, QueueCommand(d) \/ SocketExecuting(d)
      PROVE  ghost' = ghost
  BY <1>5 DEF QueueCommand, SocketExecuting
<1>6. CASE SocketConnect \/ Heartbeat \/ Tick \/ UNCHANGED vars
  BY <1>6 DEF SocketConnect, Heartbeat, Tick, vars
<1> QED BY <1>2, <1>3, <1>4, <1>5, <1>6 DEF Next

\* Only a queueing gives a poll a new credit.
LEMMA CreditStep ==
    ASSUME TypeOK, TakenInv, NEW p \in Pollers, NEW c \in Commands, [Next]_vars,
           Credit(p, c) = 0
    PROVE  Credit(p, c)' = 0 \/ ghost'.requeued[c] = ghost.requeued[c] + 1
<1>1. c \notin pl[p].queue /\ row[c].status \notin {"pending", "absent"}
  BY DEF Credit
<1>2. c \notin pl'[p].queue
  BY <1>1, PollerFrame DEF Known
<1>3. \/ row'[c].status \notin {"pending", "absent"}
      \/ ghost'.requeued[c] = ghost.requeued[c] + 1
  <2>1. CASE row'[c] = row[c] \/ Settles(c) \/ Queues(c) \/ Counts(c)
    BY <1>1, <2>1 DEF Settles, Queues, Counts
  <2>2. ASSUME NEW w \in Workers, Resets(w, c) \/ Edits(w, c)
        PROVE  \/ row'[c].status \notin {"pending", "absent"}
               \/ ghost'.requeued[c] = ghost.requeued[c] + 1
    BY <2>2 DEF Resets, Edits, TakenInv
  <2> QED BY <2>1, <2>2, StatusStep
<1> QED BY <1>2, <1>3 DEF Credit

LEMMA TakenStep == TypeOK /\ TakenInv /\ [Next]_vars => TakenInv'
<1> SUFFICES ASSUME TypeOK, TakenInv, [Next]_vars PROVE TakenInv'
  OBVIOUS
<1>1. ASSUME NEW w \in Workers, wk'[w].pc # "idle" PROVE wk'[w].seen.status # "absent"
  BY <1>1, WorkerFrame DEF TakenInv
<1>2. ASSUME NEW p \in Pollers \ LegacyPollers, NEW c \in Commands
      PROVE  ghost'.pulled[p][c] + Credit(p, c)' <= 1 + ghost'.requeued[c]
  <2>1. /\ ghost.pulled[p][c] \in Nat /\ ghost.requeued[c] \in Nat
        /\ ghost'.requeued[c] \in {ghost.requeued[c], ghost.requeued[c] + 1}
    BY GhostGrows DEF TypeOK, WorldOK, Ghosts
  <2>2. ghost.pulled[p][c] + Credit(p, c) <= 1 + ghost.requeued[c]
    BY DEF TakenInv
  <2>3. Credit(p, c) \in {0, 1} /\ Credit(p, c)' \in {0, 1}
    BY DEF Credit
  <2>4. CASE ghost'.pulled[p][c] = ghost.pulled[p][c]
    BY <2>1, <2>2, <2>3, <2>4, CreditStep
  <2>5. CASE /\ ghost'.pulled[p][c] = ghost.pulled[p][c] + 1
             /\ c \in pl[p].queue /\ c \notin pl'[p].queue
             /\ row'[c].status = "executing"
    <3>1. Credit(p, c) = 1 /\ Credit(p, c)' = 0
      BY <2>5 DEF Credit
    <3> QED BY <2>1, <2>2, <2>5, <3>1
  <2> QED BY <2>4, <2>5, PullCount
<1> QED BY <1>1, <1>2 DEF TakenInv

\* A poll loop of the /iot/ endpoint takes a command at most once for each time it
\* was queued, whatever is lost and whatever races with it.
THEOREM TakenOnce == Spec => []TakenOncePerQueueing
<1>1. Init => TakenInv
  BY IdleWorkerType, IdlePollerType DEF Init, TakenInv, Credit, Absent, IdlePoller
<1>2. TypeOK /\ TakenInv => TakenOncePerQueueing
  <2> SUFFICES ASSUME TypeOK, TakenInv, NEW p \in Pollers \ LegacyPollers, NEW c \in Commands
               PROVE  ghost.pulled[p][c] <= 1 + ghost.requeued[c]
    BY DEF TakenOncePerQueueing
  <2>1. ghost.pulled[p][c] \in Nat /\ ghost.requeued[c] \in Nat
    BY DEF TypeOK, WorldOK, Ghosts
  <2>2. ghost.pulled[p][c] + Credit(p, c) <= 1 + ghost.requeued[c] /\ Credit(p, c) \in {0, 1}
    BY DEF TakenInv, Credit
  <2> QED BY <2>1, <2>2
<1> QED BY <1>1, <1>2, TakenStep, TypeCorrect, PTL DEF Spec

-----------------------------------------------------------------------------
(* An expired command keeps its status.                                    *)

\* Unless an edit has moved the expiry of a command, every instance of it that may
\* yet be saved has the expiry of the row.
ExpiryInv ==
    /\ \A w \in Workers : wk[w].pc # "idle" =>
          /\ row[wk[w].cmd].status # "absent"
          /\ wk[w].seen.status # "absent"
          /\ wk[w].cmd \notin ghost.rescheduled => wk[w].seen.expire = row[wk[w].cmd].expire
    /\ \A p \in Pollers :
          /\ pl[p].pc # "marking" => pl[p].queue = {}
          /\ \A c \in Known(p) : row[c].status # "absent"
          /\ \A c \in pl[p].queue \ ghost.rescheduled : pl[p].seen[c].expire = row[c].expire
          /\ pl[p].pc = "saving" /\ pl[p].cur \notin ghost.rescheduled
                => pl[p].seen[pl[p].cur].expire = row[pl[p].cur].expire

\* A row that exists goes on existing, with its expiry unless it is rescheduled.
LEMMA ExpiryKept ==
    ASSUME TypeOK, ExpiryInv, NEW c \in Commands, [Next]_vars, row[c].status # "absent"
    PROVE  /\ row'[c].status # "absent"
           /\ c \notin ghost'.rescheduled => row'[c].expire = row[c].expire
<1>1. CASE row'[c] = row[c] \/ Settles(c) \/ Queues(c) \/ Counts(c)
  BY <1>1 DEF Settles, Queues, Counts
<1>2. ASSUME NEW w \in Workers, Resets(w, c) \/ Edits(w, c)
      PROVE  /\ row'[c].status # "absent"
             /\ c \notin ghost'.rescheduled => row'[c].expire = row[c].expire
  BY <1>2 DEF Resets, Edits, ExpiryInv
<1> QED BY <1>1, <1>2, StatusStep

LEMMA ExpiryStep == TypeOK /\ ExpiryInv /\ [Next]_vars => ExpiryInv'
<1> SUFFICES ASSUME TypeOK, ExpiryInv, [Next]_vars PROVE ExpiryInv'
  OBVIOUS
<1>1. ghost.rescheduled \subseteq ghost'.rescheduled
  BY GhostGrows
<1>2. ASSUME NEW w \in Workers, wk'[w].pc # "idle"
      PROVE  /\ row'[wk'[w].cmd].status # "absent"
             /\ wk'[w].seen.status # "absent"
             /\ wk'[w].cmd \notin ghost'.rescheduled => wk'[w].seen.expire = row'[wk'[w].cmd].expire
  <2>1. CASE wk[w].pc # "idle" /\ wk'[w].cmd = wk[w].cmd /\ wk'[w].seen = wk[w].seen
    <3>1. wk[w].cmd \in Commands
      BY <2>1 DEF TypeOK, WorkersOK
    <3> QED BY <1>1, <2>1, <3>1, ExpiryKept DEF ExpiryInv
  <2>2. ASSUME NEW c \in Commands, row[c].status # "absent",
               wk'[w].cmd = c, wk'[w].seen = row[c], row' = row
        PROVE  /\ row'[wk'[w].cmd].status # "absent"
               /\ wk'[w].seen.status # "absent"
               /\ wk'[w].seen.expire = row'[wk'[w].cmd].expire
    BY <2>2
  <2> QED BY <1>2, <2>1, <2>2, WorkerFrame
<1>3. ASSUME NEW p \in Pollers
      PROVE  /\ pl'[p].pc # "marking" => pl'[p].queue = {}
             /\ \A c \in Known(p)' : row'[c].status # "absent"
             /\ \A c \in pl'[p].queue \ ghost'.rescheduled : pl'[p].seen[c].expire = row'[c].expire
             /\ pl'[p].pc = "saving" /\ pl'[p].cur \notin ghost'.rescheduled
                   => pl'[p].seen[pl'[p].cur].expire = row'[pl'[p].cur].expire
  <2>1. /\ Known(p) \subseteq Commands /\ pl[p].queue \subseteq Known(p)
        /\ pl'[p].queue \subseteq Known(p)'
        /\ pl[p].pc = "saving" => pl[p].cur \in Known(p)
    BY PollerFields DEF TypeOK, PollersOK, Known
  <2>2. \A c \in Known(p) : /\ row'[c].status # "absent"
                            /\ c \notin ghost'.rescheduled => row'[c].expire = row[c].expire
    BY <2>1, ExpiryKept DEF ExpiryInv
  <2>3. CASE pl'[p] = pl[p]
    BY <1>1, <2>1, <2>2, <2>3 DEF ExpiryInv, Known
  <2>4. CASE /\ row' = row /\ pl'[p].pc = "marking"
             /\ \A c \in Known(p)' : row[c].status = "pending" /\ pl'[p].seen[c] = row[c]
    BY <2>1, <2>4
  <2>5. CASE /\ pl[p].pc = "marking" /\ pl'[p].pc = "marking"
             /\ pl'[p].queue \subseteq pl[p].queue /\ pl'[p].seen = pl[p].seen
             /\ Known(p)' \subseteq Known(p)
    BY <1>1, <2>1, <2>2, <2>5 DEF ExpiryInv
  <2>6. CASE /\ pl'[p].pc \notin {"marking", "saving"}
             /\ pl'[p].queue = {} \/ (pl[p].pc # "marking" /\ pl'[p].queue = pl[p].queue)
             /\ Known(p)' \subseteq Known(p)
    BY <2>1, <2>2, <2>6 DEF ExpiryInv
  <2>7. CASE /\ row' = row /\ ghost' = ghost
             /\ pl[p].pc = "posting" /\ pl'[p].pc = "saving" /\ pl'[p].queue = pl[p].queue
             /\ pl'[p].cur = pl[p].cur /\ pl[p].cur \in Commands
             /\ pl'[p].seen[pl[p].cur] = row[pl[p].cur]
             /\ Known(p)' \subseteq Known(p)
    BY <2>1, <2>2, <2>7 DEF ExpiryInv
  <2> QED BY <2>3, <2>4, <2>5, <2>6, <2>7, PollerFrame
<1> QED BY <1>2, <1>3 DEF ExpiryInv

\* The status of a command whose expiry has come changes only by an edit that moves
\* the expiry.
THEOREM FrozenWhenExpired == Spec => FrozenOnceExpired
<1>1. Init => ExpiryInv
  BY IdleWorkerType, IdlePollerType, CommandDispatchAssumption
  DEF Init, ExpiryInv, Known, IdlePoller
<1>2. ASSUME TypeOK, ExpiryInv, [Next]_vars,
             NEW c \in Commands \ ghost'.rescheduled, row'[c].status # row[c].status
      PROVE  now < row'[c].expire
  <2>1. c \notin ghost.rescheduled
    BY <1>2, GhostGrows
  <2>2. CASE Queues(c)
    BY <2>2 DEF Queues
  <2>3. CASE Settles(c)
    BY <1>2, <2>1, <2>3 DEF Settles, Unexpired, Saves, ExpiryInv
  <2>4. ASSUME NEW w \in Workers, Resets(w, c) \/ Edits(w, c)
        PROVE  now < row'[c].expire
    BY <1>2, <2>1, <2>4 DEF Resets, Edits, Saves, ExpiryInv
  <2> QED BY <1>2, <2>2, <2>3, <2>4, StatusStep DEF Counts
<1>3. TypeOK /\ ExpiryInv /\ [Next]_vars =>
        [\A c \in Commands \ ghost'.rescheduled :
            row'[c].status # row[c].status => now < row'[c].expire]_vars
  BY <1>2
<1> QED BY <1>1, <1>3, ExpiryStep, TypeCorrect, PTL DEF Spec, FrozenOnceExpired

-----------------------------------------------------------------------------
(* The contract: who has taken a command.                                  *)

\* An entry of an offline screen changes nothing, any other one shows that the
\* command was taken.
LEMMA TakenByAppend ==
    ASSUME StoreOK, NEW c \in Commands, NEW s \in LogStatuses,
           logs' = [logs EXCEPT ![c] = Append(@, s)]
    PROVE  Taken' = IF s = "pending" THEN Taken ELSE Taken \cup {c}
<1> DEFINE q == Append(logs[c], s)
<1>1. logs[c] \in Seq(LogStatuses) /\ Len(logs[c]) \in Nat /\ DOMAIN logs[c] = 1 .. Len(logs[c])
  BY LenProperties DEF StoreOK
<1>2. /\ DOMAIN q = DOMAIN logs[c] \cup {Len(logs[c]) + 1}
      /\ q[Len(logs[c]) + 1] = s
      /\ \A i \in DOMAIN logs[c] : q[i] = logs[c][i]
  BY <1>1, AppendProperties, LenProperties
<1>3. (\E i \in DOMAIN q : q[i] # "pending")
        <=> s # "pending" \/ \E i \in DOMAIN logs[c] : logs[c][i] # "pending"
  BY <1>2
<1>4. logs'[c] = q /\ \A d \in Commands \ {c} : logs'[d] = logs[d]
  BY DEF StoreOK
<1> HIDE DEF q
<1>5. c \in Taken' <=> s # "pending" \/ c \in Taken
  BY <1>3, <1>4 DEF Taken
<1>6. \A d \in Commands \ {c} : d \in Taken' <=> d \in Taken
  BY <1>4 DEF Taken
<1>7. Taken \subseteq Commands /\ Taken' \subseteq Commands
  BY DEF Taken
<1>8. \A d : d \in Taken' <=> d \in Taken \/ (d = c /\ s # "pending")
  BY <1>5, <1>6, <1>7
<1> QED BY <1>8

\* Overwriting an entry with an outcome leaves the command taken, if it was.
LEMMA TakenByOutcome ==
    ASSUME StoreOK, NEW c \in Taken, NEW i, NEW s \in Outcomes,
           logs' = [logs EXCEPT ![c] = [logs[c] EXCEPT ![i] = s]]
    PROVE  Taken' = Taken
<1>1. c \in Commands /\ Taken \subseteq Commands /\ Taken' \subseteq Commands
  BY DEF Taken
<1>2. logs[c] \in Seq(LogStatuses) /\ s \in LogStatuses
  BY <1>1 DEF StoreOK, Outcomes, LogStatuses
<1>3. /\ logs'[c] = [logs[c] EXCEPT ![i] = s] /\ \A d \in Commands \ {c} : logs'[d] = logs[d]
      /\ DOMAIN [logs[c] EXCEPT ![i] = s] = DOMAIN logs[c]
  BY <1>1, <1>2, OverwriteSeq DEF StoreOK
<1>4. PICK j \in DOMAIN logs[c] : logs[c][j] # "pending"
  BY DEF Taken
<1>5. [logs[c] EXCEPT ![i] = s][j] # "pending"
  <2>1. s # "pending"
    BY DEF Outcomes
  <2> QED BY <1>4, <2>1
<1>6. c \in Taken'
  BY <1>1, <1>3, <1>4, <1>5 DEF Taken
<1>7. \A d \in Commands \ {c} : d \in Taken' <=> d \in Taken
  BY <1>3 DEF Taken
<1> QED BY <1>1, <1>6, <1>7

LEMMA TakenByReport ==
    ASSUME StoreOK, NEW c \in Taken, NEW s \in Outcomes, logs' = CloseRunning(c, s)
    PROVE  Taken' = Taken
<1> DEFINE running == {i \in DOMAIN logs[c] : logs[c][i] = "running"}
           last == CHOOSE i \in running : \A j \in running : j <= i
<1>1. c \in Commands /\ s \in LogStatuses /\ s # "pending"
  BY DEF Taken, Outcomes, LogStatuses
<1>2. CASE running = {}
  <2>1. logs' = [logs EXCEPT ![c] = Append(@, s)]
    BY <1>2 DEF CloseRunning
  <2>2. Taken' = Taken \cup {c}
    BY <1>1, <2>1, TakenByAppend
  <2> QED BY <2>2
<1>3. CASE running # {}
  <2>1. logs' = [logs EXCEPT ![c] = [logs[c] EXCEPT ![last] = s]]
    BY <1>3 DEF CloseRunning
  <2> HIDE DEF last, running
  <2> QED BY <2>1, TakenByOutcome
<1> QED BY <1>2, <1>3

LEMMA TakenStays == ASSUME logs' = logs PROVE Taken' = Taken
  BY DEF Taken

\* What the contract sees of a row.
StatusesNow == [c \in Commands |-> row[c].status]
DeadlinesNow == [c \in Commands |-> row[c].expire]
Given == [p \in Pollers \ LegacyPollers |-> ghost.pulled[p]]

\* Only the status of c changes, to s.
Turns(c, s) ==
    /\ StatusesNow' = [StatusesNow EXCEPT ![c] = s]
    /\ DeadlinesNow' = DeadlinesNow

LEMMA RowTurns ==
    ASSUME StoreOK, NEW c \in Commands, NEW r, row' = [row EXCEPT ![c] = r],
           r.expire = row[c].expire
    PROVE  Turns(c, r.status)
<1>1. row'[c] = r /\ \A d \in Commands \ {c} : row'[d] = row[d]
  BY DEF StoreOK
<1>2. StatusesNow' = [d \in Commands |-> IF d = c THEN r.status ELSE row[d].status]
  BY <1>1 DEF StatusesNow
<1>3. DeadlinesNow' = DeadlinesNow
  BY <1>1 DEF DeadlinesNow
<1> QED BY <1>2, <1>3 DEF Turns, StatusesNow

LEMMA RowStays == ASSUME row' = row PROVE StatusesNow' = StatusesNow /\ DeadlinesNow' = DeadlinesNow
  BY DEF StatusesNow, DeadlinesNow

\* The command c exists and has time left, or an edit has moved its deadline.
Live(c) == row[c].status # "absent" /\ (now < row[c].expire \/ c \in ghost.rescheduled)

\* Nothing that the contract sees of what is recorded in ghost changes.
GhostRests ==
    /\ Evidence' = Evidence /\ Given' = Given
    /\ ghost'.requeued = ghost.requeued /\ ghost'.rescheduled = ghost.rescheduled

CountsRequeue(c) == ghost'.requeued = [ghost.requeued EXCEPT ![c] = @ + 1]
CountsDelivery(p, c) == Given' = [Given EXCEPT ![p][c] = @ + 1]

LEMMA TakeRefines ==
    ASSUME NEW c \in Commands, Live(c), Taken' = Taken \cup {c}, GhostRests, now' = now,
           Turns(c, "executing") \/ (StatusesNow' = StatusesNow /\ DeadlinesNow' = DeadlinesNow)
    PROVE  Contract!Take(c)
  BY DEF Contract!Take, Contract!Open, Contract!Becomes, Live, Turns, GhostRests,
         StatusesNow, DeadlinesNow, Given, Evidence

LEMMA DeliverRefines ==
    ASSUME NEW p \in Pollers \ LegacyPollers, NEW c \in Commands,
           Live(c), Taken' = Taken \cup {c}, now' = now, Turns(c, "executing"),
           ghost.pulled[p][c] <= ghost.requeued[c],
           CountsDelivery(p, c),
           Evidence' = Evidence,
           ghost'.requeued = ghost.requeued, ghost'.rescheduled = ghost.rescheduled
    PROVE  Contract!Deliver(p, c)
  BY DEF CountsDelivery, Contract!Deliver, Contract!Open, Contract!Becomes, Live, Turns,
         StatusesNow, DeadlinesNow, Given, Evidence

LEMMA BelieveRefines ==
    ASSUME NEW c \in Taken, Taken' = Taken, row' = row, now' = now,
           Evidence' = Evidence \cup {c}, Given' = Given,
           ghost'.requeued = ghost.requeued, ghost'.rescheduled = ghost.rescheduled
    PROVE  Contract!Believe(c)
  BY DEF Contract!Believe, Given, Evidence

LEMMA ConcludeRefines ==
    ASSUME NEW c \in Taken, NEW s \in Outcomes, Live(c), Taken' = Taken, now' = now, Turns(c, s),
           Evidence' = IF s = "done" THEN Evidence \cup {c} ELSE Evidence,
           Given' = Given,
           ghost'.requeued = ghost.requeued, ghost'.rescheduled = ghost.rescheduled
    PROVE  Contract!Conclude(c)
<1>1. c \in Commands
  BY DEF Taken
<1>2. Contract!Open(c)
  BY <1>1 DEF Contract!Open, Live
<1>3. UNCHANGED <<DeadlinesNow, now, Taken, Given, ghost.requeued, ghost.rescheduled>>
  BY DEF Turns
<1>4. CASE s = "done"
  BY <1>2, <1>3, <1>4 DEF Contract!Conclude, Contract!Becomes, Turns, StatusesNow, DeadlinesNow,
                         Given, Evidence
<1>5. CASE s = "failed"
  BY <1>2, <1>3, <1>5 DEF Contract!Conclude, Contract!Becomes, Turns, StatusesNow, DeadlinesNow,
                         Given, Evidence
<1> QED BY <1>4, <1>5 DEF Outcomes

LEMMA RequeueRefines ==
    ASSUME NEW c \in Commands, Live(c), Taken' = Taken, now' = now, Turns(c, "pending"),
           CountsRequeue(c),
           Evidence' = Evidence, Given' = Given, ghost'.rescheduled = ghost.rescheduled
    PROVE  Contract!Requeue(c)
  BY DEF CountsRequeue, Contract!Requeue, Contract!Open, Contract!Becomes, Live, Turns,
         StatusesNow, DeadlinesNow, Given, Evidence

\* Nothing that the contract is about changes.
LEMMA Rests ==
    ASSUME row' = row, now' = now, Taken' = Taken, GhostRests
    PROVE  UNCHANGED Contract!vars
  BY DEF Contract!vars, GhostRests, Given, Evidence

\* The contract does not say why nothing is written to a row that nobody took:
\* every instance that may be saved, every report and every push is of a command
\* that was taken, and what was taken exists.
TakenGood ==
    /\ \A c \in Taken : row[c].status # "absent"
    /\ \A c \in Commands : row[c].status \in {"executing", "done", "failed"} => c \in Taken
    /\ Evidence \cup ghost.pushed \subseteq Taken

WorkersTook ==
    \A w \in Workers :
        /\ wk[w].pc \in {"send", "finish"} => wk[w].cmd \in Taken
        /\ wk[w].pc # "idle" /\ wk[w].seen.status \in {"executing", "done", "failed"}
              => wk[w].cmd \in Taken

PollersTook == \A p \in Pollers : pl[p].todo \cup (Commands \cap {pl[p].cur}) \subseteq Taken

TraceInv == TakenGood /\ WorkersTook /\ PollersTook

\* What a step may rely on.
Ready == TypeOK /\ DoneInv /\ TakenInv /\ ExpiryInv /\ TraceInv

\* A row that can be saved has time left; an instance that can be saved means the
\* same of its row.
LEMMA SavedIsLive ==
    ASSUME NEW c \in Commands, row[c].status # "absent", Saves(row[c])
    PROVE  Live(c)
  BY DEF Live, Saves

LEMMA SeenIsLive ==
    ASSUME Ready, NEW w \in Workers, wk[w].pc # "idle", Saves(wk[w].seen)
    PROVE  Live(wk[w].cmd)
  BY DEF Ready, ExpiryInv, Live, Saves

LEMMA QueuedIsLive ==
    ASSUME Ready, NEW p \in Pollers, NEW c \in pl[p].queue, Saves(pl[p].seen[c])
    PROVE  c \in Commands /\ Live(c)
<1>1. c \in Commands /\ c \in Known(p)
  BY PollerFields DEF Ready, TypeOK, PollersOK, Known
<1> QED BY <1>1 DEF Ready, ExpiryInv, Live, Saves

LEMMA ReportIsLive ==
    ASSUME Ready, NEW p \in Pollers, pl[p].pc = "saving", Saves(pl[p].seen[pl[p].cur])
    PROVE  pl[p].cur \in Taken /\ Live(pl[p].cur)
<1>1. pl[p].cur \in Commands
  BY DEF Ready, TypeOK, PollersOK
<1>2. pl[p].cur \in Known(p) /\ pl[p].cur \in Taken
  BY <1>1 DEF Known, Ready, TraceInv, PollersTook
<1> QED BY <1>1, <1>2 DEF Ready, ExpiryInv, Live, Saves

LEMMA QueueRefines ==
    ASSUME Ready, NEW c \in Commands, QueueCommand(c)
    PROVE  Contract!Queue(c)
<1>1. PICK e \in Expiries : now < e /\ row' = [row EXCEPT ![c] = Queued(e)]
  BY DEF QueueCommand
<1>2. e \in Instants
  BY CommandDispatchAssumption DEF Instants, NoExpiry
<1>3. row'[c] = Queued(e) /\ \A d \in Commands \ {c} : row'[d] = row[d]
  BY <1>1 DEF Ready, TypeOK, StoreOK
<1>4. /\ StatusesNow' = [StatusesNow EXCEPT ![c] = "pending"]
      /\ DeadlinesNow' = [DeadlinesNow EXCEPT ![c] = e]
  <2>1. Queued(e).status = "pending" /\ Queued(e).expire = e
    BY DEF Queued
  <2>2. StatusesNow' = [d \in Commands |-> IF d = c THEN "pending" ELSE row[d].status]
    BY <1>3, <2>1 DEF StatusesNow
  <2>3. DeadlinesNow' = [d \in Commands |-> IF d = c THEN e ELSE row[d].expire]
    BY <1>3, <2>1 DEF DeadlinesNow
  <2> QED BY <2>2, <2>3 DEF StatusesNow, DeadlinesNow
<1>5. row[c].status = "absent" /\ UNCHANGED <<logs, now, ghost>>
  BY DEF QueueCommand
<1>6. Taken' = Taken
  BY <1>5, TakenStays
<1> QED BY <1>1, <1>2, <1>4, <1>5, <1>6
        DEF Contract!Queue, Contract!Becomes, StatusesNow, DeadlinesNow

LEMMA StartRefines ==
    ASSUME Ready, NEW c \in Commands, SocketExecuting(c)
    PROVE  Contract!Take(c)
<1> DEFINE r == [row[c] EXCEPT !.status = "executing"]
<1>1. c \in Taken /\ Saves(row[c]) /\ row' = [row EXCEPT ![c] = r] /\ UNCHANGED <<logs, now, ghost>>
  BY DEF SocketExecuting, Ready, TraceInv, TakenGood
<1>2. Live(c)
  BY <1>1, SavedIsLive DEF Ready, TraceInv, TakenGood
<1>3. r.status = "executing" /\ r.expire = row[c].expire
  BY StatusEffect DEF Ready, TypeOK, StoreOK
<1> HIDE DEF r
<1>4. Turns(c, "executing")
  BY <1>1, <1>3, RowTurns DEF Ready, TypeOK
<1>5. Taken' = Taken \cup {c} /\ GhostRests
  BY <1>1, TakenStays DEF GhostRests, Evidence, Given
<1> QED BY <1>1, <1>2, <1>4, <1>5, TakeRefines

LEMMA ResetRefines ==
    ASSUME Ready, NEW w \in Workers, NEW c \in Commands, wk[w].cmd = c, ResetStatus(w)
    PROVE  Contract!Requeue(c) \/ UNCHANGED Contract!vars
<1> DEFINE r == [row[c] EXCEPT !.status = "pending"]
<1>1. c \in Commands /\ UNCHANGED <<logs, now>> /\ Taken' = Taken
  BY TakenStays DEF ResetStatus, Ready, TypeOK, WorkersOK
<1>2. CASE UNCHANGED <<row, ghost>>
  BY <1>1, <1>2, Rests DEF GhostRests, Evidence, Given
<1>3. CASE /\ Saves(wk[w].seen) /\ row' = [row EXCEPT ![c].status = "pending"]
           /\ ghost' = [ghost EXCEPT !.requeued[c] = @ + 1]
  <2>1. Live(c)
    BY <1>3, SeenIsLive DEF ResetStatus
  <2>2. r.status = "pending" /\ r.expire = row[c].expire /\ row' = [row EXCEPT ![c] = r]
    BY <1>1, <1>3, StatusEffect DEF Ready, TypeOK, StoreOK
  <2>3. /\ CountsRequeue(c)
        /\ ghost'.rescheduled = ghost.rescheduled /\ Evidence' = Evidence /\ Given' = Given
    BY <1>3 DEF Ready, TypeOK, WorldOK, Ghosts, Evidence, Given, CountsRequeue
  <2> HIDE DEF r
  <2>4. Turns(c, "pending")
    BY <1>1, <2>2, RowTurns DEF Ready, TypeOK
  <2>5. Contract!Requeue(c)
    BY <1>1, <2>1, <2>3, <2>4, RequeueRefines
  <2> QED BY <2>5
<1> QED BY <1>2, <1>3 DEF ResetStatus

LEMMA BeginRefines ==
    ASSUME Ready, NEW w \in Workers, ExecuteBegin(w)
    PROVE  UNCHANGED Contract!vars
<1>1. wk[w].cmd \in Commands /\ "pending" \in LogStatuses
  BY DEF ExecuteBegin, Ready, TypeOK, WorkersOK, LogStatuses
<1>2. Taken' = Taken
  <2>1. CASE UNCHANGED logs
    BY <2>1, TakenStays
  <2>2. CASE logs' = [logs EXCEPT ![wk[w].cmd] = Append(@, "pending")]
    BY <1>1, <2>2, TakenByAppend DEF Ready, TypeOK
  <2> QED BY <2>1, <2>2 DEF ExecuteBegin
<1> QED BY <1>2, Rests DEF ExecuteBegin, GhostRests, Evidence, Given

LEMMA ClaimRefines ==
    ASSUME Ready, NEW w \in Workers, NEW c \in Commands, wk[w].cmd = c, ExecuteClaim(w)
    PROVE  Contract!Take(c) \/ UNCHANGED Contract!vars
<1> DEFINE r == [row[c] EXCEPT !.status = "executing", !.attempts = row[c].attempts + 1]
<1>1. /\ c \in Commands /\ row[c].status # "absent" /\ UNCHANGED <<now, ghost>> /\ GhostRests
  BY DEF ExecuteClaim, Ready, TypeOK, WorkersOK, ExpiryInv, GhostRests, Evidence, Given
<1>2. CASE UNCHANGED <<row, logs>>
  BY <1>1, <1>2, TakenStays, Rests
<1>3. CASE /\ Saves(row[c]) /\ logs' = [logs EXCEPT ![c] = Append(@, "running")]
           /\ row' = [row EXCEPT ![c].status = "executing", ![c].attempts = @ + 1]
  <2>1. r.status = "executing" /\ r.expire = row[c].expire /\ row' = [row EXCEPT ![c] = r]
    BY <1>1, <1>3, ClaimEffect DEF Ready, TypeOK, StoreOK
  <2>2. "running" \in LogStatuses
    BY DEF LogStatuses
  <2> HIDE DEF r
  <2>3. Taken' = Taken \cup {c}
    BY <1>1, <1>3, <2>2, TakenByAppend DEF Ready, TypeOK
  <2>4. Turns(c, "executing")
    BY <1>1, <2>1, RowTurns DEF Ready, TypeOK
  <2>5. Live(c)
    BY <1>1, <1>3, SavedIsLive
  <2>6. Contract!Take(c)
    BY <1>1, <2>3, <2>4, <2>5, TakeRefines
  <2> QED BY <2>6
<1> QED BY <1>2, <1>3 DEF ExecuteClaim

LEMMA SendRefines ==
    ASSUME Ready, NEW w \in Workers, NEW c \in Commands, wk[w].cmd = c, ExecuteSend(w)
    PROVE  Contract!Believe(c) \/ UNCHANGED Contract!vars
<1>1. wk[w].cmd \in Taken /\ UNCHANGED <<row, logs, now>> /\ Taken' = Taken
  BY TakenStays DEF ExecuteSend, Ready, TraceInv, WorkersTook
<1>2. PICK ok \in BOOLEAN :
        ghost' = [ghost EXCEPT
              !.sent = IF ok THEN @ \cup {wk[w].cmd} ELSE @,
              !.pushed = IF screen.registered /\ Kind[wk[w].cmd] # "template"
                         THEN @ \cup {wk[w].cmd} ELSE @]
  BY DEF ExecuteSend
<1>3. /\ Given' = Given /\ ghost'.reported = ghost.reported
      /\ ghost'.requeued = ghost.requeued /\ ghost'.rescheduled = ghost.rescheduled
      /\ ghost'.sent = IF ok THEN ghost.sent \cup {wk[w].cmd} ELSE ghost.sent
  BY <1>2 DEF Ready, TypeOK, WorldOK, Ghosts, Given
<1>4. CASE ok
  <2>1. Evidence' = Evidence \cup {wk[w].cmd}
    BY <1>3, <1>4 DEF Evidence
  <2> QED BY <1>1, <1>3, <2>1, BelieveRefines
<1>5. CASE ~ok
  <2>1. GhostRests
    BY <1>3, <1>5 DEF Evidence, GhostRests
  <2> QED BY <1>1, <2>1, Rests
<1> QED BY <1>4, <1>5

LEMMA FinishRefines ==
    ASSUME Ready, NEW w \in Workers, NEW c \in Commands, wk[w].cmd = c, ExecuteFinish(w)
    PROVE  Contract!Conclude(c) \/ UNCHANGED Contract!vars
<1> DEFINE s == IF wk[w].ok THEN "done" ELSE "failed"
           r == Outcome(row[c], wk[w].ok)
<1>1. /\ c \in Commands /\ c \in Taken /\ row[c].status # "absent"
      /\ UNCHANGED <<now, ghost>> /\ GhostRests
  BY DEF ExecuteFinish, Ready, TypeOK, WorkersOK, ExpiryInv, TraceInv, WorkersTook,
         GhostRests, Evidence, Given
<1>2. CASE UNCHANGED <<row, logs>>
  BY <1>1, <1>2, TakenStays, Rests
<1>3. CASE /\ Saves(row[c]) /\ row' = [row EXCEPT ![c] = Outcome(@, wk[w].ok)]
           /\ logs' = [logs EXCEPT ![c][wk[w].log] = IF wk[w].ok THEN "done" ELSE "failed"]
  <2>1. r.status = s /\ r.expire = row[c].expire /\ row' = [row EXCEPT ![c] = r] /\ s \in Outcomes
    <3>1. row[c] \in Rows /\ row' = [row EXCEPT ![c] = r]
      BY <1>1, <1>3 DEF Ready, TypeOK, StoreOK
    <3>2. Outcome(row[c], wk[w].ok).status = s
      BY <3>1, DoneEffect, FailedEffect DEF Outcome
    <3> QED BY <3>1, <3>2, OutcomeEffect DEF Outcomes
  <2>2. Taken' = Taken
    <3>1. logs' = [logs EXCEPT ![c] = [logs[c] EXCEPT ![wk[w].log] = s]]
      BY <1>1, <1>3 DEF Ready, TypeOK, StoreOK
    <3> HIDE DEF s
    <3> QED BY <1>1, <2>1, <3>1, TakenByOutcome DEF Ready, TypeOK
  <2>3. s = "done" => c \in Evidence
    BY DEF Ready, DoneInv, ExecuteFinish
  <2> HIDE DEF r, s
  <2>4. Evidence' = IF s = "done" THEN Evidence \cup {c} ELSE Evidence
    BY <1>1, <2>3 DEF GhostRests
  <2>5. Turns(c, s)
    BY <1>1, <2>1, RowTurns DEF Ready, TypeOK
  <2>6. Live(c)
    BY <1>1, <1>3, SavedIsLive
  <2>7. Contract!Conclude(c)
    BY <1>1, <2>1, <2>2, <2>4, <2>5, <2>6, ConcludeRefines DEF GhostRests
  <2> QED BY <2>7
<1> QED BY <1>2, <1>3 DEF ExecuteFinish

\* What is recorded when an edit writes the status s and the deadline e.
EditCounts(c, s, e) ==
    /\ s = "pending" => CountsRequeue(c)
    /\ s # "pending" => ghost'.requeued = ghost.requeued
    /\ ghost'.rescheduled = IF e # row[c].expire THEN ghost.rescheduled \cup {c}
                            ELSE ghost.rescheduled

LEMMA EditAllowed ==
    ASSUME NEW c \in Commands, row[c].status # "absent",
           NEW s \in Contract!Past(c), NEW e \in Instants, now < e,
           StatusesNow' = [StatusesNow EXCEPT ![c] = s],
           DeadlinesNow' = [DeadlinesNow EXCEPT ![c] = e],
           EditCounts(c, s, e), now' = now, Taken' = Taken,
           Evidence' = Evidence, Given' = Given
    PROVE  Contract!Edit(c)
<1>1. ghost'.requeued = IF s = "pending" THEN [ghost.requeued EXCEPT ![c] = @ + 1]
                        ELSE ghost.requeued
  BY DEF EditCounts, CountsRequeue
<1>2. ghost'.rescheduled = IF e # DeadlinesNow[c] THEN ghost.rescheduled \cup {c}
                           ELSE ghost.rescheduled
  BY DEF EditCounts, DeadlinesNow
<1>3. StatusesNow[c] # "absent"
  BY DEF StatusesNow
<1> QED BY <1>1, <1>2, <1>3 DEF Contract!Edit, Contract!Becomes, StatusesNow, DeadlinesNow, Given, Evidence

LEMMA EditRefines ==
    ASSUME Ready, NEW w \in Workers, NEW c \in Commands, wk[w].cmd = c, EditSave(w)
    PROVE  Contract!Edit(c) \/ UNCHANGED Contract!vars
<1>1. /\ row[c].status # "absent" /\ UNCHANGED <<logs, now>> /\ Taken' = Taken
      /\ wk[w].seen \in Rows /\ wk[w].seen.status # "absent"
  BY TakenStays DEF EditSave, Ready, TypeOK, WorkersOK, Workings, ExpiryInv
<1>2. CASE UNCHANGED <<row, ghost>>
  BY <1>1, <1>2, Rests DEF GhostRests, Evidence, Given
<1>3. ASSUME NEW e \in Expiries \cup {wk[w].seen.expire}, now < e,
             NEW s \in Statuses, wk[w].seen.status = s,
             row' = [row EXCEPT ![c] = [wk[w].seen EXCEPT !.expire = e]],
             ghost' = [ghost EXCEPT
                     !.requeued[c] = IF wk[w].seen.status = "pending" THEN @ + 1 ELSE @,
                     !.rescheduled = IF e # row[c].expire THEN @ \cup {c} ELSE @]
      PROVE  Contract!Edit(c)
  <2> DEFINE r == [wk[w].seen EXCEPT !.expire = e]
  <2>1. e \in Instants
    BY <1>1, CommandDispatchAssumption DEF Instants, NoExpiry, Rows
  <2>2. row'[c] = r /\ \A d \in Commands \ {c} : row'[d] = row[d]
    BY <1>3 DEF Ready, TypeOK, StoreOK
  <2>3. r.status = s /\ r.expire = e
    BY <1>1, <1>3, EditEffect
  <2>4. /\ ghost'.requeued = IF s = "pending" THEN [ghost.requeued EXCEPT ![c] = @ + 1]
                             ELSE ghost.requeued
        /\ ghost'.rescheduled = IF e # row[c].expire THEN ghost.rescheduled \cup {c}
                                ELSE ghost.rescheduled
        /\ Evidence' = Evidence /\ Given' = Given
    <3>1. ghost \in Ghosts /\ ghost.requeued \in [Commands -> Nat]
      BY DEF Ready, TypeOK, WorldOK, Ghosts
    <3>2. CASE s = "pending"
      BY <1>3, <3>1, <3>2 DEF Ghosts, Evidence, Given
    <3>3. CASE s # "pending"
      BY <1>3, <3>1, <3>3 DEF Ghosts, Evidence, Given
    <3> QED BY <3>2, <3>3
  <2>5. s \in Contract!Past(c)
    <3>1. s \in {"pending", "executing", "done", "failed"}
      BY <1>1, <1>3 DEF Statuses
    <3>2. s \in {"executing", "done", "failed"} => c \in Taken
      BY <1>3 DEF Ready, TraceInv, WorkersTook, EditSave
    <3>3. s = "done" => c \in Evidence
      BY <1>3 DEF Ready, DoneInv, EditSave
    <3> QED BY <3>1, <3>2, <3>3 DEF Contract!Past, Evidence
  <2> HIDE DEF r
  <2>6. StatusesNow' = [StatusesNow EXCEPT ![c] = s]
    <3>1. StatusesNow' = [d \in Commands |-> IF d = c THEN s ELSE row[d].status]
      BY <2>2, <2>3 DEF StatusesNow
    <3> QED BY <3>1 DEF StatusesNow
  <2>7. DeadlinesNow' = [DeadlinesNow EXCEPT ![c] = e]
    <3>1. DeadlinesNow' = [d \in Commands |-> IF d = c THEN e ELSE row[d].expire]
      BY <2>2, <2>3 DEF DeadlinesNow
    <3> QED BY <3>1 DEF DeadlinesNow
  <2>8. EditCounts(c, s, e)
    BY <2>4 DEF EditCounts, CountsRequeue
  <2>9. now' = now /\ Evidence' = Evidence /\ Given' = Given
    BY <1>1, <2>4
  <2> QED BY <1>1, <1>3, <2>1, <2>5, <2>6, <2>7, <2>8, <2>9, EditAllowed
<1>4. wk[w].seen.status \in Statuses
  BY <1>1 DEF Rows
<1> QED BY <1>2, <1>3, <1>4 DEF EditSave

LEMMA MarkRefines ==
    ASSUME Ready, NEW p \in Pollers, PullMark(p)
    PROVE  \/ \E c \in Commands : Contract!Take(c)
           \/ \E c \in Commands : p \notin LegacyPollers /\ Contract!Deliver(p, c)
           \/ UNCHANGED Contract!vars
<1>1. CASE UNCHANGED <<row, logs, ghost>>
  BY <1>1, TakenStays, Rests DEF PullMark, GhostRests, Evidence, Given
<1>2. ASSUME NEW c \in Next1(pl[p].queue), Saves(pl[p].seen[c]),
             row' = [row EXCEPT ![c] = Marked(p, @, pl[p].seen[c])],
             logs' = [logs EXCEPT ![c] = Append(@, "running")],
             ghost' = [ghost EXCEPT !.pulled[p][c] = @ + 1]
      PROVE  \/ Contract!Take(c)
             \/ p \notin LegacyPollers /\ Contract!Deliver(p, c)
  <2> DEFINE r == Marked(p, row[c], pl[p].seen[c])
  <2>1. c \in pl[p].queue
    BY DEF Next1
  <2>2. c \in Commands /\ Live(c)
    BY <1>2, <2>1, QueuedIsLive
  <2>3. row[c] \in Rows /\ row' = [row EXCEPT ![c] = r] /\ now' = now
    BY <1>2, <2>2 DEF Ready, TypeOK, StoreOK, PullMark
  <2>4. "running" \in LogStatuses
    BY DEF LogStatuses
  <2>5. Taken' = Taken \cup {c}
    BY <1>2, <2>2, <2>4, TakenByAppend DEF Ready, TypeOK
  <2>6. /\ ghost'.pulled = [ghost.pulled EXCEPT ![p][c] = @ + 1] /\ Evidence' = Evidence
        /\ ghost'.requeued = ghost.requeued /\ ghost'.rescheduled = ghost.rescheduled
    BY <1>2 DEF Ready, TypeOK, WorldOK, Ghosts, Evidence
  <2>7. ghost.pulled \in [Pollers -> [Commands -> Nat]] /\ ghost.requeued \in [Commands -> Nat]
    BY DEF Ready, TypeOK, WorldOK, Ghosts
  <2>8. CASE p \in LegacyPollers
    <3>1. r.status = row[c].status /\ r.expire = row[c].expire
      BY <2>3, <2>8, MarkedEffect
    <3>2. row'[c] = r /\ \A d \in Commands \ {c} : row'[d] = row[d]
      BY <2>2, <2>3 DEF Ready, TypeOK, StoreOK
    <3> HIDE DEF r
    <3>3. StatusesNow' = StatusesNow /\ DeadlinesNow' = DeadlinesNow
      BY <3>1, <3>2 DEF StatusesNow, DeadlinesNow
    <3>4. Given' = Given
      BY <2>6, <2>7, <2>8 DEF Given
    <3> QED BY <2>2, <2>3, <2>5, <2>6, <3>3, <3>4, TakeRefines DEF GhostRests
  <2>9. CASE p \notin LegacyPollers
    <3>1. r.status = "executing" /\ r.expire = row[c].expire
      BY <2>3, <2>9, MarkedEffect
    <3> HIDE DEF r
    <3>2. Turns(c, "executing")
      BY <2>2, <2>3, <3>1, RowTurns DEF Ready, TypeOK
    <3>3. CountsDelivery(p, c)
      BY <2>6, <2>7, <2>9 DEF CountsDelivery, Given
    <3>4. ghost.pulled[p][c] <= ghost.requeued[c]
      <4>1. ghost.pulled[p][c] + 1 <= 1 + ghost.requeued[c]
        BY <2>1, <2>2, <2>9 DEF Ready, TakenInv, Credit
      <4>2. ghost.pulled[p][c] \in Nat /\ ghost.requeued[c] \in Nat
        BY <2>2, <2>7
      <4> QED BY <4>1, <4>2
    <3> QED BY <2>2, <2>3, <2>5, <2>6, <2>9, <3>2, <3>3, <3>4, DeliverRefines
  <2> QED BY <2>8, <2>9
<1>3. Next1(pl[p].queue) \subseteq Commands
  BY PollerFields DEF Next1, Ready, TypeOK, PollersOK
<1> QED BY <1>1, <1>2, <1>3 DEF PullMark

LEMMA ReportRefines ==
    ASSUME Ready, NEW p \in Pollers, NEW c \in Commands, pl[p].cur = c, SaveStatus(p)
    PROVE  Contract!Conclude(c) \/ UNCHANGED Contract!vars
<1> DEFINE s == pl[p].report
           r == Reported(row[c], pl[p].seen[c], s)
<1>1. /\ row[c] \in Rows /\ s \in Outcomes /\ now' = now /\ pl[p].pc = "saving"
  BY PollerFields DEF SaveStatus, Ready, TypeOK, StoreOK, PollersOK
<1>2. CASE UNCHANGED <<row, logs, ghost>>
  BY <1>1, <1>2, TakenStays, Rests DEF GhostRests, Evidence, Given
<1>3. CASE /\ Saves(pl[p].seen[c]) /\ row' = [row EXCEPT ![c] = Reported(@, pl[p].seen[c], s)]
           /\ logs' = CloseRunning(c, s)
           /\ ghost' = IF s = "done" THEN [ghost EXCEPT !.reported = @ \cup {c}] ELSE ghost
  <2>1. c \in Taken /\ Live(c)
    BY <1>1, <1>3, ReportIsLive
  <2>2. r.status = s /\ r.expire = row[c].expire /\ row' = [row EXCEPT ![c] = r]
    <3>1. row' = [row EXCEPT ![c] = r]
      BY <1>1, <1>3
    <3>2. CASE s = "done"
      BY <1>1, <3>1, <3>2, DoneEffect DEF Reported
    <3>3. CASE s = "failed"
      BY <1>1, <3>1, <3>3, FailedEffect DEF Reported
    <3> QED BY <1>1, <3>2, <3>3 DEF Outcomes
  <2>3. /\ ghost'.requeued = ghost.requeued /\ ghost'.rescheduled = ghost.rescheduled
        /\ Given' = Given
        /\ Evidence' = IF s = "done" THEN Evidence \cup {c} ELSE Evidence
    <3>1. ghost \in Ghosts
      BY DEF Ready, TypeOK, WorldOK
    <3>2. CASE s = "done"
      BY <1>3, <3>1, <3>2 DEF Ghosts, Evidence, Given
    <3>3. CASE s # "done"
      BY <1>3, <3>3 DEF Evidence, Given
    <3> QED BY <3>2, <3>3
  <2> HIDE DEF r, s
  <2>4. Taken' = Taken
    BY <1>1, <1>3, <2>1, TakenByReport DEF Ready, TypeOK
  <2>5. Turns(c, s)
    BY <2>2, RowTurns DEF Ready, TypeOK
  <2> QED BY <1>1, <2>1, <2>3, <2>4, <2>5, ConcludeRefines
<1> QED BY <1>2, <1>3 DEF SaveStatus

\* Every step is one of the contract, or a stutter.
LEMMA StepRefines ==
    ASSUME Ready, [Next]_vars
    PROVE  [Contract!Next]_Contract!vars
<1>1. ASSUME NEW c \in Commands, QueueCommand(c) \/ SocketExecuting(c)
      PROVE  Contract!Next
  BY <1>1, QueueRefines, StartRefines DEF Contract!Next
<1>2. ASSUME NEW w \in Workers, NEW c \in Commands,
             ExecuteRequest(w, c) \/ RetryRequest(w, c) \/ EditRequest(w, c)
      PROVE  UNCHANGED Contract!vars
  BY <1>2, TakenStays, Rests DEF ExecuteRequest, RetryRequest, EditRequest, GhostRests, Evidence, Given
<1>3. ASSUME NEW w \in Workers, WorkerStep(w)
      PROVE  Contract!Next \/ UNCHANGED Contract!vars
  <2>1. wk[w].cmd \in Commands
    BY <1>3 DEF WorkerStep, ExecuteStep, ResetStatus, ExecuteBegin, ExecuteClaim, ExecuteSend,
                ExecuteFinish, EditCheck, EditSave, Ready, TypeOK, WorkersOK
  <2>2. PICK c \in Commands : wk[w].cmd = c
    BY <2>1
  <2>3. CASE ResetStatus(w)
    BY <2>2, <2>3, ResetRefines DEF Contract!Next
  <2>4. CASE ExecuteBegin(w)
    BY <2>4, BeginRefines
  <2>5. CASE ExecuteClaim(w)
    BY <2>2, <2>5, ClaimRefines DEF Contract!Next
  <2>6. CASE ExecuteSend(w)
    BY <2>2, <2>6, SendRefines DEF Contract!Next
  <2>7. CASE ExecuteFinish(w)
    BY <2>2, <2>7, FinishRefines DEF Contract!Next
  <2>8. CASE EditCheck(w)
    BY <2>8, TakenStays, Rests DEF EditCheck, GhostRests, Evidence, Given
  <2>9. CASE EditSave(w)
    BY <2>2, <2>9, EditRefines DEF Contract!Next
  <2> QED BY <1>3, <2>3, <2>4, <2>5, <2>6, <2>7, <2>8, <2>9 DEF WorkerStep, ExecuteStep
<1>4. ASSUME NEW p \in Pollers, PollerStep(p)
      PROVE  Contract!Next \/ UNCHANGED Contract!vars
  <2>1. CASE PullQuery(p) \/ PullAnswer(p) \/ DeviceExecute(p) \/ PostStatus(p)
    BY <2>1, TakenStays, Rests
       DEF PullQuery, PullAnswer, DeviceExecute, PostStatus, GhostRests, Evidence, Given
  <2>2. CASE PullMark(p)
    BY <2>2, MarkRefines DEF Contract!Next
  <2>3. CASE SaveStatus(p)
    <3>1. PICK c \in Commands : pl[p].cur = c
      BY <2>3 DEF SaveStatus, Ready, TypeOK, PollersOK
    <3> QED BY <2>3, <3>1, ReportRefines DEF Contract!Next
  <2> QED BY <1>4, <2>1, <2>2, <2>3 DEF PollerStep
<1>5. CASE SocketConnect \/ Heartbeat \/ UNCHANGED vars
  BY <1>5, TakenStays, Rests DEF SocketConnect, Heartbeat, vars, GhostRests, Evidence, Given
<1>6. CASE Tick
  <2>1. /\ now' = now + 1 /\ UNCHANGED <<StatusesNow, DeadlinesNow, Evidence, Given, ghost>>
        /\ Taken' = Taken
    BY <1>6, RowStays, TakenStays DEF Tick, Evidence, Given
  <2> QED BY <2>1 DEF Contract!Next, Contract!Pass, StatusesNow, DeadlinesNow, Evidence, Given
<1> QED BY <1>1, <1>2, <1>3, <1>4, <1>5, <1>6 DEF Next

\* What the contract keeps by itself: what was taken exists, only what was taken has
\* an outcome or shows that it is executing, and evidence is of what was taken.
LEMMA ContractKeeps ==
    ASSUME TypeOK, TakenGood, [Contract!Next]_Contract!vars
    PROVE  /\ \A c \in Taken' : row'[c].status # "absent"
           /\ \A c \in Commands : row'[c].status \in {"executing", "done", "failed"} => c \in Taken'
           /\ Evidence' \subseteq Taken'
<1> DEFINE st == [c \in Commands |-> row[c].status]
           Fine == /\ \A c \in Taken : st[c] # "absent"
                   /\ \A c \in Commands : st[c] \in {"executing", "done", "failed"} => c \in Taken
                   /\ Evidence \subseteq Taken
<1>1. Taken \subseteq Commands /\ Taken' \subseteq Commands
  BY DEF Taken
<1>2. st = [c \in Commands |-> st[c]] /\ st' = [c \in Commands |-> st'[c]] /\ Fine
  BY <1>1 DEF TakenGood
<1>3. Fine' => /\ \A c \in Taken' : row'[c].status # "absent"
               /\ \A c \in Commands : row'[c].status \in {"executing", "done", "failed"} => c \in Taken'
               /\ Evidence' \subseteq Taken'
  BY <1>1
<1>4. ASSUME st' = st, Taken' = Taken, Evidence' = Evidence PROVE Fine'
  <2> HIDE DEF st
  <2> QED BY <1>2, <1>4
<1>5. ASSUME NEW c \in Commands, Contract!Queue(c)
      PROVE  st[c] = "absent" /\ st' = [st EXCEPT ![c] = "pending"] /\ Taken' = Taken /\ Evidence' = Evidence
  BY <1>5 DEF Contract!Queue, Contract!Becomes, Evidence
<1>6. ASSUME NEW c \in Commands, Contract!Take(c) \/ \E p \in Pollers \ LegacyPollers : Contract!Deliver(p, c)
      PROVE  /\ st[c] # "absent" /\ (st' = st \/ st' = [st EXCEPT ![c] = "executing"])
             /\ Taken' = Taken \cup {c} /\ Evidence' = Evidence
  BY <1>6 DEF Contract!Take, Contract!Deliver, Contract!Open, Contract!Becomes, Evidence
<1>7. ASSUME NEW c \in Commands, Contract!Believe(c) \/ Contract!Conclude(c)
      PROVE  /\ c \in Taken /\ Taken' = Taken
             /\ st' = st \/ st' = [st EXCEPT ![c] = "done"] \/ st' = [st EXCEPT ![c] = "failed"]
             /\ Evidence' = Evidence \/ Evidence' = Evidence \cup {c}
  BY <1>7 DEF Contract!Believe, Contract!Conclude, Contract!Becomes, Evidence
<1>8. ASSUME NEW c \in Commands, Contract!Requeue(c) \/ Contract!Edit(c)
      PROVE  /\ Taken' = Taken /\ Evidence' = Evidence
             /\ st[c] # "absent" /\ \E s \in Contract!Past(c) : st' = [st EXCEPT ![c] = s]
  BY <1>8 DEF Contract!Requeue, Contract!Edit, Contract!Open, Contract!Past, Contract!Becomes, Evidence
<1>9. \A c \in Commands : \A s \in Contract!Past(c) :
          s # "absent" /\ (s \in {"executing", "done", "failed"} => c \in Taken)
  BY DEF Contract!Past
<1>10. ASSUME Contract!Pass PROVE Fine'
  BY <1>4, <1>10 DEF Contract!Pass, Evidence
<1> HIDE DEF st
<1>11. ASSUME NEW c \in Commands,
              \/ Contract!Queue(c) \/ Contract!Take(c) \/ Contract!Believe(c)
              \/ Contract!Conclude(c) \/ Contract!Requeue(c) \/ Contract!Edit(c)
              \/ \E p \in Pollers \ LegacyPollers : Contract!Deliver(p, c)
       PROVE  Fine'
  <2>1. CASE Contract!Queue(c)
    BY <1>1, <1>2, <1>5, <2>1
  <2>2. CASE Contract!Take(c) \/ \E p \in Pollers \ LegacyPollers : Contract!Deliver(p, c)
    BY <1>1, <1>2, <1>6, <2>2
  <2>3. CASE Contract!Believe(c) \/ Contract!Conclude(c)
    BY <1>1, <1>2, <1>7, <2>3
  <2>4. CASE Contract!Requeue(c) \/ Contract!Edit(c)
    BY <1>1, <1>2, <1>8, <1>9, <2>4
  <2> QED BY <1>11, <2>1, <2>2, <2>3, <2>4
<1>12. CASE UNCHANGED Contract!vars
  <2>1. st' = st /\ Taken' = Taken /\ Evidence' = Evidence
    BY <1>12 DEF Contract!vars, st, Evidence
  <2> QED BY <1>3, <1>4, <2>1
<1>13. CASE Contract!Next
  BY <1>3, <1>10, <1>11, <1>13 DEF Contract!Next
<1> QED BY <1>12, <1>13

LEMMA TakenGrows ==
    ASSUME TypeOK, [Contract!Next]_Contract!vars
    PROVE  Taken \subseteq Taken'
<1>1. CASE UNCHANGED Contract!vars
  BY <1>1 DEF Contract!vars
<1>2. CASE Contract!Next
  BY <1>2 DEF Contract!Next, Contract!Queue, Contract!Take, Contract!Believe, Contract!Conclude,
              Contract!Requeue, Contract!Edit, Contract!Deliver, Contract!Pass
<1> QED BY <1>1, <1>2

\* A handler that is about to send has taken its command.
LEMMA SendersTook ==
    ASSUME Ready, Taken \subseteq Taken', [Next]_vars,
           NEW v \in Workers, wk'[v].pc \in {"send", "finish"}
    PROVE  wk'[v].cmd \in Taken'
<1> USE DEF Ready, TypeOK, WorkersOK
<1>1. CASE wk'[v] = wk[v]
  BY <1>1 DEF TraceInv, WorkersTook
<1>2. ASSUME NEW w \in Workers, EndRequest(w) PROVE wk'[v] = wk[v] \/ wk'[v].pc = "idle"
  BY <1>2, IdleWorkerType DEF EndRequest
<1>3. ASSUME NEW w \in Workers, NEW q \in {"begin", "claim", "edit"}, Goto(w, q)
      PROVE  wk'[v] = wk[v] \/ wk'[v].pc = q
  BY <1>3 DEF Goto, Workings
<1>4. ASSUME NEW w \in Workers, NEW c \in Commands,
             ExecuteRequest(w, c) \/ RetryRequest(w, c) \/ EditRequest(w, c)
      PROVE  wk'[v] = wk[v] \/ wk'[v].pc \in {"begin", "reset", "check"}
  BY <1>4 DEF ExecuteRequest, RetryRequest, EditRequest, Arrived
<1>5. ASSUME NEW w \in Workers, WorkerStep(w)
      PROVE  wk'[v].cmd \in Taken'
  <2>1. CASE ResetStatus(w) \/ ExecuteBegin(w) \/ EditCheck(w) \/ ExecuteFinish(w) \/ EditSave(w)
    <3>1. EndRequest(w) \/ \E q \in {"begin", "claim", "edit"} : Goto(w, q)
      BY <2>1 DEF ResetStatus, ExecuteBegin, EditCheck, ExecuteFinish, EditSave
    <3> QED BY <1>1, <1>2, <1>3, <3>1
  <2>2. CASE ExecuteClaim(w)
    <3>1. CASE EndRequest(w)
      BY <1>1, <1>2, <3>1
    <3>2. CASE /\ logs' = [logs EXCEPT ![wk[w].cmd] = Append(@, "running")]
               /\ wk' = [wk EXCEPT ![w].pc = "send", ![w].log = NextEntry(wk[w].cmd)]
      <4>1. wk[w].cmd \in Commands /\ "running" \in LogStatuses
        BY <2>2 DEF ExecuteClaim, LogStatuses
      <4>2. PICK c \in Commands : wk[w].cmd = c
        BY <4>1
      <4>3. Taken' = Taken \cup {c}
        <5>1. logs' = [logs EXCEPT ![c] = Append(@, "running")]
          BY <3>2, <4>2
        <5> QED BY <4>1, <5>1, TakenByAppend
      <4>4. wk'[v] = wk[v] \/ wk'[v].cmd = c
        BY <3>2, <4>2 DEF Workings
      <4> QED BY <1>1, <4>3, <4>4
    <3> QED BY <2>2, <3>1, <3>2 DEF ExecuteClaim
  <2>3. CASE ExecuteSend(w)
    <3>1. wk[w].cmd \in Taken
      BY <2>3 DEF ExecuteSend, TraceInv, WorkersTook
    <3>2. wk'[v] = wk[v] \/ wk'[v].cmd = wk[w].cmd
      BY <2>3 DEF ExecuteSend, Workings
    <3> QED BY <1>1, <3>1, <3>2
  <2> QED BY <1>5, <2>1, <2>2, <2>3 DEF WorkerStep, ExecuteStep
<1>6. CASE wk' = wk
  BY <1>1, <1>6
<1>7. ASSUME NEW p \in Pollers, PollerStep(p) PROVE wk' = wk
  BY <1>7 DEF PollerStep, PullQuery, PullMark, PullAnswer, DeviceExecute, PostStatus, SaveStatus
<1> QED BY <1>1, <1>4, <1>5, <1>6, <1>7
        DEF Next, QueueCommand, SocketExecuting, SocketConnect, Heartbeat, Tick, vars

\* An instance that says its command was worked on, says so of one that was taken.
LEMMA InstancesTook ==
    ASSUME Ready, TakenGood', Taken \subseteq Taken', [Next]_vars,
           NEW v \in Workers, wk'[v].pc # "idle",
           wk'[v].seen.status \in {"executing", "done", "failed"}
    PROVE  wk'[v].cmd \in Taken'
<1>1. CASE wk'[v] = wk[v]
  BY <1>1 DEF Ready, TraceInv, WorkersTook
<1>2. ASSUME NEW c \in Commands, wk'[v].cmd = c, wk'[v].seen = row[c], row' = row
      PROVE  wk'[v].cmd \in Taken'
  BY <1>2 DEF TakenGood
<1>3. CASE wk[v].pc # "idle" /\ wk'[v].cmd = wk[v].cmd /\ wk'[v].seen = wk[v].seen
  BY <1>3 DEF Ready, TraceInv, WorkersTook
<1> QED BY <1>1, <1>2, <1>3, WorkerFrame DEF Ready

\* What a poll hands to the device was taken.
LEMMA AtHandTook ==
    ASSUME Ready, Taken \subseteq Taken', [Next]_vars, NEW q \in Pollers
    PROVE  pl'[q].todo \cup (Commands \cap {pl'[q].cur}) \subseteq Taken'
<1>1. /\ pl \in [Pollers -> Pollings]
      /\ pl[q].todo \cup (Commands \cap {pl[q].cur}) \subseteq Taken
  BY DEF Ready, TypeOK, PollersOK, TraceInv, PollersTook
<1>2. CASE pl'[q] = pl[q]
  BY <1>1, <1>2
<1>3. ASSUME NEW p \in Pollers, PollerStep(p), pl'[q] # pl[q]
      PROVE  pl'[q].todo \cup (Commands \cap {pl'[q].cur}) \subseteq Taken'
  <2>1. p = q
    BY <1>1, <1>3 DEF PollerStep, PullQuery, PullMark, PullAnswer, DeviceExecute, PostStatus,
                      SaveStatus, PostError, PostAnswered
  <2>2. NoCommand \notin Commands
    BY CommandDispatchAssumption
  <2>3. CASE PullMark(q)
    <3>1. CASE pl'[q] = IdlePoller
      BY <2>2, <3>1 DEF IdlePoller
    <3>2. ASSUME NEW c \in Next1(pl[q].queue),
                 logs' = [logs EXCEPT ![c] = Append(@, "running")],
                 pl' = [pl EXCEPT ![q].queue = @ \ {c}, ![q].todo = @ \cup {c}]
          PROVE  pl'[q].todo \cup (Commands \cap {pl'[q].cur}) \subseteq Taken'
      <4>1. c \in Commands /\ "running" \in LogStatuses
        BY <3>2, PollerFields DEF Next1, Ready, TypeOK, PollersOK, LogStatuses
      <4>2. Taken' = Taken \cup {c}
        BY <3>2, <4>1, TakenByAppend DEF Ready, TypeOK
      <4>3. pl'[q].todo = pl[q].todo \cup {c} /\ pl'[q].cur = pl[q].cur
        BY <1>1, <3>2 DEF Pollings
      <4> QED BY <1>1, <4>2, <4>3
    <3> QED BY <1>1, <2>3, <3>1, <3>2 DEF PullMark
  <2>4. CASE PullQuery(q)
    BY <1>1, <2>2, <2>4 DEF PullQuery, IdlePoller
  <2>5. CASE PullAnswer(q)
    <3>1. \/ pl' = [pl EXCEPT ![q] = [IdlePoller EXCEPT !.pc = "loop", !.todo = pl[q].todo]]
          \/ pl' = [pl EXCEPT ![q] = IdlePoller]
      BY <2>5 DEF PullAnswer
    <3>2. \/ pl'[q] = [IdlePoller EXCEPT !.pc = "loop", !.todo = pl[q].todo]
          \/ pl'[q] = IdlePoller
      BY <1>1, <3>1
    <3>3. pl'[q].todo \subseteq pl[q].todo /\ pl'[q].cur = NoCommand
      <4>1. CASE pl'[q] = IdlePoller
        BY <4>1 DEF IdlePoller
      <4>2. CASE pl'[q] = [IdlePoller EXCEPT !.pc = "loop", !.todo = pl[q].todo]
        BY <4>2 DEF IdlePoller
      <4> QED BY <3>2, <4>1, <4>2
    <3> QED BY <1>1, <2>2, <3>3
  <2>6. CASE DeviceExecute(q)
    <3>1. CASE pl' = [pl EXCEPT ![q] = IdlePoller]
      BY <1>1, <2>2, <3>1 DEF IdlePoller
    <3>2. ASSUME NEW c \in Next1(pl[q].todo), NEW s,
                 pl' = [pl EXCEPT ![q].pc = "posting", ![q].cur = c, ![q].todo = @ \ {c},
                                  ![q].report = s, ![q].again = FALSE]
          PROVE  pl'[q].todo \cup (Commands \cap {pl'[q].cur}) \subseteq Taken'
      <4>1. c \in pl[q].todo
        BY DEF Next1
      <4>2. pl'[q].todo = pl[q].todo \ {c} /\ pl'[q].cur = c
        BY <1>1, <3>2 DEF Pollings
      <4> QED BY <1>1, <4>1, <4>2
    <3> QED BY <2>6, <3>1, <3>2 DEF DeviceExecute
  <2>7. CASE PostStatus(q) \/ SaveStatus(q)
    <3>1. pl'[q].todo = pl[q].todo /\ pl'[q].cur \in {pl[q].cur, NoCommand}
      BY <1>1, <2>7 DEF PostStatus, SaveStatus, PostError, PostAnswered, Pollings
    <3> QED BY <1>1, <2>2, <3>1
  <2> QED BY <1>3, <2>1, <2>3, <2>4, <2>5, <2>6, <2>7 DEF PollerStep
<1> QED BY <1>2, <1>3
        DEF Next, QueueCommand, SocketExecuting, ExecuteRequest, RetryRequest, EditRequest,
            WorkerStep, ExecuteStep, ResetStatus, ExecuteBegin, ExecuteClaim, ExecuteSend,
            ExecuteFinish, EditCheck, EditSave, SocketConnect, Heartbeat, Tick, vars

LEMMA TraceStep ==
    ASSUME Ready, [Next]_vars
    PROVE  TraceInv'
<1>1. [Contract!Next]_Contract!vars
  BY StepRefines
<1>2. Taken \subseteq Taken'
  BY <1>1, TakenGrows DEF Ready
<1>3. ghost'.pushed \subseteq Taken'
  <2>1. ghost.pushed \subseteq Taken
    BY DEF Ready, TraceInv, TakenGood
  <2>2. CASE ghost'.pushed = ghost.pushed
    BY <1>2, <2>1, <2>2
  <2>3. ASSUME NEW w \in Workers, ExecuteSend(w)
        PROVE  ghost'.pushed \subseteq Taken'
    <3>1. wk[w].cmd \in Taken
      BY <2>3 DEF ExecuteSend, Ready, TraceInv, WorkersTook
    <3>2. ghost'.pushed \subseteq ghost.pushed \cup {wk[w].cmd}
      BY <2>3 DEF ExecuteSend, Ready, TypeOK, WorldOK, Ghosts
    <3> QED BY <1>2, <2>1, <3>1, <3>2
  <2>4. ASSUME NEW w \in Workers, ResetStatus(w) \/ EditSave(w)
        PROVE  ghost'.pushed = ghost.pushed
    BY <2>4 DEF ResetStatus, EditSave, Ready, TypeOK, WorldOK, Ghosts
  <2>5. ASSUME NEW p \in Pollers, PullMark(p) \/ SaveStatus(p)
        PROVE  ghost'.pushed = ghost.pushed
    BY <2>5 DEF PullMark, SaveStatus, Ready, TypeOK, WorldOK, Ghosts
  <2> QED BY <2>2, <2>3, <2>4, <2>5
          DEF Next, QueueCommand, SocketExecuting, ExecuteRequest, RetryRequest, EditRequest,
              WorkerStep, ExecuteStep, ExecuteBegin, ExecuteClaim, ExecuteFinish, EditCheck,
              PollerStep, PullQuery, PullAnswer, DeviceExecute, PostStatus,
              SocketConnect, Heartbeat, Tick, vars
<1>4. TakenGood'
  BY <1>1, <1>3, ContractKeeps DEF Ready, TraceInv, TakenGood
<1>5. WorkersTook'
  BY <1>2, <1>4, SendersTook, InstancesTook DEF WorkersTook
<1>6. PollersTook'
  BY <1>2, AtHandTook DEF PollersTook
<1> QED BY <1>4, <1>5, <1>6 DEF TraceInv

LEMMA ReadyStep == Ready /\ [Next]_vars => Ready'
<1> SUFFICES ASSUME Ready, [Next]_vars PROVE Ready'
  OBVIOUS
<1>1. TypeOK' /\ DoneInv' /\ TakenInv' /\ ExpiryInv'
  BY TypeNext, DoneStep, TakenStep, ExpiryStep DEF Ready
<1>2. TraceInv'
  BY TraceStep
<1> QED BY <1>1, <1>2 DEF Ready

LEMMA ReadyInit == Init => Ready
<1> SUFFICES ASSUME Init PROVE Ready
  OBVIOUS
<1>1. TypeOK
  BY TypeInit
<1>2. /\ \A c \in Commands : row[c].status = "absent"
      /\ \A w \in Workers : wk[w].pc = "idle"
      /\ \A p \in Pollers : pl[p] = IdlePoller
      /\ Evidence = {} /\ ghost.pushed = {} /\ ghost.rescheduled = {}
      /\ \A p \in Pollers, c \in Commands : ghost.pulled[p][c] = 0 /\ ghost.requeued[c] = 0
  BY IdleWorkerType DEF Init, Absent, Evidence
<1>3. Taken = {}
  BY DEF Init, Taken
<1>4. IdlePoller.queue = {} /\ IdlePoller.todo = {} /\ IdlePoller.cur \notin Commands /\ IdlePoller.pc = "idle"
  BY CommandDispatchAssumption DEF IdlePoller
<1>5. DoneInv
  BY <1>2 DEF DoneInv, DoneHasEvidence
<1>6. TakenInv
  BY <1>2, <1>4 DEF TakenInv, Credit
<1>7. ExpiryInv
  BY <1>2, <1>4 DEF ExpiryInv, Known
<1>8. TraceInv
  BY <1>2, <1>3, <1>4 DEF TraceInv, TakenGood, WorkersTook, PollersTook
<1> QED BY <1>1, <1>5, <1>6, <1>7, <1>8 DEF Ready

\* Whatever stale instances handlers and polls save, and in which order, they do no
\* more to a command than its contract allows: every behaviour is one of the contract.
THEOREM CommandsRefine == Spec => KeepsContract
<1>1. Init => Contract!Init
  <2> SUFFICES ASSUME Init PROVE Contract!Init
    OBVIOUS
  <2>1. Taken = {}
    BY DEF Init, Taken
  <2>2. /\ StatusesNow = [c \in Commands |-> "absent"]
        /\ DeadlinesNow = [c \in Commands |-> NoExpiry]
    BY DEF Init, Absent, StatusesNow, DeadlinesNow
  <2>3. Given = [p \in Pollers \ LegacyPollers |-> [c \in Commands |-> 0]]
    BY DEF Init, Given
  <2> QED BY <2>1, <2>2, <2>3 DEF Init, Contract!Init, StatusesNow, DeadlinesNow, Given
<1>2. Ready /\ [Next]_vars => [Contract!Next]_Contract!vars
  BY StepRefines
<1> QED BY <1>1, <1>2, ReadyInit, ReadyStep, PTL DEF Spec, KeepsContract, Contract!Spec

\* A command that shows more than 'pending' was taken by an execution or by a poll,
\* and so was every command that somebody called done.
THEOREM TakenBeforeOutcome == Spec => [](Contract!OutcomesAreTaken /\ Contract!DoneIsProved)
<1>1. Ready => Contract!OutcomesAreTaken /\ Contract!DoneIsProved
  <2> SUFFICES ASSUME Ready PROVE Contract!OutcomesAreTaken /\ Contract!DoneIsProved
    OBVIOUS
  <2>1. \A c \in Commands : row[c].status = "done" => c \in Evidence
    BY DEF Ready, DoneInv, DoneHasEvidence, Evidence
  <2>2. /\ \A c \in Commands : row[c].status \in {"executing", "done", "failed"} => c \in Taken
        /\ Evidence \subseteq Taken
    BY DEF Ready, TraceInv, TakenGood
  <2> QED BY <2>1, <2>2 DEF Contract!OutcomesAreTaken, Contract!DoneIsProved, Evidence
<1> QED BY <1>1, ReadyInit, ReadyStep, PTL DEF Spec
=============================================================================
