----------------------------- MODULE Jobs_proofs -----------------------------
(* Proofs about the jobs of the server that share no state: the schedules and *)
(* the delivery of content in them, what a download status says and what an   *)
(* activation leaves its screen with; the saves of a layout by its editors;   *)
(* the backups and the clean-ups that delete them.                            *)
EXTENDS ScheduleRunner, Backups, Layouts, SequenceTheorems, WellFoundedInduction, TLAPS

-----------------------------------------------------------------------------
(* THE SCHEDULES                                                             *)
-----------------------------------------------------------------------------
(* The invariant                                                             *)

\* What a request is going to save of an item that is a file does not claim
\* more than screens have confirmed.
SenderGood(s, known) ==
    /\ s.pc = "sending" => s.result \in Results /\ (IsFile[s.item] => s.result # "ready")
    /\ s.pc = "reporting" =>
          /\ s.result \in {"success", "failed", "pending"}
          /\ IsFile[s.item] /\ s.seen.downloaded => s.item \in known
SendersGood == \A k \in Senders : SenderGood(sender[k], confirmed)

\* A runner knows its schedule, template and screen when it needs them, and an
\* activation that is about to commit has asked its screen for the file unless
\* it failed or there was nothing to ask for.
RunGood(j, sent, known) ==
    /\ j.pc \in {"begin", "screens"} => j.cur \in Schedules
    /\ j.pc = "screens" => j.template \in Templates
    /\ j.pc \in {"activate", "commit"} =>
          /\ j.template \in Templates
          /\ \E x \in Screens : j.screen = {x}
          /\ j.kind # "manual" => j.cur \in Schedules
    /\ j.pc = "commit" =>
          /\ IsFile[j.template] => j.result # "ready"
          /\ j.result = "sent" => \A x \in j.screen : <<j.template, x>> \in sent
          /\ j.result = "none" /\ j.reached /\ IsFile[j.template] => j.template \in known
RunsGood == \A p \in Runners : RunGood(run[p], asked, confirmed)

IInv == TypeOK /\ DownloadedIsConfirmed /\ SendersGood /\ RunsGood

-----------------------------------------------------------------------------
(* The row of an item                                                        *)

Claims(i) == i.downloaded \/ i.status = "success"

LEMMA ItemFields ==
    ASSUME NEW i \in Items
    PROVE  /\ i.status \in {"pending", "success", "failed"} /\ i.downloaded \in BOOLEAN
           /\ i.retries \in 0 .. MaxRetries
BY DEF Items

LEMMA MarkFailedItem ==
    ASSUME NEW i \in Items, NEW n \in {1, 2, 3}
    PROVE  /\ MarkFailed(i, n) \in Items /\ ~Claims(MarkFailed(i, n))
           /\ MarkFailed(i, n).retries > 0
<1>1. i.retries \in 0 .. 3
  BY DEF Items, MaxRetries
<1>2. (IF i.retries + n < 3 THEN i.retries + n ELSE 3) \in 1 .. 3
  BY <1>1
<1> QED
  BY <1>2 DEF MarkFailed, Items, MaxRetries, Claims

LEMMA MarkDownloadedItem ==
    ASSUME NEW r \in Items
    PROVE  MarkDownloaded(r) \in Items
BY DEF MarkDownloaded, Items

LEMMA PendingItem ==
    ASSUME NEW r \in Items
    PROVE  Pending(r) \in Items /\ (Claims(Pending(r)) => Claims(r))
BY DEF Pending, Items, Claims

LEMMA MarkCounts ==
    /\ \A result : result \in DOMAIN Marks <=> result \in {"once", "twice", "thrice"}
    /\ \A result \in {"once", "twice", "thrice"} : Marks[result] \in {1, 2, 3}
BY DEF Marks

LEMMA SettledItem ==
    ASSUME NEW r \in Items, NEW i \in Items, NEW result \in Results
    PROVE  /\ Settled(r, i, result) \in Items
           /\ result # "ready" /\ Claims(Settled(r, i, result)) => Claims(r)
           /\ result \in {"once", "twice", "thrice"} => Settled(r, i, result).retries > 0
<1>1. CASE result \in {"once", "twice", "thrice"}
  <2>1. Settled(r, i, result) = MarkFailed(i, Marks[result]) /\ Marks[result] \in {1, 2, 3}
    BY <1>1, MarkCounts DEF Settled
  <2> QED
    BY <2>1, MarkFailedItem
<1>2. CASE result = "none"
  BY <1>2 DEF Settled
<1>3. CASE result = "sent"
  BY <1>3, PendingItem DEF Settled
<1>4. CASE result = "ready"
  BY <1>4, MarkDownloadedItem DEF Settled
<1> QED
  BY <1>1, <1>2, <1>3, <1>4 DEF Results

LEMMA ReportedItem ==
    ASSUME NEW r \in Items, NEW i \in Items, NEW result \in {"success", "failed", "pending"}
    PROVE  /\ Reported(r, i, result) \in Items
           /\ result # "success" /\ Claims(Reported(r, i, result)) => i.downloaded
<1>1. CASE result = "success"
  BY <1>1, MarkDownloadedItem DEF Reported
<1>2. CASE result = "failed"
  BY <1>2, MarkFailedItem DEF Reported
<1>3. CASE result = "pending"
  BY <1>3 DEF Reported, Items, Claims
<1> QED
  BY <1>1, <1>2, <1>3

LEMMA SpendType ==
    ASSUME left \in [Spendings -> Nat], NEW what, what \subseteq Spendings, Spend(what)
    PROVE  left' \in [Spendings -> Nat]
<1>1. \A w \in Spendings : (IF w \in what THEN left[w] - 1 ELSE left[w]) \in Nat
  BY DEF Spend
<1> QED
  BY <1>1 DEF Spend

LEMMA FailingSpends == \A result : Failing(result) \subseteq Spendings
BY DEF Failing, Spendings

-----------------------------------------------------------------------------
(* Requests and reports                                                      *)

\* The state of content delivery is in order.
DeliveryGood == DeliveryTypeOK /\ DownloadedIsConfirmed /\ SendersGood
Grows == asked \subseteq asked' /\ confirmed \subseteq confirmed'

LEMMA ConfirmedMeans ==
    /\ DownloadedIsConfirmed <=>
          \A c \in Templates : IsFile[c] /\ Claims(content[c]) => c \in confirmed
    /\ DownloadedIsConfirmed' <=>
          \A c \in Templates : IsFile[c] /\ Claims(content'[c]) => c \in confirmed'
BY DEF DownloadedIsConfirmed, Claims

LEMMA IdleSenderGood == \A known : SenderGood(IdleSender, known)
BY DEF SenderGood, IdleSender

\* The sender k becomes s and the row of c becomes r.
LEMMA DeliveryUpdate ==
    ASSUME DeliveryGood, NEW k \in Senders, NEW s \in Sendings \cup {IdleSender},
           sender' = [sender EXCEPT ![k] = s], SenderGood(s, confirmed'),
           NEW c \in Templates, NEW r \in Items, content' = [content EXCEPT ![c] = r],
           IsFile[c] /\ Claims(r) => Claims(content[c]) \/ c \in confirmed',
           confirmed \subseteq confirmed', confirmed' \subseteq Templates,
           asked \subseteq asked', asked' \subseteq Templates \X Screens,
           told' \subseteq Templates \X Screens, left' \in [Spendings -> Nat], UNCHANGED online
    PROVE  DeliveryGood' /\ Grows
<1>1. content' \in [Templates -> Items] /\ content'[c] = r
      /\ \A d \in Templates : d # c => content'[d] = content[d]
  BY DEF DeliveryGood, DeliveryTypeOK
<1>2. sender' \in [Senders -> Sendings \cup {IdleSender}] /\ sender'[k] = s
      /\ \A q \in Senders : q # k => sender'[q] = sender[q]
  BY DEF DeliveryGood, DeliveryTypeOK
<1>3. DeliveryTypeOK'
  BY <1>1, <1>2 DEF DeliveryGood, DeliveryTypeOK
<1>4. DownloadedIsConfirmed'
  BY <1>1, ConfirmedMeans DEF DeliveryGood
<1>5. SendersGood'
  BY <1>2 DEF DeliveryGood, SendersGood, SenderGood
<1> QED
  BY <1>3, <1>4, <1>5 DEF DeliveryGood, Grows

LEMMA SenderType ==
    ASSUME DeliveryGood, NEW k \in Senders, sender[k].pc # "idle"
    PROVE  /\ sender[k] \in Sendings /\ sender[k].item \in Templates
           /\ sender[k].seen \in Items /\ SenderGood(sender[k], confirmed)
<1>1. sender[k] \in Sendings
  BY DEF DeliveryGood, DeliveryTypeOK, IdleSender
<1> QED
  BY <1>1 DEF Sendings, DeliveryGood, SendersGood

LEMMA AskType ==
    ASSUME DeliveryTypeOK, NEW c \in Templates, NEW x \in Screens, NEW result, Ask(c, x, result)
    PROVE  /\ told' \subseteq Templates \X Screens /\ asked' \subseteq Templates \X Screens
           /\ asked \subseteq asked'
           /\ result = "sent" => <<c, x>> \in asked'
BY DEF Ask, DeliveryTypeOK

LEMMA RetryDownloadGood ==
    ASSUME DeliveryGood, NEW k \in Senders, NEW c \in Templates, NEW x \in Screens,
           RetryDownload(k, c, x)
    PROVE  DeliveryGood' /\ Grows
<1>1. PICK result \in RetryResults(c) :
          /\ Spend({"retries"} \cup Failing(result))
          /\ Ask(c, x, result)
          /\ sender' = [sender EXCEPT ![k] = [pc |-> "sending", item |-> c, screen |-> x,
                                             seen |-> content[c], result |-> result]]
  BY DEF RetryDownload
<1> DEFINE s == [pc |-> "sending", item |-> c, screen |-> x, seen |-> content[c],
                 result |-> result]
<1>2. content[c] \in Items
  BY DEF DeliveryGood, DeliveryTypeOK
<1>3. result \in Results /\ (IsFile[c] => result # "ready")
  BY DEF RetryResults, Results
<1>4. s \in Sendings /\ SenderGood(s, confirmed')
  BY <1>2, <1>3 DEF Sendings, SenderPcs, SenderGood
<1>5. Pending(content[c]) \in Items /\ (Claims(Pending(content[c])) => Claims(content[c]))
  BY <1>2, PendingItem
<1>6. content' = [content EXCEPT ![c] = Pending(content[c])] /\ UNCHANGED <<online, confirmed>>
  BY DEF RetryDownload
<1>7. left' \in [Spendings -> Nat]
  BY <1>1, FailingSpends, SpendType DEF DeliveryGood, DeliveryTypeOK, Spendings
<1>8. confirmed' \subseteq Templates
  BY <1>6 DEF DeliveryGood, DeliveryTypeOK
<1> HIDE DEF s
<1>9. sender' = [sender EXCEPT ![k] = s]
  BY <1>1 DEF s
<1> QED
  BY <1>1, <1>4, <1>5, <1>6, <1>7, <1>8, <1>9, AskType, DeliveryUpdate DEF DeliveryGood

LEMMA SaveRetryGood ==
    ASSUME DeliveryGood, NEW k \in Senders, SaveRetry(k)
    PROVE  DeliveryGood' /\ Grows
<1> DEFINE s == sender[k]
<1> DEFINE r == Settled(content[s.item], s.seen, s.result)
<1>1. s.pc = "sending" /\ content' = [content EXCEPT ![s.item] = r]
      /\ sender' = [sender EXCEPT ![k] = IdleSender]
      /\ UNCHANGED <<online, told, left, asked, confirmed>>
  BY DEF SaveRetry
<1>2. s.item \in Templates /\ s.seen \in Items /\ SenderGood(s, confirmed)
  BY <1>1, SenderType
<1>3. content[s.item] \in Items /\ s.result \in Results /\ (IsFile[s.item] => s.result # "ready")
  BY <1>1, <1>2 DEF DeliveryGood, DeliveryTypeOK, SenderGood
<1>4. r \in Items /\ (IsFile[s.item] /\ Claims(r) => Claims(content[s.item]))
  BY <1>2, <1>3, SettledItem
<1> HIDE DEF r
<1>5. /\ confirmed' \subseteq Templates /\ asked' \subseteq Templates \X Screens
      /\ told' \subseteq Templates \X Screens /\ left' \in [Spendings -> Nat]
  BY <1>1 DEF DeliveryGood, DeliveryTypeOK
<1> QED
  BY <1>1, <1>2, <1>4, <1>5, IdleSenderGood, DeliveryUpdate

LEMMA ReportGood ==
    ASSUME DeliveryGood, NEW k \in Senders, NEW c \in Templates, NEW x \in Screens,
           Report(k, c, x)
    PROVE  DeliveryGood' /\ Grows
<1>1. PICK result \in {"success", "failed", "pending"} :
          sender' = [sender EXCEPT ![k] = [pc |-> "reporting", item |-> c, screen |-> x,
                                             seen |-> content[c], result |-> result]]
  BY DEF Report
<1> DEFINE s == [pc |-> "reporting", item |-> c, screen |-> x, seen |-> content[c],
                 result |-> result]
<1>2. content[c] \in Items
  BY DEF DeliveryGood, DeliveryTypeOK
<1>3. UNCHANGED <<content, online, asked, confirmed>> /\ told' \subseteq told
  BY DEF Report
<1>4. s \in Sendings
  BY <1>2 DEF Sendings, SenderPcs
<1>5. SenderGood(s, confirmed')
  <2>1. IsFile[c] /\ content[c].downloaded => c \in confirmed
    BY ConfirmedMeans DEF DeliveryGood, Claims
  <2> QED
    BY <1>1, <1>3, <2>1 DEF SenderGood
<1>6. left' \in [Spendings -> Nat]
  BY SpendType DEF Report, DeliveryGood, DeliveryTypeOK, Spendings
<1>7. /\ confirmed' \subseteq Templates /\ asked' \subseteq Templates \X Screens
      /\ told' \subseteq Templates \X Screens
  BY <1>3 DEF DeliveryGood, DeliveryTypeOK
<1>8. content' = [content EXCEPT ![c] = content[c]]
  BY <1>3 DEF DeliveryGood, DeliveryTypeOK
<1>9. sender' = [sender EXCEPT ![k] = s]
  BY <1>1
<1> HIDE DEF s
<1> QED
  BY <1>2, <1>3, <1>4, <1>5, <1>6, <1>7, <1>8, <1>9, DeliveryUpdate

LEMMA SaveReportGood ==
    ASSUME DeliveryGood, NEW k \in Senders, SaveReport(k)
    PROVE  DeliveryGood' /\ Grows
<1> DEFINE s == sender[k]
<1> DEFINE r == Reported(content[s.item], s.seen, s.result)
<1>1. s.pc = "reporting" /\ content' = [content EXCEPT ![s.item] = r]
      /\ sender' = [sender EXCEPT ![k] = IdleSender]
      /\ UNCHANGED <<online, told, left, asked>>
      /\ confirmed' = IF s.result = "success" THEN confirmed \cup {s.item} ELSE confirmed
  BY DEF SaveReport
<1>2. s.item \in Templates /\ s.seen \in Items /\ SenderGood(s, confirmed)
  BY <1>1, SenderType
<1>3. content[s.item] \in Items /\ s.result \in {"success", "failed", "pending"}
      /\ (IsFile[s.item] /\ s.seen.downloaded => s.item \in confirmed)
  BY <1>1, <1>2 DEF DeliveryGood, DeliveryTypeOK, SenderGood
<1>4. r \in Items /\ (s.result # "success" /\ Claims(r) => s.seen.downloaded)
  BY <1>2, <1>3, ReportedItem
<1>5. IsFile[s.item] /\ Claims(r) => s.item \in confirmed'
  BY <1>1, <1>3, <1>4
<1> HIDE DEF r
<1>6. /\ confirmed \subseteq confirmed' /\ confirmed' \subseteq Templates
      /\ asked' \subseteq Templates \X Screens
      /\ told' \subseteq Templates \X Screens /\ left' \in [Spendings -> Nat]
  BY <1>1, <1>2 DEF DeliveryGood, DeliveryTypeOK
<1> QED
  BY <1>1, <1>2, <1>4, <1>5, <1>6, IdleSenderGood, DeliveryUpdate

LEMMA SenderStepGood ==
    ASSUME DeliveryGood, SenderStep
    PROVE  DeliveryGood' /\ Grows
BY RetryDownloadGood, SaveRetryGood, ReportGood, SaveReportGood DEF SenderStep

-----------------------------------------------------------------------------
(* The records of the runners                                                *)

LEMMA RunFields ==
    ASSUME NEW j \in Runs
    PROVE  /\ j # Idle /\ j.pc \in RunPcs /\ j.kind \in Kinds /\ j.seen \in [Schedules -> Rows]
           /\ j.todo \subseteq Schedules /\ j.cur \in Schedules \cup {NoSchedule}
           /\ j.template \in Templates \cup {NoTemplate} /\ j.todoScreens \subseteq Screens
           /\ j.screen \subseteq Screens /\ j.item \in Items /\ j.result \in Results
           /\ j.reached \in BOOLEAN /\ j.alone \in BOOLEAN
<1>1. j.pc # "idle"
  BY DEF Runs, RunPcs
<1>2. j # Idle
  BY <1>1 DEF Idle
<1> QED
  BY <1>2 DEF Runs

LEMMA BusyIsRun ==
    ASSUME TypeOK, NEW p \in Runners, run[p].pc # "idle"
    PROVE  run[p] \in Runs
BY DEF TypeOK, Idle

\* k is the runner j, but for the mark that nothing disturbed it.
Same(j, k) ==
    \/ j = Idle /\ k = Idle
    \/ /\ j \in Runs /\ k \in Runs
       /\ k.pc = j.pc /\ k.kind = j.kind /\ k.cur = j.cur /\ k.template = j.template
       /\ k.screen = j.screen /\ k.result = j.result /\ k.reached = j.reached

LEMMA DisturbedSame ==
    ASSUME NEW j \in Runs \cup {Idle}, NEW k,
           k = IF j = Idle THEN Idle ELSE [j EXCEPT !.alone = FALSE]
    PROVE  k \in Runs \cup {Idle} /\ Same(j, k) /\ Same(j, j)
<1>1. CASE j = Idle
  BY <1>1 DEF Same
<1>2. CASE j \in Runs
  <2>1. j # Idle /\ [j EXCEPT !.alone = FALSE] \in Runs
    BY <1>2, RunFields DEF Runs
  <2> QED
    BY <1>2, <2>1 DEF Same, Runs
<1> QED
  BY <1>1, <1>2

LEMMA SameGood ==
    ASSUME NEW j, NEW k, NEW sent, NEW sent2, NEW known, NEW known2,
           Same(j, k), RunGood(j, sent, known), sent \subseteq sent2, known \subseteq known2
    PROVE  RunGood(k, sent2, known2)
<1>1. CASE k = Idle
  BY <1>1 DEF RunGood, Idle
<1>2. CASE k # Idle
  <2>1. /\ k.pc = j.pc /\ k.kind = j.kind /\ k.cur = j.cur /\ k.template = j.template
        /\ k.screen = j.screen /\ k.result = j.result /\ k.reached = j.reached
    BY <1>2 DEF Same
  <2> QED
    BY <2>1 DEF RunGood
<1> QED
  BY <1>1, <1>2

\* Runner p becomes j and the others are at most disturbed.
Moves(p, j) ==
    /\ run' \in [Runners -> Runs \cup {Idle}]
    /\ run'[p] = j
    /\ \A q \in Runners : q # p => Same(run[q], run'[q])

LEMMA RunUpdate ==
    ASSUME TypeOK, NEW p \in Runners, NEW j \in Runs \cup {Idle},
           run' = [run EXCEPT ![p] = j] \/ run' = [Disturbed EXCEPT ![p] = j]
    PROVE  Moves(p, j)
<1>1. run \in [Runners -> Runs \cup {Idle}]
  BY DEF TypeOK
<1>2. CASE run' = [run EXCEPT ![p] = j]
  BY <1>1, <1>2, DisturbedSame DEF Moves
<1>3. CASE run' = [Disturbed EXCEPT ![p] = j]
  <2>1. Disturbed \in [Runners -> Runs \cup {Idle}]
        /\ \A q \in Runners : Same(run[q], Disturbed[q])
    BY <1>1, DisturbedSame DEF Disturbed
  <2> QED
    BY <1>3, <2>1 DEF Moves
<1> QED
  BY <1>2, <1>3

LEMMA RunnerKeepsInvariant ==
    ASSUME IInv, NEW p \in Runners, NEW j, Moves(p, j), RunGood(j, asked', confirmed'),
           DeliveryGood', Grows, UNCHANGED plan, now \in Nat => now' \in Nat,
           shown' \in [Screens -> Templates \cup {NoTemplate}]
    PROVE  IInv'
<1>1. TypeOK'
  BY DEF IInv, TypeOK, DeliveryGood, Moves
<1>2. ASSUME NEW q \in Runners PROVE RunGood(run'[q], asked', confirmed')
  <2>1. CASE q = p
    BY <2>1 DEF Moves
  <2>2. CASE q # p
    BY <2>2, SameGood DEF IInv, RunsGood, Moves, Grows
  <2> QED
    BY <2>1, <2>2
<1> QED
  BY <1>1, <1>2 DEF IInv, RunsGood, DeliveryGood

LEMMA IdleGood == \A sent, known : RunGood(Idle, sent, known)
BY DEF RunGood, Idle

LEMMA DeliveryStays ==
    ASSUME IInv, UNCHANGED unspent, left' \in [Spendings -> Nat]
    PROVE  DeliveryGood' /\ Grows
<1>1. UNCHANGED <<content, online, told, sender, asked, confirmed>>
  BY DEF unspent
<1> QED
  BY <1>1 DEF IInv, TypeOK, DeliveryGood, DeliveryTypeOK, DownloadedIsConfirmed, SendersGood,
              SenderGood, Grows

LEMMA LeftType == IInv => left \in [Spendings -> Nat]
BY DEF IInv, TypeOK, DeliveryTypeOK

-----------------------------------------------------------------------------
(* The steps of a runner                                                     *)

LEMMA StartPassStep ==
    ASSUME IInv, NEW p \in Runners, StartPass(p)
    PROVE  IInv'
<1> DEFINE j == [Starting("pass") EXCEPT !.todo = {s \in Schedules : plan[s].active},
                                         !.alone = \A q \in Runners : run[q].pc = "idle"]
<1>1. {s \in Schedules : plan[s].active} \in SUBSET Schedules
      /\ (\A q \in Runners : run[q].pc = "idle") \in BOOLEAN
  OBVIOUS
<1>2. j.pc = "pass" /\ j.kind = "pass"
  BY DEF Starting
<1>3. j \in Runs
  <2>1. NewItem \in Items /\ plan \in [Schedules -> Rows]
    BY DEF NewItem, Items, MaxRetries, IInv, TypeOK
  <2>2. Starting("pass") \in Runs
    BY <2>1 DEF Starting, Runs, RunPcs, Results, Kinds
  <2> QED
    BY <1>1, <2>2 DEF Runs
<1>4. run' = [Disturbed EXCEPT ![p] = j]
  BY DEF StartPass
<1> HIDE DEF j
<1>5. RunGood(j, asked', confirmed')
  BY <1>2 DEF RunGood
<1>6. Moves(p, j)
  BY <1>3, <1>4, RunUpdate DEF IInv
<1>7. DeliveryGood' /\ Grows
  BY DeliveryStays, SpendType, LeftType DEF StartPass, Spendings
<1> QED
  BY <1>5, <1>6, <1>7, RunnerKeepsInvariant DEF StartPass, IInv, TypeOK

LEMMA ExecuteRequestStep ==
    ASSUME IInv, NEW p \in Runners, NEW s \in Schedules, ExecuteRequest(p, s)
    PROVE  IInv'
<1> DEFINE j == [Starting("request") EXCEPT !.pc = "begin", !.cur = s]
<1>1. j.pc = "begin" /\ j.cur = s
  BY DEF Starting
<1>2. j \in Runs
  <2>1. NewItem \in Items /\ plan \in [Schedules -> Rows]
    BY DEF NewItem, Items, MaxRetries, IInv, TypeOK
  <2>2. Starting("request") \in Runs
    BY <2>1 DEF Starting, Runs, RunPcs, Results, Kinds
  <2> QED
    BY <2>2 DEF Runs, RunPcs
<1>3. run' = [Disturbed EXCEPT ![p] = j]
  BY DEF ExecuteRequest
<1> HIDE DEF j
<1>4. RunGood(j, asked', confirmed')
  BY <1>1 DEF RunGood
<1>5. Moves(p, j)
  BY <1>2, <1>3, RunUpdate DEF IInv
<1>6. DeliveryGood' /\ Grows
  BY DeliveryStays, SpendType, LeftType DEF ExecuteRequest, Spendings
<1> QED
  BY <1>4, <1>5, <1>6, RunnerKeepsInvariant DEF ExecuteRequest, IInv, TypeOK

LEMMA ActivateRequestStep ==
    ASSUME IInv, NEW p \in Runners, NEW c \in Templates, NEW x \in Screens,
           ActivateRequest(p, c, x)
    PROVE  IInv'
<1> DEFINE j == [Starting("manual") EXCEPT !.pc = "activate", !.template = c, !.screen = {x}]
<1>1. j.pc = "activate" /\ j.template = c /\ j.screen = {x} /\ j.kind = "manual"
  BY DEF Starting
<1>2. j \in Runs
  <2>1. NewItem \in Items /\ plan \in [Schedules -> Rows]
    BY DEF NewItem, Items, MaxRetries, IInv, TypeOK
  <2>2. Starting("manual") \in Runs
    BY <2>1 DEF Starting, Runs, RunPcs, Results, Kinds
  <2> QED
    BY <2>2 DEF Runs, RunPcs
<1>3. run' = [Disturbed EXCEPT ![p] = j]
  BY DEF ActivateRequest
<1> HIDE DEF j
<1>4. RunGood(j, asked', confirmed')
  BY <1>1 DEF RunGood
<1>5. Moves(p, j)
  BY <1>2, <1>3, RunUpdate DEF IInv
<1>6. DeliveryGood' /\ Grows
  BY DeliveryStays, SpendType, LeftType DEF ActivateRequest, Spendings
<1> QED
  BY <1>4, <1>5, <1>6, RunnerKeepsInvariant DEF ActivateRequest, IInv, TypeOK

\* A step that leaves content delivery, the screens and the schedules alone.
LEMMA PrivateStep ==
    ASSUME IInv, NEW p \in Runners, NEW j \in Runs \cup {Idle}, run' = [run EXCEPT ![p] = j],
           UNCHANGED <<deliveryVars, plan, shown, now>>, RunGood(j, asked, confirmed)
    PROVE  IInv'
<1>1. UNCHANGED <<content, online, told, sender, left, asked, confirmed>>
  BY DEF deliveryVars
<1>2. DeliveryGood' /\ Grows
  BY <1>1, DeliveryStays, LeftType DEF unspent
<1>3. Moves(p, j)
  BY RunUpdate DEF IInv
<1>4. RunGood(j, asked', confirmed')
  BY <1>1
<1> QED
  BY <1>2, <1>3, <1>4, RunnerKeepsInvariant DEF IInv, TypeOK

LEMMA NextScheduleStep ==
    ASSUME IInv, NEW p \in Runners, NextSchedule(p)
    PROVE  IInv'
<1>1. run[p] \in Runs /\ run \in [Runners -> Runs \cup {Idle}]
  BY BusyIsRun DEF NextSchedule, IInv, TypeOK
<1>2. PICK s \in run[p].todo :
         run' = [run EXCEPT ![p].todo = @ \ {s},
                      ![p].pc = IF Due(run[p].seen[s]) THEN "begin" ELSE "pass",
                      ![p].cur = IF Due(run[p].seen[s]) THEN s ELSE NoSchedule]
  BY DEF NextSchedule
<1> DEFINE pc == IF Due(run[p].seen[s]) THEN "begin" ELSE "pass"
<1> DEFINE cur == IF Due(run[p].seen[s]) THEN s ELSE NoSchedule
<1>3. pc \in {"begin", "pass"} /\ cur \in Schedules \cup {NoSchedule}
      /\ (pc = "begin" => cur \in Schedules)
  BY <1>1, RunFields
<1>4. run' = [run EXCEPT ![p].todo = @ \ {s}, ![p].pc = pc, ![p].cur = cur]
  BY <1>2
<1> HIDE DEF pc, cur
<1> DEFINE j == [run[p] EXCEPT !.todo = run[p].todo \ {s}, !.pc = pc, !.cur = cur]
<1>5. j \in Runs /\ j.pc = pc /\ j.cur = cur
  BY <1>1, <1>3 DEF Runs, RunPcs
<1>6. run' = [run EXCEPT ![p] = j]
  BY <1>1, <1>4
<1> HIDE DEF j
<1>7. RunGood(j, asked, confirmed)
  BY <1>3, <1>5 DEF RunGood
<1> QED
  BY <1>5, <1>6, <1>7, PrivateStep DEF NextSchedule

LEMMA EndRunStep ==
    ASSUME IInv, NEW p \in Runners, EndRun(p)
    PROVE  IInv'
BY IdleGood, PrivateStep DEF EndRun

LEMMA BeginExecuteStep ==
    ASSUME IInv, NEW p \in Runners, BeginExecute(p)
    PROVE  IInv'
<1>1. run[p] \in Runs /\ run \in [Runners -> Runs \cup {Idle}] /\ run[p].pc = "begin"
      /\ run[p].cur \in Schedules
  BY BusyIsRun DEF BeginExecute, IInv, TypeOK, RunsGood, RunGood
<1>2. TemplateOf[run[p].cur] \in Templates /\ OnlineOf(run[p].cur) \subseteq Screens
  BY <1>1, RunnerAssumption DEF OnlineOf
<1>3. CASE run' = [run EXCEPT ![p].pc = "screens", ![p].todoScreens = OnlineOf(run[p].cur),
                                ![p].template = TemplateOf[run[p].cur]]
  <2> DEFINE j == [run[p] EXCEPT !.pc = "screens", !.todoScreens = OnlineOf(run[p].cur),
                                !.template = TemplateOf[run[p].cur]]
  <2>1. j \in Runs /\ j.pc = "screens" /\ j.template = TemplateOf[run[p].cur] /\ j.cur = run[p].cur
    BY <1>1, <1>2 DEF Runs, RunPcs
  <2>2. run' = [run EXCEPT ![p] = j]
    BY <1>1, <1>3
  <2> HIDE DEF j
  <2>3. RunGood(j, asked, confirmed)
    BY <1>1, <1>2, <2>1 DEF RunGood
  <2> QED
    BY <2>1, <2>2, <2>3, PrivateStep DEF BeginExecute
<1>4. CASE run' = [run EXCEPT ![p].pc = "pass", ![p].cur = NoSchedule]
  <2> DEFINE j == [run[p] EXCEPT !.pc = "pass", !.cur = NoSchedule]
  <2>1. j \in Runs /\ j.pc = "pass"
    BY <1>1 DEF Runs, RunPcs
  <2>2. run' = [run EXCEPT ![p] = j]
    BY <1>1, <1>4
  <2> HIDE DEF j
  <2>3. RunGood(j, asked, confirmed)
    BY <2>1 DEF RunGood
  <2> QED
    BY <2>1, <2>2, <2>3, PrivateStep DEF BeginExecute
<1> QED
  BY <1>3, <1>4 DEF BeginExecute

LEMMA CheckConflictsStep ==
    ASSUME IInv, NEW p \in Runners, NEW x \in Screens, CheckConflicts(p, x)
    PROVE  IInv'
<1>1. run[p] \in Runs /\ run \in [Runners -> Runs \cup {Idle}] /\ run[p].pc = "screens"
      /\ run[p].cur \in Schedules /\ run[p].template \in Templates
      /\ run[p].todoScreens \subseteq Screens
  BY BusyIsRun, RunFields DEF CheckConflicts, IInv, TypeOK, RunsGood, RunGood
<1>2. CASE run' = [run EXCEPT ![p].todoScreens = @ \ {x}]
  <2> DEFINE j == [run[p] EXCEPT !.todoScreens = run[p].todoScreens \ {x}]
  <2>1. j \in Runs /\ j.pc = "screens" /\ j.template = run[p].template /\ j.cur = run[p].cur
    BY <1>1 DEF Runs
  <2>2. run' = [run EXCEPT ![p] = j]
    BY <1>1, <1>2
  <2> HIDE DEF j
  <2>3. RunGood(j, asked, confirmed)
    BY <1>1, <2>1 DEF RunGood
  <2> QED
    BY <2>1, <2>2, <2>3, PrivateStep DEF CheckConflicts
<1>3. CASE run' = [run EXCEPT ![p].todoScreens = @ \ {x}, ![p].pc = "activate",
                               ![p].screen = {x}]
  <2> DEFINE j == [run[p] EXCEPT !.todoScreens = run[p].todoScreens \ {x}, !.pc = "activate",
                               !.screen = {x}]
  <2>1. j \in Runs /\ j.pc = "activate" /\ j.template = run[p].template /\ j.cur = run[p].cur
        /\ j.screen = {x}
    BY <1>1 DEF Runs, RunPcs
  <2>2. run' = [run EXCEPT ![p] = j]
    BY <1>1, <1>3
  <2> HIDE DEF j
  <2>3. RunGood(j, asked, confirmed)
    BY <1>1, <2>1 DEF RunGood
  <2> QED
    BY <2>1, <2>2, <2>3, PrivateStep DEF CheckConflicts
<1> QED
  BY <1>2, <1>3 DEF CheckConflicts

LEMMA FinishScheduleStep ==
    ASSUME IInv, NEW p \in Runners, FinishSchedule(p)
    PROVE  IInv'
<1> DEFINE j == [run[p] EXCEPT !.pc = "pass", !.cur = NoSchedule, !.template = NoTemplate]
<1>1. run[p] \in Runs /\ run \in [Runners -> Runs \cup {Idle}]
  BY BusyIsRun DEF FinishSchedule, IInv, TypeOK
<1>2. j \in Runs /\ j.pc = "pass"
  BY <1>1 DEF Runs, RunPcs
<1>3. run' = [run EXCEPT ![p] = j]
  BY <1>1 DEF FinishSchedule
<1> HIDE DEF j
<1>4. RunGood(j, asked, confirmed)
  BY <1>2 DEF RunGood
<1> QED
  BY <1>2, <1>3, <1>4, PrivateStep DEF FinishSchedule

-----------------------------------------------------------------------------
(* Activations                                                               *)

\* Where an activation returns to, its runner has what it needs.
LEMMA OnwardGood ==
    ASSUME IInv, NEW p \in Runners, run[p] \in Runs, run[p].pc \in {"activate", "commit"},
           NEW j, j.pc = Onward(p), j.cur = run[p].cur, j.template = run[p].template,
           NEW sent, NEW known
    PROVE  RunGood(j, sent, known) /\ Onward(p) \in RunPcs
<1>1. RunGood(run[p], asked, confirmed)
  BY DEF IInv, RunsGood
<1>2. run[p].template \in Templates /\ (run[p].kind # "manual" => run[p].cur \in Schedules)
  BY <1>1 DEF RunGood
<1>3. Onward(p) = IF run[p].kind = "manual" THEN "pass" ELSE "screens"
  BY DEF Onward
<1> QED
  BY <1>2, <1>3 DEF RunGood, RunPcs

LEMMA ActivationFailsStep ==
    ASSUME IInv, NEW p \in Runners, ActivationFails(p)
    PROVE  IInv'
<1> DEFINE j == [run[p] EXCEPT !.pc = Onward(p), !.screen = {}, !.alone = FALSE]
<1>1. run[p] \in Runs /\ run \in [Runners -> Runs \cup {Idle}] /\ run[p].pc = "activate"
  BY BusyIsRun DEF ActivationFails, IInv, TypeOK
<1>2. Onward(p) \in RunPcs
  BY DEF Onward, RunPcs
<1>3. j \in Runs /\ j.pc = Onward(p) /\ j.cur = run[p].cur /\ j.template = run[p].template
  BY <1>1, <1>2 DEF Runs
<1>4. run' = [run EXCEPT ![p] = j]
  BY <1>1 DEF ActivationFails
<1> HIDE DEF j
<1>5. RunGood(j, asked', confirmed')
  BY <1>1, <1>3, OnwardGood
<1>6. Moves(p, j)
  BY <1>3, <1>4, RunUpdate DEF IInv
<1>7. DeliveryGood' /\ Grows
  BY DeliveryStays, SpendType, LeftType DEF ActivationFails, Spendings
<1> QED
  BY <1>5, <1>6, <1>7, RunnerKeepsInvariant DEF ActivationFails, IInv, TypeOK

LEMMA SendResults ==
    ASSUME DeliveryGood, NEW c \in Templates, NEW x \in Screens,
           NEW result \in IF NeedsDownload(content[c])
                          THEN DownloadResults(c, content[c], online[x]) ELSE {"none"}
    PROVE  /\ result \in Results
           /\ IsFile[c] => result # "ready"
           /\ result = "none" /\ online[x] /\ IsFile[c] => c \in confirmed
<1>1. CASE NeedsDownload(content[c])
  BY <1>1 DEF DownloadResults, Results
<1>2. CASE ~NeedsDownload(content[c])
  <2>1. content[c].downloaded /\ result = "none"
    BY <1>2 DEF NeedsDownload
  <2>2. IsFile[c] => c \in confirmed
    BY <2>1, ConfirmedMeans DEF DeliveryGood, Claims
  <2> QED
    BY <2>1, <2>2 DEF Results
<1> QED
  BY <1>1, <1>2

LEMMA OpenActivationStep ==
    ASSUME IInv, NEW p \in Runners, NEW x \in Screens, OpenActivation(p, x)
    PROVE  IInv'
<1> DEFINE c == run[p].template
<1>1. run[p] \in Runs /\ run \in [Runners -> Runs \cup {Idle}] /\ run[p].pc = "activate"
      /\ x \in run[p].screen
  BY BusyIsRun DEF OpenActivation, IInv, TypeOK
<1>2. RunGood(run[p], asked, confirmed)
  BY DEF IInv, RunsGood
<1>3. c \in Templates /\ run[p].screen = {x} /\ (run[p].kind # "manual" => run[p].cur \in Schedules)
  BY <1>1, <1>2 DEF RunGood
<1>4. DeliveryGood /\ content[c] \in Items /\ online[x] \in BOOLEAN
  BY <1>3 DEF IInv, TypeOK, DeliveryGood, DeliveryTypeOK
<1>5. PICK result \in IF NeedsDownload(content[c])
                      THEN DownloadResults(c, content[c], online[x]) ELSE {"none"} :
         /\ Spend(Failing(result))
         /\ Ask(c, x, result)
         /\ run' = [run EXCEPT ![p].pc = "commit", ![p].item = content[c], ![p].result = result,
                               ![p].reached = online[x]]
  BY DEF OpenActivation
<1>6. /\ result \in Results
      /\ IsFile[c] => result # "ready"
      /\ result = "none" /\ online[x] /\ IsFile[c] => c \in confirmed
  BY <1>3, <1>4, SendResults
<1> DEFINE j == [run[p] EXCEPT !.pc = "commit", !.item = content[c], !.result = result,
                               !.reached = online[x]]
<1>7. j \in Runs /\ j.pc = "commit" /\ j.result = result /\ j.reached = online[x]
      /\ j.template = c /\ j.screen = {x} /\ j.cur = run[p].cur /\ j.kind = run[p].kind
  BY <1>1, <1>3, <1>4, <1>6 DEF Runs, RunPcs
<1>8. run' = [run EXCEPT ![p] = j]
  BY <1>1, <1>5
<1>9. UNCHANGED <<content, online, sender, confirmed, plan, shown, now>>
  BY DEF OpenActivation
<1>10. /\ told' \subseteq Templates \X Screens /\ asked' \subseteq Templates \X Screens
       /\ asked \subseteq asked' /\ (result = "sent" => <<c, x>> \in asked')
  BY <1>3, <1>4, <1>5, AskType DEF DeliveryGood
<1>11. left' \in [Spendings -> Nat]
  BY <1>5, FailingSpends, SpendType, LeftType
<1> HIDE DEF j
<1>12. RunGood(j, asked', confirmed')
  BY <1>3, <1>6, <1>7, <1>9, <1>10 DEF RunGood
<1>13. Moves(p, j)
  BY <1>7, <1>8, RunUpdate DEF IInv
<1>14. DeliveryGood' /\ Grows
  BY <1>4, <1>9, <1>10, <1>11
     DEF DeliveryGood, DeliveryTypeOK, DownloadedIsConfirmed, SendersGood, Grows
<1> QED
  BY <1>9, <1>12, <1>13, <1>14, RunnerKeepsInvariant DEF IInv, TypeOK

LEMMA CommitActivationStep ==
    ASSUME IInv, NEW p \in Runners, NEW x \in Screens, CommitActivation(p, x)
    PROVE  IInv'
<1> DEFINE c == run[p].template
<1> DEFINE r == Settled(content[c], run[p].item, run[p].result)
<1> DEFINE j == [run[p] EXCEPT !.pc = Onward(p), !.screen = {}, !.item = NewItem,
                               !.result = "none", !.reached = FALSE]
<1>1. run[p] \in Runs /\ run \in [Runners -> Runs \cup {Idle}] /\ run[p].pc = "commit"
      /\ run[p].item \in Items /\ run[p].result \in Results
  BY BusyIsRun, RunFields DEF CommitActivation, IInv, TypeOK
<1>2. RunGood(run[p], asked, confirmed)
  BY DEF IInv, RunsGood
<1>3. c \in Templates /\ (IsFile[c] => run[p].result # "ready")
  BY <1>1, <1>2 DEF RunGood
<1>4. DeliveryGood /\ content \in [Templates -> Items] /\ content[c] \in Items
  BY <1>3 DEF IInv, TypeOK, DeliveryGood, DeliveryTypeOK
<1>5. r \in Items /\ (IsFile[c] /\ Claims(r) => Claims(content[c]))
  BY <1>1, <1>3, <1>4, SettledItem
<1>6. content' = [content EXCEPT ![c] = r] /\ shown' = [shown EXCEPT ![x] = c]
      /\ UNCHANGED <<online, told, sender, left, asked, confirmed, plan, now>>
  BY DEF CommitActivation
<1>7. Onward(p) \in RunPcs /\ NewItem \in Items /\ "none" \in Results
  BY DEF Onward, RunPcs, NewItem, Items, MaxRetries, Results
<1>8. j \in Runs /\ j.pc = Onward(p) /\ j.cur = run[p].cur /\ j.template = c
  BY <1>1, <1>7 DEF Runs
<1>9. run' = [run EXCEPT ![p] = j]
  BY <1>1 DEF CommitActivation
<1> HIDE DEF j, r
<1>10. RunGood(j, asked', confirmed')
  BY <1>1, <1>8, OnwardGood
<1>11. Moves(p, j)
  BY <1>8, <1>9, RunUpdate DEF IInv
<1>12. content' \in [Templates -> Items] /\ content'[c] = r
       /\ \A d \in Templates : d # c => content'[d] = content[d]
  BY <1>3, <1>4, <1>5, <1>6
<1>13. DownloadedIsConfirmed'
  BY <1>4, <1>5, <1>6, <1>12, ConfirmedMeans DEF DeliveryGood
<1>14. DeliveryGood' /\ Grows
  BY <1>4, <1>6, <1>12, <1>13 DEF DeliveryGood, DeliveryTypeOK, SendersGood, Grows
<1>15. shown' \in [Screens -> Templates \cup {NoTemplate}]
  BY <1>3, <1>6 DEF IInv, TypeOK
<1> QED
  BY <1>6, <1>10, <1>11, <1>14, <1>15, RunnerKeepsInvariant

-----------------------------------------------------------------------------
(* The environment                                                           *)

\* Every runner goes on, at most disturbed.
GoesOn == run' = run \/ run' = Disturbed

LEMMA GoesOnSame ==
    ASSUME TypeOK, GoesOn
    PROVE  /\ run' \in [Runners -> Runs \cup {Idle}]
           /\ \A q \in Runners : Same(run[q], run'[q])
<1>1. run \in [Runners -> Runs \cup {Idle}]
  BY DEF TypeOK
<1>2. CASE run' = run
  BY <1>1, <1>2, DisturbedSame
<1>3. CASE run' = Disturbed
  BY <1>1, <1>3, DisturbedSame DEF Disturbed
<1> QED
  BY <1>2, <1>3 DEF GoesOn

LEMMA EnvironmentKeepsInvariant ==
    ASSUME IInv, GoesOn, DeliveryGood', Grows, plan' \in [Schedules -> Rows],
           UNCHANGED shown, now' \in Nat
    PROVE  IInv'
<1>1. TypeOK'
  BY GoesOnSame DEF IInv, TypeOK, DeliveryGood
<1>2. ASSUME NEW q \in Runners PROVE RunGood(run'[q], asked', confirmed')
  BY GoesOnSame, SameGood DEF IInv, RunsGood, Grows
<1> QED
  BY <1>1, <1>2 DEF IInv, RunsGood, DeliveryGood

LEMMA EditScheduleStep ==
    ASSUME IInv, NEW s \in Schedules, NEW row \in Rows, EditSchedule(s, row)
    PROVE  IInv'
<1>1. DeliveryGood' /\ Grows
  BY DeliveryStays, SpendType, LeftType DEF EditSchedule, Spendings
<1> QED
  BY <1>1, EnvironmentKeepsInvariant DEF EditSchedule, GoesOn, IInv, TypeOK

LEMMA ScreenTogglesStep ==
    ASSUME IInv, NEW x \in Screens, ScreenToggles(x)
    PROVE  IInv'
<1>1. left' \in [Spendings -> Nat]
  BY SpendType, LeftType DEF ScreenToggles, Toggle, Spendings
<1>2. online' \in [Screens -> BOOLEAN] /\ UNCHANGED <<content, told, sender, asked, confirmed>>
  BY DEF ScreenToggles, Toggle, IInv, TypeOK, DeliveryTypeOK
<1>3. DeliveryGood' /\ Grows
  BY <1>1, <1>2 DEF IInv, TypeOK, DeliveryGood, DeliveryTypeOK, DownloadedIsConfirmed,
                    SendersGood, Grows
<1> QED
  BY <1>3, EnvironmentKeepsInvariant DEF ScreenToggles, GoesOn, IInv, TypeOK

LEMMA TickStep ==
    ASSUME IInv, Tick
    PROVE  IInv'
<1>1. DeliveryGood' /\ Grows
  BY DeliveryStays, SpendType, LeftType DEF Tick, Spendings
<1> QED
  BY <1>1, EnvironmentKeepsInvariant DEF Tick, GoesOn, IInv, TypeOK

LEMMA SenderStepStep ==
    ASSUME IInv, SenderStep, UNCHANGED runnerVars
    PROVE  IInv'
<1>1. DeliveryGood' /\ Grows
  BY SenderStepGood DEF IInv, TypeOK, DeliveryGood
<1> QED
  BY <1>1, EnvironmentKeepsInvariant DEF runnerVars, GoesOn, IInv, TypeOK

-----------------------------------------------------------------------------
(* The invariant is inductive                                                *)

LEMMA InitInvariant == Init => IInv
<1> SUFFICES ASSUME Init PROVE IInv
  OBVIOUS
<1>1. NewItem \in Items /\ ~Claims(NewItem)
  BY DEF NewItem, Items, MaxRetries, Claims
<1>2. DeliveryTypeOK
  BY <1>1, ContentAssumption DEF Init, DeliveryInit, DeliveryTypeOK
<1>3. TypeOK
  BY <1>2 DEF Init, TypeOK
<1>4. DownloadedIsConfirmed
  BY <1>1, ConfirmedMeans DEF Init, DeliveryInit
<1>5. SendersGood
  BY IdleSenderGood DEF Init, DeliveryInit, SendersGood
<1>6. RunsGood
  BY IdleGood DEF Init, RunsGood
<1> QED
  BY <1>3, <1>4, <1>5, <1>6 DEF IInv

LEMMA RunnerStepInvariant ==
    ASSUME IInv, NEW p \in Runners, RunnerStep(p)
    PROVE  IInv'
BY StartPassStep, NextScheduleStep, EndRunStep, ExecuteRequestStep, ActivateRequestStep,
   BeginExecuteStep, CheckConflictsStep, OpenActivationStep, CommitActivationStep,
   FinishScheduleStep, ActivationFailsStep
   DEF RunnerStep

LEMMA NextInvariant == IInv /\ [Next]_vars => IInv'
<1> SUFFICES ASSUME IInv, [Next]_vars PROVE IInv'
  OBVIOUS
<1>1. CASE \E p \in Runners : RunnerStep(p)
  BY <1>1, RunnerStepInvariant
<1>2. CASE SenderStep /\ UNCHANGED runnerVars
  BY <1>2, SenderStepStep
<1>3. CASE \E s \in Schedules, row \in Rows : EditSchedule(s, row)
  BY <1>3, EditScheduleStep
<1>4. CASE \E x \in Screens : ScreenToggles(x)
  BY <1>4, ScreenTogglesStep
<1>5. CASE Tick
  BY <1>5, TickStep
<1>6. CASE UNCHANGED vars
  BY <1>6 DEF vars, deliveryVars, runnerVars, IInv, TypeOK, DeliveryTypeOK,
              DownloadedIsConfirmed, SendersGood, RunsGood
<1> QED
  BY <1>1, <1>2, <1>3, <1>4, <1>5, <1>6 DEF Next

LEMMA Inductive == Spec => []IInv
BY InitInvariant, NextInvariant, PTL DEF Spec

-----------------------------------------------------------------------------
(* The theorems                                                              *)

(* Every run of execute_schedules and every activation keeps its data in shape,
   whatever the schedules, their windows and the screens are.
   (Schedule and Content in templates/models.py)                             *)
THEOREM TypeCorrect == Spec => []TypeOK
<1>1. IInv => TypeOK
  BY DEF IInv
<1> QED
  BY <1>1, Inductive, PTL

(* No interleaving of activations, retried downloads and late reports makes a
   file count as downloaded that no screen has reported.
   (mark_downloaded, mark_failed, retry_download, content_sync_endpoint)     *)
THEOREM DownloadsAreConfirmed == Spec => []DownloadedIsConfirmed
<1>1. IInv => DownloadedIsConfirmed
  BY DEF IInv
<1> QED
  BY <1>1, Inductive, PTL

LEMMA CommitServes ==
    ASSUME IInv, NEW p \in Runners, NEW x \in Screens, CommitActivation(p, x),
           run[p].reached, IsFile[run[p].template]
    PROVE  \/ <<run[p].template, x>> \in asked
           \/ run[p].template \in confirmed
           \/ content'[run[p].template].retries > 0
<1> DEFINE c == run[p].template
<1>1. run[p] \in Runs /\ run[p].pc = "commit" /\ x \in run[p].screen
      /\ run[p].item \in Items /\ run[p].result \in Results
  BY BusyIsRun, RunFields DEF CommitActivation, IInv, TypeOK
<1>2. RunGood(run[p], asked, confirmed)
  BY DEF IInv, RunsGood
<1>3. /\ c \in Templates /\ run[p].result # "ready"
      /\ run[p].result = "sent" => <<c, x>> \in asked
      /\ run[p].result = "none" => c \in confirmed
  BY <1>1, <1>2 DEF RunGood
<1>4. CASE run[p].result \in {"once", "twice", "thrice"}
  <2>1. content \in [Templates -> Items] /\ content[c] \in Items
    BY <1>3 DEF IInv, TypeOK, DeliveryTypeOK
  <2>2. Settled(content[c], run[p].item, run[p].result).retries > 0
    BY <1>1, <1>4, <2>1, SettledItem
  <2>3. content'[c] = Settled(content[c], run[p].item, run[p].result)
    BY <1>3, <2>1 DEF CommitActivation
  <2> QED
    BY <2>2, <2>3
<1> QED
  BY <1>1, <1>3, <1>4 DEF Results

(* An activation that found its screen online has told it to fetch the file,
   unless the file was reported by some screen or an attempt was counted as
   failed, whatever else was sent or reported meanwhile.
   (activate_template, sync_template_content, download_to_screen)            *)
THEOREM ActivationServes == Spec => ServedOrExcused
<1>1. IInv /\ [Next]_vars =>
        [\A p \in Runners, x \in Screens :
           CommitActivation(p, x) /\ run[p].reached /\ IsFile[run[p].template] =>
               \/ <<run[p].template, x>> \in asked
               \/ run[p].template \in confirmed
               \/ content'[run[p].template].retries > 0]_vars
  BY CommitServes
<1> QED
  BY <1>1, Inductive, PTL DEF Spec, ServedOrExcused

-----------------------------------------------------------------------------
(* What a run that nothing disturbs leaves its screens with                  *)

\* The schedules that execute_on_screens lets win on screen x.
Winners(x) ==
    {s \in DueOn(x) : \A h \in On(x) \ {s} :
        Conflicting(plan[s].window, plan[h].window, now) => Priority(plan[h]) <= Priority(plan[s])}
Shows(screens, x) == screens[x] \in {TemplateOf[s] : s \in Winners(x)}

\* Schedule s has had its turn on screen x in the run j.
Served(j, x, s) ==
    s \notin j.todo /\ ~(s = j.cur /\ (j.pc = "begin" \/ x \in j.todoScreens \cup j.screen))

\* The run j has read what holds, and where a winner has had its turn a winner
\* is shown.
Leading(j, screens) ==
    /\ j.kind = "pass" /\ j.seen = plan
    /\ j.pc = "pass" => j.cur = NoSchedule
    /\ j.pc # "pass" => j.cur \in Schedules /\ Due(plan[j.cur])
    /\ j.pc \in {"screens", "activate", "commit"} =>
          j.todoScreens \subseteq Assigned[j.cur] /\ j.template = TemplateOf[j.cur]
    /\ j.pc \in {"pass", "begin", "screens"} => j.screen = {}
    /\ \A x \in j.screen : j.cur \in Winners(x)
    /\ \A x \in Screens, s \in Schedules :
          online[x] /\ s \in Winners(x) /\ Served(j, x, s) => Shows(screens, x)
LeadInv ==
    \A p \in Runners : run[p].pc # "idle" /\ run[p].alone =>
        Leading(run[p], shown) /\ \A q \in Runners \ {p} : run[q] = Idle

\* No step but one of the run itself, which leaves alone what conflicts depend on.
LEMMA LeadingStays ==
    ASSUME UNCHANGED <<plan, online, now>>, NEW p \in Runners, Leading(run'[p], shown')
    PROVE  Leading(run[p], shown)'
<1>1. plan' = plan /\ online' = online /\ now' = now
  OBVIOUS
<1>2. ASSUME NEW x PROVE Winners(x)' = Winners(x)
  BY <1>1 DEF Winners, DueOn, On, Due, Priority
<1>3. ASSUME NEW x PROVE Shows(shown, x)' <=> Shows(shown', x)
  BY <1>2 DEF Shows
<1>4. ASSUME NEW x, NEW s PROVE Served(run[p], x, s)' <=> Served(run'[p], x, s)
  BY DEF Served
<1>5. ASSUME NEW s PROVE Due(plan[s])' <=> Due(plan[s])
  BY <1>1 DEF Due
<1>6. /\ run'[p].kind = "pass" /\ run'[p].seen = plan'
      /\ run'[p].pc = "pass" => run'[p].cur = NoSchedule
      /\ run'[p].pc # "pass" => run'[p].cur \in Schedules /\ Due(plan[run[p].cur])'
  BY <1>1 DEF Leading, Due
<1>7. /\ run'[p].pc \in {"screens", "activate", "commit"} =>
            /\ run'[p].todoScreens \subseteq Assigned[run'[p].cur]
            /\ run'[p].template = TemplateOf[run'[p].cur]
      /\ run'[p].pc \in {"pass", "begin", "screens"} => run'[p].screen = {}
  BY DEF Leading
<1>8. \A x \in run'[p].screen : (run[p].cur \in Winners(x))'
  BY <1>2 DEF Leading
<1>9. ASSUME NEW x \in Screens, NEW s \in Schedules,
             online'[x], s \in Winners(x)', Served(run[p], x, s)'
      PROVE  Shows(shown, x)'
  BY <1>1, <1>2, <1>3, <1>4, <1>9 DEF Leading
<1> QED
  BY <1>6, <1>7, <1>8, <1>9 DEF Leading

LEMMA LeaderMoves ==
    ASSUME IInv, LeadInv, NEW p \in Runners, run[p].pc # "idle", NEW j \in Runs,
           run' = [run EXCEPT ![p] = j], UNCHANGED <<plan, online, now>>,
           j.alone => run[p].alone, j.alone /\ Leading(run[p], shown) => Leading(j, shown')
    PROVE  LeadInv'
<1>1. run \in [Runners -> Runs \cup {Idle}] /\ run'[p] = j
      /\ \A q \in Runners \ {p} : run'[q] = run[q]
  BY DEF IInv, TypeOK
<1>2. run[p] # Idle
  BY DEF Idle
<1> SUFFICES ASSUME NEW r \in Runners, run'[r].pc # "idle", run'[r].alone
             PROVE  Leading(run[r], shown)' /\ \A q \in Runners \ {r} : run'[q] = Idle
  BY DEF LeadInv
<1>3. r = p
  <2> SUFFICES ASSUME r # p PROVE FALSE
    OBVIOUS
  <2> QED
    BY <1>1, <1>2 DEF LeadInv
<1>4. Leading(run[p], shown) /\ \A q \in Runners \ {p} : run[q] = Idle
  BY <1>1, <1>3 DEF LeadInv
<1>5. Leading(run'[r], shown')
  BY <1>1, <1>3, <1>4
<1> QED
  BY <1>1, <1>3, <1>4, <1>5, LeadingStays

\* A step that disturbs what runs leaves at most the run p that it starts alone.
LEMMA NobodyLeads ==
    ASSUME TypeOK, \A q \in Runners : run'[q] = Idle \/ ~run'[q].alone
    PROVE  LeadInv'
BY DEF LeadInv, Idle

LEMMA DisturbedNotAlone ==
    ASSUME TypeOK, NEW q \in Runners
    PROVE  Disturbed[q] = Idle \/ ~Disturbed[q].alone
<1>1. run[q] \in Runs \cup {Idle}
  BY DEF TypeOK
<1>2. CASE run[q] = Idle
  BY <1>2 DEF Disturbed
<1>3. CASE run[q] # Idle
  <2>1. run[q] \in Runs
    BY <1>1, <1>3
  <2>2. [run[q] EXCEPT !.alone = FALSE].alone = FALSE
    BY <2>1 DEF Runs
  <2> QED
    BY <1>3, <2>2 DEF Disturbed
<1> QED
  BY <1>2, <1>3

LEMMA StartPassLeads ==
    ASSUME IInv, NEW p \in Runners, StartPass(p)
    PROVE  LeadInv'
<1> DEFINE j == [Starting("pass") EXCEPT !.todo = {s \in Schedules : plan[s].active},
                                         !.alone = \A q \in Runners : run[q].pc = "idle"]
<1>1. run' = [Disturbed EXCEPT ![p] = j] /\ UNCHANGED <<plan, online, shown, now>>
  BY DEF StartPass, unspent
<1>2. TypeOK /\ run \in [Runners -> Runs \cup {Idle}]
  BY DEF IInv, TypeOK
<1>3. run'[p] = j /\ \A q \in Runners \ {p} : run'[q] = Disturbed[q]
  BY <1>1 DEF Disturbed
<1>4. CASE \A q \in Runners : run[q].pc = "idle"
  <2>1. \A q \in Runners \ {p} : run'[q] = Idle
    <3>1. \A q \in Runners : run[q] = Idle
      BY <1>2, <1>4, BusyIsRun, RunFields DEF RunPcs
    <3> QED
      BY <1>3, <3>1 DEF Disturbed
  <2>2. /\ j.kind = "pass" /\ j.seen = plan /\ j.pc = "pass" /\ j.cur = NoSchedule
        /\ j.screen = {} /\ j.todo = {s \in Schedules : plan[s].active}
    BY DEF Starting
  <2> HIDE DEF j
  <2>3. Leading(j, shown')
    <3>1. \A x \in Screens, s \in Schedules : s \in Winners(x) => s \in j.todo
      BY <2>2 DEF Winners, DueOn, On
    <3> QED
      BY <2>2, <3>1 DEF Leading, Served
  <2>4. Leading(run[p], shown)'
    BY <1>1, <1>3, <2>3, LeadingStays
  <2> QED
    BY <2>1, <2>4 DEF LeadInv, Idle
<1>5. CASE ~\A q \in Runners : run[q].pc = "idle"
  <2>1. ~j.alone
    BY <1>5 DEF Starting
  <2> HIDE DEF j
  <2> QED
    BY <1>2, <1>3, <2>1, DisturbedNotAlone, NobodyLeads
<1> QED
  BY <1>4, <1>5

LEMMA StartOtherLeads ==
    ASSUME IInv, NEW p \in Runners, NEW j, run' = [Disturbed EXCEPT ![p] = j], ~j.alone
    PROVE  LeadInv'
<1>1. run'[p] = j /\ \A q \in Runners \ {p} : run'[q] = Disturbed[q]
  BY DEF Disturbed
<1> QED
  BY <1>1, DisturbedNotAlone, NobodyLeads DEF IInv

LEMMA ExecuteRequestLeads ==
    ASSUME IInv, NEW p \in Runners, NEW s \in Schedules, ExecuteRequest(p, s)
    PROVE  LeadInv'
<1> DEFINE j == [Starting("request") EXCEPT !.pc = "begin", !.cur = s]
<1>1. ~j.alone
  BY DEF Starting
<1>2. run' = [Disturbed EXCEPT ![p] = j]
  BY DEF ExecuteRequest
<1> HIDE DEF j
<1> QED
  BY <1>1, <1>2, StartOtherLeads

LEMMA ActivateRequestLeads ==
    ASSUME IInv, NEW p \in Runners, NEW c \in Templates, NEW x \in Screens,
           ActivateRequest(p, c, x)
    PROVE  LeadInv'
<1> DEFINE j == [Starting("manual") EXCEPT !.pc = "activate", !.template = c, !.screen = {x}]
<1>1. ~j.alone
  BY DEF Starting
<1>2. run' = [Disturbed EXCEPT ![p] = j]
  BY DEF ActivateRequest
<1> HIDE DEF j
<1> QED
  BY <1>1, <1>2, StartOtherLeads

LEMMA NextScheduleLeads ==
    ASSUME IInv, LeadInv, NEW p \in Runners, NextSchedule(p)
    PROVE  LeadInv'
<1>1. run[p] \in Runs /\ run \in [Runners -> Runs \cup {Idle}] /\ run[p].pc = "pass"
  BY BusyIsRun DEF NextSchedule, IInv, TypeOK
<1>2. PICK s \in run[p].todo :
         run' = [run EXCEPT ![p].todo = @ \ {s},
                      ![p].pc = IF Due(run[p].seen[s]) THEN "begin" ELSE "pass",
                      ![p].cur = IF Due(run[p].seen[s]) THEN s ELSE NoSchedule]
  BY DEF NextSchedule
<1>3. UNCHANGED <<plan, online, now, shown>>
  BY DEF NextSchedule, deliveryVars
<1> DEFINE pc == IF Due(run[p].seen[s]) THEN "begin" ELSE "pass"
<1> DEFINE cur == IF Due(run[p].seen[s]) THEN s ELSE NoSchedule
<1>4. /\ Due(run[p].seen[s]) => pc = "begin" /\ cur = s
      /\ ~Due(run[p].seen[s]) => pc = "pass" /\ cur = NoSchedule
  OBVIOUS
<1>5. run' = [run EXCEPT ![p].todo = @ \ {s}, ![p].pc = pc, ![p].cur = cur]
  BY <1>2
<1> HIDE DEF pc, cur
<1> DEFINE j == [run[p] EXCEPT !.todo = run[p].todo \ {s}, !.pc = pc, !.cur = cur]
<1>6. s \in Schedules /\ run[p].alone \in BOOLEAN
  BY <1>1, <1>2, RunFields
<1>7. /\ j \in Runs /\ j.pc = pc /\ j.cur = cur /\ j.todo = run[p].todo \ {s}
      /\ j.kind = run[p].kind /\ j.seen = run[p].seen /\ j.screen = run[p].screen
      /\ j.todoScreens = run[p].todoScreens /\ j.alone = run[p].alone
  BY <1>1, <1>4, <1>6 DEF Runs, RunPcs
<1>8. run' = [run EXCEPT ![p] = j]
  BY <1>1, <1>5
<1> HIDE DEF j
<1>9. ASSUME Leading(run[p], shown) PROVE Leading(j, shown')
  <2>1. run[p].kind = "pass" /\ run[p].seen = plan /\ run[p].cur = NoSchedule /\ run[p].screen = {}
    BY <1>1, <1>9 DEF Leading
  <2>2. NoSchedule \notin Schedules
    BY RunnerAssumption
  <2>3. ASSUME NEW x \in Screens, NEW t \in Schedules, online[x], t \in Winners(x), Served(j, x, t)
        PROVE  Shows(shown', x)
    <3>1. t # s
      <4> SUFFICES ASSUME t = s PROVE FALSE
        OBVIOUS
      <4>1. Due(run[p].seen[s])
        BY <2>1, <2>3 DEF Winners, DueOn
      <4> QED
        BY <1>4, <1>7, <2>3, <4>1 DEF Served
    <3>2. Served(run[p], x, t)
      BY <1>7, <2>1, <2>2, <2>3, <3>1 DEF Served
    <3> QED
      BY <1>3, <1>9, <2>3, <3>2 DEF Leading
  <2> QED
    BY <1>4, <1>6, <1>7, <2>1, <2>3 DEF Leading
<1> QED
  BY <1>1, <1>3, <1>7, <1>8, <1>9, LeaderMoves

LEMMA BeginExecuteLeads ==
    ASSUME IInv, LeadInv, NEW p \in Runners, BeginExecute(p)
    PROVE  LeadInv'
<1>1. run[p] \in Runs /\ run \in [Runners -> Runs \cup {Idle}] /\ run[p].pc = "begin"
      /\ run[p].cur \in Schedules
  BY BusyIsRun DEF BeginExecute, IInv, TypeOK, RunsGood, RunGood
<1>2. UNCHANGED <<plan, online, now, shown>>
  BY DEF BeginExecute, deliveryVars
<1>3. CASE Due(run[p].seen[run[p].cur])
  <2> DEFINE j == [run[p] EXCEPT !.pc = "screens", !.todoScreens = OnlineOf(run[p].cur),
                                !.template = TemplateOf[run[p].cur]]
  <2>1. TemplateOf[run[p].cur] \in Templates /\ OnlineOf(run[p].cur) \subseteq Screens
    BY <1>1, RunnerAssumption DEF OnlineOf
  <2>2. /\ j \in Runs /\ j.pc = "screens" /\ j.cur = run[p].cur /\ j.todo = run[p].todo
        /\ j.kind = run[p].kind /\ j.seen = run[p].seen /\ j.screen = run[p].screen
        /\ j.todoScreens = OnlineOf(run[p].cur) /\ j.alone = run[p].alone
        /\ j.template = TemplateOf[run[p].cur]
    BY <1>1, <2>1 DEF Runs, RunPcs
  <2>3. run' = [run EXCEPT ![p] = j]
    BY <1>1, <1>3 DEF BeginExecute
  <2> HIDE DEF j
  <2>4. ASSUME Leading(run[p], shown) PROVE Leading(j, shown')
    <3>1. run[p].screen = {}
      BY <1>1, <2>4 DEF Leading
    <3>2. ASSUME NEW x \in Screens, NEW s \in Schedules, online[x], s \in Winners(x), Served(j, x, s)
          PROVE  Shows(shown', x)
      <4>1. x \in Assigned[s]
        BY <3>2 DEF Winners, DueOn, On
      <4>2. s # run[p].cur
        BY <2>2, <3>2, <4>1 DEF Served, OnlineOf
      <4>3. Served(run[p], x, s)
        BY <2>2, <3>2, <4>2 DEF Served
      <4> QED
        BY <1>2, <2>4, <3>2, <4>3 DEF Leading
    <3> QED
      BY <1>1, <2>2, <2>4, <3>1, <3>2 DEF Leading, OnlineOf
  <2> QED
    BY <1>1, <1>2, <2>2, <2>3, <2>4, LeaderMoves
<1>4. CASE ~Due(run[p].seen[run[p].cur])
  <2> DEFINE j == [run[p] EXCEPT !.pc = "pass", !.cur = NoSchedule]
  <2>1. j \in Runs /\ j.alone = run[p].alone
    BY <1>1 DEF Runs, RunPcs
  <2>2. run' = [run EXCEPT ![p] = j]
    BY <1>1, <1>4 DEF BeginExecute
  <2> HIDE DEF j
  <2>3. ~Leading(run[p], shown)
    BY <1>1, <1>4 DEF Leading
  <2> QED
    BY <1>1, <1>2, <2>1, <2>2, <2>3, LeaderMoves
<1> QED
  BY <1>3, <1>4

LEMMA CheckConflictsLeads ==
    ASSUME IInv, LeadInv, NEW p \in Runners, NEW x \in Screens, CheckConflicts(p, x)
    PROVE  LeadInv'
<1>1. run[p] \in Runs /\ run \in [Runners -> Runs \cup {Idle}] /\ run[p].pc = "screens"
      /\ run[p].cur \in Schedules /\ run[p].todoScreens \subseteq Screens
      /\ x \in run[p].todoScreens
  BY BusyIsRun, RunFields DEF CheckConflicts, IInv, TypeOK, RunsGood, RunGood
<1>2. UNCHANGED <<plan, online, now, shown>>
  BY DEF CheckConflicts, deliveryVars
<1>3. ASSUME Leading(run[p], shown)
      PROVE  HigherConflicts(p, x) = {} <=> run[p].cur \in Winners(x)
  <2>1. run[p].seen = plan /\ Due(plan[run[p].cur]) /\ x \in Assigned[run[p].cur]
    BY <1>1, <1>3 DEF Leading
  <2>2. \A s \in Schedules : plan[s].window.start \in Nat
    BY RunnerAssumption DEF IInv, TypeOK, Rows, Windows
  <2>3. run[p].cur \in DueOn(x)
    BY <1>1, <2>1 DEF DueOn, On, Due
  <2> QED
    BY <1>1, <2>1, <2>2, <2>3 DEF HigherConflicts, Winners, On, Priority
<1>4. CASE HigherConflicts(p, x) # {}
  <2> DEFINE j == [run[p] EXCEPT !.todoScreens = run[p].todoScreens \ {x}]
  <2>1. /\ j \in Runs /\ j.pc = "screens" /\ j.cur = run[p].cur /\ j.todo = run[p].todo
        /\ j.kind = run[p].kind /\ j.seen = run[p].seen /\ j.screen = run[p].screen
        /\ j.todoScreens = run[p].todoScreens \ {x} /\ j.alone = run[p].alone
        /\ j.template = run[p].template
    BY <1>1 DEF Runs
  <2>2. run' = [run EXCEPT ![p] = j]
    BY <1>1, <1>4 DEF CheckConflicts
  <2> HIDE DEF j
  <2>3. ASSUME Leading(run[p], shown) PROVE Leading(j, shown')
    <3>1. ASSUME NEW y \in Screens, NEW s \in Schedules, online[y], s \in Winners(y), Served(j, y, s)
          PROVE  Shows(shown', y)
      <4>1. ~(s = run[p].cur /\ y = x)
        BY <1>3, <1>4, <2>3, <3>1
      <4>2. Served(run[p], y, s)
        BY <1>1, <2>1, <3>1, <4>1 DEF Served
      <4> QED
        BY <1>2, <2>3, <3>1, <4>2 DEF Leading
    <3> QED
      BY <1>1, <2>1, <2>3, <3>1 DEF Leading
  <2> QED
    BY <1>1, <1>2, <2>1, <2>2, <2>3, LeaderMoves
<1>5. CASE HigherConflicts(p, x) = {}
  <2> DEFINE j == [run[p] EXCEPT !.todoScreens = run[p].todoScreens \ {x}, !.pc = "activate",
                               !.screen = {x}]
  <2>1. /\ j \in Runs /\ j.pc = "activate" /\ j.cur = run[p].cur /\ j.todo = run[p].todo
        /\ j.kind = run[p].kind /\ j.seen = run[p].seen /\ j.screen = {x}
        /\ j.todoScreens = run[p].todoScreens \ {x} /\ j.alone = run[p].alone
        /\ j.template = run[p].template
    BY <1>1 DEF Runs, RunPcs
  <2>2. run' = [run EXCEPT ![p] = j]
    BY <1>1, <1>5 DEF CheckConflicts
  <2> HIDE DEF j
  <2>3. ASSUME Leading(run[p], shown) PROVE Leading(j, shown')
    <3>1. ASSUME NEW y \in Screens, NEW s \in Schedules, online[y], s \in Winners(y), Served(j, y, s)
          PROVE  Shows(shown', y)
      <4>1. run[p].screen = {}
        BY <1>1, <2>3 DEF Leading
      <4>2. Served(run[p], y, s)
        BY <1>1, <2>1, <3>1, <4>1 DEF Served
      <4> QED
        BY <1>2, <2>3, <3>1, <4>2 DEF Leading
    <3>2. run[p].cur \in Winners(x)
      BY <1>3, <1>5, <2>3
    <3> QED
      BY <1>1, <2>1, <2>3, <3>1, <3>2 DEF Leading
  <2> QED
    BY <1>1, <1>2, <2>1, <2>2, <2>3, LeaderMoves
<1> QED
  BY <1>4, <1>5

LEMMA FinishScheduleLeads ==
    ASSUME IInv, LeadInv, NEW p \in Runners, FinishSchedule(p)
    PROVE  LeadInv'
<1> DEFINE j == [run[p] EXCEPT !.pc = "pass", !.cur = NoSchedule, !.template = NoTemplate]
<1>1. run[p] \in Runs /\ run \in [Runners -> Runs \cup {Idle}] /\ run[p].pc = "screens"
      /\ run[p].todoScreens = {}
  BY BusyIsRun DEF FinishSchedule, IInv, TypeOK
<1>2. UNCHANGED <<plan, online, now, shown>>
  BY DEF FinishSchedule, deliveryVars
<1>3. /\ j \in Runs /\ j.pc = "pass" /\ j.cur = NoSchedule /\ j.todo = run[p].todo
      /\ j.kind = run[p].kind /\ j.seen = run[p].seen /\ j.screen = run[p].screen
      /\ j.todoScreens = run[p].todoScreens /\ j.alone = run[p].alone
  BY <1>1 DEF Runs, RunPcs
<1>4. run' = [run EXCEPT ![p] = j]
  BY <1>1 DEF FinishSchedule
<1> HIDE DEF j
<1>5. ASSUME Leading(run[p], shown) PROVE Leading(j, shown')
  <2>1. run[p].screen = {}
    BY <1>1, <1>5 DEF Leading
  <2>2. \A x, s : Served(j, x, s) => Served(run[p], x, s)
    BY <1>1, <1>3, <2>1 DEF Served
  <2> QED
    BY <1>1, <1>2, <1>3, <1>5, <2>1, <2>2 DEF Leading
<1> QED
  BY <1>1, <1>2, <1>3, <1>4, <1>5, LeaderMoves

LEMMA ActivationFailsLeads ==
    ASSUME IInv, LeadInv, NEW p \in Runners, ActivationFails(p)
    PROVE  LeadInv'
<1> DEFINE j == [run[p] EXCEPT !.pc = Onward(p), !.screen = {}, !.alone = FALSE]
<1>1. run[p] \in Runs /\ run \in [Runners -> Runs \cup {Idle}] /\ run[p].pc = "activate"
  BY BusyIsRun DEF ActivationFails, IInv, TypeOK
<1>2. Onward(p) \in RunPcs
  BY DEF Onward, RunPcs
<1>3. j \in Runs /\ ~j.alone
  BY <1>1, <1>2 DEF Runs
<1>4. run' = [run EXCEPT ![p] = j] /\ UNCHANGED <<plan, online, now>>
  BY <1>1 DEF ActivationFails, unspent
<1> HIDE DEF j
<1> QED
  BY <1>1, <1>3, <1>4, LeaderMoves

LEMMA OpenActivationLeads ==
    ASSUME IInv, LeadInv, NEW p \in Runners, NEW x \in Screens, OpenActivation(p, x)
    PROVE  LeadInv'
<1> DEFINE c == run[p].template
<1>1. run[p] \in Runs /\ run \in [Runners -> Runs \cup {Idle}] /\ run[p].pc = "activate"
      /\ x \in run[p].screen
  BY BusyIsRun DEF OpenActivation, IInv, TypeOK
<1>2. c \in Templates
  BY <1>1 DEF IInv, RunsGood, RunGood
<1>3. DeliveryGood /\ content[c] \in Items /\ online[x] \in BOOLEAN
  BY <1>2 DEF IInv, TypeOK, DeliveryGood, DeliveryTypeOK
<1>4. PICK result \in IF NeedsDownload(content[c])
                      THEN DownloadResults(c, content[c], online[x]) ELSE {"none"} :
         run' = [run EXCEPT ![p].pc = "commit", ![p].item = content[c], ![p].result = result,
                            ![p].reached = online[x]]
  BY DEF OpenActivation
<1>5. result \in Results
  BY <1>2, <1>3, SendResults
<1> DEFINE j == [run[p] EXCEPT !.pc = "commit", !.item = content[c], !.result = result,
                               !.reached = online[x]]
<1>6. /\ j \in Runs /\ j.pc = "commit" /\ j.cur = run[p].cur /\ j.todo = run[p].todo
      /\ j.kind = run[p].kind /\ j.seen = run[p].seen /\ j.screen = run[p].screen
      /\ j.todoScreens = run[p].todoScreens /\ j.alone = run[p].alone
      /\ j.template = run[p].template
  BY <1>1, <1>3, <1>5 DEF Runs, RunPcs
<1>7. run' = [run EXCEPT ![p] = j] /\ UNCHANGED <<plan, online, now, shown>>
  BY <1>1, <1>4 DEF OpenActivation
<1> HIDE DEF j
<1>8. ASSUME Leading(run[p], shown) PROVE Leading(j, shown')
  <2>1. \A y, s : Served(j, y, s) => Served(run[p], y, s)
    BY <1>1, <1>6 DEF Served
  <2> QED
    BY <1>1, <1>6, <1>7, <1>8, <2>1 DEF Leading
<1> QED
  BY <1>1, <1>6, <1>7, <1>8, LeaderMoves

LEMMA CommitActivationLeads ==
    ASSUME IInv, LeadInv, NEW p \in Runners, NEW x \in Screens, CommitActivation(p, x)
    PROVE  LeadInv'
<1> DEFINE j == [run[p] EXCEPT !.pc = Onward(p), !.screen = {}, !.item = NewItem,
                               !.result = "none", !.reached = FALSE]
<1>1. run[p] \in Runs /\ run \in [Runners -> Runs \cup {Idle}] /\ run[p].pc = "commit"
      /\ x \in run[p].screen
  BY BusyIsRun DEF CommitActivation, IInv, TypeOK
<1>2. run[p].screen = {x}
  BY <1>1 DEF IInv, RunsGood, RunGood
<1>3. Onward(p) \in RunPcs /\ NewItem \in Items /\ "none" \in Results
  BY DEF Onward, RunPcs, NewItem, Items, MaxRetries, Results
<1>4. /\ j \in Runs /\ j.pc = Onward(p) /\ j.cur = run[p].cur /\ j.todo = run[p].todo
      /\ j.kind = run[p].kind /\ j.seen = run[p].seen /\ j.screen = {}
      /\ j.todoScreens = run[p].todoScreens /\ j.alone = run[p].alone
      /\ j.template = run[p].template
  BY <1>1, <1>3 DEF Runs
<1>5. run' = [run EXCEPT ![p] = j] /\ UNCHANGED <<plan, online, now>>
      /\ shown' = [shown EXCEPT ![x] = run[p].template]
  BY <1>1 DEF CommitActivation
<1>6. shown'[x] = run[p].template /\ \A y \in Screens \ {x} : shown'[y] = shown[y]
  BY <1>5 DEF IInv, TypeOK
<1> HIDE DEF j
<1>7. ASSUME Leading(run[p], shown) PROVE Leading(j, shown')
  <2>1. Onward(p) = "screens"
    BY <1>7 DEF Leading, Onward
  <2>2. run[p].cur \in Winners(x) /\ run[p].template = TemplateOf[run[p].cur]
    BY <1>1, <1>7 DEF Leading
  <2>3. ASSUME NEW y \in Screens, NEW s \in Schedules, online[y], s \in Winners(y), Served(j, y, s)
        PROVE  Shows(shown', y)
    <3>1. CASE y = x
      BY <1>6, <2>2, <3>1 DEF Shows
    <3>2. CASE y # x
      <4>1. Served(run[p], y, s)
        BY <1>1, <1>2, <1>4, <2>3, <3>2 DEF Served
      <4>2. Shows(shown, y)
        BY <1>7, <2>3, <4>1 DEF Leading
      <4> QED
        BY <1>6, <3>2, <4>2 DEF Shows
    <3> QED
      BY <3>1, <3>2
  <2> QED
    BY <1>1, <1>4, <1>5, <1>7, <2>1, <2>3 DEF Leading
<1> QED
  BY <1>1, <1>4, <1>5, <1>7, LeaderMoves

LEMMA EndRunLeads ==
    ASSUME IInv, LeadInv, NEW p \in Runners, EndRun(p)
    PROVE  LeadInv'
<1>1. run \in [Runners -> Runs \cup {Idle}] /\ run[p] # Idle
      /\ run'[p] = Idle /\ \A q \in Runners \ {p} : run'[q] = run[q]
  BY DEF EndRun, IInv, TypeOK, Idle
<1>2. UNCHANGED <<plan, online, now, shown>>
  BY DEF EndRun, deliveryVars
<1> SUFFICES ASSUME NEW r \in Runners, run'[r].pc # "idle", run'[r].alone PROVE FALSE
  BY DEF LeadInv
<1>3. r # p
  BY <1>1 DEF Idle
<1> QED
  BY <1>1, <1>3 DEF LeadInv

LEMMA NoStepLeads ==
    ASSUME LeadInv, UNCHANGED <<plan, online, now, shown, run>>
    PROVE  LeadInv'
<1> SUFFICES ASSUME NEW r \in Runners, run'[r].pc # "idle", run'[r].alone
             PROVE  Leading(run[r], shown)' /\ \A q \in Runners \ {r} : run'[q] = Idle
  BY DEF LeadInv
<1>1. Leading(run'[r], shown')
  BY DEF LeadInv
<1> QED
  BY <1>1, LeadingStays DEF LeadInv

LEMMA NextLeads == IInv /\ LeadInv /\ [Next]_vars => LeadInv'
<1> SUFFICES ASSUME IInv, LeadInv, [Next]_vars PROVE LeadInv'
  OBVIOUS
<1>1. ASSUME NEW p \in Runners, RunnerStep(p) PROVE LeadInv'
  BY <1>1, StartPassLeads, NextScheduleLeads, EndRunLeads, ExecuteRequestLeads, ActivateRequestLeads,
     BeginExecuteLeads, CheckConflictsLeads, OpenActivationLeads, CommitActivationLeads,
     FinishScheduleLeads, ActivationFailsLeads
     DEF RunnerStep
<1>2. CASE SenderStep /\ UNCHANGED runnerVars
  <2>1. UNCHANGED online
    BY <1>2 DEF SenderStep, RetryDownload, SaveRetry, Report, SaveReport
  <2> QED
    BY <1>2, <2>1, NoStepLeads DEF runnerVars
<1>3. ASSUME run' = Disturbed PROVE LeadInv'
  BY <1>3, DisturbedNotAlone, NobodyLeads DEF IInv
<1>4. CASE UNCHANGED vars
  BY <1>4, NoStepLeads DEF vars, deliveryVars, runnerVars
<1> QED
  BY <1>1, <1>2, <1>3, <1>4 DEF Next, EditSchedule, ScreenToggles, Tick

LEMMA RunsLead == Spec => [](IInv /\ LeadInv)
<1>1. Init => LeadInv
  BY DEF Init, LeadInv, Idle
<1> QED
  BY <1>1, InitInvariant, NextInvariant, NextLeads, PTL DEF Spec

-----------------------------------------------------------------------------
(* Conflicts within sight are the overlaps                                   *)

\* What the check of conflicts looks ahead for is long enough for an occurrence
\* of window w and the next one, and the starts that it counts reach as far.
InSight(w) ==
    w.repeat # "none" => /\ Period(w) + (w.end - w.start) <= Horizon
                         /\ now + Horizon <= w.start + MostRuns * Period(w)
AllInSight == \A s \in Schedules : InSight(plan[s].window)

LEMMA PeriodType == \A w : Period(w) \in Nat \ {0}
<1>1. Day * WeekDays \in Nat \ {0}
  BY RecurrenceAssumption
<1> QED
  BY <1>1, RecurrenceAssumption DEF Period

LEMMA ShiftUp ==
    ASSUME NEW P \in Nat \ {0}, NEW a \in Int, NEW t \in Nat, a < t
    PROVE  \E m \in Nat : m > 0 /\ t <= a + m * P /\ a + m * P < t + P
<1> DEFINE M == {m \in Nat : t <= a + m * P}
<1> DEFINE R == OpToRel(<, Nat)
<1>1. M # {}
  <2>1. (t - a) * P >= t - a /\ t - a \in Nat
    OBVIOUS
  <2>2. t - a \in M
    BY <2>1
  <2> QED
    BY <2>2
<1>2. PICK m \in M : \A k \in M : ~(<<k, m>> \in R)
  BY <1>1, NatLessThanWellFounded, WFMin
<1>3. \A k \in Nat : k < m => k \notin M
  BY <1>2 DEF OpToRel
<1>4. m \in Nat /\ t <= a + m * P
  OBVIOUS
<1>5. m > 0
  BY <1>4
<1>6. m - 1 \notin M /\ m - 1 \in Nat
  BY <1>3, <1>4, <1>5
<1>7. (m - 1) * P = m * P - P /\ m * P \in Int
  BY <1>4
<1>8. a + (m - 1) * P < t
  BY <1>6
<1>9. a + m * P < t + P
  BY <1>7, <1>8
<1> QED
  BY <1>4, <1>5, <1>9

LEMMA FewerOf ==
    ASSUME NEW P \in Nat \ {0}, NEW a \in Nat, NEW b \in Nat, a * P < b * P
    PROVE  a < b
<1> SUFFICES ASSUME a >= b PROVE FALSE
  OBVIOUS
<1>1. a - b \in Nat /\ (a - b) * P >= 0
  OBVIOUS
<1>2. (a - b) * P = a * P - b * P
  OBVIOUS
<1> QED
  BY <1>1, <1>2

\* Two starts of alike windows: the first that is not past.
LEMMA NextMeeting ==
    ASSUME NEW v \in Windows, NEW w \in Windows, v.repeat = w.repeat, v.repeat # "none",
           now \in Nat, InSight(v), InSight(w), Clash(w, v)
    PROVE  CheckOverlap(v, w, now)
<1> DEFINE P == Period(v)
<1> DEFINE lv == v.end - v.start
<1> DEFINE lw == w.end - w.start
<1>1. P \in Nat \ {0} /\ Period(w) = P
  BY PeriodType DEF Period
<1>2. /\ v.start \in Nat /\ v.end \in Nat /\ w.start \in Nat /\ w.end \in Nat
      /\ Horizon \in Nat /\ MostRuns \in Nat
  BY RecurrenceAssumption DEF Windows
<1>3. PICK u \in 0 .. (now + Horizon), k \in 0 .. (MostRuns - 1), n \in 0 .. (MostRuns - 1) :
         /\ v.start + k * P <= u /\ u < v.end + k * P
         /\ w.start + n * P <= u /\ u < w.end + n * P
  BY <1>1 DEF Clash, Covers
<1>4. /\ P + lv <= Horizon /\ now + Horizon <= v.start + MostRuns * P
      /\ P + lw <= Horizon /\ now + Horizon <= w.start + MostRuns * P
  BY <1>1 DEF InSight
<1> HIDE DEF P
<1>5. k * P \in Int /\ n * P \in Int /\ MostRuns * P \in Int
  BY <1>1, <1>2
<1>6. ASSUME NEW m \in Nat, now <= v.start + (k + m) * P, now <= w.start + (n + m) * P,
             v.start + (k + m) * P <= now + Horizon, w.start + (n + m) * P <= now + Horizon,
             k + m < MostRuns, n + m < MostRuns
      PROVE  CheckOverlap(v, w, now)
  <2> DEFINE i == v.start + (k + m) * P
  <2> DEFINE j == w.start + (n + m) * P
  <2>1. (k + m) * P = k * P + m * P /\ (n + m) * P = n * P + m * P /\ m * P \in Int
    BY <1>1
  <2>2. i \in Int /\ j \in Int
    BY <1>2, <1>5, <2>1
  <2>3. i \in Occurrences(v, now, now + Horizon)
    <3>1. k + m \in 0 .. (MostRuns - 1)
      BY <1>2, <1>6
    <3>2. i \in now .. (now + Horizon)
      BY <1>2, <1>6, <2>2
    <3> QED
      BY <3>1, <3>2 DEF Occurrences, P
  <2>4. j \in Occurrences(w, now, now + Horizon)
    <3>1. n + m \in 0 .. (MostRuns - 1)
      BY <1>2, <1>6
    <3>2. j \in now .. (now + Horizon)
      BY <1>2, <1>6, <2>2
    <3> QED
      BY <1>1, <3>1, <3>2 DEF Occurrences
  <2>5. Meet(i, i + lv, j, j + lw)
    BY <1>2, <1>3, <1>5, <2>1 DEF Meet
  <2> HIDE DEF i, j
  <2> QED
    BY <2>3, <2>4, <2>5 DEF CheckOverlap
<1> DEFINE a == IF v.start + k * P <= w.start + n * P THEN v.start + k * P ELSE w.start + n * P
<1>7. CASE now <= a
  <2>1. k + 0 = k /\ n + 0 = n
    OBVIOUS
  <2> QED
    BY <1>2, <1>3, <1>5, <1>6, <1>7, <2>1
<1>8. CASE a < now
  <2>1. a \in Int
    BY <1>2, <1>5
  <2>2. PICK m \in Nat : now <= a + m * P /\ a + m * P < now + P
    BY <1>1, <1>8, <2>1, ShiftUp
  <2>3. (k + m) * P = k * P + m * P /\ (n + m) * P = n * P + m * P /\ m * P \in Int
    BY <1>1
  <2>4. /\ now <= v.start + (k + m) * P /\ now <= w.start + (n + m) * P
    BY <1>1, <1>2, <1>5, <2>2, <2>3
  <2>5. /\ v.start + (k + m) * P < now + Horizon /\ w.start + (n + m) * P < now + Horizon
    BY <1>1, <1>2, <1>3, <1>4, <1>5, <2>2, <2>3
  <2>6. /\ v.start + (k + m) * P <= now + Horizon /\ w.start + (n + m) * P <= now + Horizon
    BY <1>2, <1>5, <2>3, <2>5
  <2>7. k + m < MostRuns /\ n + m < MostRuns
    <3>1. (k + m) * P < MostRuns * P /\ (n + m) * P < MostRuns * P
      BY <1>2, <1>4, <1>5, <2>3, <2>5
    <3> QED
      BY <1>1, <1>2, <3>1, FewerOf
  <2> QED
    BY <1>6, <2>2, <2>4, <2>6, <2>7
<1> QED
  BY <1>2, <1>5, <1>7, <1>8

LEMMA ConflictIsClash ==
    ASSUME NEW v \in Windows, NEW w \in Windows, v.repeat = w.repeat, now \in Nat,
           v.start < v.end, w.start < w.end, Conflicting(v, w, now)
    PROVE  Clash(w, v)
<1>1. v.start \in Nat /\ v.end \in Nat /\ w.start \in Nat /\ w.end \in Nat /\ Horizon \in Nat
  BY RecurrenceAssumption DEF Windows
<1>2. Period(v) \in Nat /\ Period(w) = Period(v)
  BY PeriodType DEF Period
<1>3. CASE v.repeat = "none"
  <2> DEFINE u == IF v.start <= w.start THEN w.start ELSE v.start
  <2>1. v.start < w.end /\ w.start < v.end
    BY <1>3 DEF Conflicting, Meet
  <2>2. u \in 0 .. w.end
    BY <1>1, <2>1
  <2>3. 0 * Period(v) = 0
    BY <1>2
  <2>4. Covers(v, u) /\ Covers(w, u)
    BY <1>1, <1>2, <1>3, <2>1, <2>3 DEF Covers
  <2> QED
    BY <1>3, <2>2, <2>4 DEF Clash
<1>4. CASE v.repeat # "none"
  <2>1. PICK k \in 0 .. (MostRuns - 1), n \in 0 .. (MostRuns - 1) :
          LET i == v.start + k * Period(v)
              j == w.start + n * Period(v)
          IN  /\ i \in now .. (now + Horizon) /\ j \in now .. (now + Horizon)
              /\ i < j + (w.end - w.start) /\ j < i + (v.end - v.start)
    BY <1>2, <1>4 DEF Conflicting, CheckOverlap, Occurrences, Meet
  <2> DEFINE i == v.start + k * Period(v)
  <2> DEFINE j == w.start + n * Period(v)
  <2> DEFINE u == IF i <= j THEN j ELSE i
  <2>2. k * Period(v) \in Int /\ n * Period(v) \in Int
    BY <1>2
  <2>3. u \in 0 .. (now + Horizon)
    BY <1>1, <2>1, <2>2
  <2>4. /\ v.start + k * Period(v) <= u /\ u < v.end + k * Period(v)
        /\ w.start + n * Period(v) <= u /\ u < w.end + n * Period(v)
    BY <1>1, <2>1, <2>2
  <2> HIDE DEF u
  <2>5. Covers(v, u) /\ Covers(w, u)
    BY <1>2, <1>4, <2>4 DEF Covers
  <2> QED
    BY <1>4, <2>3, <2>5 DEF Clash
<1> QED
  BY <1>3, <1>4

LEMMA ClashIsConflict ==
    ASSUME NEW v \in Windows, NEW w \in Windows, v.repeat = w.repeat, now \in Nat,
           InSight(v), InSight(w), Clash(w, v)
    PROVE  Conflicting(v, w, now)
<1>1. CASE v.repeat = "none"
  <2>1. v.start \in Nat /\ v.end \in Nat /\ w.start \in Nat /\ w.end \in Nat
    BY DEF Windows
  <2>2. 0 * Period(v) = 0 /\ 0 * Period(w) = 0
    BY PeriodType
  <2>3. PICK u \in 0 .. w.end : /\ v.start <= u /\ u < v.end
                               /\ w.start <= u /\ u < w.end
    BY <1>1, <2>1, <2>2 DEF Clash, Covers
  <2> QED
    BY <1>1, <2>1, <2>3 DEF Conflicting, Meet
<1>2. CASE v.repeat # "none"
  BY <1>2, NextMeeting DEF Conflicting
<1> QED
  BY <1>1, <1>2

\* Among schedules that repeat alike and are in sight, those that win are the
\* due ones that no schedule of higher priority ever overlaps.
LEMMA WinnersAreUnrivalled ==
    ASSUME TypeOK, AllInSight, NEW x \in Screens, Alike(On(x))
    PROVE  Winners(x) = Unrivalled(x)
<1>1. ASSUME NEW s \in Schedules
      PROVE  /\ plan[s].window \in Windows /\ InSight(plan[s].window) /\ Priority(plan[s]) \in Nat
             /\ plan[s].window.start < plan[s].window.end
  BY RunnerAssumption DEF TypeOK, Rows, Windows, AllInSight, Priority
<1>2. now \in Nat
  BY DEF TypeOK
<1>3. ASSUME NEW s \in On(x), NEW h \in On(x)
      PROVE  Conflicting(plan[s].window, plan[h].window, now)
               <=> Clash(plan[h].window, plan[s].window)
  <2>1. s \in Schedules /\ h \in Schedules /\ plan[s].window.repeat = plan[h].window.repeat
    BY DEF On, Alike
  <2> QED
    BY <1>1, <1>2, <2>1, ConflictIsClash, ClashIsConflict
<1>4. ASSUME NEW s \in On(x), NEW h \in On(x)
      PROVE  Priority(plan[h]) > Priority(plan[s]) <=> ~(Priority(plan[h]) <= Priority(plan[s]))
  BY <1>1 DEF On
<1>5. \A s \in On(x) : Priority(plan[s]) <= Priority(plan[s])
  BY <1>1 DEF On
<1>6. DueOn(x) \subseteq On(x)
  BY DEF DueOn
<1> QED
  BY <1>3, <1>4, <1>5, <1>6 DEF Winners, Unrivalled

\* Only the end of a run, with no schedule left, makes its runner idle.
LEMMA EndHasNothingLeft ==
    ASSUME IInv, [Next]_vars, NEW p \in Runners, UndisturbedEnd(p)
    PROVE  run[p].todo = {}
<1>1. run[p] \in Runs /\ run \in [Runners -> Runs \cup {Idle}]
      /\ run[p].pc = "pass" /\ run'[p].pc = "idle"
  BY BusyIsRun DEF UndisturbedEnd, IInv, TypeOK
<1>2. run[p] # Idle /\ Disturbed[p].pc = "pass"
  BY <1>1, RunFields DEF Disturbed, Runs
<1>3. ~(run' = run \/ run' = Disturbed)
  BY <1>1, <1>2
<1>4. PICK q \in Runners : RunnerStep(q)
  BY <1>3 DEF Next, EditSchedule, ScreenToggles, Tick, runnerVars, vars
<1>5. q = p
  <2> SUFFICES ASSUME q # p PROVE FALSE
    OBVIOUS
  <2>1. run'[p] = run[p] \/ run'[p] = Disturbed[p]
    <3>1. StartPass(q) \/ NextSchedule(q) \/ EndRun(q) => run'[p] = run[p] \/ run'[p] = Disturbed[p]
      BY <1>1 DEF StartPass, NextSchedule, EndRun, Disturbed
    <3>2. ASSUME NEW s \in Schedules, ExecuteRequest(q, s) PROVE run'[p] = Disturbed[p]
      BY <3>2 DEF ExecuteRequest, Disturbed
    <3>3. ASSUME NEW c \in Templates, NEW x \in Screens, ActivateRequest(q, c, x)
          PROVE  run'[p] = Disturbed[p]
      BY <3>3 DEF ActivateRequest, Disturbed
    <3>4. BeginExecute(q) \/ FinishSchedule(q) \/ ActivationFails(q) => run'[p] = run[p]
      BY <1>1 DEF BeginExecute, FinishSchedule, ActivationFails
    <3>5. ASSUME NEW x \in Screens,
                 CheckConflicts(q, x) \/ OpenActivation(q, x) \/ CommitActivation(q, x)
          PROVE  run'[p] = run[p]
      BY <1>1, <3>5 DEF CheckConflicts, OpenActivation, CommitActivation
    <3> QED
      BY <1>4, <3>1, <3>2, <3>3, <3>4, <3>5 DEF RunnerStep
  <2> QED
    BY <1>1, <1>2, <2>1
<1>6. EndRun(p) \/ NextSchedule(p)
  BY <1>1, <1>4, <1>5 DEF RunnerStep, StartPass, ExecuteRequest, ActivateRequest, BeginExecute,
       CheckConflicts, OpenActivation, CommitActivation, FinishSchedule, ActivationFails
<1>7. ~NextSchedule(p)
  <2> SUFFICES ASSUME NextSchedule(p) PROVE FALSE
    OBVIOUS
  <2>1. PICK s \in run[p].todo :
         run' = [run EXCEPT ![p].todo = @ \ {s},
                      ![p].pc = IF Due(run[p].seen[s]) THEN "begin" ELSE "pass",
                      ![p].cur = IF Due(run[p].seen[s]) THEN s ELSE NoSchedule]
    BY DEF NextSchedule
  <2>2. run'[p].pc = IF Due(run[p].seen[s]) THEN "begin" ELSE "pass"
    BY <1>1, <2>1 DEF Runs
  <2> QED
    BY <1>1, <2>2
<1> QED
  BY <1>6, <1>7 DEF EndRun

LEMMA EndShowsWinner ==
    ASSUME IInv, LeadInv, AllInSight, [Next]_vars, NEW p \in Runners, UndisturbedEnd(p),
           NEW x \in Screens, online[x], Alike(On(x)), Unrivalled(x) # {}
    PROVE  shown[x] \in {TemplateOf[s] : s \in Unrivalled(x)}
<1>1. run[p] \in Runs /\ run \in [Runners -> Runs \cup {Idle}]
      /\ run[p].pc = "pass" /\ run[p].alone /\ run'[p].pc = "idle"
  BY BusyIsRun DEF UndisturbedEnd, IInv, TypeOK
<1>2. run[p].todo = {}
  BY EndHasNothingLeft
<1>3. Leading(run[p], shown)
  BY <1>1 DEF LeadInv
<1>4. Winners(x) = Unrivalled(x)
  BY WinnersAreUnrivalled DEF IInv
<1>5. PICK s \in Schedules : s \in Winners(x)
  BY <1>4 DEF Unrivalled, DueOn, On
<1>6. Served(run[p], x, s)
  BY <1>1, <1>2, <1>3, RunnerAssumption DEF Leading, Served
<1>7. Shows(shown, x)
  BY <1>3, <1>5, <1>6 DEF Leading
<1> QED
  BY <1>4, <1>7 DEF Shows

(* A run of execute_schedules that nothing disturbs and in which every
   activation works leaves each online screen whose schedules repeat alike with
   a due schedule that none of higher priority overlaps, whatever the windows
   are, as long as no recurring one outlasts what is looked ahead for.
   (execute_schedules, execute_on_screens, is_conflicting)                   *)
THEOREM WinnersAreShown == Spec /\ []AllInSight => WinnerIsShown
<1>1. IInv /\ LeadInv /\ AllInSight /\ [Next]_vars =>
        [\A p \in Runners : UndisturbedEnd(p) =>
           \A x \in Screens : online[x] /\ Alike(On(x)) /\ Unrivalled(x) # {} =>
               shown[x] \in {TemplateOf[s] : s \in Unrivalled(x)}]_vars
  BY EndShowsWinner
<1> QED
  BY <1>1, RunsLead, PTL DEF Spec, WinnerIsShown

-----------------------------------------------------------------------------
(* THE LAYOUTS                                                                *)
-----------------------------------------------------------------------------
Entries == [drawn : BOOLEAN, id : Nat, look : Nat]
Lists == [Elements -> Entries]
WidgetRows == [element : Elements, look : Nat]
PageRecords == [pc : {"closed", "editing", "saving", "loading"}, new : BOOLEAN, list : Lists]
PutRecords == [pc : {"idle", "save", "refresh", "sync", "answer"}, of : SUBSET Pages,
               create : BOOLEAN, list : Lists, todo : SUBSET Elements]

\* What is still to be synced is in the list.
LayoutTypeOK ==
    /\ template \in [config : Lists, stamp : Nat]
    /\ widget \in Seq(WidgetRows)
    /\ page \in [Pages -> PageRecords]
    /\ put \in [Puts -> PutRecords]
    /\ spent \in [edits : Nat, saves : Nat]
    /\ \A h \in Puts : put[h].todo \subseteq Drawn(put[h].list)

\* An id of a list is new, or that of a row of the same element.
RightId(list, e) ==
    list[e].id = 0 \/ (list[e].id \in DOMAIN widget /\ widget[list[e].id].element = e)
RightIds(list) == \A e \in Drawn(list) : RightId(list, e)
IdsAgree ==
    /\ RightIds(template.config)
    /\ \A p \in Pages : RightIds(page[p].list)
    /\ \A h \in Puts : RightIds(put[h].list)

\* While nothing overlaps or is cut short.
Orderly == troubled \subseteq {"created", "lost"}
HasRow(list, e) ==
    list[e].id \in DOMAIN widget /\ widget[list[e].id] = [element |-> e, look |-> list[e].look]
OneAtATime == \A g, h \in Puts : put[g].pc # "idle" /\ put[h].pc # "idle" => g = h
ConfigSaved == ~HalfSaved => \A e \in Drawn(template.config) : HasRow(template.config, e)
PutSaved ==
    \A h \in Puts :
        /\ put[h].pc = "refresh" => put[h].list = template.config
        /\ put[h].pc = "sync" => \A e \in Drawn(put[h].list) \ put[h].todo : HasRow(put[h].list, e)
SavedInv == Orderly => OneAtATime /\ ConfigSaved /\ PutSaved

\* An element that is new in a list that may be saved has no row, and is in one such list.
New(list, e) == list[e].drawn /\ list[e].id = 0
Rowless(e) == \A i \in DOMAIN widget : widget[i].element # e
OneRow == \A i, j \in DOMAIN widget : widget[i].element = widget[j].element => i = j
NewInPages ==
    \A p \in Pages, e \in Elements : page[p].pc = "editing" /\ New(page[p].list, e) =>
        /\ Rowless(e)
        /\ \A q \in Pages \ {p} : page[q].pc = "editing" => ~New(page[q].list, e)
        /\ \A h \in Puts : put[h].pc # "idle" => ~New(put[h].list, e)
NewInPuts ==
    \A h \in Puts, e \in Elements : put[h].pc # "idle" /\ New(put[h].list, e) => Rowless(e)
NewInv == troubled = {} => OneRow /\ NewInPages /\ NewInPuts

LayoutInv == LayoutTypeOK /\ IdsAgree /\ SavedInv /\ NewInv

-----------------------------------------------------------------------------
(* Type correctness.                                                       *)

LEMMA FirstIn ==
    ASSUME NEW S, S \subseteq Nat, S # {}
    PROVE  First(S) \in S
<1> DEFINE R == OpToRel(<, Nat)
<1>1. IsWellFoundedOn(R, Nat)
    BY NatLessThanWellFounded
<1>2. \A x, y \in Nat : <<x, y>> \in R <=> x < y
    BY DEF OpToRel
<1> HIDE DEF R
<1>3. PICK x \in S : \A y \in S : ~ (<<y, x>> \in R)
    BY <1>1, WFMin
<1>4. ASSUME NEW y \in S
      PROVE  x <= y
  <2>1. x \in Nat /\ y \in Nat
    OBVIOUS
  <2>2. ~ (y < x)
    BY <1>2, <1>3, <2>1
  <2> QED BY <2>1, <2>2
<1> QED BY <1>4 DEF First

LEMMA BlankIsList ==
    /\ Blank \in Lists /\ Nothing \in Entries /\ Drawn(Blank) = {}
    /\ \A e \in Elements : Blank[e] = Nothing
    BY DEF Blank, Nothing, Lists, Entries, Drawn

LEMMA RestingTypes == Closed \in PageRecords /\ NoPut \in PutRecords
    BY BlankIsList DEF Closed, NoPut, PageRecords, PutRecords

LEMMA EntryUpdate ==
    ASSUME NEW list \in Lists, NEW e \in Elements
    PROVE  /\ list[e] \in Entries
           /\ \A entry \in Entries : [list EXCEPT ![e] = entry] \in Lists
           /\ \A n \in Nat : [list[e] EXCEPT !.look = n] \in Entries
           /\ \A n \in Nat : [list EXCEPT ![e].id = n] \in Lists
           /\ list[e].id \in Nat /\ list[e].look \in Nat
    BY DEF Lists, Entries

LEMMA PageUpdate ==
    ASSUME NEW r \in PageRecords
    PROVE  /\ \A x \in {"closed", "editing", "saving", "loading"} :
                  [r EXCEPT !.pc = x] \in PageRecords
           /\ \A x \in Lists : [r EXCEPT !.list = x] \in PageRecords
           /\ [r EXCEPT !.pc = "editing", !.new = FALSE] \in PageRecords
           /\ r.list \in Lists
    BY DEF PageRecords

LEMMA PutUpdate ==
    ASSUME NEW r \in PutRecords
    PROVE  /\ \A x \in {"idle", "save", "refresh", "sync", "answer"} :
                  [r EXCEPT !.pc = x] \in PutRecords
           /\ \A x \in SUBSET Pages : [r EXCEPT !.of = x] \in PutRecords
           /\ r.list \in Lists /\ r.todo \subseteq Elements /\ r.of \subseteq Pages
    BY DEF PutRecords

LEMMA LayoutTypeInit == LayoutInit => LayoutTypeOK
<1> SUFFICES ASSUME LayoutInit PROVE LayoutTypeOK
    OBVIOUS
<1>1. /\ page \in [Pages -> PageRecords] /\ put \in [Puts -> PutRecords]
      /\ spent \in [edits : Nat, saves : Nat]
      /\ \A h \in Puts : put[h].todo = {}
    BY RestingTypes DEF LayoutInit, NoPut
<1>2. CASE template = [config |-> Blank, stamp |-> 0] /\ widget = <<>>
    BY <1>1, <1>2, BlankIsList DEF LayoutTypeOK
<1>3. ASSUME NEW e \in Elements,
             template = [config |-> [Blank EXCEPT ![e] = [drawn |-> TRUE, id |-> 1, look |-> 0]],
                         stamp |-> 1],
             widget = <<[element |-> e, look |-> 0]>>
      PROVE  LayoutTypeOK
  <2> DEFINE x == [drawn |-> TRUE, id |-> 1, look |-> 0]
             r == [element |-> e, look |-> 0]
  <2>1. x \in Entries /\ r \in WidgetRows
    BY DEF Entries, WidgetRows
  <2> HIDE DEF x, r
  <2>2. template.config \in Lists /\ template \in [config : Lists, stamp : Nat]
    BY <1>3, <2>1, BlankIsList, EntryUpdate DEF x
  <2>3. widget \in Seq(WidgetRows)
    BY <1>3, <2>1 DEF r
  <2> QED BY <1>1, <2>2, <2>3 DEF LayoutTypeOK
<1> QED BY <1>2, <1>3 DEF LayoutInit

\* Only the page changes.
LEMMA PageTypes ==
    ASSUME LayoutTypeOK, UNCHANGED <<template, widget, put>>,
           page' \in [Pages -> PageRecords], spent' \in [edits : Nat, saves : Nat]
    PROVE  LayoutTypeOK'
    BY DEF LayoutTypeOK

LEMMA PageStepTypes ==
    ASSUME LayoutTypeOK, NEW p \in Pages, PageStep(p)
    PROVE  LayoutTypeOK'
<1>1. ASSUME Load(p)
      PROVE  LayoutTypeOK'
  <2> DEFINE x == [pc |-> "editing", new |-> FALSE, list |-> template.config]
  <2>1. x \in PageRecords
    BY DEF LayoutTypeOK, PageRecords
  <2>2. page' = [page EXCEPT ![p] = x] /\ UNCHANGED <<template, widget, put, spent>>
    BY <1>1 DEF Load
  <2> HIDE DEF x
  <2> QED BY <2>1, <2>2, PageTypes DEF LayoutTypeOK
<1>2. CASE OpenNew(p)
  <2> DEFINE x == [pc |-> "editing", new |-> TRUE, list |-> Blank]
  <2>1. x \in PageRecords
    BY BlankIsList DEF PageRecords
  <2>2. page' = [page EXCEPT ![p] = x] /\ UNCHANGED <<template, widget, put, spent>>
    BY <1>2 DEF OpenNew
  <2> HIDE DEF x
  <2> QED BY <2>1, <2>2, PageTypes DEF LayoutTypeOK
<1>3. ASSUME NEW e \in Elements, NEW entry \in Entries, Edit(p, e, entry)
      PROVE  LayoutTypeOK'
  <2> DEFINE l == [page[p].list EXCEPT ![e] = entry]
  <2>1. page[p] \in PageRecords /\ l \in Lists
    BY PageUpdate, EntryUpdate DEF LayoutTypeOK
  <2>2. page' = [page EXCEPT ![p] = [page[p] EXCEPT !.list = l]]
    BY <1>3 DEF Edit, LayoutTypeOK
  <2>3. [page[p] EXCEPT !.list = l] \in PageRecords
    <3> HIDE DEF l
    <3> QED BY <2>1, PageUpdate
  <2>4. spent' \in [edits : Nat, saves : Nat] /\ UNCHANGED <<template, widget, put>>
    BY <1>3 DEF Edit, LayoutTypeOK
  <2> HIDE DEF l
  <2> QED BY <2>2, <2>3, <2>4, PageTypes DEF LayoutTypeOK
<1>4. NewLook \in Nat /\ \A e \in Elements : page[p].list[e] \in Entries
  <2>1. page[p].list \in Lists /\ spent.edits \in Nat
    BY PageUpdate DEF LayoutTypeOK
  <2>2. \A e \in Elements : page[p].list[e] \in Entries
    BY <2>1, EntryUpdate
  <2> QED BY <2>1, <2>2 DEF NewLook
<1>5. ASSUME NEW e \in Elements, AddWidget(p, e) \/ ChangeWidget(p, e) \/ DeleteWidget(p, e)
      PROVE  LayoutTypeOK'
  <2> DEFINE x == [drawn |-> TRUE, id |-> 0, look |-> NewLook]
             y == [page[p].list[e] EXCEPT !.look = NewLook]
  <2>1. x \in Entries /\ y \in Entries /\ Nothing \in Entries
    BY <1>4, BlankIsList DEF Entries
  <2>2. Edit(p, e, x) \/ Edit(p, e, y) \/ Edit(p, e, Nothing)
    BY <1>5 DEF AddWidget, ChangeWidget, DeleteWidget
  <2> HIDE DEF x, y
  <2> QED BY <1>3, <2>1, <2>2
<1>6. ASSUME NEW h \in Puts, SaveTemplate(p, h)
      PROVE  LayoutTypeOK'
  <2> DEFINE x == [pc |-> "save", of |-> {p}, create |-> page[p].new,
                   list |-> page[p].list, todo |-> {}]
  <2>1. x \in PutRecords /\ x.todo = {} /\ [page[p] EXCEPT !.pc = "saving"] \in PageRecords
    <3>1. /\ page[p].list \in Lists /\ page[p].new \in BOOLEAN
          /\ [page[p] EXCEPT !.pc = "saving"] \in PageRecords
      BY DEF LayoutTypeOK, PageRecords
    <3> QED BY <3>1 DEF PutRecords
  <2>2. /\ page' = [page EXCEPT ![p] = [page[p] EXCEPT !.pc = "saving"]]
        /\ put' = [put EXCEPT ![h] = x]
        /\ UNCHANGED <<template, widget>>
        /\ spent' \in [edits : Nat, saves : Nat]
    BY <1>6 DEF SaveTemplate, LayoutTypeOK
  <2> HIDE DEF x
  <2> QED BY <2>1, <2>2 DEF LayoutTypeOK
<1>7. CASE LoseAnswer(p)
  <2>1. page' \in [Pages -> PageRecords]
    BY <1>7, PageUpdate, RestingTypes DEF LoseAnswer, GivenUp, LayoutTypeOK
  <2>2. \A h \in Puts : [put[h] EXCEPT !.of = @ \ {p}] \in PutRecords
                        /\ [put[h] EXCEPT !.of = @ \ {p}].todo = put[h].todo
                        /\ [put[h] EXCEPT !.of = @ \ {p}].list = put[h].list
    BY DEF LayoutTypeOK, PutRecords
  <2>3. put' \in [Puts -> PutRecords] /\ \A h \in Puts : put'[h].todo = put[h].todo
                                                        /\ put'[h].list = put[h].list
    BY <1>7, <2>2 DEF LoseAnswer
  <2> QED BY <1>7, <2>1, <2>3 DEF LoseAnswer, LayoutTypeOK
<1> QED BY <1>1, <1>2, <1>5, <1>6, <1>7 DEF PageStep, OpenEditor, LoadTemplateData

LEMMA SyncingTypes ==
    ASSUME LayoutTypeOK, NEW h \in Puts, NEW list \in Lists, Syncing(h, list),
           template' \in [config : Lists, stamp : Nat], UNCHANGED <<widget, page, spent>>
    PROVE  LayoutTypeOK'
<1> DEFINE x == [put[h] EXCEPT !.pc = IF Drawn(list) = {} THEN "answer" ELSE "sync",
                               !.list = list, !.todo = Drawn(list)]
<1>1. x \in PutRecords /\ x.todo = Drawn(x.list)
    BY DEF LayoutTypeOK, PutRecords, Drawn
<1>2. put' = [put EXCEPT ![h] = x]
    BY DEF Syncing, LayoutTypeOK
<1> HIDE DEF x
<1> QED BY <1>1, <1>2 DEF LayoutTypeOK

\* The widget that is synced next, and its row.
LEMMA NextWidget ==
    ASSUME LayoutTypeOK, NEW h \in Puts, put[h].todo # {}
    PROVE  First(put[h].todo) \in put[h].todo /\ First(put[h].todo) \in Elements
<1>1. put[h].todo \subseteq Elements /\ Elements \subseteq Nat
    BY PutUpdate, LayoutsAssumption DEF LayoutTypeOK
<1> QED BY <1>1, FirstIn

LEMMA PutStepTypes ==
    ASSUME LayoutTypeOK, NEW h \in Puts, PutStep(h) \/ Die(h)
    PROVE  LayoutTypeOK'
<1>0. put[h] \in PutRecords /\ put[h].list \in Lists
    BY PutUpdate DEF LayoutTypeOK
<1>1. CASE SaveRow(h)
  <2>1. template' \in [config : Lists, stamp : Nat]
    BY <1>0, <1>1 DEF SaveRow, LayoutTypeOK
  <2>2. CASE put[h].create
    BY <1>0, <1>1, <2>1, <2>2, SyncingTypes DEF SaveRow
  <2>3. CASE ~put[h].create
    <3> DEFINE x == [put[h] EXCEPT !.pc = "refresh"]
    <3>1. x \in PutRecords /\ x.todo = put[h].todo /\ x.list = put[h].list
      BY <1>0 DEF PutRecords
    <3>2. put' = [put EXCEPT ![h] = x] /\ UNCHANGED <<widget, page, spent>>
      BY <1>1, <2>3 DEF SaveRow, LayoutTypeOK
    <3> HIDE DEF x
    <3> QED BY <2>1, <3>1, <3>2 DEF LayoutTypeOK
  <2> QED BY <2>2, <2>3
<1>2. CASE RefreshFromDb(h)
    BY <1>2, SyncingTypes DEF RefreshFromDb, LayoutTypeOK
<1>3. CASE SyncWidget(h)
  <2> DEFINE e == First(put[h].todo)
             list == put[h].list
             id == IF list[e].id = 0 THEN Len(widget) + 1 ELSE list[e].id
             row == [element |-> e, look |-> list[e].look]
             x == [put[h] EXCEPT !.todo = @ \ {e}, !.list[e].id = id]
  <2>1. e \in put[h].todo /\ e \in Elements
    BY <1>3, NextWidget DEF SyncWidget
  <2>2. id \in Nat /\ row \in WidgetRows
    BY <1>0, <2>1, EntryUpdate DEF LayoutTypeOK, WidgetRows
  <2>3. widget' \in Seq(WidgetRows)
    <3>1. widget' = IF id > Len(widget) THEN Append(widget, row) ELSE [widget EXCEPT ![id] = row]
      BY <1>3 DEF SyncWidget
    <3>2. id \in 1 .. Len(widget) \/ id > Len(widget)
      BY <1>0, <2>1, EntryUpdate DEF LayoutTypeOK
    <3>3. widget \in Seq(WidgetRows)
      BY DEF LayoutTypeOK
    <3> HIDE DEF row, id
    <3> QED BY <2>2, <3>1, <3>2, <3>3, AppendProperties, ExceptSeq
  <2>4. /\ x = [put[h] EXCEPT !.todo = put[h].todo \ {e}, !.list = [list EXCEPT ![e].id = id]]
        /\ [list EXCEPT ![e].id = id] \in Lists
        /\ Drawn([list EXCEPT ![e].id = id]) = Drawn(list)
    <3>1. list \in Lists /\ list[e] \in Entries
      BY <1>0, <2>1 DEF Lists
    <3>2. id \in Nat
      BY <2>2
    <3> HIDE DEF e, id
    <3>3. x = [put[h] EXCEPT !.todo = put[h].todo \ {e}, !.list = [list EXCEPT ![e].id = id]]
      BY <1>0 DEF PutRecords
    <3> HIDE DEF list
    <3>4. [list EXCEPT ![e].id = id] \in Lists
      BY <2>1, <3>1, <3>2, EntryUpdate
    <3>5. \A f \in Elements : [list EXCEPT ![e].id = id][f].drawn = list[f].drawn
      BY <2>1, <3>1 DEF Lists, Entries
    <3> QED BY <3>3, <3>4, <3>5 DEF Drawn
  <2>5. x \in PutRecords /\ x.todo \subseteq Drawn(x.list)
    <3> DEFINE l == [list EXCEPT ![e].id = id]
    <3>1. l \in Lists /\ Drawn(l) = Drawn(list) /\ put[h].todo \subseteq Drawn(list)
      BY <2>4 DEF LayoutTypeOK
    <3> HIDE DEF l
    <3>2. [put[h] EXCEPT !.todo = put[h].todo \ {e}, !.list = l] \in PutRecords
      BY <1>0, <3>1 DEF PutRecords
    <3>3. [put[h] EXCEPT !.todo = put[h].todo \ {e}, !.list = l].todo \subseteq Drawn(l)
          /\ [put[h] EXCEPT !.todo = put[h].todo \ {e}, !.list = l].list = l
      BY <1>0, <3>1 DEF PutRecords
    <3> QED BY <2>4, <3>2, <3>3 DEF l
  <2>6. put' = [put EXCEPT ![h] = x]
    BY <1>3 DEF SyncWidget, LayoutTypeOK
  <2>7. UNCHANGED <<template, page, spent, troubled>>
    BY <1>3 DEF SyncWidget
  <2> HIDE DEF x
  <2> QED BY <2>3, <2>5, <2>6, <2>7 DEF LayoutTypeOK
<1>4. CASE EndSync(h)
  <2>1. template' \in [config : Lists, stamp : Nat]
    BY <1>0, <1>4 DEF EndSync, LayoutTypeOK
  <2> QED BY <1>0, <1>4, <2>1 DEF EndSync, LayoutTypeOK, PutRecords
<1>5. CASE Answer(h)
  <2>1. page' \in [Pages -> PageRecords]
    BY <1>5, PageUpdate DEF Answer, LayoutTypeOK
  <2> QED BY <1>5, <2>1, RestingTypes DEF Answer, LayoutTypeOK, NoPut
<1>6. CASE Die(h)
  <2>1. \A p \in Pages : GivenUp(p)[p] \in PageRecords
    BY PageUpdate, RestingTypes DEF GivenUp, LayoutTypeOK
  <2>2. page' \in [Pages -> PageRecords]
    BY <1>6, <2>1 DEF Die, LayoutTypeOK
  <2> QED BY <1>6, <2>2, RestingTypes DEF Die, LayoutTypeOK, NoPut
<1> QED BY <1>1, <1>2, <1>3, <1>4, <1>5, <1>6 DEF PutStep

LEMMA LayoutTypeStep ==
    ASSUME LayoutTypeOK, [LayoutNext]_layoutVars
    PROVE  LayoutTypeOK'
<1>1. CASE PlayerStep \/ UNCHANGED layoutVars
    BY <1>1 DEF PlayerStep, FetchTemplate, FetchLayers, layoutVars, LayoutTypeOK
<1> QED BY <1>1, PageStepTypes, PutStepTypes DEF LayoutNext, EditorNext

(* The template, the widget rows and the lists of the editors keep their shape,
   and a save still has to sync only what is in its list.
   (TemplateViewSet.perform_update, _sync_widgets_from_config)               *)
THEOREM LayoutTypeCorrect == LayoutSpec => []LayoutTypeOK
    BY LayoutTypeInit, LayoutTypeStep, PTL DEF LayoutSpec

-----------------------------------------------------------------------------
(* A sync of widget e under id writes that row and no other, and keeps the *)
(* element of each row.                                                    *)
Synced(h, e, id) ==
    /\ e \in put[h].todo /\ e \in Drawn(put[h].list) /\ put[h].pc = "sync"
    /\ put[h].list[e].id = (IF id \in DOMAIN widget THEN id ELSE 0)
    /\ DOMAIN widget' = DOMAIN widget \cup {id} /\ id # 0
    /\ widget'[id] = [element |-> e, look |-> put[h].list[e].look]
    /\ \A i \in DOMAIN widget \ {id} : widget'[i] = widget[i]
    /\ id \in DOMAIN widget => widget[id].element = e
    /\ put'[h].pc = "sync" /\ put'[h].todo = put[h].todo \ {e}
    /\ Drawn(put'[h].list) = Drawn(put[h].list)
    /\ put'[h].list[e].id = id /\ put'[h].list[e].look = put[h].list[e].look
    /\ \A f \in Elements \ {e} : put'[h].list[f] = put[h].list[f]
    /\ \A g \in Puts \ {h} : put'[g] = put[g]
    /\ UNCHANGED <<template, page, player, spent, troubled>>

LEMMA SyncEffects ==
    ASSUME LayoutTypeOK, IdsAgree, NEW h \in Puts, SyncWidget(h)
    PROVE  \E e \in Elements, id \in Nat : Synced(h, e, id)
<1> DEFINE e == First(put[h].todo)
           list == put[h].list
           id == IF list[e].id = 0 THEN Len(widget) + 1 ELSE list[e].id
           row == [element |-> e, look |-> list[e].look]
<1>1. e \in put[h].todo /\ e \in Elements /\ e \in Drawn(list) /\ put[h].pc = "sync"
  <2>1. put[h].pc = "sync" /\ put[h].todo # {}
    BY DEF SyncWidget, PutAt
  <2>2. e \in put[h].todo /\ e \in Elements
    BY <2>1, NextWidget
  <2>3. put[h].todo \subseteq Drawn(list)
    BY DEF LayoutTypeOK
  <2> QED BY <2>1, <2>2, <2>3
<1>2. put[h] \in PutRecords /\ list \in Lists /\ list[e].id \in Nat /\ list[e].look \in Nat
  <2>1. put[h] \in PutRecords /\ list \in Lists
    BY PutUpdate DEF LayoutTypeOK
  <2> QED BY <1>1, <2>1, EntryUpdate
<1>3. widget \in Seq(WidgetRows) /\ Len(widget) \in Nat /\ DOMAIN widget = 1 .. Len(widget)
    BY DEF LayoutTypeOK
<1>4. list[e].id = 0 \/ (list[e].id \in DOMAIN widget /\ widget[list[e].id].element = e)
    BY <1>1 DEF IdsAgree, RightIds, RightId
<1>5. row \in WidgetRows
    BY <1>1, <1>2 DEF WidgetRows
<1>6. /\ widget' = IF id > Len(widget) THEN Append(widget, row) ELSE [widget EXCEPT ![id] = row]
      /\ put' = [put EXCEPT ![h].todo = @ \ {e}, ![h].list[e].id = id]
      /\ UNCHANGED <<template, page, player, spent, troubled>>
    BY DEF SyncWidget
<1>7. /\ DOMAIN widget' = DOMAIN widget \cup {id} /\ id # 0 /\ id \in Nat
      /\ widget'[id] = row
      /\ \A i \in DOMAIN widget \ {id} : widget'[i] = widget[i]
      /\ list[e].id = IF id \in DOMAIN widget THEN id ELSE 0
      /\ id \in DOMAIN widget => widget[id].element = e
  <2>1. CASE list[e].id = 0
    <3>1. id = Len(widget) + 1 /\ id > Len(widget)
      BY <1>3, <2>1
    <3>2. widget' = Append(widget, row)
      BY <1>6, <3>1
    <3> HIDE DEF row, id
    <3> QED BY <1>3, <1>5, <2>1, <3>1, <3>2, AppendProperties
  <2>2. CASE list[e].id # 0
    <3>1. id = list[e].id /\ id \in 1 .. Len(widget) /\ ~(id > Len(widget))
      <4>1. id = list[e].id
        BY <2>2
      <4>2. list[e].id \in 1 .. Len(widget)
        <5> HIDE DEF list, e
        <5> QED BY <1>3, <1>4, <2>2
      <4> HIDE DEF list, e, id
      <4> QED BY <1>3, <4>1, <4>2
    <3>2. widget' = [widget EXCEPT ![id] = row]
      BY <1>6, <3>1
    <3>3. id # 0 /\ id \in Nat /\ id \in DOMAIN widget
      <4> HIDE DEF list, e
      <4> QED BY <1>3, <3>1
    <3>4. list[e].id = (IF id \in DOMAIN widget THEN id ELSE 0) /\ widget[id].element = e
      <4> HIDE DEF list, e
      <4> QED BY <1>4, <2>2, <3>1, <3>3
    <3> HIDE DEF row, id, e, list
    <3>5. DOMAIN widget' = DOMAIN widget /\ widget'[id] = row
          /\ \A i \in DOMAIN widget \ {id} : widget'[i] = widget[i]
      BY <1>3, <3>1, <3>2
    <3>6. DOMAIN widget' = DOMAIN widget \cup {id}
      BY <3>3, <3>5
    <3> QED BY <3>3, <3>4, <3>5, <3>6
  <2> QED BY <2>1, <2>2
<1>8. /\ put'[h].pc = put[h].pc /\ put'[h].todo = put[h].todo \ {e}
      /\ put'[h].list = [list EXCEPT ![e].id = id]
      /\ \A g \in Puts \ {h} : put'[g] = put[g]
  <2> HIDE DEF id, e
  <2> QED BY <1>2, <1>6 DEF LayoutTypeOK, PutRecords
<1>9. LET l == [list EXCEPT ![e].id = id]
      IN  /\ l[e].id = id /\ l[e].look = list[e].look /\ l[e].drawn = list[e].drawn
          /\ \A f \in Elements \ {e} : l[f] = list[f]
  <2> HIDE DEF id, e
  <2> QED BY <1>1, <1>2 DEF Lists, Entries
<1>10. Drawn(put'[h].list) = Drawn(list)
  <2> HIDE DEF id, e
  <2> QED BY <1>8, <1>9 DEF Drawn
<1>11. Synced(h, e, id)
  <2>1. widget'[id] = [element |-> e, look |-> put[h].list[e].look]
    BY <1>7
  <2>2. /\ put'[h].list[e].id = id /\ put'[h].list[e].look = put[h].list[e].look
        /\ \A f \in Elements \ {e} : put'[h].list[f] = put[h].list[f]
    <3> HIDE DEF id, e
    <3> QED BY <1>8, <1>9
  <2> HIDE DEF id, e, row
  <2> QED BY <1>1, <1>6, <1>7, <1>8, <1>10, <2>1, <2>2 DEF Synced
<1> HIDE DEF id, e
<1> QED BY <1>1, <1>7, <1>11

-----------------------------------------------------------------------------
(* Ids are right.                                                          *)

\* The rows keep their elements.
RowsKeep ==
    \A i \in DOMAIN widget : i \in DOMAIN widget' /\ widget'[i].element = widget[i].element

LEMMA RowsStay ==
    ASSUME LayoutTypeOK, IdsAgree, [LayoutNext]_layoutVars
    PROVE  RowsKeep
<1>1. CASE UNCHANGED widget
    BY <1>1 DEF RowsKeep
<1>2. ASSUME NEW h \in Puts, SyncWidget(h)
      PROVE  RowsKeep
  <2>1. PICK e \in Elements, id \in Nat : Synced(h, e, id)
    BY <1>2, SyncEffects
  <2> QED BY <2>1 DEF Synced, RowsKeep
<1>3. CASE \/ PlayerStep \/ UNCHANGED layoutVars
           \/ \E p \in Pages : PageStep(p)
           \/ \E h \in Puts : SaveRow(h) \/ RefreshFromDb(h) \/ EndSync(h) \/ Answer(h) \/ Die(h)
  <2>1. UNCHANGED widget
    BY <1>3 DEF PlayerStep, FetchTemplate, FetchLayers, layoutVars, PageStep, OpenEditor, OpenNew,
         LoadTemplateData, Load, LoseAnswer, AddWidget, ChangeWidget, DeleteWidget, Edit,
         SaveTemplate, SaveRow, RefreshFromDb, EndSync, Answer, Die
  <2> QED BY <1>1, <2>1
<1> QED BY <1>2, <1>3 DEF LayoutNext, EditorNext, PutStep

\* The ids of list l are right after the step.
RightNext(l) ==
    \A e \in Elements : l[e].drawn =>
        l[e].id = 0 \/ (l[e].id \in DOMAIN widget' /\ widget'[l[e].id].element = e)

\* A list that was there before the step.
KnownList(l) ==
    \/ l = Blank \/ l = template.config
    \/ \E p \in Pages : l = page[p].list
    \/ \E h \in Puts : l = put[h].list

LEMMA KnownListsAreRight ==
    ASSUME IdsAgree, RowsKeep, NEW l, KnownList(l)
    PROVE  RightNext(l)
<1> SUFFICES ASSUME NEW e \in Elements, l[e].drawn
             PROVE  l[e].id = 0 \/ (l[e].id \in DOMAIN widget' /\ widget'[l[e].id].element = e)
    BY DEF RightNext
<1>1. CASE l = Blank
    BY <1>1, BlankIsList DEF Nothing
<1>2. CASE l # Blank
  <2>1. l[e].id = 0 \/ (l[e].id \in DOMAIN widget /\ widget[l[e].id].element = e)
    BY <1>2 DEF KnownList, IdsAgree, RightIds, RightId, Drawn
  <2> QED BY <2>1 DEF RowsKeep
<1> QED BY <1>1, <1>2

LEMMA IdsAgreeNext ==
    ASSUME RightNext(template'.config), \A p \in Pages : RightNext(page'[p].list),
           \A h \in Puts : RightNext(put'[h].list)
    PROVE  IdsAgree'
    BY DEF RightNext, IdsAgree, RightIds, RightId, Drawn

LEMMA IdsInit == LayoutInit => IdsAgree
<1> SUFFICES ASSUME LayoutInit PROVE IdsAgree
    OBVIOUS
<1>1. (\A p \in Pages : page[p].list = Blank) /\ (\A h \in Puts : put[h].list = Blank)
    BY DEF LayoutInit, Closed, NoPut
<1>2. RightIds(Blank)
    BY BlankIsList DEF RightIds
<1>3. RightIds(template.config)
  <2>1. CASE template = [config |-> Blank, stamp |-> 0]
    BY <1>2, <2>1
  <2>2. ASSUME NEW e \in Elements,
               template = [config |-> [Blank EXCEPT ![e] = [drawn |-> TRUE, id |-> 1, look |-> 0]],
                           stamp |-> 1],
               widget = <<[element |-> e, look |-> 0]>>
        PROVE  RightIds(template.config)
    <3> DEFINE l == template.config
    <3>1. l \in Lists /\ l[e].id = 1 /\ \A f \in Elements \ {e} : l[f] = Nothing
      BY <2>2, BlankIsList DEF Lists, Entries
    <3>2. Drawn(l) \subseteq {e}
      BY <3>1 DEF Drawn, Nothing
    <3>3. 1 \in DOMAIN widget /\ widget[1].element = e
      BY <2>2
    <3> HIDE DEF l
    <3> QED BY <3>1, <3>2, <3>3 DEF RightIds, RightId, l
  <2> QED BY <2>1, <2>2 DEF LayoutInit
<1> QED BY <1>1, <1>2, <1>3 DEF IdsAgree

LEMMA IdsStep ==
    ASSUME LayoutTypeOK, IdsAgree, [LayoutNext]_layoutVars
    PROVE  IdsAgree'
<1>0. RowsKeep
    BY RowsStay
<1>1. ASSUME KnownList(template'.config), \A p \in Pages : KnownList(page'[p].list),
             \A h \in Puts : KnownList(put'[h].list)
      PROVE  IdsAgree'
    BY <1>0, <1>1, KnownListsAreRight, IdsAgreeNext
<1>2. /\ KnownList(Blank) /\ KnownList(template.config)
      /\ \A p \in Pages : KnownList(page[p].list)
      /\ \A h \in Puts : KnownList(put[h].list)
    BY DEF KnownList
<1>3. CASE PlayerStep \/ UNCHANGED layoutVars
  <2>1. UNCHANGED <<template, page, put>>
    BY <1>3 DEF PlayerStep, FetchTemplate, FetchLayers, layoutVars
  <2> QED BY <1>1, <1>2, <2>1
<1>4. ASSUME NEW p \in Pages, PageStep(p)
      PROVE  IdsAgree'
  <2>1. ASSUME NEW e \in Elements, AddWidget(p, e) \/ ChangeWidget(p, e) \/ DeleteWidget(p, e)
        PROVE  IdsAgree'
    <3> DEFINE l == page[p].list
    <3>0. page[p] \in PageRecords /\ l \in Lists /\ l[e] \in Entries
      BY PageUpdate, EntryUpdate DEF LayoutTypeOK
    <3>1. PICK entry : /\ Edit(p, e, entry)
                       /\ entry.drawn => entry.id = 0 \/ (l[e].drawn /\ entry.id = l[e].id)
      <4>1. CASE AddWidget(p, e)
        BY <4>1 DEF AddWidget
      <4>2. CASE ChangeWidget(p, e)
        <5>1. [l[e] EXCEPT !.look = NewLook].id = l[e].id /\ l[e].drawn
          BY <3>0, <4>2 DEF Entries, ChangeWidget
        <5> QED BY <4>2, <5>1 DEF ChangeWidget
      <4>3. CASE DeleteWidget(p, e)
        BY <4>3 DEF DeleteWidget, Nothing
      <4> QED BY <2>1, <4>1, <4>2, <4>3
    <3>2. UNCHANGED <<template, put, widget>> /\ page' = [page EXCEPT ![p].list[e] = entry]
      BY <3>1 DEF Edit
    <3>3. RightNext(l)
      BY <1>0, <1>2, KnownListsAreRight
    <3>4. RightNext(page'[p].list)
      <4>1. page'[p].list = [l EXCEPT ![e] = entry]
        BY <3>0, <3>2 DEF LayoutTypeOK, PageRecords
      <4>2. page'[p].list[e] = entry /\ \A f \in Elements \ {e} : page'[p].list[f] = l[f]
        BY <3>0, <4>1 DEF Lists
      <4> QED BY <3>1, <3>3, <4>2 DEF RightNext
    <3>5. \A q \in Pages \ {p} : page'[q] = page[q]
      BY <3>2 DEF LayoutTypeOK
    <3> QED BY <1>0, <1>2, <3>2, <3>4, <3>5, KnownListsAreRight, IdsAgreeNext
  <2>2. CASE OpenEditor(p) \/ OpenNew(p) \/ LoadTemplateData(p)
    <3>1. /\ \A q \in Pages : page'[q] = page[q] \/ page'[q].list = template.config
                                \/ page'[q].list = Blank
          /\ UNCHANGED <<template, put>>
      BY <2>2 DEF OpenEditor, LoadTemplateData, Load, OpenNew, LayoutTypeOK
    <3>2. \A q \in Pages : KnownList(page'[q].list)
      BY <1>2, <3>1
    <3> QED BY <1>1, <1>2, <3>1, <3>2
  <2>3. CASE LoseAnswer(p)
    <3>1. \A q \in Pages : page'[q].list = page[q].list \/ page'[q].list = Blank
      BY <2>3 DEF LoseAnswer, GivenUp, Closed, LayoutTypeOK, PageRecords
    <3>2. UNCHANGED template /\ \A h \in Puts : put'[h].list = put[h].list
      BY <2>3 DEF LoseAnswer, LayoutTypeOK, PutRecords
    <3> QED BY <1>1, <1>2, <3>1, <3>2
  <2>4. ASSUME NEW h \in Puts, SaveTemplate(p, h)
        PROVE  IdsAgree'
    <3>1. \A q \in Pages : page'[q].list = page[q].list
      BY <2>4 DEF SaveTemplate, LayoutTypeOK, PageRecords
    <3>2. UNCHANGED template /\ \A g \in Puts : put'[g] = put[g] \/ put'[g].list = page[p].list
      BY <2>4 DEF SaveTemplate, LayoutTypeOK
    <3>3. \A g \in Puts : KnownList(put'[g].list)
      BY <1>2, <3>2
    <3> QED BY <1>1, <1>2, <3>1, <3>2, <3>3
  <2> QED BY <1>4, <2>1, <2>2, <2>3, <2>4 DEF PageStep
<1>5. ASSUME NEW h \in Puts, SyncWidget(h)
      PROVE  IdsAgree'
  <2>1. PICK e \in Elements, id \in Nat : Synced(h, e, id)
    BY <1>5, SyncEffects
  <2>2. RightNext(put'[h].list)
    <3>1. RightNext(put[h].list)
      BY <1>0, <1>2, KnownListsAreRight
    <3>2. id \in DOMAIN widget' /\ widget'[id].element = e /\ put'[h].list[e].id = id
      BY <2>1 DEF Synced
    <3>3. \A f \in Elements \ {e} : put'[h].list[f] = put[h].list[f]
      BY <2>1 DEF Synced
    <3> QED BY <3>1, <3>2, <3>3 DEF RightNext
  <2>3. UNCHANGED <<template, page>> /\ \A g \in Puts \ {h} : put'[g] = put[g]
    BY <2>1 DEF Synced
  <2> QED BY <1>0, <1>2, <2>2, <2>3, KnownListsAreRight, IdsAgreeNext
<1>6. ASSUME NEW h \in Puts,
             SaveRow(h) \/ RefreshFromDb(h) \/ EndSync(h) \/ Answer(h) \/ Die(h)
      PROVE  IdsAgree'
  <2>0. /\ \A q \in Pages : page[q] \in PageRecords /\ GivenUp(q)[q].list \in {page[q].list, Blank}
        /\ \A g \in Puts : put[g] \in PutRecords
    BY DEF GivenUp, Closed, LayoutTypeOK, PageRecords
  <2>1. template'.config = template.config \/ template'.config = put[h].list
    <3>1. CASE SaveRow(h)
      BY <3>1 DEF SaveRow
    <3>2. CASE EndSync(h)
      BY <3>2 DEF EndSync, LayoutTypeOK
    <3>3. CASE RefreshFromDb(h) \/ Answer(h) \/ Die(h)
      BY <3>3 DEF RefreshFromDb, Answer, Die
    <3> QED BY <1>6, <3>1, <3>2, <3>3
  <2>2. \A q \in Pages : page'[q].list = page[q].list \/ page'[q].list = Blank
    <3>1. CASE SaveRow(h) \/ RefreshFromDb(h) \/ EndSync(h)
      BY <3>1 DEF SaveRow, RefreshFromDb, EndSync
    <3>2. CASE Answer(h)
      BY <2>0, <3>2 DEF Answer, PageRecords
    <3>3. CASE Die(h)
      <4>1. \A q \in Pages : page'[q] = page[q] \/ page'[q] = GivenUp(q)[q]
        BY <3>3 DEF Die
      <4> HIDE DEF GivenUp
      <4> QED BY <2>0, <4>1
    <3> QED BY <1>6, <3>1, <3>2, <3>3
  <2>3. \A g \in Puts : \/ put'[g].list = put[g].list \/ put'[g].list = put[h].list
                        \/ put'[g].list = template.config \/ put'[g].list = Blank
    <3>1. ASSUME NEW list, Syncing(h, list), NEW g \in Puts
          PROVE  put'[g].list \in {put[g].list, list}
      BY <2>0, <3>1 DEF Syncing, LayoutTypeOK, PutRecords
    <3>2. CASE SaveRow(h)
      <4>1. CASE put[h].create
        BY <3>1, <3>2, <4>1 DEF SaveRow
      <4>2. CASE ~put[h].create
        <5>1. put' = [put EXCEPT ![h].pc = "refresh"]
          BY <3>2, <4>2 DEF SaveRow
        <5>2. put \in [Puts -> PutRecords] /\ [put[h] EXCEPT !.pc = "refresh"].list = put[h].list
          BY DEF LayoutTypeOK, PutRecords
        <5> QED BY <5>1, <5>2
      <4> QED BY <4>1, <4>2
    <3>3. CASE RefreshFromDb(h)
      BY <3>1, <3>3 DEF RefreshFromDb
    <3>4. CASE EndSync(h)
      BY <2>0, <3>4 DEF EndSync, LayoutTypeOK, PutRecords
    <3>5. CASE Answer(h) \/ Die(h)
      <4>1. put' = [put EXCEPT ![h] = NoPut] /\ put \in [Puts -> PutRecords] /\ NoPut.list = Blank
        BY <3>5 DEF Answer, Die, NoPut, LayoutTypeOK
      <4> QED BY <4>1
    <3> QED BY <1>6, <3>2, <3>3, <3>4, <3>5
  <2>4. KnownList(template'.config)
    BY <1>2, <2>1
  <2>5. \A q \in Pages : KnownList(page'[q].list)
    BY <1>2, <2>2
  <2>6. \A g \in Puts : KnownList(put'[g].list)
    BY <1>2, <2>3
  <2> QED BY <1>1, <2>4, <2>5, <2>6
<1> QED BY <1>3, <1>4, <1>5, <1>6 DEF LayoutNext, EditorNext, PutStep

(* An id in a list is always that of a row of the same element: no save ever
   writes over the row of another widget, whatever overlaps, is lost or is cut
   short. (the ids of the layers in the editor, and the look-up by id in the
   sync of the widgets)                                                      *)
THEOREM IdsNeverMix == LayoutSpec => []IdsAgree
<1>1. LayoutInit => LayoutTypeOK /\ IdsAgree
    BY LayoutTypeInit, IdsInit
<1>2. LayoutTypeOK /\ IdsAgree /\ [LayoutNext]_layoutVars => (LayoutTypeOK /\ IdsAgree)'
    BY LayoutTypeStep, IdsStep
<1> QED BY <1>1, <1>2, PTL DEF LayoutSpec
-----------------------------------------------------------------------------
(* Saved widgets have their rows.                                          *)

LEMMA TroubleStays ==
    ASSUME [LayoutNext]_layoutVars
    PROVE  troubled \subseteq troubled'
    BY DEF LayoutNext, EditorNext, PlayerStep, FetchTemplate, FetchLayers, layoutVars, PageStep,
       OpenEditor, OpenNew, LoadTemplateData, Load, LoseAnswer, AddWidget, ChangeWidget,
       DeleteWidget, Edit, SaveTemplate, PutStep, SaveRow, RefreshFromDb, SyncWidget, EndSync,
       Answer, Die

\* The step of a page leaves the saves that are under way as they are.
PutsKept ==
    \A h \in Puts :
        put'[h].pc = put[h].pc /\ put'[h].list = put[h].list /\ put'[h].todo = put[h].todo

LEMMA SavedKept ==
    ASSUME OneAtATime, ConfigSaved, PutSaved, UNCHANGED <<template, widget>>, PutsKept
    PROVE  (OneAtATime /\ ConfigSaved /\ PutSaved)'
    BY DEF OneAtATime, ConfigSaved, PutSaved, HasRow, HalfSaved, PutsKept, Drawn

LEMMA PageStepKeeps ==
    ASSUME LayoutTypeOK, NEW p \in Pages, PageStep(p)
    PROVE  /\ UNCHANGED <<template, widget>>
           /\ PutsKept \/ \E h \in Puts : SaveTemplate(p, h)
<1>1. UNCHANGED <<template, widget>>
    BY DEF PageStep, OpenEditor, OpenNew, LoadTemplateData, Load, LoseAnswer, AddWidget,
       ChangeWidget, DeleteWidget, Edit, SaveTemplate
<1>2. CASE LoseAnswer(p)
    BY <1>1, <1>2 DEF LoseAnswer, PutsKept, LayoutTypeOK, PutRecords
<1>3. CASE ~LoseAnswer(p) /\ ~ \E h \in Puts : SaveTemplate(p, h)
  <2>1. UNCHANGED put
    BY <1>3 DEF PageStep, OpenEditor, OpenNew, LoadTemplateData, Load, AddWidget,
         ChangeWidget, DeleteWidget, Edit
  <2> QED BY <1>1, <2>1 DEF PutsKept
<1> QED BY <1>1, <1>2, <1>3

\* A save is begun while no other is under way, or it overlaps.
LEMMA SaveBegins ==
    ASSUME LayoutTypeOK, NEW p \in Pages, NEW h \in Puts, SaveTemplate(p, h),
           Orderly'
    PROVE  /\ \A g \in Puts : put[g].pc = "idle"
           /\ put'[h].pc = "save" /\ put'[h].list = page[p].list
           /\ \A g \in Puts \ {h} : put'[g] = put[g]
           /\ page[p].pc = "editing" /\ page'[p].pc = "saving"
           /\ \A q \in Pages \ {p} : page'[q] = page[q]
    BY DEF SaveTemplate, LayoutTypeOK, PageRecords, Orderly

LEMMA SyncingEffects ==
    ASSUME LayoutTypeOK, NEW h \in Puts, NEW list \in Lists, Syncing(h, list)
    PROVE  /\ put'[h].pc = IF Drawn(list) = {} THEN "answer" ELSE "sync"
           /\ put'[h].list = list /\ put'[h].todo = Drawn(list)
           /\ \A g \in Puts \ {h} : put'[g] = put[g]
    BY DEF Syncing, LayoutTypeOK, PutRecords

LEMMA SaveRowEffects ==
    ASSUME LayoutTypeOK, NEW h \in Puts, SaveRow(h)
    PROVE  /\ put[h].pc = "save" /\ template'.config = put[h].list /\ put'[h].list = put[h].list
           /\ \/ put'[h].pc = "refresh"
              \/ put'[h].pc = "answer" /\ Drawn(put[h].list) = {}
              \/ put'[h].pc = "sync" /\ put'[h].todo = Drawn(put[h].list)
           /\ \A g \in Puts \ {h} : put'[g] = put[g]
           /\ UNCHANGED <<widget, page, troubled>>
<1>0. put \in [Puts -> PutRecords] /\ put[h] \in PutRecords /\ put[h].list \in Lists
    BY PutUpdate DEF LayoutTypeOK
<1>1. /\ put[h].pc = "save" /\ template'.config = put[h].list
      /\ UNCHANGED <<widget, page, troubled>>
    BY DEF SaveRow, PutAt
<1>2. CASE put[h].create
    BY <1>0, <1>1, <1>2, SyncingEffects DEF SaveRow
<1>3. CASE ~put[h].create
  <2>1. put' = [put EXCEPT ![h].pc = "refresh"]
    BY <1>3 DEF SaveRow
  <2> QED BY <1>0, <1>1, <2>1 DEF PutRecords
<1> QED BY <1>2, <1>3

LEMMA EndSyncEffects ==
    ASSUME LayoutTypeOK, NEW h \in Puts, EndSync(h)
    PROVE  /\ put[h].pc = "sync" /\ put[h].todo = {}
           /\ template'.config = put[h].list
           /\ put'[h].pc = "answer" /\ put'[h].list = put[h].list
           /\ \A g \in Puts \ {h} : put'[g] = put[g]
           /\ UNCHANGED <<widget, page, troubled>>
    BY DEF EndSync, PutAt, LayoutTypeOK, PutRecords

LEMMA SavedStep ==
    ASSUME LayoutTypeOK, IdsAgree, SavedInv, [LayoutNext]_layoutVars
    PROVE  SavedInv'
<1> SUFFICES ASSUME Orderly'
             PROVE  (OneAtATime /\ ConfigSaved /\ PutSaved)'
    BY DEF SavedInv
<1>0. Orderly /\ OneAtATime /\ ConfigSaved /\ PutSaved
    BY TroubleStays DEF Orderly, SavedInv
<1>1. CASE PlayerStep \/ UNCHANGED layoutVars
  <2>1. UNCHANGED <<template, widget, put>>
    BY <1>1 DEF PlayerStep, FetchTemplate, FetchLayers, layoutVars
  <2> QED BY <1>0, <2>1, SavedKept DEF PutsKept
<1>2. ASSUME NEW p \in Pages, PageStep(p)
      PROVE  (OneAtATime /\ ConfigSaved /\ PutSaved)'
  <2>1. CASE PutsKept
    BY <1>0, <1>2, <2>1, SavedKept, PageStepKeeps
  <2>2. ASSUME NEW h \in Puts, SaveTemplate(p, h)
        PROVE  (OneAtATime /\ ConfigSaved /\ PutSaved)'
    <3>1. \A g \in Puts : put[g].pc = "idle" /\ (g # h => put'[g].pc = "idle")
      BY <2>2, SaveBegins
    <3>2. put'[h].pc = "save"
      BY <2>2, SaveBegins
    <3>3. UNCHANGED <<template, widget>>
      BY <1>2, PageStepKeeps
    <3>4. OneAtATime' /\ PutSaved'
      BY <3>1, <3>2 DEF OneAtATime, PutSaved
    <3>5. ~HalfSaved
      BY <3>1 DEF HalfSaved
    <3>6. ConfigSaved'
      BY <1>0, <3>3, <3>5 DEF ConfigSaved, HasRow, Drawn
    <3> QED BY <3>4, <3>6
  <2> QED BY <1>2, <2>1, <2>2, PageStepKeeps
<1>3. ASSUME NEW h \in Puts, PutStep(h) \/ Die(h)
      PROVE  (OneAtATime /\ ConfigSaved /\ PutSaved)'
  <2>1. put[h] \in PutRecords /\ put[h].list \in Lists
    BY PutUpdate DEF LayoutTypeOK
  <2>2. ASSUME put[h].pc # "idle"
        PROVE  \A g \in Puts \ {h} : put[g].pc = "idle"
    BY <1>0, <2>2 DEF OneAtATime
  <2>3. ASSUME put[h].pc # "idle", \A g \in Puts \ {h} : put'[g] = put[g],
               put'[h].pc \in {"refresh", "sync"},
               put'[h].pc = "refresh" => put'[h].list = template'.config,
               put'[h].pc = "sync" =>
                   \A e \in Drawn(put'[h].list) \ put'[h].todo : HasRow(put[h].list, e)'
        PROVE  (OneAtATime /\ ConfigSaved /\ PutSaved)'
    <3>1. \A g \in Puts \ {h} : put'[g].pc = "idle"
      BY <2>2, <2>3
    <3>2. OneAtATime' /\ HalfSaved'
      BY <2>3, <3>1 DEF OneAtATime, HalfSaved
    <3>3. PutSaved'
      BY <2>3, <3>1 DEF PutSaved, HasRow
    <3> QED BY <3>2, <3>3 DEF ConfigSaved
  <2>4. ASSUME put[h].pc # "idle", \A g \in Puts \ {h} : put'[g] = put[g],
               put'[h].pc \in {"answer", "idle"},
               \A e \in Drawn(template'.config) : HasRow(template.config, e)'
        PROVE  (OneAtATime /\ ConfigSaved /\ PutSaved)'
    <3>1. \A g \in Puts \ {h} : put'[g].pc = "idle"
      BY <2>2, <2>4
    <3>2. OneAtATime' /\ PutSaved'
      BY <2>4, <3>1 DEF OneAtATime, PutSaved
    <3>3. ConfigSaved'
      BY <2>4 DEF ConfigSaved, HasRow
    <3> QED BY <3>2, <3>3
  <2>5. CASE SaveRow(h)
    <3>1. CASE put'[h].pc = "answer"
      <4>1. Drawn(template'.config) = {}
        BY <2>5, <3>1, SaveRowEffects
      <4> QED BY <2>4, <2>5, <3>1, <4>1, SaveRowEffects
    <3>2. CASE put'[h].pc = "refresh"
      BY <2>3, <2>5, <3>2, SaveRowEffects
    <3>3. CASE put'[h].pc = "sync"
      <4>1. Drawn(put'[h].list) \ put'[h].todo = {}
        BY <2>5, <3>3, SaveRowEffects
      <4> QED BY <2>3, <2>5, <3>3, <4>1, SaveRowEffects
    <3> QED BY <2>5, <3>1, <3>2, <3>3, SaveRowEffects
  <2>6. CASE RefreshFromDb(h)
    <3>1. /\ template.config \in Lists /\ Syncing(h, template.config) /\ put[h].pc = "refresh"
          /\ UNCHANGED template
      BY <2>6 DEF RefreshFromDb, PutAt, LayoutTypeOK
    <3>2. CASE Drawn(template.config) = {}
      <4>1. put'[h].pc = "answer" /\ Drawn(template'.config) = {}
        BY <3>1, <3>2, SyncingEffects
      <4> QED BY <2>4, <3>1, <4>1, SyncingEffects
    <3>3. CASE Drawn(template.config) # {}
      <4>1. put'[h].pc = "sync" /\ Drawn(put'[h].list) \ put'[h].todo = {}
        BY <3>1, <3>3, SyncingEffects
      <4> QED BY <2>3, <3>1, <4>1, SyncingEffects
    <3> QED BY <3>2, <3>3
  <2>7. CASE SyncWidget(h)
    <3>1. PICK e \in Elements, id \in Nat : Synced(h, e, id)
      BY <2>7, SyncEffects
    <3>2. /\ put'[h].pc = "sync" /\ put[h].pc = "sync"
          /\ Drawn(put'[h].list) = Drawn(put[h].list) /\ put'[h].todo = put[h].todo \ {e}
          /\ \A g \in Puts \ {h} : put'[g] = put[g]
      BY <3>1 DEF Synced
    <3>3. HasRow(put[h].list, e)'
      BY <3>1 DEF Synced, HasRow
    <3>4. ASSUME NEW f \in Drawn(put[h].list) \ put[h].todo, f # e
          PROVE  HasRow(put[h].list, f)'
      <4>1. HasRow(put[h].list, f) /\ f \in Elements
        BY <1>0, <3>2 DEF PutSaved, Drawn
      <4>2. put'[h].list[f] = put[h].list[f]
        BY <3>1, <3>4, <4>1 DEF Synced
      <4>3. put[h].list[f].id # id
        <5>1. id \in DOMAIN widget => widget[id].element = e
          BY <3>1 DEF Synced
        <5>2. put[h].list[f].id \in DOMAIN widget /\ widget[put[h].list[f].id].element = f
          BY <4>1 DEF HasRow
        <5> QED BY <3>4, <5>1, <5>2
      <4>4. /\ put[h].list[f].id \in DOMAIN widget'
            /\ widget'[put[h].list[f].id] = widget[put[h].list[f].id]
        BY <3>1, <4>1, <4>3 DEF Synced, HasRow
      <4> QED BY <4>1, <4>2, <4>4 DEF HasRow
    <3>5. \A f \in Drawn(put'[h].list) \ put'[h].todo : HasRow(put[h].list, f)'
      BY <3>2, <3>3, <3>4
    <3> QED BY <2>3, <3>2, <3>5
  <2>8. CASE EndSync(h)
    <3>1. \A e \in Drawn(put[h].list) : HasRow(put[h].list, e)
      BY <1>0, <2>8, EndSyncEffects DEF PutSaved
    <3>2. \A e \in Drawn(template'.config) : HasRow(template.config, e)'
      BY <2>8, <3>1, EndSyncEffects DEF HasRow
    <3> QED BY <2>4, <2>8, <3>2, EndSyncEffects
  <2>9. CASE Answer(h)
    <3>1. /\ put[h].pc = "answer" /\ put'[h].pc = "idle" /\ UNCHANGED <<template, widget>>
          /\ \A g \in Puts \ {h} : put'[g] = put[g]
      BY <2>9 DEF Answer, PutAt, NoPut, LayoutTypeOK
    <3>2. ~HalfSaved
      BY <2>2, <3>1 DEF HalfSaved
    <3>3. \A e \in Drawn(template'.config) : HasRow(template.config, e)'
      BY <1>0, <3>1, <3>2 DEF ConfigSaved, HasRow
    <3> QED BY <2>4, <3>1, <3>3
  <2>10. CASE Die(h)
    BY <2>10 DEF Die, Orderly
  <2> QED BY <1>3, <2>5, <2>6, <2>7, <2>8, <2>9, <2>10 DEF PutStep
<1> QED BY <1>1, <1>2, <1>3 DEF LayoutNext, EditorNext
LEMMA SavedInit == LayoutInit => SavedInv
<1> SUFFICES ASSUME LayoutInit PROVE SavedInv
    OBVIOUS
<1>1. \A h \in Puts : put[h].pc = "idle"
  BY DEF LayoutInit, NoPut
<1>2. \A e \in Drawn(template.config) : HasRow(template.config, e)
  <2>1. CASE template = [config |-> Blank, stamp |-> 0]
    BY <2>1, BlankIsList
  <2>2. ASSUME NEW e \in Elements,
               template = [config |-> [Blank EXCEPT ![e] = [drawn |-> TRUE, id |-> 1, look |-> 0]],
                           stamp |-> 1],
               widget = <<[element |-> e, look |-> 0]>>
        PROVE  \A f \in Drawn(template.config) : HasRow(template.config, f)
    <3> DEFINE l == template.config
    <3>1. /\ l \in Lists /\ l[e].id = 1 /\ l[e].look = 0
          /\ \A f \in Elements \ {e} : l[f] = Nothing
      BY <2>2, BlankIsList DEF Lists, Entries
    <3>2. Drawn(l) \subseteq {e}
      BY <3>1 DEF Drawn, Nothing
    <3>3. 1 \in DOMAIN widget /\ widget[1] = [element |-> e, look |-> 0]
      BY <2>2
    <3> HIDE DEF l
    <3> QED BY <3>1, <3>2, <3>3 DEF HasRow, l
  <2> QED BY <2>1, <2>2 DEF LayoutInit
<1> QED BY <1>1, <1>2 DEF SavedInv, OneAtATime, ConfigSaved, PutSaved

(* What is saved has rows, with the look of the list, for every number of
   elements, editors and saves: only overlapping saves and saves cut short leave
   widgets without. (perform_update, _sync_widgets_from_config)              *)
THEOREM SavedWidgetsHaveRows == LayoutSpec => []SavedHasRows
<1>2. /\ LayoutTypeOK /\ IdsAgree /\ SavedInv /\ [LayoutNext]_layoutVars
      => (LayoutTypeOK /\ IdsAgree /\ SavedInv)'
    BY LayoutTypeStep, IdsStep, SavedStep
<1>3. LayoutTypeOK /\ SavedInv => SavedHasRows
  <2> SUFFICES ASSUME LayoutTypeOK, SavedInv, AtRest, Orderly,
                      NEW e \in Drawn(template.config)
               PROVE  /\ template.config[e].id > 0
                      /\ widget[template.config[e].id] =
                             [element |-> e, look |-> template.config[e].look]
      BY DEF SavedHasRows, Orderly
  <2>1. HasRow(template.config, e)
    BY DEF SavedInv, ConfigSaved, HalfSaved, AtRest
  <2>2. DOMAIN widget = 1 .. Len(widget) /\ Len(widget) \in Nat
    BY DEF LayoutTypeOK
  <2> QED BY <2>1, <2>2 DEF HasRow
<1> QED BY LayoutTypeInit, IdsInit, SavedInit, <1>2, <1>3, PTL DEF LayoutSpec

-----------------------------------------------------------------------------
(* Each element has one row.                                               *)

\* No list that may be saved has an element that is new in it and was not before.
NoneNewer ==
    /\ \A p \in Pages, e \in Elements : page'[p].pc = "editing" /\ New(page'[p].list, e) =>
           page[p].pc = "editing" /\ New(page[p].list, e)
    /\ \A h \in Puts, e \in Elements : put'[h].pc # "idle" /\ New(put'[h].list, e) =>
           put[h].pc # "idle" /\ New(put[h].list, e)

LEMMA NewKept ==
    ASSUME OneRow, NewInPages, NewInPuts, NoneNewer, UNCHANGED widget
    PROVE  (OneRow /\ NewInPages /\ NewInPuts)'
<1>1. OneRow' /\ \A e : Rowless(e) = Rowless(e)'
    BY DEF OneRow, Rowless
<1>2. NewInPuts'
    BY <1>1 DEF NewInPuts, NoneNewer, New
<1>3. NewInPages'
    BY <1>1 DEF NewInPages, NoneNewer, New
<1> QED BY <1>1, <1>2, <1>3

LEMMA NewStep ==
    ASSUME LayoutTypeOK, IdsAgree, SavedInv, NewInv, [LayoutNext]_layoutVars
    PROVE  NewInv'
<1> SUFFICES ASSUME troubled' = {}
             PROVE  (OneRow /\ NewInPages /\ NewInPuts)'
    BY DEF NewInv
<1>0. /\ troubled = {} /\ Orderly' /\ OneRow /\ NewInPages /\ NewInPuts
      /\ OneAtATime /\ ConfigSaved /\ PutSaved
  <2>1. troubled = {} /\ Orderly /\ Orderly'
    BY TroubleStays DEF Orderly
  <2> QED BY <2>1 DEF NewInv, SavedInv
<1>1. CASE PlayerStep \/ UNCHANGED layoutVars
  <2>1. UNCHANGED <<page, widget, put>>
    BY <1>1 DEF PlayerStep, FetchTemplate, FetchLayers, layoutVars
  <2> QED BY <1>0, <2>1, NewKept DEF NoneNewer
<1>2. ASSUME NEW p \in Pages, PageStep(p)
      PROVE  (OneRow /\ NewInPages /\ NewInPuts)'
  <2>1. UNCHANGED widget
    BY <1>2, PageStepKeeps
  <2>2. ASSUME Load(p)
        PROVE  (OneRow /\ NewInPages /\ NewInPuts)'
    <3>1. UNCHANGED put /\ ~HalfSaved
      BY <1>0, <2>2 DEF Load
    <3>2. page'[p].list = template.config /\ \A q \in Pages \ {p} : page'[q] = page[q]
      BY <2>2 DEF Load, LayoutTypeOK
    <3>3. \A e \in Elements : ~New(template.config, e)
      <4>1. 0 \notin DOMAIN widget
        <5>1. DOMAIN widget = 1 .. Len(widget) /\ Len(widget) \in Nat
          BY DEF LayoutTypeOK
        <5> QED BY <5>1
      <4>2. \A e \in Drawn(template.config) : template.config[e].id \in DOMAIN widget
        BY <1>0, <3>1 DEF ConfigSaved, HasRow
      <4> QED BY <4>1, <4>2 DEF New, Drawn
    <3> QED BY <1>0, <2>1, <3>1, <3>2, <3>3, NewKept DEF NoneNewer
  <2>3. CASE OpenNew(p)
    <3>1. UNCHANGED put /\ page'[p].list = Blank /\ \A q \in Pages \ {p} : page'[q] = page[q]
      BY <2>3 DEF OpenNew, LayoutTypeOK
    <3>2. \A e \in Elements : ~New(Blank, e)
      BY BlankIsList DEF New, Nothing
    <3> QED BY <1>0, <2>1, <3>1, <3>2, NewKept DEF NoneNewer
  <2>4. CASE LoseAnswer(p)
    BY <2>4 DEF LoseAnswer
  <2>5. ASSUME NEW e \in Elements, NEW entry, Edit(p, e, entry)
        PROVE  /\ UNCHANGED put
               /\ \A q \in Pages : page'[q].pc = page[q].pc
               /\ \A q \in Pages \ {p} : page'[q] = page[q]
               /\ page'[p].list[e] = entry
               /\ \A f \in Elements \ {e} : page'[p].list[f] = page[p].list[f]
    <3>1. page[p] \in PageRecords /\ page[p].list \in Lists
      BY PageUpdate DEF LayoutTypeOK
    <3>2. page' = [page EXCEPT ![p].list[e] = entry] /\ UNCHANGED put
      BY <2>5 DEF Edit
    <3>3. page'[p] = [page[p] EXCEPT !.list[e] = entry] /\ \A q \in Pages \ {p} : page'[q] = page[q]
      BY <3>2 DEF LayoutTypeOK
    <3>4. page'[p].pc = page[p].pc /\ page'[p].list = [page[p].list EXCEPT ![e] = entry]
      BY <3>1, <3>3 DEF PageRecords
    <3> QED BY <3>1, <3>2, <3>3, <3>4 DEF Lists
  <2>6. ASSUME NEW e \in Elements, AddWidget(p, e)
        PROVE  (OneRow /\ NewInPages /\ NewInPuts)'
    <3>1. PICK entry : Edit(p, e, entry)
      BY <2>6 DEF AddWidget
    <3>2. /\ Rowless(e) /\ \A q \in Pages : ~page[q].list[e].drawn
          /\ \A h \in Puts : ~put[h].list[e].drawn
      BY <2>6 DEF AddWidget, Fresh, Rowless
    <3>3. OneRow' /\ \A f : Rowless(f) = Rowless(f)'
      BY <1>0, <2>1 DEF OneRow, Rowless
    <3>4. UNCHANGED put
      BY <2>5, <3>1
    <3>5. ASSUME NEW q \in Pages, NEW f \in Elements, New(page'[q].list, f)
          PROVE  (q = p /\ f = e) \/ (f # e /\ New(page[q].list, f))
      BY <2>5, <3>1, <3>2, <3>5 DEF New
    <3>6. NewInPuts'
      BY <1>0, <3>3, <3>4 DEF NewInPuts
    <3>7. ASSUME NEW q \in Pages, NEW f \in Elements, page'[q].pc = "editing", New(page'[q].list, f)
          PROVE  /\ Rowless(f)'
                 /\ \A r \in Pages \ {q} : page'[r].pc = "editing" => ~New(page'[r].list, f)
                 /\ \A h \in Puts : put'[h].pc # "idle" => ~New(put'[h].list, f)
      <4>1. CASE q = p /\ f = e
        BY <3>2, <3>3, <3>4, <3>5, <4>1 DEF New
      <4>2. CASE f # e /\ New(page[q].list, f)
        <5>1. page[q].pc = "editing"
          BY <2>5, <3>1, <3>7
        <5>2. \A r \in Pages \ {q} : page[r].pc = "editing" => ~New(page[r].list, f)
          BY <1>0, <4>2, <5>1 DEF NewInPages
        <5>3. \A r \in Pages : page'[r].pc = page[r].pc
          BY <2>5, <3>1
        <5>4. \A r \in Pages \ {q} : page'[r].pc = "editing" => ~New(page'[r].list, f)
          BY <3>5, <4>2, <5>2, <5>3
        <5>5. Rowless(f) /\ \A h \in Puts : put[h].pc # "idle" => ~New(put[h].list, f)
          BY <1>0, <4>2, <5>1 DEF NewInPages
        <5> QED BY <3>3, <3>4, <5>4, <5>5
      <4> QED BY <3>5, <3>7, <4>1, <4>2
    <3>8. NewInPages'
      BY <3>7 DEF NewInPages, New
    <3> QED BY <3>3, <3>6, <3>8
  <2>7. ASSUME NEW e \in Elements, ChangeWidget(p, e) \/ DeleteWidget(p, e)
        PROVE  (OneRow /\ NewInPages /\ NewInPuts)'
    <3>1. PICK entry : Edit(p, e, entry) /\ (entry.drawn /\ entry.id = 0 => New(page[p].list, e))
      <4>1. CASE ChangeWidget(p, e)
        <5>1. page[p].list[e] \in Entries
          BY PageUpdate, EntryUpdate DEF LayoutTypeOK
        <5>2. [page[p].list[e] EXCEPT !.look = NewLook].id = page[p].list[e].id
          BY <5>1 DEF Entries
        <5> QED BY <4>1, <5>2 DEF ChangeWidget, New
      <4>2. CASE DeleteWidget(p, e)
        BY <4>2 DEF DeleteWidget, Nothing
      <4> QED BY <2>7, <4>1, <4>2
    <3>2. NoneNewer
      BY <2>5, <3>1 DEF NoneNewer, New
    <3> QED BY <1>0, <2>1, <3>2, NewKept
  <2>8. ASSUME NEW h \in Puts, SaveTemplate(p, h)
        PROVE  (OneRow /\ NewInPages /\ NewInPuts)'
    <3>1. /\ \A g \in Puts \ {h} : put'[g].pc = "idle"
          /\ put'[h].list = page[p].list
          /\ page[p].pc = "editing" /\ page'[p].pc = "saving"
          /\ \A q \in Pages \ {p} : page'[q] = page[q]
      BY <1>0, <2>8, SaveBegins
    <3>2. OneRow' /\ \A f : Rowless(f) = Rowless(f)'
      BY <1>0, <2>1 DEF OneRow, Rowless
    <3>3. \A q \in Pages, f \in Elements : page[q].pc = "editing" /\ New(page[q].list, f) =>
              Rowless(f) /\ \A r \in Pages \ {q} : page[r].pc = "editing" => ~New(page[r].list, f)
      BY <1>0 DEF NewInPages
    <3>4. NewInPuts'
      BY <3>1, <3>2, <3>3 DEF NewInPuts, New
    <3>5. ASSUME NEW q \in Pages, NEW f \in Elements, page'[q].pc = "editing", New(page'[q].list, f)
          PROVE  /\ Rowless(f)'
                 /\ \A r \in Pages \ {q} : page'[r].pc = "editing" => ~New(page'[r].list, f)
                 /\ \A g \in Puts : put'[g].pc # "idle" => ~New(put'[g].list, f)
      <4>1. q # p /\ page[q].pc = "editing" /\ New(page[q].list, f)
        BY <3>1, <3>5
      <4>2. Rowless(f) /\ \A r \in Pages \ {q} : page[r].pc = "editing" => ~New(page[r].list, f)
        BY <3>3, <4>1
      <4> QED BY <3>1, <3>2, <4>1, <4>2
    <3>6. NewInPages'
      BY <3>5 DEF NewInPages, New
    <3> QED BY <3>2, <3>4, <3>6
  <2> QED BY <1>2, <2>2, <2>3, <2>4, <2>6, <2>7, <2>8 DEF PageStep, OpenEditor, LoadTemplateData
<1>3. ASSUME NEW h \in Puts, PutStep(h) \/ Die(h)
      PROVE  (OneRow /\ NewInPages /\ NewInPuts)'
  <2>1. ASSUME UNCHANGED <<widget, page>>, put[h].pc # "idle", put'[h].list = put[h].list,
               \A g \in Puts \ {h} : put'[g] = put[g]
        PROVE  (OneRow /\ NewInPages /\ NewInPuts)'
    BY <1>0, <2>1, NewKept DEF NoneNewer
  <2>2. CASE SaveRow(h)
    BY <2>1, <2>2, SaveRowEffects
  <2>3. CASE RefreshFromDb(h)
    <3>1. /\ template.config \in Lists /\ Syncing(h, template.config) /\ put[h].pc = "refresh"
          /\ UNCHANGED <<widget, page>>
      BY <2>3 DEF RefreshFromDb, PutAt, LayoutTypeOK
    <3>2. put[h].list = template.config
      BY <1>0, <3>1 DEF PutSaved
    <3> QED BY <2>1, <3>1, <3>2, SyncingEffects
  <2>4. CASE EndSync(h)
    BY <2>1, <2>4, EndSyncEffects
  <2>5. CASE Answer(h)
    <3>1. put[h].create = FALSE
      BY <2>5 DEF Answer, LayoutTypeOK, PutRecords
    <3>2. /\ put'[h].pc = "idle" /\ UNCHANGED widget
          /\ \A g \in Puts \ {h} : put'[g] = put[g]
          /\ \A q \in Pages : page'[q] = page[q] \/ page'[q].pc = "loading"
      BY <2>5, <3>1 DEF Answer, NoPut, LayoutTypeOK, PageRecords
    <3>3. NoneNewer
      BY <3>2 DEF NoneNewer
    <3> QED BY <1>0, <3>2, <3>3, NewKept
  <2>6. CASE Die(h)
    BY <2>6 DEF Die
  <2>7. CASE SyncWidget(h)
    <3>1. PICK e \in Elements, id \in Nat : Synced(h, e, id)
      BY <2>7, SyncEffects
    <3>2. put[h].pc = "sync" /\ UNCHANGED page /\ \A g \in Puts \ {h} : put'[g] = put[g]
      BY <3>1 DEF Synced
    <3>3. \A g \in Puts \ {h} : put[g].pc = "idle"
      BY <1>0, <3>2 DEF OneAtATime
    <3>4. /\ \A i \in DOMAIN widget' : i \in DOMAIN widget \/ i = id
          /\ \A i \in DOMAIN widget : i # id => widget'[i] = widget[i]
          /\ widget'[id].element = e
          /\ id \in DOMAIN widget => widget[id].element = e
      BY <3>1 DEF Synced
    <3>5. id \notin DOMAIN widget => New(put[h].list, e) /\ Rowless(e)
      <4>1. e \in Drawn(put[h].list) /\ put[h].list[e].id = IF id \in DOMAIN widget THEN id ELSE 0
        BY <3>1 DEF Synced
      <4> QED BY <1>0, <3>2, <4>1 DEF NewInPuts, New, Drawn
    <3>6. \A f \in Elements \ {e} : Rowless(f) => Rowless(f)'
      BY <3>4 DEF Rowless
    <3>7. OneRow'
      <4>1. \A i \in DOMAIN widget : widget'[i].element = widget[i].element
        BY <3>4
      <4>2. CASE id \in DOMAIN widget
        BY <1>0, <3>4, <4>1, <4>2 DEF OneRow
      <4>3. CASE id \notin DOMAIN widget
        <5>1. \A i \in DOMAIN widget : widget'[i].element # e
          BY <3>5, <4>1, <4>3 DEF Rowless
        <5> QED BY <1>0, <3>4, <4>1, <5>1 DEF OneRow
      <4> QED BY <4>2, <4>3
    <3>8. /\ \A f \in Elements \ {e} : put'[h].list[f] = put[h].list[f]
          /\ ~New(put'[h].list, e)
      BY <3>1 DEF Synced, New
    <3>9. NewInPuts'
      <4> SUFFICES ASSUME NEW g \in Puts, NEW f \in Elements, put'[g].pc # "idle",
                          New(put'[g].list, f)
                   PROVE  Rowless(f)'
          BY DEF NewInPuts, New
      <4>1. g = h /\ f # e /\ New(put[h].list, f)
        BY <3>2, <3>3, <3>8 DEF New
      <4> QED BY <1>0, <3>2, <3>6, <4>1 DEF NewInPuts
    <3>10. NewInPages'
      <4> SUFFICES ASSUME NEW q \in Pages, NEW f \in Elements, page'[q].pc = "editing",
                          New(page'[q].list, f)
                   PROVE  /\ Rowless(f)'
                          /\ \A r \in Pages \ {q} : page'[r].pc = "editing" => ~New(page'[r].list, f)
                          /\ \A g \in Puts : put'[g].pc # "idle" => ~New(put'[g].list, f)
          BY DEF NewInPages, New
      <4>1. page[q].pc = "editing" /\ New(page[q].list, f)
        BY <3>2
      <4>2. /\ Rowless(f)
            /\ \A r \in Pages \ {q} : page[r].pc = "editing" => ~New(page[r].list, f)
            /\ \A g \in Puts : put[g].pc # "idle" => ~New(put[g].list, f)
        BY <1>0, <4>1 DEF NewInPages
      <4>3. f # e
        BY <3>2, <3>4, <3>5, <4>2 DEF Rowless
      <4>4. \A g \in Puts : put'[g].pc # "idle" => ~New(put'[g].list, f)
        BY <3>2, <3>3, <3>8, <4>2, <4>3 DEF New
      <4> QED BY <3>2, <3>6, <4>2, <4>3, <4>4
    <3> QED BY <3>7, <3>9, <3>10
  <2> QED BY <1>3, <2>2, <2>3, <2>4, <2>5, <2>6, <2>7 DEF PutStep
<1> QED BY <1>1, <1>2, <1>3 DEF LayoutNext, EditorNext

(* While nothing disturbs the saves, no element gets a second row, whoever
   edits it. (the sync creates a widget for a layer without an id, and the answer
   gives the editor the id)                                                  *)
THEOREM RowsAreUnique == LayoutSpec => []OneRowPerElement
<1>1. LayoutInit => NewInv
  <2> SUFFICES ASSUME LayoutInit PROVE OneRow /\ NewInPages /\ NewInPuts
      BY DEF NewInv
  <2>1. (\A p \in Pages : page[p].pc = "closed") /\ \A h \in Puts : put[h].pc = "idle"
    BY DEF LayoutInit, Closed, NoPut
  <2>2. OneRow
    BY DEF LayoutInit, OneRow
  <2> QED BY <2>1, <2>2 DEF NewInPages, NewInPuts
<1>2. LayoutInv /\ [LayoutNext]_layoutVars => LayoutInv'
    BY LayoutTypeStep, IdsStep, SavedStep, NewStep DEF LayoutInv
<1>3. LayoutInv => OneRowPerElement
    BY DEF LayoutInv, NewInv, OneRow, OneRowPerElement
<1>4. LayoutInit => LayoutInv
    BY LayoutTypeInit, IdsInit, SavedInit, <1>1 DEF LayoutInv
<1> QED BY <1>2, <1>3, <1>4, PTL DEF LayoutSpec

-----------------------------------------------------------------------------
(* THE BACKUPS                                                                *)

\* The backups by themselves.
BackupsSpec == BackupsInit /\ [][BackupsNext]_backupVars

-----------------------------------------------------------------------------
Contents == [of : SUBSET Backups, ended : SUBSET Backups]
Paths == Names \cup {NoName}
RowRecords == [status : {"in_progress", "completed", "failed", "expired"}, path : Paths,
               checksum : Contents, expires : Nat]
MakerRecords ==
    [pc : {"idle", "schedule", "done", "failed", "dead"} \cup Dumping,
     order : Orders \cup {NoMaker.order}, path : Paths, linked : BOOLEAN, source : Paths,
     opened : Paths, read : Contents, row : RowRecords]
CleanerRecords(D) ==
    [pc : {"check", "unlink", "save"}, todo : SUBSET D, row : [D -> RowRecords], at : SUBSET D]

BackupTypeOK ==
    /\ record \in [Backups -> RowRecords \cup {NoRow}]
    /\ maker \in [Backups -> MakerRecords]
    /\ files \in [Names -> Contents]
    /\ DOMAIN cleaner = Cleaners
    /\ \A c \in Cleaners :
          cleaner[c] = NoCleaner \/ \E D \in SUBSET Backups : cleaner[c] \in CleanerRecords(D)
    /\ clock \in 0 .. MaxClock
    /\ troubles \in [deletions : Nat, failures : Nat, deaths : Nat]

\* The second file of a dump.
Zipped(n) == <<"sql.gz", n[2]>>

\* Which files a maker m has at each stage, at time t.
PathsOf(m, t) ==
    /\ m.pc \in {"idle", "open"} => m.opened = NoName
    /\ m.pc \in (Dumping \ {"open"}) \cup {"schedule", "done"} => m.opened # NoName
    /\ m.opened = NoName => m.path = NoName
    /\ m.opened # NoName =>
          /\ m.opened[1] \in {"sql", "tar", "tar.gz"} /\ m.opened[2] \in 0 .. t
          /\ m.path \in {m.opened, Zipped(m.opened)}
    /\ m.path # m.opened => m.opened[1] = "sql"
    /\ m.pc \in {"dump", "zip"} => m.path = m.opened
    /\ m.pc = "zip" \/ (m.pc = "dump" /\ ~m.order.media) => m.opened[1] = "sql"
    /\ m.pc \in {"copy", "remove"} => m.source = m.opened /\ m.path = Zipped(m.opened)
    /\ m.linked => m.pc \in {"dump", "copy"}
PathsInv == \A b \in Backups : PathsOf(maker[b], clock)

\* Once a backup has completed, its row is the one that its maker saved, or has expired or
\* is deleted.
RowsOf(m, row) ==
    /\ m.pc \in {"schedule", "done"} => m.row.status = "completed"
    /\ m.row.status = "completed" =>
          m.pc \in {"schedule", "done", "dead"} /\ m.row.path = m.path /\ m.opened # NoName
    /\ row.status = "completed" => row = m.row
RowsInv == \A b \in Backups : RowsOf(maker[b], record[b])

\* A file is of those that have opened it and not yet lost it, and they answer for it.
Answers(n, m, row) ==
    /\ n \in {m.opened, m.path}
    /\ m.pc \in {"sum", "complete", "schedule", "done"} => n = m.path
    /\ m.pc \in Dumping \cup {"failed", "dead"} \/ row \in {NoRow, m.row}
FilesInv ==
    /\ \A b \in Backups : maker[b].linked => b \in files[maker[b].path].of
    /\ \A n \in Names : files[n].ended \subseteq files[n].of
    /\ \A n \in Names : \A b \in files[n].of : Answers(n, maker[b], record[b])

\* A clean-up holds expired rows, and saves one only when its file is gone.
CleanersInv ==
    \A c \in Cleaners : cleaner[c] # NoCleaner =>
        /\ \A b \in DOMAIN cleaner[c].row :
              /\ cleaner[c].row[b] = maker[b].row
              /\ IsExpired(maker[b].row)
        /\ \A x, y \in cleaner[c].at : x = y
        /\ cleaner[c].pc = "save" =>
              \A b \in cleaner[c].at : b \notin files[maker[b].path].of

\* What is in the files f of a maker m of b whose name no other backup has, at time t.
Whole(b) == [of |-> {b}, ended |-> {b}]
Begun(b) == [of |-> {b}, ended |-> {}]
WholeOf(b, m, f, t) ==
    /\ m.pc = "dump" => m.linked /\ f[m.opened] = Begun(b)
    /\ m.pc \in {"zip", "copy", "remove"} => f[m.opened] = Whole(b)
    /\ m.pc = "copy" => m.linked /\ f[m.path] = Begun(b) /\ m.read = Whole(b)
    /\ m.pc \in {"remove", "sum", "complete"} => f[m.path] = Whole(b)
    /\ m.pc = "complete" => m.read = Whole(b)
    /\ m.row.status = "completed" =>
          /\ m.row.checksum = Whole(b)
          /\ t <= m.row.expires => f[m.path] = Whole(b)
WholeInv == \A b \in Backups : ~Shared(b) => WholeOf(b, maker[b], files, clock)

SoundInv == BackupTypeOK /\ PathsInv /\ RowsInv /\ FilesInv /\ CleanersInv /\ WholeInv

-----------------------------------------------------------------------------
(* Type correctness.                                                       *)

LEMMA NameFacts ==
    /\ NoName \notin Names
    /\ \A n \in Names : /\ n[1] \in {"sql", "sql.gz", "tar", "tar.gz"} /\ n[2] \in 0 .. MaxClock
                        /\ Zipped(n) \in Names /\ Zipped(n) = <<"sql.gz", n[2]>>
                        /\ Zipped(n)[1] = "sql.gz" /\ Zipped(n)[2] = n[2]
                        /\ n = <<n[1], n[2]>>
<1>1. NoName \notin Names
    BY DEF NoName, Names
<1>2. ASSUME NEW n \in Names
      PROVE  n[1] \in {"sql", "sql.gz", "tar", "tar.gz"} /\ n[2] \in 0 .. MaxClock /\ n = <<n[1], n[2]>>
    BY DEF Names
<1>3. ASSUME NEW n \in Names
      PROVE  <<"sql.gz", n[2]>> \in Names
    BY <1>2 DEF Names
<1> QED BY <1>1, <1>2, <1>3 DEF Zipped

LEMMA MissingIs == Missing \in Contents /\ Missing.of = {} /\ Missing.ended = {}
    BY DEF Missing, Contents

LEMMA NewRows ==
    /\ NewBackup \in RowRecords /\ [NewBackup EXCEPT !.status = "failed"] \in RowRecords
    /\ NewBackup.status = "in_progress" /\ [NewBackup EXCEPT !.status = "failed"].status = "failed"
    /\ NoRow.status = "none" /\ NoRow \notin RowRecords
    BY MissingIs DEF NewBackup, RowRecords, Paths, NoRow

LEMMA BackupTypeInit == BackupsInit => BackupTypeOK
<1> SUFFICES ASSUME BackupsInit PROVE BackupTypeOK
    OBVIOUS
<1>1. NoMaker \in MakerRecords
    BY NewRows, MissingIs DEF NoMaker, MakerRecords, Paths
<1>2. troubles \in [deletions : Nat, failures : Nat, deaths : Nat]
    BY BackupsAssumption DEF BackupsInit
<1> QED BY <1>1, <1>2, MissingIs, BackupsAssumption DEF BackupsInit, BackupTypeOK

LEMMA MakerUpdate ==
    ASSUME NEW m \in MakerRecords
    PROVE  /\ \A pc \in {"schedule", "done", "failed", "dead"} \cup Dumping :
                  /\ [m EXCEPT !.pc = pc] \in MakerRecords
                  /\ [m EXCEPT !.pc = pc, !.linked = FALSE] \in MakerRecords
                  /\ [m EXCEPT !.linked = FALSE, !.pc = pc] \in MakerRecords
                  /\ \A row \in RowRecords : [m EXCEPT !.row = row, !.pc = pc] \in MakerRecords
                  /\ \A x \in Contents : [m EXCEPT !.pc = pc, !.read = x] \in MakerRecords
           /\ \A l \in BOOLEAN : [m EXCEPT !.linked = l] \in MakerRecords
           /\ \A o \in Orders : [m EXCEPT !.pc = "open", !.order = o] \in MakerRecords
           /\ \A n \in Names : [m EXCEPT !.pc = "dump", !.path = n, !.linked = TRUE, !.opened = n]
                                  \in MakerRecords
           /\ \A n, s \in Paths, x \in Contents :
                  [m EXCEPT !.pc = "copy", !.path = n, !.linked = TRUE, !.source = s, !.read = x]
                      \in MakerRecords
           /\ m.path \in Paths /\ m.source \in Paths /\ m.read \in Contents /\ m.row \in RowRecords
           /\ m.linked \in BOOLEAN
<1> DEFINE Pcs == {"idle", "schedule", "done", "failed", "dead"} \cup Dumping
<1>0. /\ {"open", "dump", "copy", "schedule", "done", "failed", "dead"} \subseteq Pcs
      /\ Names \subseteq Paths /\ Dumping \subseteq Pcs
    BY DEF Dumping, Paths
<1>1. m \in [pc : Pcs, order : Orders \cup {NoMaker.order}, path : Paths, linked : BOOLEAN,
             source : Paths, opened : Paths, read : Contents, row : RowRecords]
    BY DEF MakerRecords
<1> HIDE DEF Pcs
<1>2. \A pc \in Pcs :
          /\ [m EXCEPT !.pc = pc] \in MakerRecords
          /\ [m EXCEPT !.pc = pc, !.linked = FALSE] \in MakerRecords
          /\ [m EXCEPT !.linked = FALSE, !.pc = pc] \in MakerRecords
    BY <1>1 DEF MakerRecords, Pcs
<1>3. \A pc \in Pcs, row \in RowRecords : [m EXCEPT !.row = row, !.pc = pc] \in MakerRecords
    BY <1>1 DEF MakerRecords, Pcs
<1>4. \A pc \in Pcs, x \in Contents : [m EXCEPT !.pc = pc, !.read = x] \in MakerRecords
    BY <1>1 DEF MakerRecords, Pcs
<1>5. \A l \in BOOLEAN : [m EXCEPT !.linked = l] \in MakerRecords
    BY <1>1 DEF MakerRecords, Pcs
<1>6. \A o \in Orders : [m EXCEPT !.pc = "open", !.order = o] \in MakerRecords
    BY <1>0, <1>1 DEF MakerRecords, Pcs
<1>7. \A n \in Names : [m EXCEPT !.pc = "dump", !.path = n, !.linked = TRUE, !.opened = n]
                           \in MakerRecords
    BY <1>0, <1>1 DEF MakerRecords, Pcs
<1>8. \A n, s \in Paths, x \in Contents :
          [m EXCEPT !.pc = "copy", !.path = n, !.linked = TRUE, !.source = s, !.read = x]
              \in MakerRecords
    BY <1>0, <1>1 DEF MakerRecords, Pcs
<1>9. /\ m.path \in Paths /\ m.source \in Paths /\ m.read \in Contents /\ m.row \in RowRecords
      /\ m.linked \in BOOLEAN
    BY <1>1
<1> QED BY <1>0, <1>2, <1>3, <1>4, <1>5, <1>6, <1>7, <1>8, <1>9 DEF Pcs

LEMMA UnlinkedIs ==
    ASSUME BackupTypeOK, NEW n
    PROVE  /\ Unlinked(n) \in [Backups -> MakerRecords]
           /\ \A b \in Backups :
                 /\ maker[b].path # n => Unlinked(n)[b] = maker[b]
                 /\ maker[b].path = n => Unlinked(n)[b] = [maker[b] EXCEPT !.linked = FALSE]
<1>1. ASSUME NEW b \in Backups
      PROVE  /\ Unlinked(n)[b] \in MakerRecords
             /\ maker[b].path # n => Unlinked(n)[b] = maker[b]
             /\ maker[b].path = n => Unlinked(n)[b] = [maker[b] EXCEPT !.linked = FALSE]
  <2>1. maker[b] \in MakerRecords /\ maker[b].linked \in BOOLEAN
    BY DEF BackupTypeOK, MakerRecords
  <2>2. Unlinked(n)[b] = [maker[b] EXCEPT !.linked = maker[b].linked /\ maker[b].path # n]
    BY DEF Unlinked
  <2>3. [maker[b] EXCEPT !.linked = maker[b].linked] = maker[b]
    BY <2>1 DEF MakerRecords
  <2>4. CASE maker[b].path # n
    <3>1. (maker[b].linked /\ maker[b].path # n) = maker[b].linked
      BY <2>1, <2>4
    <3> QED BY <2>1, <2>2, <2>3, <2>4, <3>1
  <2>5. CASE maker[b].path = n
    <3>1. (maker[b].linked /\ maker[b].path # n) = FALSE
      BY <2>5
    <3> QED BY <2>1, <2>2, <2>5, <3>1, MakerUpdate
  <2> QED BY <2>4, <2>5
<1> QED BY <1>1 DEF Unlinked

LEMMA OpenTypes ==
    ASSUME BackupTypeOK, NEW n \in Names, NEW b \in Backups, Open(n, b)
    PROVE  /\ files' \in [Names -> Contents]
           /\ files'[n].of = Writers(n) \cup {b} /\ files'[n].ended = {}
           /\ files'[n] = [of |-> Writers(n) \cup {b}, ended |-> {}]
           /\ \A k \in Names \ {n} : files'[k] = files[k]
<1>1. Writers(n) \subseteq Backups
    BY DEF Writers
<1>2. [of |-> Writers(n) \cup {b}, ended |-> {}] \in Contents
    BY <1>1 DEF Contents
<1> QED BY <1>2 DEF Open, BackupTypeOK

LEMMA WriteTypes ==
    ASSUME BackupTypeOK, NEW b \in Backups, NEW whole \in BOOLEAN, Write(b, whole),
           maker[b].linked => maker[b].path \in Names
    PROVE  /\ files' \in [Names -> Contents]
           /\ \A k \in Names : \/ files'[k] = files[k]
                                \/ /\ k = maker[b].path /\ maker[b].linked /\ whole
                                   /\ files'[k] = [files[k] EXCEPT !.ended = @ \cup {b}]
                                   /\ files'[k].of = files[k].of
                                   /\ files'[k].ended = files[k].ended \cup {b}
           /\ maker[b].linked /\ whole =>
                 files'[maker[b].path] = [files[maker[b].path] EXCEPT !.ended = @ \cup {b}]
<1>1. ASSUME NEW f \in Contents
      PROVE  /\ [f EXCEPT !.ended = @ \cup {b}] \in Contents
             /\ [f EXCEPT !.ended = @ \cup {b}].of = f.of
             /\ [f EXCEPT !.ended = @ \cup {b}].ended = f.ended \cup {b}
             /\ [f EXCEPT !.ended = f.ended] = f
    BY DEF Contents
<1>2. CASE ~maker[b].linked
    BY <1>2 DEF Write, BackupTypeOK
<1>3. CASE maker[b].linked /\ ~whole
  <2>1. files' = [files EXCEPT ![maker[b].path] = [files[maker[b].path] EXCEPT !.ended = files[maker[b].path].ended]]
    BY <1>3 DEF Write, BackupTypeOK
  <2> QED BY <1>1, <1>3, <2>1 DEF BackupTypeOK
<1>4. CASE maker[b].linked /\ whole
  <2>1. files' = [files EXCEPT ![maker[b].path] = [files[maker[b].path] EXCEPT !.ended = @ \cup {b}]]
    BY <1>4 DEF Write, BackupTypeOK
  <2> QED BY <1>1, <1>4, <2>1 DEF BackupTypeOK
<1> QED BY <1>2, <1>3, <1>4

\* A step of the maker of one backup.
MakerStep(b) ==
    \/ \E order \in Orders : CreateBackup(b, order)
    \/ OpenFile(b) \/ Dump(b) \/ OpenZip(b) \/ Copy(b) \/ Remove(b)
    \/ CalculateChecksum(b) \/ Complete(b) \/ MarkScheduled(b)
    \/ Fail(b) \/ DieMaking(b)

\* What it leaves alone of the makers of the others.
OthersKeep(b) ==
    \A o \in Backups \ {b} :
        \/ maker'[o] = maker[o]
        \/ /\ maker'[o] = [maker[o] EXCEPT !.linked = FALSE]
           /\ BelongsTo(maker[o].path, b) /\ maker[o].path \in Names

\* The record of b is m after the step, and that of the backup is row.
Becomes(b, m, row) ==
    /\ m \in MakerRecords /\ row \in RowRecords \cup {NoRow}
    /\ maker' \in [Backups -> MakerRecords] /\ maker'[b] = m /\ OthersKeep(b)
    /\ record' \in [Backups -> RowRecords \cup {NoRow}] /\ record'[b] = row
    /\ \A o \in Backups \ {b} : record'[o] = record[o]
    /\ UNCHANGED <<cleaner, clock, engine>>

LEMMA Single ==
    ASSUME BackupTypeOK, NEW b \in Backups, NEW m \in MakerRecords,
           NEW row \in RowRecords \cup {NoRow},
           maker' = [maker EXCEPT ![b] = m], record' = [record EXCEPT ![b] = row],
           UNCHANGED <<cleaner, clock, engine>>
    PROVE  Becomes(b, m, row)
    BY DEF BackupTypeOK, Becomes, OthersKeep

\* The facts about the maker of one backup.
LEMMA MakerFacts ==
    ASSUME BackupTypeOK, NEW b \in Backups
    PROVE  /\ maker[b] \in MakerRecords /\ record[b] \in RowRecords \cup {NoRow}
           /\ record = [record EXCEPT ![b] = record[b]]
           /\ clock \in 0 .. MaxClock /\ clock \in Nat /\ MaxClock \in Nat
           /\ troubles \in [deletions : Nat, failures : Nat, deaths : Nat]
           /\ files \in [Names -> Contents]
    BY BackupsAssumption DEF BackupTypeOK

LEMMA PathFacts ==
    ASSUME BackupTypeOK, PathsInv, NEW b \in Backups
    PROVE  /\ maker[b].pc \in (Dumping \ {"open"}) \cup {"schedule", "done"} =>
                  maker[b].opened \in Names /\ maker[b].path \in Names
           /\ maker[b].linked => maker[b].path \in Names /\ maker[b].opened \in Names
           /\ maker[b].opened # NoName => maker[b].opened \in Names /\ maker[b].path \in Names
           /\ maker[b].path \in Names => maker[b].opened \in Names
<1>0. PathsOf(maker[b], clock)
    BY DEF PathsInv
<1>1. maker[b].opened \in Paths /\ maker[b].path \in Paths
  <2>1. maker[b] \in MakerRecords
    BY MakerFacts
  <2> QED BY <2>1 DEF MakerRecords
<1>2. maker[b].opened # NoName => maker[b].opened \in Names
    BY <1>1 DEF Paths
<1>3. maker[b].opened # NoName => maker[b].path \in {maker[b].opened, Zipped(maker[b].opened)}
    BY <1>0 DEF PathsOf
<1>4. maker[b].opened # NoName => maker[b].opened \in Names /\ maker[b].path \in Names
    BY <1>2, <1>3, NameFacts
<1>5. maker[b].pc \in (Dumping \ {"open"}) \cup {"schedule", "done"} => maker[b].opened # NoName
    BY <1>0 DEF PathsOf
<1>6. maker[b].linked => maker[b].opened # NoName
    BY <1>0, <1>5 DEF PathsOf, Dumping
<1>7. maker[b].path \in Names => maker[b].opened # NoName
    BY <1>0, NameFacts DEF PathsOf
<1> QED BY <1>2, <1>4, <1>5, <1>6, <1>7

LEMMA CreateEffects ==
    ASSUME BackupTypeOK, NEW b \in Backups, NEW order \in Orders, CreateBackup(b, order)
    PROVE  /\ maker[b].pc = "idle" /\ UNCHANGED files
           /\ Becomes(b, [maker[b] EXCEPT !.pc = "open", !.order = order], NewBackup)
<1> DEFINE x == [maker[b] EXCEPT !.pc = "open", !.order = order]
<1>1. x \in MakerRecords
    BY MakerFacts, MakerUpdate
<1>2. maker' = [maker EXCEPT ![b] = x] /\ record' = [record EXCEPT ![b] = NewBackup]
    BY DEF CreateBackup, BackupTypeOK
<1>3. maker[b].pc = "idle" /\ UNCHANGED <<files, cleaner, clock, engine>>
    BY DEF CreateBackup, MakerAt
<1> HIDE DEF x
<1>4. Becomes(b, x, NewBackup)
    BY <1>1, <1>2, <1>3, Single, NewRows
<1> QED BY <1>3, <1>4 DEF x

LEMMA OpenFileEffects ==
    ASSUME BackupTypeOK, NEW b \in Backups, OpenFile(b)
    PROVE  /\ maker[b].pc = "open"
           /\ \E n \in Names :
                 /\ n = FileName(maker[b].order) /\ Open(n, b)
                 /\ n[1] \in {"sql", "tar", "tar.gz"} /\ n[2] = clock
                 /\ ~maker[b].order.media => n[1] = "sql"
                 /\ Becomes(b, [maker[b] EXCEPT !.pc = "dump", !.path = n, !.linked = TRUE,
                                               !.opened = n], record[b])
<1> DEFINE n == FileName(maker[b].order)
           x == [maker[b] EXCEPT !.pc = "dump", !.path = n, !.linked = TRUE, !.opened = n]
<1>1. /\ n \in Names /\ n[1] \in {"sql", "tar", "tar.gz"} /\ n[2] = clock
      /\ ~maker[b].order.media => n[1] = "sql"
    BY MakerFacts DEF FileName, Names
<1>2. /\ maker[b].pc = "open" /\ Open(n, b) /\ maker' = [maker EXCEPT ![b] = x]
      /\ UNCHANGED <<record, cleaner, clock, engine>>
    BY DEF OpenFile, MakerAt, BackupTypeOK
<1> HIDE DEF n
<1>3. x \in MakerRecords
    BY <1>1, MakerFacts, MakerUpdate
<1> HIDE DEF x
<1>4. Becomes(b, x, record[b])
    BY <1>2, <1>3, MakerFacts, Single
<1> QED BY <1>1, <1>2, <1>4 DEF x, n

LEMMA DumpEffects ==
    ASSUME BackupTypeOK, NEW b \in Backups, Dump(b)
    PROVE  /\ maker[b].pc = "dump" /\ Write(b, TRUE)
           /\ \E pc \in {"zip", "sum"} :
                 /\ pc = "zip" => ~maker[b].order.media
                 /\ Becomes(b, [maker[b] EXCEPT !.linked = FALSE, !.pc = pc], record[b])
<1> DEFINE pc == IF maker[b].order.compression /\ ~maker[b].order.media THEN "zip" ELSE "sum"
           x == [maker[b] EXCEPT !.linked = FALSE, !.pc = pc]
<1>1. pc \in {"zip", "sum"} /\ (pc = "zip" => ~maker[b].order.media)
    OBVIOUS
<1>2. /\ maker[b].pc = "dump" /\ Write(b, TRUE) /\ maker' = [maker EXCEPT ![b] = x]
      /\ UNCHANGED <<record, cleaner, clock, engine>>
    BY DEF Dump, MakerAt, BackupTypeOK
<1> HIDE DEF pc
<1>3. x \in MakerRecords
  <2>1. pc \in {"schedule", "done", "failed", "dead"} \cup Dumping
    BY <1>1 DEF Dumping
  <2> QED BY <2>1, MakerFacts, MakerUpdate
<1> HIDE DEF x
<1>4. Becomes(b, x, record[b])
    BY <1>2, <1>3, MakerFacts, Single
<1> QED BY <1>1, <1>2, <1>4 DEF x

LEMMA OpenZipEffects ==
    ASSUME BackupTypeOK, PathsInv, NEW b \in Backups, OpenZip(b)
    PROVE  LET z == Zipped(maker[b].path)
           IN  /\ maker[b].pc = "zip" /\ Exists(maker[b].path) /\ z \in Names /\ Open(z, b)
               /\ Becomes(b, [maker[b] EXCEPT !.pc = "copy", !.path = z, !.linked = TRUE,
                                 !.source = maker[b].path, !.read = files[maker[b].path]], record[b])
<1> DEFINE z == Zipped(maker[b].path)
           x == [maker[b] EXCEPT !.pc = "copy", !.path = z, !.linked = TRUE,
                                 !.source = maker[b].path, !.read = files[maker[b].path]]
<1>1. maker[b].pc = "zip" /\ maker[b].path \in Names /\ z \in Names /\ files[maker[b].path] \in Contents
  <2>1. maker[b].pc = "zip"
    BY DEF OpenZip, MakerAt
  <2>2. maker[b].path \in Names
    BY <2>1, PathFacts DEF Dumping
  <2> QED BY <2>1, <2>2, NameFacts, MakerFacts
<1>2. /\ Exists(maker[b].path) /\ Open(z, b) /\ maker' = [maker EXCEPT ![b] = x]
      /\ UNCHANGED <<record, cleaner, clock, engine>>
    BY DEF OpenZip, MakerAt, BackupTypeOK, Zipped
<1> HIDE DEF z
<1>3. x \in MakerRecords
  <2>1. z \in Paths /\ maker[b].path \in Paths
    BY <1>1 DEF Paths
  <2> QED BY <1>1, <2>1, MakerFacts, MakerUpdate
<1> HIDE DEF x
<1>4. Becomes(b, x, record[b])
    BY <1>2, <1>3, MakerFacts, Single
<1> QED BY <1>1, <1>2, <1>4 DEF x, z

LEMMA CopyEffects ==
    ASSUME BackupTypeOK, NEW b \in Backups, Copy(b)
    PROVE  /\ maker[b].pc = "copy" /\ Write(b, maker[b].read.of = maker[b].read.ended)
           /\ Becomes(b, [maker[b] EXCEPT !.pc = "remove", !.linked = FALSE], record[b])
<1> DEFINE x == [maker[b] EXCEPT !.pc = "remove", !.linked = FALSE]
<1>1. x \in MakerRecords
  <2>1. "remove" \in {"schedule", "done", "failed", "dead"} \cup Dumping
    BY DEF Dumping
  <2> QED BY <2>1, MakerFacts, MakerUpdate
<1>2. /\ maker[b].pc = "copy" /\ Write(b, maker[b].read.of = maker[b].read.ended)
      /\ maker' = [maker EXCEPT ![b] = x] /\ UNCHANGED <<record, cleaner, clock, engine>>
    BY DEF Copy, MakerAt, BackupTypeOK
<1> HIDE DEF x
<1>3. Becomes(b, x, record[b])
    BY <1>1, <1>2, MakerFacts, Single
<1> QED BY <1>2, <1>3 DEF x

LEMMA RemoveEffects ==
    ASSUME BackupTypeOK, PathsInv, NEW b \in Backups, Remove(b)
    PROVE  LET n == maker[b].opened
           IN  /\ maker[b].pc = "remove" /\ n \in Names /\ files' = [files EXCEPT ![n] = Missing]
               /\ maker[b].path = Zipped(n) /\ maker[b].path # n
               /\ Becomes(b, [maker[b] EXCEPT !.pc = "sum"], record[b])
               /\ \A o \in Backups \ {b} : maker[o].path = n => ~maker'[o].linked
<1> DEFINE n == maker[b].opened
           x == [maker[b] EXCEPT !.pc = "sum"]
<1>1. /\ maker[b].pc = "remove" /\ n \in Names /\ maker[b].source = n /\ maker[b].path = Zipped(n)
      /\ maker[b].path # n
  <2>1. maker[b].pc = "remove"
    BY DEF Remove, MakerAt
  <2>2. n \in Names /\ maker[b].source = n /\ maker[b].path = Zipped(n)
    BY <2>1, PathFacts DEF Dumping, PathsInv, PathsOf
  <2>3. n[1] \in {"sql", "tar", "tar.gz"}
    BY <2>1, <2>2, NameFacts DEF PathsInv, PathsOf
  <2>4. Zipped(n)[1] = "sql.gz"
    BY <2>2, NameFacts
  <2> QED BY <2>1, <2>2, <2>3, <2>4
<1>2. /\ files' = [files EXCEPT ![n] = Missing] /\ maker' = [Unlinked(n) EXCEPT ![b].pc = "sum"]
      /\ UNCHANGED <<record, cleaner, clock, engine>>
    BY <1>1 DEF Remove
<1>3. x \in MakerRecords
  <2>1. "sum" \in {"schedule", "done", "failed", "dead"} \cup Dumping
    BY DEF Dumping
  <2> QED BY <2>1, MakerFacts, MakerUpdate
<1>4. /\ maker' = [Unlinked(n) EXCEPT ![b] = x] /\ Unlinked(n) \in [Backups -> MakerRecords]
  <2>1. Unlinked(n)[b] = maker[b] /\ Unlinked(n) \in [Backups -> MakerRecords]
    BY <1>1, UnlinkedIs
  <2> HIDE DEF n
  <2> QED BY <1>2, <2>1
<1>5. \A o \in Backups \ {b} : maker'[o] = Unlinked(n)[o]
    BY <1>4
<1>6. \A o \in Backups \ {b} :
          \/ maker'[o] = maker[o] /\ maker[o].path # n
          \/ maker'[o] = [maker[o] EXCEPT !.linked = FALSE] /\ maker[o].path = n
    BY <1>5, UnlinkedIs
<1>7. \A o \in Backups \ {b} : maker[o].path = n => ~maker'[o].linked
    BY <1>6, MakerFacts DEF MakerRecords
<1>8. OthersKeep(b)
    BY <1>1, <1>6 DEF OthersKeep, BelongsTo
<1> HIDE DEF x
<1>9. Becomes(b, x, record[b])
    BY <1>2, <1>3, <1>4, <1>8, MakerFacts DEF Becomes, BackupTypeOK
<1> HIDE DEF n
<1> QED BY <1>1, <1>2, <1>7, <1>9 DEF x, n

LEMMA ChecksumEffects ==
    ASSUME BackupTypeOK, PathsInv, NEW b \in Backups, CalculateChecksum(b)
    PROVE  /\ maker[b].pc = "sum" /\ UNCHANGED files
           /\ Becomes(b, [maker[b] EXCEPT !.pc = "complete", !.read = files[maker[b].path]], record[b])
<1> DEFINE x == [maker[b] EXCEPT !.pc = "complete", !.read = files[maker[b].path]]
<1>1. maker[b].pc = "sum"
    BY DEF CalculateChecksum, MakerAt
<1>2. files[maker[b].path] \in Contents
    BY <1>1, PathFacts, MakerFacts DEF Dumping
<1>3. x \in MakerRecords
  <2>1. "complete" \in {"schedule", "done", "failed", "dead"} \cup Dumping
    BY DEF Dumping
  <2> QED BY <1>2, <2>1, MakerFacts, MakerUpdate
<1>4. maker' = [maker EXCEPT ![b] = x] /\ UNCHANGED <<record, files, cleaner, clock, engine>>
    BY DEF CalculateChecksum, BackupTypeOK
<1> HIDE DEF x
<1>5. Becomes(b, x, record[b])
    BY <1>3, <1>4, MakerFacts, Single
<1> QED BY <1>1, <1>4, <1>5 DEF x

LEMMA CompleteEffects ==
    ASSUME BackupTypeOK, NEW b \in Backups, Complete(b)
    PROVE  LET row == [status |-> "completed", path |-> maker[b].path,
                       checksum |-> maker[b].read, expires |-> clock + Retention]
           IN  /\ maker[b].pc = "complete" /\ UNCHANGED files /\ row \in RowRecords
               /\ \E pc \in {"schedule", "done"} :
                     Becomes(b, [maker[b] EXCEPT !.row = row, !.pc = pc], row)
<1> DEFINE row == [status |-> "completed", path |-> maker[b].path,
                   checksum |-> maker[b].read, expires |-> clock + Retention]
           pc == IF maker[b].order.scheduled THEN "schedule" ELSE "done"
           x == [maker[b] EXCEPT !.row = row, !.pc = pc]
<1>1. row \in RowRecords
  <2>1. maker[b].path \in Paths /\ maker[b].read \in Contents /\ clock + Retention \in Nat
    <3>1. clock \in Nat /\ Retention \in Nat
      BY MakerFacts, BackupsAssumption
    <3>2. maker[b].path \in Paths /\ maker[b].read \in Contents
      BY MakerFacts, MakerUpdate
    <3> QED BY <3>1, <3>2
  <2> QED BY <2>1 DEF RowRecords
<1>2. /\ maker[b].pc = "complete" /\ maker' = [maker EXCEPT ![b] = x]
      /\ record' = [record EXCEPT ![b] = row] /\ UNCHANGED <<files, cleaner, clock, engine>>
    BY DEF Complete, MakerAt, BackupTypeOK
<1>3. pc \in {"schedule", "done"} /\ pc \in {"schedule", "done", "failed", "dead"} \cup Dumping
    OBVIOUS
<1> HIDE DEF row, pc
<1>4. x \in MakerRecords
    BY <1>1, <1>3, MakerFacts, MakerUpdate
<1> HIDE DEF x
<1>5. Becomes(b, x, row)
    BY <1>1, <1>2, <1>4, Single
<1> QED BY <1>1, <1>2, <1>3, <1>5 DEF x, row

LEMMA MarkEffects ==
    ASSUME BackupTypeOK, NEW b \in Backups, MarkScheduled(b)
    PROVE  /\ maker[b].pc = "schedule" /\ UNCHANGED files
           /\ Becomes(b, [maker[b] EXCEPT !.pc = "done"], maker[b].row)
<1> DEFINE x == [maker[b] EXCEPT !.pc = "done"]
<1>1. x \in MakerRecords /\ maker[b].row \in RowRecords
  <2>1. "done" \in {"schedule", "done", "failed", "dead"} \cup Dumping
    OBVIOUS
  <2> QED BY <2>1, MakerFacts, MakerUpdate
<1>2. /\ maker[b].pc = "schedule" /\ maker' = [maker EXCEPT ![b] = x]
      /\ record' = [record EXCEPT ![b] = maker[b].row] /\ UNCHANGED <<files, cleaner, clock, engine>>
    BY DEF MarkScheduled, MakerAt, BackupTypeOK
<1> HIDE DEF x
<1>3. Becomes(b, x, maker[b].row)
    BY <1>1, <1>2, Single
<1> QED BY <1>2, <1>3 DEF x

LEMMA FailEffects ==
    ASSUME BackupTypeOK, NEW b \in Backups, Fail(b)
    PROVE  /\ maker[b].pc \in Dumping \ {"complete"} /\ UNCHANGED files
           /\ Becomes(b, [maker[b] EXCEPT !.pc = "failed", !.linked = FALSE],
                      [NewBackup EXCEPT !.status = "failed"])
<1> DEFINE x == [maker[b] EXCEPT !.pc = "failed", !.linked = FALSE]
           row == [NewBackup EXCEPT !.status = "failed"]
<1>1. x \in MakerRecords /\ row \in RowRecords
    BY MakerFacts, MakerUpdate, NewRows
<1>2. /\ maker[b].pc \in Dumping \ {"complete"} /\ maker' = [maker EXCEPT ![b] = x]
      /\ record' = [record EXCEPT ![b] = row] /\ UNCHANGED <<files, cleaner, clock, engine>>
    BY DEF Fail, BackupTypeOK
<1> HIDE DEF x, row
<1>3. Becomes(b, x, row)
    BY <1>1, <1>2, Single
<1> QED BY <1>2, <1>3 DEF x, row

LEMMA DieEffects ==
    ASSUME BackupTypeOK, NEW b \in Backups, DieMaking(b)
    PROVE  /\ maker[b].pc \in Dumping \cup {"schedule"} /\ UNCHANGED files
           /\ Becomes(b, [maker[b] EXCEPT !.pc = "dead", !.linked = FALSE], record[b])
<1> DEFINE x == [maker[b] EXCEPT !.pc = "dead", !.linked = FALSE]
<1>1. x \in MakerRecords
    BY MakerFacts, MakerUpdate
<1>2. /\ maker[b].pc \in Dumping \cup {"schedule"} /\ maker' = [maker EXCEPT ![b] = x]
      /\ UNCHANGED <<record, files, cleaner, clock, engine>>
    BY DEF DieMaking, BackupTypeOK
<1> HIDE DEF x
<1>3. Becomes(b, x, record[b])
    BY <1>1, <1>2, MakerFacts, Single
<1> QED BY <1>2, <1>3 DEF x
-----------------------------------------------------------------------------
(* What a step of a maker does to its own files and rows.                  *)

\* Only the files of b change, and only b comes to be in one.
OwnFilesOnly(b, m) ==
    /\ files' \in [Names -> Contents]
    /\ \A n \in Names : n \notin {m.opened, m.path} => files'[n] = files[n]
    /\ \A n \in Names, o \in Backups \ {b} : o \in files'[n].of => o \in files[n].of

\* After it has completed, a maker keeps its files and its row.
KeepsRow(b, m) ==
    maker[b].row.status = "completed" =>
        m.row = maker[b].row /\ m.path = maker[b].path /\ UNCHANGED files

LEMMA FieldFacts ==
    ASSUME NEW m \in MakerRecords
    PROVE  LET x == [m EXCEPT !.linked = FALSE]
           IN  /\ x.pc = m.pc /\ x.order = m.order /\ x.path = m.path
               /\ x.linked = FALSE /\ x.source = m.source /\ x.opened = m.opened /\ x.read = m.read
               /\ x.row = m.row
<1> DEFINE P == {"idle", "schedule", "done", "failed", "dead"} \cup Dumping
           O == Orders \cup {NoMaker.order}
<1>1. m \in [pc : P, order : O, path : Paths, linked : BOOLEAN,
             source : Paths, opened : Paths, read : Contents, row : RowRecords]
    BY DEF MakerRecords
<1> HIDE DEF P, O
<1> QED BY <1>1

\* The makers of the others, field by field.
LEMMA OthersFields ==
    ASSUME BackupTypeOK, NEW b \in Backups, NEW o \in Backups \ {b}, OthersKeep(b)
    PROVE  /\ maker'[o].pc = maker[o].pc /\ maker'[o].order = maker[o].order
           /\ maker'[o].path = maker[o].path /\ maker'[o].source = maker[o].source
           /\ maker'[o].opened = maker[o].opened /\ maker'[o].read = maker[o].read
           /\ maker'[o].row = maker[o].row /\ (maker'[o].linked => maker[o].linked)
           /\ maker'[o].linked # maker[o].linked =>
                  BelongsTo(maker[o].path, b) /\ maker[o].path \in Names
<1>1. maker[o] \in MakerRecords
    BY MakerFacts
<1>2. CASE maker'[o] = maker[o]
    BY <1>2
<1>3. CASE /\ maker'[o] = [maker[o] EXCEPT !.linked = FALSE]
           /\ BelongsTo(maker[o].path, b) /\ maker[o].path \in Names
    BY <1>1, <1>3, FieldFacts
<1> QED BY <1>2, <1>3 DEF OthersKeep

\* The parts of the invariant follow from what they say of b.
LEMMA PathsKept ==
    ASSUME BackupTypeOK, PathsInv, NEW b \in Backups, NEW m, NEW row, Becomes(b, m, row),
           PathsOf(m, clock)
    PROVE  PathsInv'
<1>1. ASSUME NEW o \in Backups \ {b}
      PROVE  PathsOf(maker'[o], clock)
  <2>1. PathsOf(maker[o], clock)
    BY DEF PathsInv
  <2>2. OthersKeep(b)
    BY DEF Becomes
  <2> QED BY <2>1, <2>2, OthersFields DEF PathsOf
<1>2. maker'[b] = m /\ clock' = clock
    BY DEF Becomes
<1> QED BY <1>1, <1>2 DEF PathsInv

LEMMA RowsKept ==
    ASSUME BackupTypeOK, RowsInv, NEW b \in Backups, NEW m, NEW row, Becomes(b, m, row),
           RowsOf(m, row)
    PROVE  RowsInv'
<1>1. ASSUME NEW o \in Backups \ {b}
      PROVE  RowsOf(maker'[o], record'[o])
  <2>1. RowsOf(maker[o], record[o])
    BY DEF RowsInv
  <2>2. OthersKeep(b) /\ record'[o] = record[o]
    BY DEF Becomes
  <2> QED BY <2>1, <2>2, OthersFields DEF RowsOf
<1>2. maker'[b] = m /\ record'[b] = row
    BY DEF Becomes
<1> QED BY <1>1, <1>2 DEF RowsInv

LEMMA FilesKept ==
    ASSUME BackupTypeOK, FilesInv, NEW b \in Backups, NEW m, NEW row, Becomes(b, m, row),
           OwnFilesOnly(b, m),
           m.linked => b \in files'[m.path].of,
           \A n \in Names : b \in files'[n].of => Answers(n, m, row),
           \A n \in Names : files'[n].ended \subseteq files'[n].of,
           \A o \in Backups \ {b} : maker'[o].linked => o \in files'[maker[o].path].of
    PROVE  FilesInv'
<1>1. maker'[b] = m /\ record'[b] = row /\ OthersKeep(b)
    BY DEF Becomes
<1>2. ASSUME NEW o \in Backups
      PROVE  maker'[o].linked => o \in files'[maker'[o].path].of
    BY <1>1, <1>2, OthersFields
<1>3. ASSUME NEW n \in Names, NEW o \in files'[n].of
      PROVE  Answers(n, maker'[o], record'[o])
  <2>1. o \in Backups
    BY DEF OwnFilesOnly, Contents
  <2>2. CASE o = b
    BY <1>1, <1>3, <2>2
  <2>3. CASE o # b
    <3>1. Answers(n, maker[o], record[o])
      BY <2>1, <2>3 DEF FilesInv, OwnFilesOnly
    <3>2. record'[o] = record[o]
      BY <2>1, <2>3 DEF Becomes
    <3> QED BY <1>1, <2>1, <2>3, <3>1, <3>2, OthersFields DEF Answers
  <2> QED BY <2>2, <2>3
<1> QED BY <1>2, <1>3 DEF FilesInv

LEMMA CleanersKept ==
    ASSUME BackupTypeOK, PathsInv, RowsInv, CleanersInv, NEW b \in Backups, NEW m, NEW row,
           Becomes(b, m, row), OwnFilesOnly(b, m), KeepsRow(b, m)
    PROVE  CleanersInv'
<1> SUFFICES ASSUME NEW c \in Cleaners, cleaner'[c] # NoCleaner
             PROVE  /\ \A o \in DOMAIN cleaner'[c].row :
                          /\ cleaner'[c].row[o] = maker'[o].row
                          /\ IsExpired(maker[o].row)'
                    /\ \A x, y \in cleaner'[c].at : x = y
                    /\ cleaner'[c].pc = "save" =>
                          \A o \in cleaner'[c].at : o \notin files'[maker'[o].path].of
    BY DEF CleanersInv
<1>1. cleaner' = cleaner /\ clock' = clock /\ maker'[b] = m /\ OthersKeep(b)
    BY DEF Becomes
<1>2. PICK D \in SUBSET Backups : cleaner[c] \in CleanerRecords(D)
    BY <1>1 DEF BackupTypeOK
<1>3. DOMAIN cleaner[c].row = D /\ cleaner[c].at \subseteq D
    BY <1>2 DEF CleanerRecords
<1>4. ASSUME NEW o \in D
      PROVE  /\ maker'[o].row = maker[o].row /\ maker'[o].path = maker[o].path
             /\ cleaner[c].row[o] = maker[o].row /\ IsExpired(maker[o].row)
             /\ o = b => UNCHANGED files
  <2>1. cleaner[c].row[o] = maker[o].row /\ IsExpired(maker[o].row)
    BY <1>1, <1>3 DEF CleanersInv
  <2>2. CASE o = b
    BY <1>1, <2>1, <2>2 DEF KeepsRow, IsExpired
  <2>3. CASE o # b
    BY <1>1, <2>1, <2>3, OthersFields
  <2> QED BY <2>2, <2>3
<1>5. \A o \in DOMAIN cleaner'[c].row :
          cleaner'[c].row[o] = maker'[o].row /\ IsExpired(maker[o].row)'
    BY <1>1, <1>3, <1>4 DEF IsExpired
<1>6. ASSUME cleaner[c].pc = "save", NEW o \in cleaner[c].at
      PROVE  o \notin files'[maker'[o].path].of
  <2>1. o \notin files[maker[o].path].of /\ o \in D
    BY <1>1, <1>3, <1>6 DEF CleanersInv
  <2>2. CASE o = b
    BY <1>4, <2>1, <2>2
  <2>3. CASE o # b
    <3>1. maker[o].row.status = "completed"
      BY <1>4, <2>1 DEF IsExpired
    <3>2. maker[o].path \in Names
      BY <2>1, <3>1, PathFacts DEF RowsInv, RowsOf
    <3>3. o \notin files'[maker[o].path].of
      BY <2>1, <2>3, <3>2 DEF OwnFilesOnly
    <3> QED BY <1>4, <2>1, <3>3
  <2> QED BY <2>2, <2>3
<1> QED BY <1>1, <1>5, <1>6 DEF CleanersInv
LEMMA OwnApart ==
    ASSUME NEW m \in MakerRecords, NEW x \in MakerRecords, PathsOf(m, clock), PathsOf(x, clock),
           NEW n \in Names, n \in {m.opened, m.path}, n \in {x.opened, x.path}
    PROVE  m.opened = x.opened
<1>1. m.opened \in Paths /\ x.opened \in Paths
    BY DEF MakerRecords
<1>2. m.opened \in Names /\ x.opened \in Names
    BY <1>1, NameFacts DEF PathsOf, Paths
<1>3. /\ m.opened[1] \in {"sql", "tar", "tar.gz"} /\ x.opened[1] \in {"sql", "tar", "tar.gz"}
      /\ m.path # m.opened => m.path = Zipped(m.opened) /\ m.opened[1] = "sql"
      /\ x.path # x.opened => x.path = Zipped(x.opened) /\ x.opened[1] = "sql"
    BY <1>2, NameFacts DEF PathsOf
<1>4. CASE n = m.opened /\ n = x.opened
    BY <1>4
<1>5. CASE n = m.opened /\ n # x.opened
  <2>1. n = Zipped(x.opened)
    BY <1>3, <1>5
  <2> QED BY <1>2, <1>3, <1>5, <2>1, NameFacts
<1>6. CASE n # m.opened /\ n = x.opened
  <2>1. n = Zipped(m.opened)
    BY <1>3, <1>6
  <2> QED BY <1>2, <1>3, <1>6, <2>1, NameFacts
<1>7. CASE n # m.opened /\ n # x.opened
  <2>1. n = Zipped(m.opened) /\ n = Zipped(x.opened) /\ m.opened[1] = "sql" /\ x.opened[1] = "sql"
    BY <1>3, <1>7
  <2>2. m.opened[2] = x.opened[2]
    <3>1. Zipped(m.opened)[2] = m.opened[2] /\ Zipped(x.opened)[2] = x.opened[2]
      BY <1>2, NameFacts
    <3> QED BY <2>1, <3>1
  <2>3. m.opened = <<m.opened[1], m.opened[2]>> /\ x.opened = <<x.opened[1], x.opened[2]>>
    BY <1>2, NameFacts
  <2> QED BY <2>1, <2>2, <2>3
<1> QED BY <1>4, <1>5, <1>6, <1>7

\* What has not been opened has nothing to be whole.
LEMMA Vacuous ==
    ASSUME NEW m, NEW row, PathsOf(m, clock), RowsOf(m, row), m.opened = NoName, NEW b, NEW f, NEW t
    PROVE  WholeOf(b, m, f, t)
    BY DEF PathsOf, RowsOf, WholeOf, Dumping

LEMMA WholeKept ==
    ASSUME BackupTypeOK, PathsInv, RowsInv, WholeInv, NEW b \in Backups, NEW m, NEW row,
           Becomes(b, m, row), PathsOf(m, clock), OwnFilesOnly(b, m),
           maker[b].opened # NoName => m.opened = maker[b].opened,
           Shared(b)' \/ WholeOf(b, m, files', clock)
    PROVE  WholeInv'
<1>1. maker'[b] = m /\ clock' = clock /\ OthersKeep(b) /\ m \in MakerRecords
    BY DEF Becomes
<1>2. ASSUME NEW o \in Backups \ {b}, ~Shared(o)'
      PROVE  WholeOf(o, maker'[o], files', clock)
  <2>0. maker[o] \in MakerRecords /\ PathsOf(maker[o], clock) /\ RowsOf(maker[o], record[o])
        /\ maker[b] \in MakerRecords /\ PathsOf(maker[b], clock)
    BY MakerFacts DEF PathsInv, RowsInv
  <2>1. CASE maker[o].opened = NoName
    <3>1. WholeOf(o, maker[o], files', clock)
      BY <2>0, <2>1, Vacuous
    <3>2. maker[o].pc \notin {"dump", "copy"}
      BY <2>0, <2>1 DEF PathsOf, Dumping
    <3> QED BY <1>1, <3>1, <3>2, OthersFields DEF WholeOf
  <2>2. CASE maker[o].opened # NoName
    <3>1. maker'[o].opened = maker[o].opened /\ m.opened # maker[o].opened
      BY <1>1, <1>2, OthersFields DEF Shared
    <3>2. ~Shared(o)
      <4> SUFFICES ASSUME NEW x \in Backups \ {o}, maker[x].opened = maker[o].opened
                   PROVE  FALSE
          BY DEF Shared
      <4>1. CASE x = b
        BY <2>2, <3>1, <4>1
      <4>2. CASE x # b
        <5>1. maker'[x].opened = maker'[o].opened
          BY <1>1, <3>1, <4>2, OthersFields
        <5> QED BY <1>2, <5>1 DEF Shared
      <4> QED BY <4>1, <4>2
    <3>3. WholeOf(o, maker[o], files, clock)
      BY <3>2 DEF WholeInv
    <3>4. maker[o].opened \in Names /\ maker[o].path \in Names
      BY <2>2, PathFacts
    <3>5. \A n \in {maker[o].opened, maker[o].path} : files'[n] = files[n]
      <4> SUFFICES ASSUME NEW n \in {maker[o].opened, maker[o].path}
                   PROVE  files'[n] = files[n]
          OBVIOUS
      <4>1. n \in Names
        BY <3>4
      <4>2. n \notin {m.opened, m.path}
        BY <1>1, <2>0, <3>1, <4>1, OwnApart
      <4> QED BY <4>1, <4>2 DEF OwnFilesOnly
    <3>6. maker'[o].linked = maker[o].linked
      <4> SUFFICES ASSUME maker'[o].linked # maker[o].linked
                   PROVE  FALSE
          OBVIOUS
      <4>1. BelongsTo(maker[o].path, b)
        BY <1>1, OthersFields
      <4>2. maker[o].opened = maker[b].opened
        BY <2>0, <3>4, <4>1, OwnApart DEF BelongsTo
      <4> QED BY <2>2, <3>1, <4>2
    <3> QED BY <1>1, <3>3, <3>5, <3>6, OthersFields DEF WholeOf
  <2> QED BY <2>1, <2>2
<1> QED BY <1>1, <1>2 DEF WholeInv
-----------------------------------------------------------------------------
(* The steps of a maker keep the invariant.                                *)

\* The step of a maker to m and row, and what it has to show.
Kept(b, m, row) ==
    /\ Becomes(b, m, row) /\ OwnFilesOnly(b, m) /\ KeepsRow(b, m)
    /\ maker[b].opened # NoName => m.opened = maker[b].opened
    /\ PathsOf(m, clock) /\ RowsOf(m, row)
    /\ m.linked => b \in files'[m.path].of
    /\ \A n \in Names : b \in files'[n].of => Answers(n, m, row)
    /\ \A n \in Names : files'[n].ended \subseteq files'[n].of
    /\ \A o \in Backups \ {b} : maker'[o].linked => o \in files'[maker[o].path].of
    /\ Shared(b)' \/ WholeOf(b, m, files', clock)

LEMMA KeptIsEnough ==
    ASSUME SoundInv, NEW b \in Backups, NEW m, NEW row, Kept(b, m, row)
    PROVE  (PathsInv /\ RowsInv /\ FilesInv /\ CleanersInv /\ WholeInv)'
<1>1. PathsInv'
    BY PathsKept DEF SoundInv, Kept
<1>2. RowsInv'
    BY RowsKept DEF SoundInv, Kept
<1>3. FilesInv'
    BY FilesKept DEF SoundInv, Kept
<1>4. CleanersInv'
    BY CleanersKept DEF SoundInv, Kept
<1>5. WholeInv'
    BY WholeKept DEF SoundInv, Kept
<1> QED BY <1>1, <1>2, <1>3, <1>4, <1>5

\* What the invariant says of one backup.
LEMMA OfOne ==
    ASSUME SoundInv, NEW b \in Backups
    PROVE  /\ maker[b] \in MakerRecords /\ PathsOf(maker[b], clock) /\ RowsOf(maker[b], record[b])
           /\ maker[b].linked => b \in files[maker[b].path].of
           /\ \A n \in Names : b \in files[n].of => Answers(n, maker[b], record[b])
           /\ \A n \in Names : files[n] \in Contents /\ files[n].ended \subseteq files[n].of
           /\ Shared(b) \/ WholeOf(b, maker[b], files, clock)
    BY MakerFacts DEF SoundInv, PathsInv, RowsInv, FilesInv, WholeInv

\* A step that leaves the files alone.
LEMMA StillKept ==
    ASSUME SoundInv, NEW b \in Backups, NEW m, NEW row, Becomes(b, m, row), UNCHANGED files,
           m.opened = maker[b].opened, m.path = maker[b].path, m.linked => maker[b].linked,
           maker[b].row.status = "completed" => m.row = maker[b].row,
           PathsOf(m, clock), RowsOf(m, row),
           \A n \in Names : b \in files[n].of => Answers(n, m, row),
           Shared(b) \/ WholeOf(b, m, files, clock)
    PROVE  (PathsInv /\ RowsInv /\ FilesInv /\ CleanersInv /\ WholeInv)'
<1>0. BackupTypeOK /\ OthersKeep(b) /\ maker'[b] = m
    BY DEF SoundInv, Becomes
<1>1. OwnFilesOnly(b, m) /\ KeepsRow(b, m)
    BY <1>0 DEF OwnFilesOnly, KeepsRow, BackupTypeOK
<1>2. \A o \in Backups \ {b} : maker'[o].linked => o \in files'[maker[o].path].of
    BY <1>0, OthersFields, OfOne
<1>3. Shared(b) => Shared(b)'
  <2> SUFFICES ASSUME NEW o \in Backups \ {b}, maker[o].opened = maker[b].opened
               PROVE  Shared(b)'
      BY DEF Shared
  <2>1. maker'[o].opened = maker[o].opened
    BY <1>0, OthersFields
  <2> QED BY <1>0, <2>1 DEF Shared
<1>4. m.linked => b \in files'[m.path].of
    BY OfOne
<1>5. Kept(b, m, row)
    BY <1>1, <1>2, <1>3, <1>4, OfOne DEF Kept
<1> QED BY <1>5, KeptIsEnough
\* A backup that shares its names with none had not shared them before.
LEMMA NotSharedBefore ==
    ASSUME BackupTypeOK, NEW b \in Backups, OthersKeep(b), maker'[b].opened = maker[b].opened,
           ~Shared(b)'
    PROVE  ~Shared(b)
    BY OthersFields DEF Shared

\* When a file is opened, its writers go on, and no one else has it any more.
LEMMA OpenKeeps ==
    ASSUME SoundInv, NEW b \in Backups, NEW n \in Names, Open(n, b), OthersKeep(b),
           NEW m \in MakerRecords, m.path = n, PathsOf(m, clock)
    PROVE  /\ OwnFilesOnly(b, m)
           /\ b \in files'[n].of
           /\ \A x \in Names : b \in files'[x].of => x = n \/ b \in files[x].of
           /\ \A x \in Names \ {n} : files'[x] = files[x]
           /\ \A x \in Names : files'[x].ended \subseteq files'[x].of
           /\ \A o \in Backups \ {b} : maker'[o].linked => o \in files'[maker[o].path].of
           /\ ~maker[b].linked /\ maker'[b].opened = m.opened /\ ~Shared(b)' => files'[n] = Begun(b)
<1>0. BackupTypeOK /\ PathsInv
    BY DEF SoundInv
<1>1. /\ files' \in [Names -> Contents]
      /\ files'[n].of = Writers(n) \cup {b} /\ files'[n].ended = {}
      /\ files'[n] = [of |-> Writers(n) \cup {b}, ended |-> {}]
      /\ \A x \in Names \ {n} : files'[x] = files[x]
    BY <1>0, OpenTypes
<1>2. \A o \in Writers(n) : o \in Backups /\ maker[o].linked /\ o \in files[n].of /\ maker[o].opened = m.opened
  <2> SUFFICES ASSUME NEW o \in Writers(n)
               PROVE  o \in Backups /\ maker[o].linked /\ o \in files[n].of /\ maker[o].opened = m.opened
      OBVIOUS
  <2>1. o \in Backups /\ maker[o].path = n /\ maker[o].linked
    BY DEF Writers
  <2>2. maker[o].opened \in Names
    BY <1>0, <2>1, PathFacts
  <2>3. maker[o].opened = m.opened
    BY <2>1, OfOne, OwnApart
  <2> QED BY <2>1, <2>3, OfOne
<1>3. OwnFilesOnly(b, m)
    BY <1>1, <1>2 DEF OwnFilesOnly
<1>4. \A x \in Names : files'[x].ended \subseteq files'[x].of
    BY <1>1, OfOne
<1>5. \A o \in Backups \ {b} : maker'[o].linked => o \in files'[maker[o].path].of
  <2> SUFFICES ASSUME NEW o \in Backups \ {b}, maker'[o].linked
               PROVE  o \in files'[maker[o].path].of
      OBVIOUS
  <2>1. maker[o].linked
    BY <1>0, OthersFields
  <2>2. maker[o].path \in Names /\ maker[o].pc \in {"dump", "copy"}
    BY <1>0, <2>1, PathFacts, OfOne DEF PathsOf
  <2>3. CASE maker[o].path = n
    <3>1. o \in Writers(n)
      BY <2>1, <2>2, <2>3 DEF Writers
    <3> QED BY <1>1, <2>3, <3>1
  <2>4. CASE maker[o].path # n
    BY <1>1, <2>1, <2>2, <2>4, OfOne
  <2> QED BY <2>3, <2>4
<1>6. ASSUME ~maker[b].linked, maker'[b].opened = m.opened, ~Shared(b)'
      PROVE  files'[n] = Begun(b)
  <2>1. Writers(n) = {}
    <3> SUFFICES ASSUME NEW o \in Writers(n)
                 PROVE  FALSE
        OBVIOUS
    <3>1. o \in Backups \ {b} /\ maker[o].opened = m.opened
      BY <1>2, <1>6
    <3>2. maker'[o].opened = m.opened
      BY <1>0, <3>1, OthersFields
    <3> QED BY <1>6, <3>1, <3>2 DEF Shared
  <2> QED BY <1>1, <2>1 DEF Begun
<1> QED BY <1>1, <1>3, <1>4, <1>5, <1>6

\* Writing to the end of a file changes who has ended and nothing else.
LEMMA WriteKeeps ==
    ASSUME SoundInv, NEW b \in Backups, NEW whole \in BOOLEAN, Write(b, whole), OthersKeep(b),
           NEW m, m.path = maker[b].path
    PROVE  /\ OwnFilesOnly(b, m)
           /\ \A x \in Names : files'[x].of = files[x].of /\ files'[x].ended \subseteq files'[x].of
           /\ \A o \in Backups \ {b} : maker'[o].linked => o \in files'[maker[o].path].of
           /\ \A x \in Names \ {maker[b].path} : files'[x] = files[x]
           /\ maker[b].linked /\ files[maker[b].path] = Begun(b) /\ whole =>
                  files'[maker[b].path] = Whole(b)
<1>0. BackupTypeOK /\ PathsInv /\ (maker[b].linked => maker[b].path \in Names)
    BY PathFacts DEF SoundInv
<1>1. /\ files' \in [Names -> Contents]
      /\ \A k \in Names : \/ files'[k] = files[k]
                           \/ /\ k = maker[b].path /\ maker[b].linked
                              /\ files'[k].of = files[k].of
                              /\ files'[k].ended = files[k].ended \cup {b}
      /\ maker[b].linked /\ whole =>
            files'[maker[b].path] = [files[maker[b].path] EXCEPT !.ended = @ \cup {b}]
    BY <1>0, WriteTypes
<1>2. \A x \in Names : files'[x].of = files[x].of /\ files'[x].ended \subseteq files'[x].of
    BY <1>1, OfOne
<1>3. OwnFilesOnly(b, m)
    BY <1>1, <1>2 DEF OwnFilesOnly
<1>4. \A o \in Backups \ {b} : maker'[o].linked => o \in files'[maker[o].path].of
    BY <1>0, <1>2, OthersFields, OfOne, PathFacts
<1>5. ASSUME maker[b].linked, files[maker[b].path] = Begun(b), whole
      PROVE  files'[maker[b].path] = Whole(b)
  <2>1. files'[maker[b].path] = [Begun(b) EXCEPT !.ended = @ \cup {b}]
    BY <1>1, <1>5
  <2> QED BY <2>1 DEF Begun, Whole
<1> QED BY <1>1, <1>2, <1>3, <1>4, <1>5

LEMMA CreateKeeps ==
    ASSUME SoundInv, NEW b \in Backups, NEW order \in Orders, CreateBackup(b, order)
    PROVE  (PathsInv /\ RowsInv /\ FilesInv /\ CleanersInv /\ WholeInv)'
<1> DEFINE m == [maker[b] EXCEPT !.pc = "open", !.order = order]
<1>1. maker[b].pc = "idle" /\ UNCHANGED files /\ Becomes(b, m, NewBackup)
    BY CreateEffects DEF SoundInv
<1>2. /\ m.pc = "open" /\ m.path = maker[b].path /\ m.opened = maker[b].opened
      /\ m.linked = maker[b].linked /\ m.row = maker[b].row
    BY OfOne DEF MakerRecords
<1> HIDE DEF m
<1>3. maker[b].opened = NoName /\ maker[b].path = NoName /\ ~maker[b].linked
    BY <1>1, OfOne DEF PathsOf
<1>4. maker[b].row.status # "completed"
    BY <1>3, OfOne DEF RowsOf
<1>5. PathsOf(m, clock) /\ RowsOf(m, NewBackup)
    BY <1>2, <1>3, <1>4, NewRows DEF PathsOf, RowsOf, Dumping
<1>6. \A n \in Names : b \notin files[n].of
    BY <1>3, OfOne, NameFacts DEF Answers
<1>7. WholeOf(b, m, files, clock)
    BY <1>2, <1>3, <1>5, Vacuous
<1> QED BY <1>1, <1>2, <1>4, <1>5, <1>6, <1>7, StillKept

LEMMA OpenFileKeeps ==
    ASSUME SoundInv, NEW b \in Backups, OpenFile(b)
    PROVE  (PathsInv /\ RowsInv /\ FilesInv /\ CleanersInv /\ WholeInv)'
<1>0. BackupTypeOK /\ PathsInv
    BY DEF SoundInv
<1>1. PICK n \in Names :
          /\ Open(n, b) /\ n[1] \in {"sql", "tar", "tar.gz"} /\ n[2] = clock
          /\ ~maker[b].order.media => n[1] = "sql"
          /\ Becomes(b, [maker[b] EXCEPT !.pc = "dump", !.path = n, !.linked = TRUE,
                                        !.opened = n], record[b])
    BY <1>0, OpenFileEffects
<1> DEFINE m == [maker[b] EXCEPT !.pc = "dump", !.path = n, !.linked = TRUE, !.opened = n]
<1>2. /\ m.pc = "dump" /\ m.path = n /\ m.opened = n /\ m.linked = TRUE /\ m.row = maker[b].row
      /\ m.order = maker[b].order
    BY OfOne DEF MakerRecords
<1>3. Becomes(b, m, record[b])
    BY <1>1
<1> HIDE DEF m
<1>4. /\ maker[b].pc = "open" /\ maker[b].opened = NoName /\ maker[b].path = NoName
      /\ ~maker[b].linked /\ maker[b].row.status # "completed"
  <2>1. maker[b].pc = "open"
    BY <1>0, OpenFileEffects
  <2>2. maker[b].opened = NoName
    BY <2>1, OfOne DEF PathsOf
  <2> QED BY <2>1, <2>2, OfOne DEF PathsOf, RowsOf
<1>5. PathsOf(m, clock)
  <2>1. n # NoName /\ clock \in 0 .. clock
    BY <1>0, MakerFacts, NameFacts
  <2> QED BY <1>1, <1>2, <2>1 DEF PathsOf
<1>6. RowsOf(m, record[b])
    BY <1>2, <1>4, OfOne DEF RowsOf
<1>7. m \in MakerRecords /\ OthersKeep(b) /\ maker'[b] = m
    BY <1>3 DEF Becomes
<1>8. /\ OwnFilesOnly(b, m)
      /\ b \in files'[n].of
      /\ \A x \in Names : b \in files'[x].of => x = n \/ b \in files[x].of
      /\ \A x \in Names : files'[x].ended \subseteq files'[x].of
      /\ \A o \in Backups \ {b} : maker'[o].linked => o \in files'[maker[o].path].of
      /\ ~Shared(b)' => files'[n] = Begun(b)
    BY <1>1, <1>2, <1>4, <1>5, <1>7, OpenKeeps
<1>9. \A x \in Names : b \in files'[x].of => Answers(x, m, record[b])
  <2>1. \A x \in Names : b \notin files[x].of
    BY <1>4, OfOne, NameFacts DEF Answers
  <2> QED BY <1>2, <1>8, <2>1 DEF Answers, Dumping
<1>10. Shared(b)' \/ WholeOf(b, m, files', clock)
    BY <1>2, <1>4, <1>8 DEF WholeOf
<1>11. Kept(b, m, record[b])
    BY <1>2, <1>3, <1>4, <1>5, <1>6, <1>8, <1>9, <1>10 DEF Kept, KeepsRow
<1> QED BY <1>11, KeptIsEnough

LEMMA DumpKeeps ==
    ASSUME SoundInv, NEW b \in Backups, Dump(b)
    PROVE  (PathsInv /\ RowsInv /\ FilesInv /\ CleanersInv /\ WholeInv)'
<1>0. BackupTypeOK /\ PathsInv
    BY DEF SoundInv
<1>1. PICK pc \in {"zip", "sum"} :
          /\ pc = "zip" => ~maker[b].order.media
          /\ Becomes(b, [maker[b] EXCEPT !.linked = FALSE, !.pc = pc], record[b])
    BY <1>0, DumpEffects
<1> DEFINE m == [maker[b] EXCEPT !.linked = FALSE, !.pc = pc]
<1>2. /\ m.pc = pc /\ m.path = maker[b].path /\ m.opened = maker[b].opened /\ m.linked = FALSE
      /\ m.row = maker[b].row /\ m.order = maker[b].order /\ m.source = maker[b].source
    BY OfOne DEF MakerRecords
<1>3. Becomes(b, m, record[b])
    BY <1>1
<1> HIDE DEF m
<1>4. /\ maker[b].pc = "dump" /\ maker[b].opened \in Names /\ maker[b].path = maker[b].opened
      /\ maker[b].row.status # "completed" /\ Write(b, TRUE)
  <2>1. maker[b].pc = "dump" /\ Write(b, TRUE)
    BY <1>0, DumpEffects
  <2> QED BY <1>0, <2>1, PathFacts, OfOne DEF PathsOf, RowsOf, Dumping
<1>5. PathsOf(m, clock) /\ RowsOf(m, record[b])
    BY <1>1, <1>2, <1>4, OfOne DEF PathsOf, RowsOf, Dumping
<1>6. OthersKeep(b) /\ maker'[b] = m
    BY <1>3 DEF Becomes
<1>7. /\ OwnFilesOnly(b, m)
      /\ \A x \in Names : files'[x].of = files[x].of /\ files'[x].ended \subseteq files'[x].of
      /\ \A o \in Backups \ {b} : maker'[o].linked => o \in files'[maker[o].path].of
      /\ maker[b].linked /\ files[maker[b].path] = Begun(b) => files'[maker[b].path] = Whole(b)
    BY <1>2, <1>4, <1>6, WriteKeeps
<1>8. \A x \in Names : b \in files'[x].of => Answers(x, m, record[b])
  <2>1. \A x \in Names : b \in files[x].of => x = maker[b].path
    BY <1>4, OfOne DEF Answers
  <2> QED BY <1>1, <1>2, <1>7, <2>1 DEF Answers, Dumping
<1>9. ASSUME ~Shared(b)'
      PROVE  WholeOf(b, m, files', clock)
  <2>1. ~Shared(b)
    BY <1>0, <1>2, <1>6, <1>9, NotSharedBefore
  <2>2. maker[b].linked /\ files[maker[b].opened] = Begun(b)
    BY <1>4, <2>1, OfOne DEF WholeOf
  <2> QED BY <1>1, <1>2, <1>4, <1>7, <2>2 DEF WholeOf
<1>10. Kept(b, m, record[b])
    BY <1>2, <1>3, <1>4, <1>5, <1>7, <1>8, <1>9 DEF Kept, KeepsRow
<1> QED BY <1>10, KeptIsEnough

LEMMA OpenZipKeeps ==
    ASSUME SoundInv, NEW b \in Backups, OpenZip(b)
    PROVE  (PathsInv /\ RowsInv /\ FilesInv /\ CleanersInv /\ WholeInv)'
<1>0. BackupTypeOK /\ PathsInv
    BY DEF SoundInv
<1> DEFINE n == maker[b].path
           z == Zipped(n)
           m == [maker[b] EXCEPT !.pc = "copy", !.path = z, !.linked = TRUE, !.source = n,
                                 !.read = files[n]]
<1>1. maker[b].pc = "zip" /\ z \in Names /\ Open(z, b) /\ Becomes(b, m, record[b])
    BY <1>0, OpenZipEffects
<1>2. /\ m.pc = "copy" /\ m.path = z /\ m.opened = maker[b].opened /\ m.linked = TRUE
      /\ m.row = maker[b].row /\ m.source = n /\ m.read = files[n]
    BY OfOne DEF MakerRecords
<1> HIDE DEF m
<1>3. /\ n = maker[b].opened /\ n \in Names /\ n[1] = "sql" /\ ~maker[b].linked
      /\ maker[b].row.status # "completed" /\ n # NoName
    BY <1>0, <1>1, PathFacts, OfOne, NameFacts DEF PathsOf, RowsOf, Dumping
<1>4. z # n
    BY <1>3, NameFacts
<1> HIDE DEF z
<1>5. PathsOf(m, clock)
    BY <1>1, <1>2, <1>3, OfOne DEF PathsOf, z, Dumping
<1>6. RowsOf(m, record[b])
    BY <1>2, <1>3, OfOne DEF RowsOf
<1> HIDE DEF n
<1>7. m \in MakerRecords /\ OthersKeep(b) /\ maker'[b] = m
    BY <1>1 DEF Becomes
<1>8. /\ OwnFilesOnly(b, m)
      /\ b \in files'[z].of
      /\ \A x \in Names : b \in files'[x].of => x = z \/ b \in files[x].of
      /\ \A x \in Names \ {z} : files'[x] = files[x]
      /\ \A x \in Names : files'[x].ended \subseteq files'[x].of
      /\ \A o \in Backups \ {b} : maker'[o].linked => o \in files'[maker[o].path].of
      /\ ~Shared(b)' => files'[z] = Begun(b)
    BY <1>1, <1>2, <1>3, <1>5, <1>7, OpenKeeps
<1>9. \A x \in Names : b \in files'[x].of => Answers(x, m, record[b])
  <2>1. \A x \in Names : b \in files[x].of => x = n
    BY <1>3, OfOne DEF Answers, n
  <2> QED BY <1>2, <1>3, <1>8, <2>1 DEF Answers, Dumping
<1>10. ASSUME ~Shared(b)'
       PROVE  WholeOf(b, m, files', clock)
  <2>1. ~Shared(b)
    BY <1>0, <1>2, <1>7, <1>10, NotSharedBefore
  <2>2. files[n] = Whole(b)
    BY <1>1, <1>3, <2>1, OfOne DEF WholeOf
  <2>3. files'[n] = Whole(b) /\ files'[z] = Begun(b)
    BY <1>3, <1>4, <1>8, <1>10, <2>2
  <2> QED BY <1>2, <1>3, <2>2, <2>3 DEF WholeOf
<1>11. Kept(b, m, record[b])
    BY <1>1, <1>2, <1>3, <1>5, <1>6, <1>8, <1>9, <1>10 DEF Kept, KeepsRow
<1> QED BY <1>11, KeptIsEnough

LEMMA CopyKeeps ==
    ASSUME SoundInv, NEW b \in Backups, Copy(b)
    PROVE  (PathsInv /\ RowsInv /\ FilesInv /\ CleanersInv /\ WholeInv)'
<1>0. BackupTypeOK /\ PathsInv
    BY DEF SoundInv
<1> DEFINE m == [maker[b] EXCEPT !.pc = "remove", !.linked = FALSE]
           whole == (maker[b].read.of = maker[b].read.ended)
<1>1. maker[b].pc = "copy" /\ Write(b, whole) /\ Becomes(b, m, record[b])
    BY <1>0, CopyEffects
<1>2. /\ m.pc = "remove" /\ m.path = maker[b].path /\ m.opened = maker[b].opened
      /\ m.linked = FALSE /\ m.row = maker[b].row /\ m.source = maker[b].source
      /\ m.read = maker[b].read
    BY OfOne DEF MakerRecords
<1> HIDE DEF m
<1>3. /\ maker[b].opened \in Names /\ maker[b].path \in Names
      /\ maker[b].path = Zipped(maker[b].opened) /\ maker[b].row.status # "completed"
    BY <1>0, <1>1, PathFacts, OfOne DEF PathsOf, RowsOf, Dumping
<1>4. maker[b].path # maker[b].opened
  <2>1. maker[b].opened[1] \in {"sql", "tar", "tar.gz"}
    BY <1>3, NameFacts, OfOne DEF PathsOf
  <2> QED BY <1>3, <2>1, NameFacts
<1>5. PathsOf(m, clock) /\ RowsOf(m, record[b])
    BY <1>1, <1>2, <1>3, OfOne DEF PathsOf, RowsOf, Dumping
<1>6. OthersKeep(b) /\ maker'[b] = m /\ whole \in BOOLEAN
    BY <1>1 DEF Becomes
<1> HIDE DEF whole
<1>7. /\ OwnFilesOnly(b, m)
      /\ \A x \in Names : files'[x].of = files[x].of /\ files'[x].ended \subseteq files'[x].of
      /\ \A o \in Backups \ {b} : maker'[o].linked => o \in files'[maker[o].path].of
      /\ \A x \in Names \ {maker[b].path} : files'[x] = files[x]
      /\ maker[b].linked /\ files[maker[b].path] = Begun(b) /\ whole =>
             files'[maker[b].path] = Whole(b)
    BY <1>1, <1>2, <1>6, WriteKeeps
<1>8. \A x \in Names : b \in files'[x].of => Answers(x, m, record[b])
  <2>1. \A x \in Names : b \in files[x].of => Answers(x, maker[b], record[b])
    BY OfOne
  <2> QED BY <1>2, <1>7, <2>1 DEF Answers, Dumping
<1>9. ASSUME ~Shared(b)'
      PROVE  WholeOf(b, m, files', clock)
  <2>1. ~Shared(b)
    BY <1>0, <1>2, <1>6, <1>9, NotSharedBefore
  <2>2. /\ files[maker[b].opened] = Whole(b) /\ maker[b].linked
        /\ files[maker[b].path] = Begun(b) /\ maker[b].read = Whole(b)
    BY <1>1, <2>1, OfOne DEF WholeOf
  <2>3. whole
    BY <2>2 DEF whole, Whole
  <2>4. files'[maker[b].path] = Whole(b) /\ files'[maker[b].opened] = Whole(b)
    BY <1>3, <1>4, <1>7, <2>2, <2>3
  <2> QED BY <1>2, <1>3, <2>4 DEF WholeOf
<1>10. Kept(b, m, record[b])
    BY <1>1, <1>2, <1>3, <1>5, <1>7, <1>8, <1>9 DEF Kept, KeepsRow
<1> QED BY <1>10, KeptIsEnough
LEMMA RemoveKeeps ==
    ASSUME SoundInv, NEW b \in Backups, Remove(b)
    PROVE  (PathsInv /\ RowsInv /\ FilesInv /\ CleanersInv /\ WholeInv)'
<1>0. BackupTypeOK /\ PathsInv
    BY DEF SoundInv
<1> DEFINE n == maker[b].opened
           m == [maker[b] EXCEPT !.pc = "sum"]
<1>1. /\ maker[b].pc = "remove" /\ n \in Names /\ files' = [files EXCEPT ![n] = Missing]
      /\ maker[b].path = Zipped(n) /\ maker[b].path # n
      /\ Becomes(b, m, record[b])
      /\ \A o \in Backups \ {b} : maker[o].path = n => ~maker'[o].linked
    BY <1>0, RemoveEffects
<1>2. /\ m.pc = "sum" /\ m.path = maker[b].path /\ m.opened = n
      /\ m.linked = maker[b].linked /\ m.row = maker[b].row
    BY OfOne DEF MakerRecords
<1> HIDE DEF m
<1>3. /\ maker[b].path \in Names /\ ~maker[b].linked /\ maker[b].row.status # "completed"
    BY <1>1, NameFacts, OfOne DEF PathsOf, RowsOf
<1>4. PathsOf(m, clock) /\ RowsOf(m, record[b])
    BY <1>1, <1>2, <1>3, OfOne DEF PathsOf, RowsOf, Dumping
<1>5. OthersKeep(b) /\ maker'[b] = m
    BY <1>1 DEF Becomes
<1> HIDE DEF n
<1>6. /\ files' \in [Names -> Contents] /\ files'[n].of = {} /\ files'[n].ended = {}
      /\ \A x \in Names \ {n} : files'[x] = files[x]
    BY <1>0, <1>1, MissingIs DEF BackupTypeOK
<1>7. OwnFilesOnly(b, m)
    BY <1>2, <1>6 DEF OwnFilesOnly
<1>8. \A x \in Names : files'[x].ended \subseteq files'[x].of
    BY <1>6, OfOne
<1>9. \A x \in Names : b \in files'[x].of => Answers(x, m, record[b])
  <2>1. \A x \in Names : b \in files[x].of => x \in {n, maker[b].path}
    BY OfOne DEF Answers, n
  <2> QED BY <1>2, <1>6, <2>1 DEF Answers, Dumping
<1>10. \A o \in Backups \ {b} : maker'[o].linked => o \in files'[maker[o].path].of
  <2> SUFFICES ASSUME NEW o \in Backups \ {b}, maker'[o].linked
               PROVE  o \in files'[maker[o].path].of
      OBVIOUS
  <2>1. maker[o].linked /\ maker[o].path # n
    BY <1>0, <1>1, <1>5, OthersFields
  <2>2. maker[o].path \in Names
    BY <1>0, <2>1, PathFacts
  <2> QED BY <1>6, <2>1, <2>2, OfOne
<1>11. ASSUME ~Shared(b)'
       PROVE  WholeOf(b, m, files', clock)
  <2>1. ~Shared(b)
    BY <1>0, <1>2, <1>5, <1>11, NotSharedBefore DEF n
  <2>2. files'[maker[b].path] = Whole(b)
    BY <1>1, <1>3, <1>6, <2>1, OfOne DEF WholeOf
  <2> QED BY <1>2, <1>3, <2>2 DEF WholeOf
<1>12. Kept(b, m, record[b])
    BY <1>1, <1>2, <1>3, <1>4, <1>7, <1>8, <1>9, <1>10, <1>11 DEF Kept, KeepsRow, n
<1> QED BY <1>12, KeptIsEnough

LEMMA ChecksumKeeps ==
    ASSUME SoundInv, NEW b \in Backups, CalculateChecksum(b)
    PROVE  (PathsInv /\ RowsInv /\ FilesInv /\ CleanersInv /\ WholeInv)'
<1>0. BackupTypeOK /\ PathsInv
    BY DEF SoundInv
<1> DEFINE m == [maker[b] EXCEPT !.pc = "complete", !.read = files[maker[b].path]]
<1>1. maker[b].pc = "sum" /\ UNCHANGED files /\ Becomes(b, m, record[b])
    BY <1>0, ChecksumEffects
<1>2. /\ m.pc = "complete" /\ m.path = maker[b].path /\ m.opened = maker[b].opened
      /\ m.linked = maker[b].linked /\ m.row = maker[b].row /\ m.read = files[maker[b].path]
    BY OfOne DEF MakerRecords
<1> HIDE DEF m
<1>3. maker[b].row.status # "completed" /\ ~maker[b].linked
    BY <1>1, OfOne DEF RowsOf, PathsOf
<1>4. PathsOf(m, clock) /\ RowsOf(m, record[b])
    BY <1>1, <1>2, <1>3, OfOne DEF PathsOf, RowsOf, Dumping
<1>5. \A n \in Names : b \in files[n].of => Answers(n, m, record[b])
    BY <1>1, <1>2, OfOne DEF Answers, Dumping
<1>6. Shared(b) \/ WholeOf(b, m, files, clock)
    BY <1>1, <1>2, <1>3, OfOne DEF WholeOf
<1> QED BY <1>1, <1>2, <1>3, <1>4, <1>5, <1>6, StillKept

LEMMA CompleteKeeps ==
    ASSUME SoundInv, NEW b \in Backups, Complete(b)
    PROVE  (PathsInv /\ RowsInv /\ FilesInv /\ CleanersInv /\ WholeInv)'
<1>0. BackupTypeOK
    BY DEF SoundInv
<1> DEFINE row == [status |-> "completed", path |-> maker[b].path,
                   checksum |-> maker[b].read, expires |-> clock + Retention]
<1>1. /\ maker[b].pc = "complete" /\ UNCHANGED files
      /\ \E pc \in {"schedule", "done"} :
            Becomes(b, [maker[b] EXCEPT !.row = row, !.pc = pc], row)
    BY <1>0, CompleteEffects
<1>2. PICK pc \in {"schedule", "done"} : Becomes(b, [maker[b] EXCEPT !.row = row, !.pc = pc], row)
    BY <1>1
<1> DEFINE m == [maker[b] EXCEPT !.row = row, !.pc = pc]
<1>3. Becomes(b, m, row)
    BY <1>2
<1>4. row.status = "completed" /\ row.path = maker[b].path /\ row.checksum = maker[b].read
    OBVIOUS
<1> HIDE DEF row
<1>5. /\ m.pc = pc /\ m.path = maker[b].path /\ m.opened = maker[b].opened
      /\ m.linked = maker[b].linked /\ m.row = row
    BY OfOne DEF MakerRecords
<1> HIDE DEF m
<1>6. maker[b].row.status # "completed" /\ ~maker[b].linked /\ maker[b].opened # NoName
    BY <1>1, OfOne DEF RowsOf, PathsOf, Dumping
<1>7. PathsOf(m, clock) /\ RowsOf(m, row)
    BY <1>1, <1>4, <1>5, <1>6, OfOne DEF PathsOf, RowsOf, Dumping
<1>8. \A n \in Names : b \in files[n].of => Answers(n, m, row)
    BY <1>1, <1>5, OfOne DEF Answers
<1>9. Shared(b) \/ WholeOf(b, m, files, clock)
    BY <1>1, <1>4, <1>5, OfOne DEF WholeOf
<1> QED BY <1>1, <1>3, <1>5, <1>6, <1>7, <1>8, <1>9, StillKept

LEMMA MarkKeeps ==
    ASSUME SoundInv, NEW b \in Backups, MarkScheduled(b)
    PROVE  (PathsInv /\ RowsInv /\ FilesInv /\ CleanersInv /\ WholeInv)'
<1>0. BackupTypeOK
    BY DEF SoundInv
<1> DEFINE m == [maker[b] EXCEPT !.pc = "done"]
<1>1. maker[b].pc = "schedule" /\ UNCHANGED files /\ Becomes(b, m, maker[b].row)
    BY <1>0, MarkEffects
<1>2. /\ m.pc = "done" /\ m.path = maker[b].path /\ m.opened = maker[b].opened
      /\ m.linked = maker[b].linked /\ m.row = maker[b].row
    BY OfOne DEF MakerRecords
<1> HIDE DEF m
<1>3. PathsOf(m, clock) /\ RowsOf(m, maker[b].row)
    BY <1>1, <1>2, OfOne DEF PathsOf, RowsOf, Dumping
<1>4. \A n \in Names : b \in files[n].of => Answers(n, m, maker[b].row)
    BY <1>1, <1>2, OfOne DEF Answers
<1>5. Shared(b) \/ WholeOf(b, m, files, clock)
    BY <1>1, <1>2, OfOne DEF WholeOf
<1> QED BY <1>1, <1>2, <1>3, <1>4, <1>5, StillKept

LEMMA FailKeeps ==
    ASSUME SoundInv, NEW b \in Backups, Fail(b)
    PROVE  (PathsInv /\ RowsInv /\ FilesInv /\ CleanersInv /\ WholeInv)'
<1>0. BackupTypeOK
    BY DEF SoundInv
<1> DEFINE m == [maker[b] EXCEPT !.pc = "failed", !.linked = FALSE]
           row == [NewBackup EXCEPT !.status = "failed"]
<1>1. maker[b].pc \in Dumping \ {"complete"} /\ UNCHANGED files /\ Becomes(b, m, row)
    BY <1>0, FailEffects
<1>2. /\ m.pc = "failed" /\ m.path = maker[b].path /\ m.opened = maker[b].opened
      /\ m.linked = FALSE /\ m.row = maker[b].row
    BY OfOne DEF MakerRecords
<1> HIDE DEF m
<1>3. row.status = "failed"
    BY NewRows
<1> HIDE DEF row
<1>4. maker[b].row.status # "completed"
    BY <1>1, OfOne DEF RowsOf, Dumping
<1>5. PathsOf(m, clock) /\ RowsOf(m, row)
    BY <1>2, <1>3, <1>4, OfOne DEF PathsOf, RowsOf, Dumping
<1>6. \A n \in Names : b \in files[n].of => Answers(n, m, row)
    BY <1>2, OfOne DEF Answers
<1>7. WholeOf(b, m, files, clock)
    BY <1>2, <1>4 DEF WholeOf
<1> QED BY <1>1, <1>2, <1>4, <1>5, <1>6, <1>7, StillKept

LEMMA DieKeeps ==
    ASSUME SoundInv, NEW b \in Backups, DieMaking(b)
    PROVE  (PathsInv /\ RowsInv /\ FilesInv /\ CleanersInv /\ WholeInv)'
<1>0. BackupTypeOK
    BY DEF SoundInv
<1> DEFINE m == [maker[b] EXCEPT !.pc = "dead", !.linked = FALSE]
<1>1. UNCHANGED files /\ Becomes(b, m, record[b])
    BY <1>0, DieEffects
<1>2. /\ m.pc = "dead" /\ m.path = maker[b].path /\ m.opened = maker[b].opened
      /\ m.linked = FALSE /\ m.row = maker[b].row
    BY OfOne DEF MakerRecords
<1> HIDE DEF m
<1>3. PathsOf(m, clock) /\ RowsOf(m, record[b])
    BY <1>2, OfOne DEF PathsOf, RowsOf, Dumping
<1>4. \A n \in Names : b \in files[n].of => Answers(n, m, record[b])
    BY <1>2, OfOne DEF Answers
<1>5. Shared(b) \/ WholeOf(b, m, files, clock)
    BY <1>2, OfOne DEF WholeOf
<1> QED BY <1>1, <1>2, <1>3, <1>4, <1>5, StillKept
LEMMA BackupTypesStay ==
    ASSUME BackupTypeOK, NEW b \in Backups, NEW m, NEW row, Becomes(b, m, row),
           files' \in [Names -> Contents], troubles' \in [deletions : Nat, failures : Nat, deaths : Nat]
    PROVE  BackupTypeOK'
    BY DEF BackupTypeOK, Becomes

LEMMA TroubleTypes ==
    ASSUME troubles \in [deletions : Nat, failures : Nat, deaths : Nat],
           NEW what \in {"deletions", "failures", "deaths"}, Trouble(what)
    PROVE  troubles' \in [deletions : Nat, failures : Nat, deaths : Nat] /\ troubles' # troubles
<1>1. troubles[what] \in Nat /\ troubles[what] > 0
    BY DEF Trouble
<1>2. /\ troubles' = [troubles EXCEPT ![what] = troubles[what] - 1]
      /\ troubles[what] - 1 \in Nat /\ troubles[what] - 1 # troubles[what]
    BY <1>1 DEF Trouble
<1>3. troubles' \in [deletions : Nat, failures : Nat, deaths : Nat]
    BY <1>2
<1>4. troubles'[what] = troubles[what] - 1
    BY <1>2
<1> QED BY <1>2, <1>3, <1>4

LEMMA MakerStepTypes ==
    ASSUME BackupTypeOK, PathsInv, NEW b \in Backups, MakerStep(b)
    PROVE  BackupTypeOK'
<1>0. files \in [Names -> Contents] /\ troubles \in [deletions : Nat, failures : Nat, deaths : Nat]
    BY DEF BackupTypeOK
<1>1. /\ \E m, row : Becomes(b, m, row)
      /\ files' \in [Names -> Contents]
      /\ troubles' \in [deletions : Nat, failures : Nat, deaths : Nat]
  <2>1. ASSUME NEW order \in Orders, CreateBackup(b, order)
        PROVE  (\E m, row : Becomes(b, m, row)) /\ UNCHANGED <<files, troubles>>
    BY <2>1, CreateEffects DEF CreateBackup
  <2>2. CASE OpenFile(b)
    BY <2>2, <1>0, OpenFileEffects, OpenTypes DEF OpenFile
  <2>3. CASE Dump(b)
    BY <2>3, <1>0, DumpEffects, WriteTypes, PathFacts DEF Dump
  <2>4. CASE OpenZip(b)
    BY <2>4, <1>0, OpenZipEffects, OpenTypes DEF OpenZip
  <2>5. CASE Copy(b)
    <3>1. (maker[b].read.of = maker[b].read.ended) \in BOOLEAN
      OBVIOUS
    <3> QED BY <2>5, <3>1, <1>0, CopyEffects, WriteTypes, PathFacts DEF Copy
  <2>6. CASE Remove(b)
    <3>1. files' \in [Names -> Contents]
      BY <2>6, <1>0, RemoveEffects, MissingIs
    <3> QED BY <2>6, <3>1, <1>0, RemoveEffects DEF Remove
  <2>7. CASE CalculateChecksum(b)
    BY <2>7, <1>0, ChecksumEffects DEF CalculateChecksum
  <2>8. CASE Complete(b)
    BY <2>8, <1>0, CompleteEffects DEF Complete
  <2>9. CASE MarkScheduled(b)
    BY <2>9, <1>0, MarkEffects DEF MarkScheduled
  <2>10. CASE Fail(b)
    BY <2>10, <1>0, FailEffects, TroubleTypes DEF Fail
  <2>11. CASE DieMaking(b)
    BY <2>11, <1>0, DieEffects, TroubleTypes DEF DieMaking
  <2> QED BY <1>0, <2>1, <2>2, <2>3, <2>4, <2>5, <2>6, <2>7, <2>8, <2>9, <2>10, <2>11 DEF MakerStep
<1> QED BY <1>1, BackupTypesStay

LEMMA MakerStepKeeps ==
    ASSUME SoundInv, NEW b \in Backups, MakerStep(b)
    PROVE  SoundInv'
<1>1. BackupTypeOK'
    BY MakerStepTypes DEF SoundInv
<1>2. (PathsInv /\ RowsInv /\ FilesInv /\ CleanersInv /\ WholeInv)'
    BY CreateKeeps, OpenFileKeeps, DumpKeeps, OpenZipKeeps, CopyKeeps, RemoveKeeps, ChecksumKeeps,
       CompleteKeeps, MarkKeeps, FailKeeps, DieKeeps DEF MakerStep
<1> QED BY <1>1, <1>2 DEF SoundInv

-----------------------------------------------------------------------------
(* The steps of the clean-ups, of the operator and of time.                *)

\* A row that a clean-up holds is that of a backup that has completed and expired.
LEMMA HeldRow ==
    ASSUME SoundInv, NEW c \in Cleaners, cleaner[c] # NoCleaner,
           NEW b \in DOMAIN cleaner[c].row
    PROVE  /\ b \in Backups /\ cleaner[c].row[b] = maker[b].row /\ maker[b].row \in RowRecords
           /\ maker[b].row.status = "completed" /\ maker[b].row.expires < clock
           /\ maker[b].row.path = maker[b].path /\ maker[b].path \in Names
           /\ maker[b].pc \in {"schedule", "done", "dead"}
<1>1. PICK D \in SUBSET Backups : cleaner[c] \in CleanerRecords(D)
    BY DEF SoundInv, BackupTypeOK
<1>2. b \in Backups
    BY <1>1 DEF CleanerRecords
<1>3. cleaner[c].row[b] = maker[b].row /\ IsExpired(maker[b].row)
    BY DEF SoundInv, CleanersInv
<1>4. /\ maker[b].row.path = maker[b].path /\ maker[b].opened # NoName
      /\ maker[b].pc \in {"schedule", "done", "dead"}
    BY <1>2, <1>3 DEF SoundInv, RowsInv, RowsOf, IsExpired
<1>5. maker[b].path \in Names /\ maker[b].row \in RowRecords
    BY <1>2, <1>4, PathFacts, MakerFacts, MakerUpdate DEF SoundInv
<1> QED BY <1>2, <1>3, <1>4, <1>5 DEF IsExpired

LEMMA HeldRecord ==
    ASSUME BackupTypeOK, NEW c \in Cleaners, cleaner[c] # NoCleaner
    PROVE  \E D \in SUBSET Backups : cleaner[c] \in CleanerRecords(D) /\ D = DOMAIN cleaner[c].row
                                     /\ cleaner[c].at \subseteq D /\ cleaner[c].todo \subseteq D
    BY DEF BackupTypeOK, CleanerRecords

\* Only a clean-up changes, to x.
LEMMA CleanerAlone ==
    ASSUME SoundInv, NEW c \in Cleaners, NEW x, cleaner' = [cleaner EXCEPT ![c] = x],
           UNCHANGED <<record, maker, files, clock>>,
           troubles' \in [deletions : Nat, failures : Nat, deaths : Nat],
           x = NoCleaner \/ \E D \in SUBSET Backups : x \in CleanerRecords(D),
           x # NoCleaner =>
              /\ \A b \in DOMAIN x.row : x.row[b] = maker[b].row /\ IsExpired(maker[b].row)
              /\ \A a, b \in x.at : a = b
              /\ x.pc = "save" => \A b \in x.at : b \notin files[maker[b].path].of
    PROVE  SoundInv'
<1>1. BackupTypeOK'
    BY DEF SoundInv, BackupTypeOK
<1>2. PathsInv' /\ RowsInv' /\ FilesInv' /\ WholeInv'
    BY DEF SoundInv, PathsInv, RowsInv, FilesInv, WholeInv, Shared
<1>3. CleanersInv'
  <2>1. cleaner'[c] = x /\ \A d \in Cleaners \ {c} : cleaner'[d] = cleaner[d]
    BY DEF SoundInv, BackupTypeOK
  <2> QED BY <2>1 DEF SoundInv, CleanersInv, IsExpired
<1> QED BY <1>1, <1>2, <1>3 DEF SoundInv

LEMMA CleanupKeeps ==
    ASSUME SoundInv, NEW c \in Cleaners, Cleanup(c)
    PROVE  SoundInv'
<1> DEFINE expired == {b \in Backups : IsExpired(record[b])}
           x == [pc |-> "check", todo |-> expired, row |-> [b \in expired |-> record[b]], at |-> {}]
<1>1. cleaner' = [cleaner EXCEPT ![c] = x] /\ UNCHANGED <<record, maker, files, clock, troubles>>
    BY DEF Cleanup
<1>2. \A b \in expired : record[b] \in RowRecords /\ record[b] = maker[b].row
  <2> SUFFICES ASSUME NEW b \in Backups, IsExpired(record[b])
               PROVE  record[b] \in RowRecords /\ record[b] = maker[b].row
      OBVIOUS
  <2>1. record[b].status = "completed"
    BY DEF IsExpired
  <2>2. record[b] # NoRow /\ record[b] \in RowRecords \cup {NoRow}
    BY <2>1, NewRows, MakerFacts DEF SoundInv
  <2>3. record[b] = maker[b].row
    BY <2>1 DEF SoundInv, RowsInv, RowsOf
  <2> QED BY <2>2, <2>3
<1>3. expired \in SUBSET Backups /\ x \in CleanerRecords(expired)
    BY <1>2 DEF CleanerRecords
<1>4. /\ \A b \in DOMAIN x.row : x.row[b] = maker[b].row /\ IsExpired(maker[b].row)
      /\ \A a, b \in x.at : a = b
      /\ x.pc # "save"
    BY <1>2
<1>5. troubles' \in [deletions : Nat, failures : Nat, deaths : Nat]
    BY <1>1 DEF SoundInv, BackupTypeOK
<1> HIDE DEF x, expired
<1> QED BY <1>1, <1>3, <1>4, <1>5, CleanerAlone

LEMMA CheckFileKeeps ==
    ASSUME SoundInv, NEW c \in Cleaners, NEW b \in Backups, CheckFile(c, b)
    PROVE  SoundInv'
<1> DEFINE pc == IF Exists(cleaner[c].row[b].path) THEN "unlink" ELSE "save"
           x == [cleaner[c] EXCEPT !.pc = pc, !.at = {b}, !.todo = @ \ {b}]
<1>1. /\ cleaner[c].pc = "check" /\ b \in cleaner[c].todo
      /\ UNCHANGED <<record, maker, files, clock, troubles>>
    BY DEF CheckFile
<1>2. cleaner[c] # NoCleaner
    BY <1>1 DEF NoCleaner
<1>3. PICK D \in SUBSET Backups :
          /\ cleaner[c] \in CleanerRecords(D) /\ D = DOMAIN cleaner[c].row
          /\ cleaner[c].at \subseteq D /\ cleaner[c].todo \subseteq D
    BY <1>2, HeldRecord DEF SoundInv
<1>4. cleaner' = [cleaner EXCEPT ![c] = x]
    BY DEF CheckFile, SoundInv, BackupTypeOK
<1>5. pc \in {"unlink", "save"} /\ b \in D
    BY <1>1, <1>3
<1>6. pc = "save" => b \notin files[maker[b].path].of
  <2>1. cleaner[c].row[b].path = maker[b].path /\ maker[b].path \in Names
    BY <1>2, <1>3, <1>5, HeldRow
  <2>2. ~Exists(maker[b].path) => files[maker[b].path] = Missing
    BY <2>1, NameFacts DEF Exists
  <2> QED BY <2>1, <2>2, MissingIs
<1> HIDE DEF pc
<1>7. /\ x \in CleanerRecords(D) /\ x.row = cleaner[c].row /\ x.at = {b} /\ x.pc = pc
    BY <1>3, <1>5 DEF CleanerRecords
<1>8. \A a \in D : cleaner[c].row[a] = maker[a].row /\ IsExpired(maker[a].row)
    BY <1>2, <1>3 DEF SoundInv, CleanersInv
<1>9. troubles' \in [deletions : Nat, failures : Nat, deaths : Nat]
    BY <1>1 DEF SoundInv, BackupTypeOK
<1> HIDE DEF x
<1> QED BY <1>1, <1>3, <1>4, <1>6, <1>7, <1>8, <1>9, CleanerAlone

\* A clean-up that has done with a row goes on to the next.
LEMMA NextRowIs ==
    ASSUME SoundInv, NEW c \in Cleaners, cleaner[c] # NoCleaner
    PROVE  LET x == [cleaner[c] EXCEPT !.pc = "check", !.at = {}]
           IN  /\ NextRow(c) => cleaner' = [cleaner EXCEPT ![c] = x]
               /\ \E D \in SUBSET Backups : x \in CleanerRecords(D)
               /\ x.row = cleaner[c].row /\ x.at = {} /\ x.pc = "check"
<1>1. PICK D \in SUBSET Backups : cleaner[c] \in CleanerRecords(D)
    BY HeldRecord DEF SoundInv
<1>2. NextRow(c) => cleaner' = [cleaner EXCEPT ![c] = [cleaner[c] EXCEPT !.pc = "check", !.at = {}]]
    BY DEF NextRow, SoundInv, BackupTypeOK
<1> QED BY <1>1, <1>2 DEF CleanerRecords
\* A clean-up that goes on to its next row, or ends, and leaves all else alone.
LEMMA LeavesRow ==
    ASSUME SoundInv, NEW c \in Cleaners, cleaner[c] # NoCleaner,
           NextRow(c) \/ cleaner' = [cleaner EXCEPT ![c] = NoCleaner],
           UNCHANGED <<record, maker, files, clock>>,
           troubles' \in [deletions : Nat, failures : Nat, deaths : Nat]
    PROVE  SoundInv'
<1>1. CASE cleaner' = [cleaner EXCEPT ![c] = NoCleaner]
    BY <1>1, CleanerAlone
<1>2. CASE NextRow(c)
  <2> DEFINE x == [cleaner[c] EXCEPT !.pc = "check", !.at = {}]
  <2>1. /\ cleaner' = [cleaner EXCEPT ![c] = x] /\ \E D \in SUBSET Backups : x \in CleanerRecords(D)
        /\ x.row = cleaner[c].row /\ x.at = {} /\ x.pc = "check"
    BY <1>2, NextRowIs
  <2>2. \A a \in DOMAIN cleaner[c].row : cleaner[c].row[a] = maker[a].row /\ IsExpired(maker[a].row)
    BY DEF SoundInv, CleanersInv
  <2> HIDE DEF x
  <2> QED BY <2>1, <2>2, CleanerAlone
<1> QED BY <1>1, <1>2

LEMMA UnlinkKeeps ==
    ASSUME SoundInv, NEW c \in Cleaners, NEW b \in Backups, UnlinkFile(c, b)
    PROVE  SoundInv'
<1> DEFINE n == cleaner[c].row[b].path
<1>1. /\ cleaner[c].pc = "unlink" /\ b \in cleaner[c].at
      /\ UNCHANGED <<record, clock, troubles, engine>>
    BY DEF UnlinkFile
<1>2. cleaner[c] # NoCleaner
    BY <1>1 DEF NoCleaner
<1>3. PICK D \in SUBSET Backups :
          /\ cleaner[c] \in CleanerRecords(D) /\ D = DOMAIN cleaner[c].row
          /\ cleaner[c].at \subseteq D /\ cleaner[c].todo \subseteq D
    BY <1>2, HeldRecord DEF SoundInv
<1>4. b \in D /\ \A a \in cleaner[c].at : a = b
    BY <1>1, <1>2, <1>3 DEF SoundInv, CleanersInv
<1>5. /\ n = maker[b].path /\ n \in Names /\ maker[b].pc \in {"schedule", "done", "dead"}
      /\ maker[b].row \in RowRecords /\ maker[b].row.expires < clock
    BY <1>2, <1>3, <1>4, HeldRow
<1>6. CASE ~Exists(n)
  <2>1. NextRow(c) /\ UNCHANGED <<files, maker>>
    BY <1>6 DEF UnlinkFile
  <2>2. troubles' \in [deletions : Nat, failures : Nat, deaths : Nat]
    BY <1>1 DEF SoundInv, BackupTypeOK
  <2> QED BY <1>1, <1>2, <2>1, <2>2, LeavesRow
<1>7. CASE Exists(n)
  <2> DEFINE x == [cleaner[c] EXCEPT !.pc = "save"]
  <2>1. /\ files' = [files EXCEPT ![n] = Missing] /\ maker' = Unlinked(n)
        /\ cleaner' = [cleaner EXCEPT ![c] = x]
    BY <1>7 DEF UnlinkFile, SoundInv, BackupTypeOK
  <2>2. x \in CleanerRecords(D) /\ x.row = cleaner[c].row /\ x.at = cleaner[c].at /\ x # NoCleaner
    <3>1. x \in CleanerRecords(D) /\ x.row = cleaner[c].row /\ x.at = cleaner[c].at /\ x.pc = "save"
      BY <1>3 DEF CleanerRecords
    <3> QED BY <3>1 DEF NoCleaner
  <2> HIDE DEF x, n
  <2>3. BackupTypeOK
    BY DEF SoundInv
  <2>4. /\ maker' \in [Backups -> MakerRecords]
        /\ \A o \in Backups : \/ maker'[o] = maker[o] /\ maker[o].path # n
                              \/ maker'[o] = [maker[o] EXCEPT !.linked = FALSE] /\ maker[o].path = n
    BY <2>1, <2>3, UnlinkedIs
  <2>5. ASSUME NEW o \in Backups
        PROVE  /\ maker'[o].pc = maker[o].pc /\ maker'[o].order = maker[o].order
               /\ maker'[o].path = maker[o].path /\ maker'[o].source = maker[o].source
               /\ maker'[o].opened = maker[o].opened /\ maker'[o].read = maker[o].read
               /\ maker'[o].row = maker[o].row
               /\ maker'[o].linked => maker[o].linked /\ maker[o].path # n
               /\ maker[o].path # n => maker'[o].linked = maker[o].linked
    <3>1. maker[o] \in MakerRecords
      BY OfOne
    <3>2. CASE maker'[o] = maker[o] /\ maker[o].path # n
      BY <3>2
    <3>3. CASE maker'[o] = [maker[o] EXCEPT !.linked = FALSE] /\ maker[o].path = n
      BY <3>1, <3>3, FieldFacts
    <3> QED BY <2>4, <3>2, <3>3
  <2>6. /\ files' \in [Names -> Contents] /\ files'[n].of = {} /\ files'[n].ended = {}
        /\ \A k \in Names \ {n} : files'[k] = files[k]
    BY <1>5, <2>1, <2>3, MissingIs DEF BackupTypeOK
  <2>7. BackupTypeOK'
    BY <1>1, <2>1, <2>2, <2>3, <2>4, <2>6 DEF BackupTypeOK
  <2>8. PathsInv'
    BY <1>1, <2>5, OfOne DEF PathsInv, PathsOf
  <2>9. RowsInv'
    BY <1>1, <2>5, OfOne DEF RowsInv, RowsOf
  <2>10. FilesInv'
    <3>1. ASSUME NEW o \in Backups, maker'[o].linked
          PROVE  o \in files'[maker'[o].path].of
      <4>1. maker[o].linked /\ maker[o].path # n /\ maker'[o].path = maker[o].path
        BY <2>5, <3>1
      <4>2. maker[o].path \in Names
        BY <2>3, <4>1, PathFacts DEF SoundInv
      <4> QED BY <2>6, <4>1, <4>2, OfOne
    <3>2. \A k \in Names : files'[k].ended \subseteq files'[k].of
      BY <2>6 DEF SoundInv, FilesInv
    <3>3. ASSUME NEW k \in Names, NEW o \in files'[k].of
          PROVE  Answers(k, maker'[o], record'[o])
      <4>1. o \in files[k].of /\ o \in Backups
        BY <2>6, <3>3 DEF Contents
      <4> QED BY <1>1, <2>5, <4>1, OfOne DEF Answers
    <3> QED BY <3>1, <3>2, <3>3 DEF FilesInv
  <2>11. CleanersInv'
    <3> SUFFICES ASSUME NEW d \in Cleaners, cleaner'[d] # NoCleaner
                 PROVE  /\ \A o \in DOMAIN cleaner'[d].row :
                              /\ cleaner'[d].row[o] = maker'[o].row
                              /\ IsExpired(maker[o].row)'
                        /\ \A a, o \in cleaner'[d].at : a = o
                        /\ cleaner'[d].pc = "save" =>
                              \A o \in cleaner'[d].at : o \notin files'[maker'[o].path].of
        BY DEF CleanersInv
    <3>1. /\ cleaner[d] # NoCleaner /\ cleaner'[d].row = cleaner[d].row
          /\ cleaner'[d].at = cleaner[d].at
          /\ d # c => cleaner'[d] = cleaner[d]
      BY <1>2, <2>1, <2>2, <2>3 DEF BackupTypeOK
    <3>2. ASSUME NEW o \in DOMAIN cleaner[d].row
          PROVE  /\ o \in Backups /\ cleaner[d].row[o] = maker'[o].row /\ IsExpired(maker[o].row)'
                 /\ maker'[o].path = maker[o].path /\ maker[o].path \in Names
      <4>1. /\ o \in Backups /\ cleaner[d].row[o] = maker[o].row
            /\ maker[o].row.status = "completed" /\ maker[o].row.expires < clock
            /\ maker[o].path \in Names
        BY <3>1, HeldRow
      <4> QED BY <1>1, <2>5, <4>1 DEF IsExpired
    <3>3. \A a, o \in cleaner[d].at : a = o
      BY <3>1 DEF SoundInv, CleanersInv
    <3>4. cleaner[d].at \subseteq DOMAIN cleaner[d].row
      BY <2>3, <3>1, HeldRecord
    <3>5. ASSUME cleaner'[d].pc = "save", NEW o \in cleaner[d].at
          PROVE  o \notin files'[maker'[o].path].of
      <4>1. CASE d = c
        BY <1>4, <1>5, <2>5, <2>6, <4>1, <3>5
      <4>2. CASE d # c
        <5>0. cleaner[d].pc = "save"
          BY <3>1, <3>5, <4>2
        <5>1. o \notin files[maker[o].path].of
          BY <3>1, <5>0 DEF SoundInv, CleanersInv
        <5> QED BY <2>6, <3>2, <3>4, <5>1
      <4> QED BY <4>1, <4>2
    <3>6. \A o \in DOMAIN cleaner'[d].row :
             cleaner'[d].row[o] = maker'[o].row /\ IsExpired(maker[o].row)'
      BY <3>1, <3>2
    <3>7. \A a, o \in cleaner'[d].at : a = o
      BY <3>1, <3>3
    <3>8. cleaner'[d].pc = "save" => \A o \in cleaner'[d].at : o \notin files'[maker'[o].path].of
      BY <3>1, <3>5
    <3> QED BY <3>6, <3>7, <3>8
  <2>12. WholeInv'
    <3> SUFFICES ASSUME NEW o \in Backups, ~Shared(o)'
                 PROVE  WholeOf(o, maker'[o], files', clock)
        BY <1>1 DEF WholeInv
    <3>1. ~Shared(o)
      BY <2>5 DEF Shared
    <3>2. WholeOf(o, maker[o], files, clock)
      BY <3>1, OfOne
    <3>3. CASE o = b
      <4>1. ~(clock <= maker[b].row.expires)
        BY <1>5, <2>3, MakerFacts DEF RowRecords
      <4> QED BY <1>5, <2>5, <3>2, <3>3, <4>1 DEF WholeOf
    <3>4. CASE o # b /\ maker[o].opened = NoName
      <4>1. /\ maker[o].pc \notin {"dump", "zip", "copy", "remove", "sum", "complete"}
            /\ maker[o].row.status # "completed"
        BY <3>4, OfOne DEF PathsOf, RowsOf, Dumping
      <4> QED BY <2>5, <4>1 DEF WholeOf
    <3>5. CASE o # b /\ maker[o].opened # NoName
      <4>1. maker[o].opened \in Names /\ maker[o].path \in Names
        BY <3>5, PathFacts DEF SoundInv
      <4>2. n \notin {maker[o].opened, maker[o].path}
        <5> SUFFICES ASSUME n \in {maker[o].opened, maker[o].path}
                     PROVE  FALSE
            OBVIOUS
        <5>1. maker[b].opened = maker[o].opened
          BY <1>5, OfOne, OwnApart
        <5> QED BY <3>1, <3>5, <5>1 DEF Shared
      <4>3. /\ files'[maker[o].opened] = files[maker[o].opened]
            /\ files'[maker[o].path] = files[maker[o].path]
            /\ maker'[o].linked = maker[o].linked
        BY <2>5, <2>6, <4>1, <4>2
      <4> QED BY <2>5, <3>2, <4>3 DEF WholeOf
    <3> QED BY <3>3, <3>4, <3>5
  <2> QED BY <2>7, <2>8, <2>9, <2>10, <2>11, <2>12 DEF SoundInv
<1> QED BY <1>6, <1>7

\* The record of b becomes row, and no file or maker changes.
LEMMA RecordAlone ==
    ASSUME SoundInv, NEW b \in Backups, NEW row \in RowRecords \cup {NoRow},
           record' = [record EXCEPT ![b] = row], UNCHANGED <<maker, files, clock>>,
           cleaner' = cleaner,
           troubles' \in [deletions : Nat, failures : Nat, deaths : Nat],
           row.status # "completed",
           \A n \in Names : b \in files[n].of => Answers(n, maker[b], row)
    PROVE  SoundInv'
<1>1. record'[b] = row /\ \A o \in Backups \ {b} : record'[o] = record[o]
    BY DEF SoundInv, BackupTypeOK
<1>2. BackupTypeOK'
    BY DEF SoundInv, BackupTypeOK
<1>3. RowsInv'
    BY <1>1 DEF SoundInv, RowsInv, RowsOf
<1>4. FilesInv'
    BY <1>1 DEF SoundInv, FilesInv, BackupTypeOK, Contents
<1>5. PathsInv' /\ CleanersInv' /\ WholeInv'
    BY DEF SoundInv, PathsInv, CleanersInv, WholeInv, Shared, IsExpired
<1> QED BY <1>2, <1>3, <1>4, <1>5 DEF SoundInv

LEMMA SaveExpiredKeeps ==
    ASSUME SoundInv, NEW c \in Cleaners, NEW b \in Backups, SaveExpired(c, b)
    PROVE  SoundInv'
<1>1. /\ cleaner[c].pc = "save" /\ b \in cleaner[c].at /\ NextRow(c)
      /\ record' = [record EXCEPT ![b] = [cleaner[c].row[b] EXCEPT !.status = "expired"]]
      /\ UNCHANGED <<maker, files, clock, troubles>>
    BY DEF SaveExpired
<1>2. cleaner[c] # NoCleaner
    BY <1>1 DEF NoCleaner
<1>3. b \in DOMAIN cleaner[c].row
    BY <1>1, <1>2, HeldRecord DEF SoundInv
<1>4. /\ cleaner[c].row[b] \in RowRecords /\ maker[b].path \in Names
      /\ maker[b].pc \in {"schedule", "done", "dead"}
    BY <1>2, <1>3, HeldRow
<1> DEFINE row == [cleaner[c].row[b] EXCEPT !.status = "expired"]
<1>5. row \in RowRecords /\ row.status = "expired"
    BY <1>4 DEF RowRecords
<1>6. b \notin files[maker[b].path].of
    BY <1>1, <1>2 DEF SoundInv, CleanersInv
<1> HIDE DEF row
<1>7. \A n \in Names : b \in files[n].of => Answers(n, maker[b], row)
    BY <1>4, <1>6, OfOne DEF Answers
<1> DEFINE x == [cleaner[c] EXCEPT !.pc = "check", !.at = {}]
<1>8. /\ cleaner' = [cleaner EXCEPT ![c] = x] /\ \E D \in SUBSET Backups : x \in CleanerRecords(D)
      /\ x.row = cleaner[c].row /\ x.at = {} /\ x.pc = "check"
    BY <1>1, <1>2, NextRowIs
<1> HIDE DEF x
<1>9. record'[b] = row /\ (\A o \in Backups \ {b} : record'[o] = record[o])
      /\ record' \in [Backups -> RowRecords \cup {NoRow}]
    BY <1>1, <1>5 DEF SoundInv, BackupTypeOK, row
<1>10. cleaner'[c] = x /\ (\A d \in Cleaners \ {c} : cleaner'[d] = cleaner[d]) /\ DOMAIN cleaner' = Cleaners
    BY <1>8 DEF SoundInv, BackupTypeOK
<1>11. BackupTypeOK'
    BY <1>1, <1>8, <1>9, <1>10 DEF SoundInv, BackupTypeOK
<1>12. RowsInv'
    BY <1>1, <1>5, <1>9 DEF SoundInv, RowsInv, RowsOf
<1>13. FilesInv'
    BY <1>1, <1>7, <1>9 DEF SoundInv, FilesInv, BackupTypeOK, Contents
<1>14. CleanersInv'
    BY <1>1, <1>2, <1>8, <1>10 DEF SoundInv, CleanersInv, IsExpired
<1>15. PathsInv' /\ WholeInv'
    BY <1>1 DEF SoundInv, PathsInv, WholeInv, Shared
<1> QED BY <1>11, <1>12, <1>13, <1>14, <1>15 DEF SoundInv

LEMMA EndCleanupKeeps ==
    ASSUME SoundInv, NEW c \in Cleaners, EndCleanup(c) \/ DieCleaning(c)
    PROVE  SoundInv'
<1>1. cleaner[c] # NoCleaner
    BY DEF EndCleanup, DieCleaning, NoCleaner
<1>2. cleaner' = [cleaner EXCEPT ![c] = NoCleaner] /\ UNCHANGED <<record, maker, files, clock>>
    BY DEF EndCleanup, DieCleaning
<1>3. troubles' \in [deletions : Nat, failures : Nat, deaths : Nat]
    BY TroubleTypes DEF EndCleanup, DieCleaning, SoundInv, BackupTypeOK
<1> QED BY <1>1, <1>2, <1>3, LeavesRow

LEMMA DestroyKeeps ==
    ASSUME SoundInv, NEW b \in Backups, DestroyRecord(b)
    PROVE  SoundInv'
<1>1. record' = [record EXCEPT ![b] = NoRow] /\ UNCHANGED <<maker, files, cleaner, clock>>
    BY DEF DestroyRecord
<1>2. troubles' \in [deletions : Nat, failures : Nat, deaths : Nat]
    BY TroubleTypes DEF DestroyRecord, SoundInv, BackupTypeOK
<1>3. \A n \in Names : b \in files[n].of => Answers(n, maker[b], NoRow)
    BY OfOne DEF Answers
<1> QED BY <1>1, <1>2, <1>3, NewRows, RecordAlone

LEMMA SecondKeeps ==
    ASSUME SoundInv, Second
    PROVE  SoundInv'
<1>1. /\ clock' = clock + 1 /\ clock' \in 0 .. MaxClock /\ clock \in Nat
      /\ UNCHANGED <<record, maker, files, cleaner, troubles, engine>>
    BY BackupsAssumption DEF Second, SoundInv, BackupTypeOK
<1>2. BackupTypeOK'
    BY <1>1 DEF SoundInv, BackupTypeOK
<1>3. PathsInv'
  <2>1. ASSUME NEW b \in Backups
        PROVE  PathsOf(maker[b], clock + 1)
    <3>1. \A t \in 0 .. clock : t \in 0 .. clock + 1
      BY <1>1
    <3> QED BY <3>1, OfOne DEF PathsOf
  <2> QED BY <1>1, <2>1 DEF PathsInv
<1>4. RowsInv' /\ FilesInv'
    BY <1>1 DEF SoundInv, RowsInv, FilesInv
<1>5. \A b \in Backups : maker[b].row.expires \in Nat
  <2> SUFFICES ASSUME NEW b \in Backups PROVE maker[b].row.expires \in Nat
      OBVIOUS
  <2>1. maker[b].row \in RowRecords
    BY MakerFacts, MakerUpdate DEF SoundInv
  <2> QED BY <2>1 DEF RowRecords
<1>6. CleanersInv'
  <2> SUFFICES ASSUME NEW c \in Cleaners, cleaner[c] # NoCleaner, NEW b \in DOMAIN cleaner[c].row
               PROVE  IsExpired(maker[b].row)'
      BY <1>1 DEF SoundInv, CleanersInv
  <2>1. b \in Backups /\ maker[b].row.status = "completed" /\ maker[b].row.expires < clock
    BY HeldRow
  <2> QED BY <1>1, <1>5, <2>1 DEF IsExpired
<1>7. WholeInv'
  <2> SUFFICES ASSUME NEW b \in Backups, ~Shared(b)
               PROVE  WholeOf(b, maker[b], files, clock + 1)
      BY <1>1 DEF WholeInv, Shared
  <2>1. WholeOf(b, maker[b], files, clock)
    BY OfOne
  <2>2. clock + 1 <= maker[b].row.expires => clock <= maker[b].row.expires
    BY <1>1, <1>5
  <2> QED BY <2>1, <2>2 DEF WholeOf
<1> QED BY <1>2, <1>3, <1>4, <1>6, <1>7 DEF SoundInv

LEMMA SoundInit == BackupsInit => SoundInv
<1> SUFFICES ASSUME BackupsInit PROVE SoundInv
    OBVIOUS
<1>1. BackupTypeOK
    BY BackupTypeInit
<1>2. /\ NoMaker.pc = "idle" /\ NoMaker.opened = NoName /\ NoMaker.path = NoName
      /\ NoMaker.linked = FALSE /\ NoMaker.row = NewBackup
    BY DEF NoMaker
<1>3. PathsOf(NoMaker, clock) /\ RowsOf(NoMaker, NoRow)
    BY <1>2, NewRows DEF PathsOf, RowsOf, Dumping
<1>4. \A b \in Backups : maker[b] = NoMaker /\ record[b] = NoRow
    BY DEF BackupsInit
<1>5. PathsInv /\ RowsInv
    BY <1>3, <1>4 DEF PathsInv, RowsInv
<1>6. FilesInv
    BY <1>2, <1>4, MissingIs DEF FilesInv, BackupsInit
<1>7. CleanersInv
    BY DEF CleanersInv, BackupsInit
<1>8. WholeInv
  <2> SUFFICES ASSUME NEW b \in Backups PROVE WholeOf(b, NoMaker, files, clock)
      BY <1>4 DEF WholeInv
  <2> QED BY <1>2, <1>3, Vacuous
<1> QED BY <1>1, <1>5, <1>6, <1>7, <1>8 DEF SoundInv

LEMMA SoundStep ==
    ASSUME SoundInv, [BackupsNext]_backupVars
    PROVE  SoundInv'
<1>1. CASE UNCHANGED backupVars
    BY <1>1 DEF backupVars, SoundInv, BackupTypeOK, PathsInv, RowsInv, FilesInv, CleanersInv, WholeInv,
         Shared, IsExpired
<1>2. CASE BackupsNext
    BY <1>2, MakerStepKeeps, DestroyKeeps, CleanupKeeps, EndCleanupKeeps, CheckFileKeeps, UnlinkKeeps,
       SaveExpiredKeeps, SecondKeeps DEF BackupsNext, MakerStep
<1> QED BY <1>1, <1>2

LEMMA SoundAlways == BackupsSpec => []SoundInv
    BY SoundInit, SoundStep, PTL DEF BackupsSpec

-----------------------------------------------------------------------------
(* What follows.                                                           *)

(* A completed backup verifies until it expires, unless another of its kind was
   begun in the same second: for every number of backups and clean-ups, every
   retention and every kind of trouble.
   (verify_backup, cleanup_expired_backups and the makers of BackupManager)  *)
THEOREM BackupsVerify == BackupsSpec => []CompletedVerifies
<1>1. SoundInv => CompletedVerifies
  <2> SUFFICES ASSUME SoundInv, NEW b \in Backups, record[b].status = "completed",
                      clock <= record[b].expires, ~Shared(b)
               PROVE  VerifyBackup(record[b]) /\ record[b].checksum = [of |-> {b}, ended |-> {b}]
      BY DEF CompletedVerifies
  <2>1. record[b] = maker[b].row /\ maker[b].row.path = maker[b].path /\ maker[b].opened # NoName
    BY OfOne DEF RowsOf
  <2>2. maker[b].path \in Names
    BY <2>1, PathFacts DEF SoundInv
  <2>3. files[maker[b].path] = Whole(b) /\ maker[b].row.checksum = Whole(b)
    BY <2>1, OfOne DEF WholeOf
  <2>4. Whole(b) # Missing
    <3>1. Whole(b).of = {b}
      BY DEF Whole
    <3> QED BY <3>1, MissingIs
  <2> QED BY <2>1, <2>2, <2>3, <2>4, NameFacts DEF VerifyBackup, Exists, Whole
<1> QED BY <1>1, SoundAlways, PTL

(* No file is left that no row leads to, but of what failed, was killed or was
   deleted. (backup_database removes the dump, a clean-up unlinks, then saves
   the row)                                                                  *)
THEOREM NothingLeftOver == BackupsSpec => []LeftoversAreFailures
<1>1. SoundInv => LeftoversAreFailures
  <2> SUFFICES ASSUME SoundInv, NEW n \in Names, Exists(n)
               PROVE  \E b \in Backups :
                          \/ record[b].status = "completed" /\ record[b].path = n
                          \/ /\ BelongsTo(n, b)
                             /\ \/ maker[b].pc \in Dumping \cup {"failed", "dead"}
                                \/ record[b] = NoRow
      BY DEF LeftoversAreFailures
  <2>1. files[n] \in Contents /\ files[n] # Missing /\ files[n].ended \subseteq files[n].of
    BY DEF Exists, SoundInv, BackupTypeOK, FilesInv
  <2>2. files[n].of # {}
    <3> SUFFICES ASSUME files[n].of = {} PROVE FALSE
        OBVIOUS
    <3>1. files[n] = [of |-> files[n].of, ended |-> files[n].ended]
      BY <2>1 DEF Contents
    <3> QED BY <2>1, <3>1 DEF Missing
  <2>3. PICK b \in files[n].of : Answers(n, maker[b], record[b])
    BY <2>2 DEF SoundInv, FilesInv
  <2>4. b \in Backups /\ BelongsTo(n, b)
    BY <2>1, <2>3 DEF Contents, Answers, BelongsTo
  <2>5. CASE maker[b].pc \in Dumping \cup {"failed", "dead"} \/ record[b] = NoRow
    BY <2>4, <2>5
  <2>6. CASE maker[b].pc \notin Dumping \cup {"failed", "dead"} /\ record[b] = maker[b].row
    <3>1. maker[b].opened # NoName
      BY <2>3, <2>4, OfOne, NameFacts DEF Answers, PathsOf
    <3>2. maker[b].pc \in {"schedule", "done"}
      <4>1. maker[b] \in MakerRecords /\ maker[b].pc # "idle"
        BY <2>4, <3>1, OfOne DEF PathsOf
      <4> QED BY <2>6, <4>1 DEF MakerRecords
    <3>3. record[b].status = "completed" /\ record[b].path = n
      BY <2>3, <2>4, <2>6, <3>2, OfOne DEF RowsOf, Answers
    <3> QED BY <2>4, <3>3
  <2> QED BY <2>3, <2>5, <2>6 DEF Answers
<1> QED BY <1>1, SoundAlways, PTL

\* Of the steps of makers, Fail alone leaves a backup failed that was not.
LEMMA FailedByFail ==
    ASSUME BackupTypeOK, PathsInv, NEW b \in Backups, NEW o \in Backups, MakerStep(o),
           maker[b].pc # "failed", maker'[b].pc = "failed"
    PROVE  Fail(b)
<1>1. maker[b] \in MakerRecords
    BY MakerFacts
<1>2. CASE o # b
  <2>1. OthersKeep(o) => maker'[b].pc = maker[b].pc
    BY <1>2, OthersFields
  <2>2. OthersKeep(o)
    <3>1. ASSUME NEW m, NEW row, Becomes(o, m, row) PROVE OthersKeep(o)
      BY <3>1 DEF Becomes
    <3>2. CASE (\E order \in Orders : CreateBackup(o, order)) \/ OpenFile(o) \/ Dump(o)
      BY <3>1, <3>2, CreateEffects, OpenFileEffects, DumpEffects
    <3>3. CASE OpenZip(o) \/ Copy(o) \/ Remove(o) \/ CalculateChecksum(o)
      BY <3>1, <3>3, OpenZipEffects, CopyEffects, RemoveEffects, ChecksumEffects
    <3>4. CASE Complete(o) \/ MarkScheduled(o) \/ Fail(o) \/ DieMaking(o)
      BY <3>1, <3>4, CompleteEffects, MarkEffects, FailEffects, DieEffects
    <3> QED BY <3>2, <3>3, <3>4 DEF MakerStep
  <2> QED BY <2>1, <2>2
<1>3. CASE o = b
  <2> DEFINE P == {"idle", "schedule", "done", "failed", "dead"} \cup Dumping
             O == Orders \cup {NoMaker.order}
  <2>0. maker \in [Backups -> [pc : P, order : O, path : Paths, linked : BOOLEAN,
                               source : Paths, opened : Paths, read : Contents, row : RowRecords]]
    BY DEF BackupTypeOK, MakerRecords
  <2> HIDE DEF P, O
  <2>1. ASSUME NEW order \in Orders, CreateBackup(b, order) PROVE FALSE
    BY <2>0, <2>1 DEF CreateBackup
  <2>2. CASE OpenFile(b)
    BY <2>0, <2>2 DEF OpenFile
  <2>3. CASE Dump(b)
    BY <2>0, <2>3 DEF Dump
  <2>4. CASE OpenZip(b)
    BY <2>0, <2>4 DEF OpenZip
  <2>5. CASE Copy(b)
    BY <2>0, <2>5 DEF Copy
  <2>6. CASE Remove(b)
    BY <2>0, <2>6 DEF Remove, Unlinked
  <2>7. CASE CalculateChecksum(b)
    BY <2>0, <2>7 DEF CalculateChecksum
  <2>8. CASE Complete(b)
    BY <2>0, <2>8 DEF Complete
  <2>9. CASE MarkScheduled(b)
    BY <2>0, <2>9 DEF MarkScheduled
  <2>10. CASE DieMaking(b)
    BY <2>0, <2>10 DEF DieMaking
  <2> QED BY <1>3, <2>1, <2>2, <2>3, <2>4, <2>5, <2>6, <2>7, <2>8, <2>9, <2>10 DEF MakerStep
<1> QED BY <1>2, <1>3

\* Nor does a clean-up, which only takes files away under the makers that write them.
LEMMA UnlinkFailsNone ==
    ASSUME SoundInv, NEW c \in Cleaners, NEW o \in Backups, NEW b \in Backups, UnlinkFile(c, o)
    PROVE  maker'[b].pc = maker[b].pc
<1> DEFINE n == cleaner[c].row[o].path
<1>1. CASE ~Exists(n)
    BY <1>1 DEF UnlinkFile
<1>2. CASE Exists(n)
  <2>1. maker' = Unlinked(n)
    BY <1>2 DEF UnlinkFile
  <2> HIDE DEF n
  <2>2. maker[b] \in MakerRecords
    BY OfOne
  <2>3. BackupTypeOK
    BY DEF SoundInv
  <2>4. \/ maker'[b] = maker[b]
        \/ maker'[b] = [maker[b] EXCEPT !.linked = FALSE]
    BY <2>1, <2>3, UnlinkedIs
  <2> QED BY <2>2, <2>4, FieldFacts
<1> QED BY <1>1, <1>2

\* Nothing a backup of its own has written is missing when it looks for it.
LEMMA FailsForCause ==
    ASSUME SoundInv, engine = "sqlite", NEW b \in Backups, Fail(b), troubles' = troubles
    PROVE  Shared(b)
<1>1. troubles \in [deletions : Nat, failures : Nat, deaths : Nat]
    BY DEF SoundInv, BackupTypeOK
<1>2. ~Trouble("failures")
    BY <1>1, TroubleTypes
<1>3. \/ maker[b].pc \in {"zip", "sum"} /\ ~Exists(maker[b].path)
      \/ maker[b].pc = "remove" /\ ~Exists(maker[b].source)
    BY <1>2 DEF Fail
<1> SUFFICES ASSUME ~Shared(b) PROVE FALSE
    OBVIOUS
<1>4. WholeOf(b, maker[b], files, clock) /\ PathsOf(maker[b], clock)
    BY OfOne
<1>5. maker[b].opened \in Names /\ maker[b].path \in Names
    BY <1>3, PathFacts DEF SoundInv, Dumping
<1>6. Whole(b) # Missing
  <2>1. Whole(b).of = {b}
    BY DEF Whole
  <2> QED BY <2>1, MissingIs
<1>7. CASE maker[b].pc = "zip"
    BY <1>3, <1>4, <1>5, <1>6, <1>7, NameFacts DEF Exists, WholeOf, PathsOf
<1>8. CASE maker[b].pc = "sum"
    BY <1>3, <1>4, <1>5, <1>6, <1>8, NameFacts DEF Exists, WholeOf
<1>9. CASE maker[b].pc = "remove"
    BY <1>3, <1>4, <1>5, <1>6, <1>9, NameFacts DEF Exists, WholeOf, PathsOf
<1> QED BY <1>3, <1>7, <1>8, <1>9

(* On SQLite a backup fails only for a cause: the failure without one that TLC
   finds is that of the other databases alone.
   (the compression of a dump and the except branches of the makers)         *)
THEOREM FailuresOnSqlite == BackupsSpec /\ [](engine = "sqlite") => FailureHasCause
<1>1. SoundInv /\ engine = "sqlite" /\ [BackupsNext]_backupVars =>
          [\A b \in Backups : maker[b].pc \in Dumping /\ maker'[b].pc = "failed" =>
               \/ troubles' # troubles
               \/ Shared(b)]_backupVars
  <2> SUFFICES ASSUME SoundInv, engine = "sqlite", BackupsNext, NEW b \in Backups,
                      maker[b].pc \in Dumping, maker'[b].pc = "failed", troubles' = troubles
               PROVE  Shared(b)
      OBVIOUS
  <2>1. BackupTypeOK /\ maker[b].pc # "failed"
    BY DEF SoundInv, Dumping
  <2>2. PICK o \in Backups : MakerStep(o)
    <3>1. ASSUME NEW o \in Backups, DestroyRecord(o) PROVE FALSE
      BY <2>1, <3>1 DEF DestroyRecord
    <3>2. ASSUME NEW c \in Cleaners, Cleanup(c) \/ EndCleanup(c) \/ DieCleaning(c) PROVE FALSE
      BY <2>1, <3>2 DEF Cleanup, EndCleanup, DieCleaning
    <3>3. ASSUME NEW c \in Cleaners, NEW o \in Backups, CheckFile(c, o) \/ SaveExpired(c, o) PROVE FALSE
      BY <2>1, <3>3 DEF CheckFile, SaveExpired
    <3>4. ASSUME NEW c \in Cleaners, NEW o \in Backups, UnlinkFile(c, o) PROVE FALSE
      BY <2>1, <3>4, UnlinkFailsNone
    <3>5. ~Second
      BY <2>1 DEF Second
    <3> QED BY <3>1, <3>2, <3>3, <3>4, <3>5 DEF BackupsNext, MakerStep
  <2>3. Fail(b)
    BY <2>1, <2>2, FailedByFail DEF SoundInv
  <2> QED BY <2>3, FailsForCause
<1> QED BY <1>1, SoundAlways, PTL DEF FailureHasCause, BackupsSpec

=============================================================================
