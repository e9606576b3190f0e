--------------------------- MODULE ContentDelivery --------------------------
(* How the content of templates is sent to screens and how its one download  *)
(* status per item is kept (Content in templates/models.py, the retry view,  *)
(* content_sync_endpoint in signage/views.py).                               *)
(*                                                                           *)
(* A template is identified with its single content item. The status belongs *)
(* to the item and not to a screen: what one screen reports holds for all.   *)
(* Download logs and the notification after the last retry are left out:     *)
(* nothing reads them back.                                                  *)
EXTENDS Integers

CONSTANTS
    Templates,
    Screens,
    IsFile,        \* IsFile[c]: image, video or webview; text, json and charts need no file
    Senders,       \* requests that retry a download, and reports of devices
    Budgets        \* bounds, as alternatives: how often screens go on or off line,
                   \* attempts fail, devices report, time passes, and retries, edits,
                   \* requests and runs start

Spendings == {"toggles", "failures", "reports", "retries", "edits", "requests",
              "passes", "ticks"}

MaxRetries == 3    \* the default of max_retries

ASSUME ContentAssumption ==
    /\ IsFile \in [Templates -> BOOLEAN]
    /\ Budgets \subseteq [Spendings -> Nat]

VARIABLES
    content,   \* content[c]: download_status, downloaded and retry_count of the row
    online,    \* online[x]: is_online of screen x
    told,      \* <<c, x>>: screen x holds a sync command for c it has not answered
    sender,    \* sender[k]: a request and the instance it has read
    left,      \* what is left of the budget
    asked,     \* the pairs <<c, x>> for which a command was sent at all
    confirmed  \* the items that some screen has reported as downloaded

deliveryVars == <<content, online, told, sender, left, asked, confirmed>>

Items == [status : {"pending", "success", "failed"}, downloaded : BOOLEAN,
          retries : 0 .. MaxRetries]
NewItem == [status |-> "pending", downloaded |-> FALSE, retries |-> 0]

\* What became of an attempt: nothing to do, sent, ready without a file, or
\* one to three calls of mark_failed().
Results == {"none", "sent", "ready", "once", "twice", "thrice"}
Marks == [once |-> 1, twice |-> 2, thrice |-> 3]

IdleSender == [pc |-> "idle"]
SenderPcs == {"sending", "reporting"}
Sendings == [pc : SenderPcs, item : Templates, screen : Screens, seen : Items,
             result : Results \cup {"success", "failed", "pending"}]

DeliveryTypeOK ==
    /\ content \in [Templates -> Items]
    /\ online \in [Screens -> BOOLEAN]
    /\ told \subseteq Templates \X Screens
    /\ asked \subseteq Templates \X Screens
    /\ confirmed \subseteq Templates
    /\ sender \in [Senders -> Sendings \cup {IdleSender}]
    /\ left \in [Spendings -> Nat]

DeliveryInit ==
    /\ content = [c \in Templates |-> NewItem]
    /\ online = [x \in Screens |-> TRUE]
    /\ told = {} /\ asked = {} /\ confirmed = {}
    /\ sender = [k \in Senders |-> IdleSender]
    /\ left \in Budgets

\* What a step takes from the budget.
Spend(what) ==
    /\ \A w \in what : left[w] > 0
    /\ left' = [w \in Spendings |-> IF w \in what THEN left[w] - 1 ELSE left[w]]
Failing(result) == IF result \in DOMAIN Marks THEN {"failures"} ELSE {}

-----------------------------------------------------------------------------
(* The row                                                                   *)

NeedsDownloadOnlyFailed(i) == i.status = "failed"
NeedsDownload(i) == ~i.downloaded \/ i.status \in {"pending", "failed"}

\* The count comes from the instance i; every test of it is against MaxRetries,
\* so it need not go further than that.
MarkFailed(i, n) ==
    [status |-> "failed", downloaded |-> FALSE,
     retries |-> IF i.retries + n < MaxRetries THEN i.retries + n ELSE MaxRetries]

MarkDownloaded(r) == [r EXCEPT !.downloaded = TRUE, !.status = "success"]
Pending(r) == [r EXCEPT !.status = "pending"]

\* download_to_screen(): what may become of it for the instance i and a screen
\* that is online or not. It raises for an offline screen before any mark.
\* A refused command is marked once; the outer handler marks a command that
\* raised a second time, and one raised before the command was executed once.
DownloadResults(c, i, isOnline) ==
    IF ~isOnline THEN {"none"}
    ELSE IF i.retries >= MaxRetries THEN {"once"}
    ELSE IF ~IsFile[c] THEN {"ready"}
    ELSE {"sent", "once", "twice"}

\* retry_download() marks once more whatever raised.
RetryResults(c) == IF IsFile[c] THEN {"sent", "once", "twice", "thrice"} ELSE {"ready"}

\* The row r after the attempt: each result saves its own columns.
SettledOnSend(r, i, result) ==
    IF result = "none" THEN r
    ELSE IF result \in {"sent", "ready"} THEN MarkDownloaded(r)
    ELSE MarkFailed(i, Marks[result])
Settled(r, i, result) ==
    IF result = "none" THEN r
    ELSE IF result = "sent" THEN Pending(r)
    ELSE IF result = "ready" THEN MarkDownloaded(r)
    ELSE MarkFailed(i, Marks[result])

\* The command goes out before the attempt saves what became of it.
Ask(c, x, result) ==
    LET new == IF result = "sent" THEN {<<c, x>>} ELSE {}
    IN /\ told' = told \cup new
       /\ asked' = asked \cup new

-----------------------------------------------------------------------------
(* Requests and reports                                                      *)

\* POST contents/{id}/retry_download/ for one screen: the view's checks, then
\* retry_download() up to the end of the sending.
RetryDownload(k, c, x) ==
    /\ sender[k].pc = "idle"
    /\ online[x]
    /\ content[c].status \in {"failed", "pending"}
    /\ content[c].retries < MaxRetries
    /\ \E result \in RetryResults(c) :
         /\ Spend({"retries"} \cup Failing(result))
         /\ Ask(c, x, result)
         /\ sender' = [sender EXCEPT ![k] = [pc |-> "sending", item |-> c, screen |-> x,
                                             seen |-> content[c], result |-> result]]
    /\ content' = [content EXCEPT ![c] = Pending(@)]
    /\ UNCHANGED <<online, confirmed>>

\* The status is saved after the command has gone out: it may come after the
\* screen's report.
SaveRetry(k) ==
    LET s == sender[k] IN
    /\ s.pc = "sending"
    /\ content' = [content EXCEPT ![s.item] = Settled(@, s.seen, s.result)]
    /\ sender' = [sender EXCEPT ![k] = IdleSender]
    /\ UNCHANGED <<online, told, left, asked, confirmed>>

\* content_sync_endpoint(), sync_type 'status': reads the row ...
Report(k, c, x) ==
    /\ sender[k].pc = "idle"
    /\ <<c, x>> \in told
    /\ Spend({"reports"})
    /\ told' = told \ {<<c, x>>}
    /\ \E result \in {"success", "failed", "pending"} :
         sender' = [sender EXCEPT ![k] = [pc |-> "reporting", item |-> c, screen |-> x,
                                          seen |-> content[c], result |-> result]]
    /\ UNCHANGED <<content, online, asked, confirmed>>

\* ... and saves it; update_status() saves the downloaded flag it has read.
Reported(r, i, result) ==
    IF result = "success" THEN MarkDownloaded(r)
    ELSE IF result = "failed" THEN MarkFailed(i, 1)
    ELSE [r EXCEPT !.status = "pending", !.downloaded = i.downloaded]

SaveReport(k) ==
    LET s == sender[k] IN
    /\ s.pc = "reporting"
    /\ content' = [content EXCEPT ![s.item] = Reported(@, s.seen, s.result)]
    /\ confirmed' = IF s.result = "success" THEN confirmed \cup {s.item} ELSE confirmed
    /\ sender' = [sender EXCEPT ![k] = IdleSender]
    /\ UNCHANGED <<online, told, left, asked>>

\* Heartbeats, disconnects and check_heartbeats.
Toggle(x) ==
    /\ Spend({"toggles"})
    /\ online' = [online EXCEPT ![x] = ~@]
    /\ UNCHANGED <<content, told, sender, asked, confirmed>>

SenderStep ==
    \E k \in Senders :
        \/ \E c \in Templates, x \in Screens : RetryDownload(k, c, x) \/ Report(k, c, x)
        \/ SaveRetry(k)
        \/ SaveReport(k)

-----------------------------------------------------------------------------
(* A file counts as downloaded only after some screen has said so: sending the
   command, or a report of anything else, never makes it so.
   (mark_downloaded, download_to_screen)                                     *)
DownloadedIsConfirmed ==
    \A c \in Templates :
        IsFile[c] /\ (content[c].downloaded \/ content[c].status = "success")
            => c \in confirmed
=============================================================================
