------------------------------- MODULE Layouts -------------------------------
(* The layout of one template: the editor pages that change it, the requests *)
(* that save it (TemplateViewSet) and the player that shows it.              *)
(*                                                                           *)
(* A layout is kept twice: as config_json, the list that the editor sent,    *)
(* and as Widget rows, which own the contents. Each save makes rows of the   *)
(* list, widget by widget and without a transaction, and writes the ids of   *)
(* the rows back into the list at last. The player takes places and styles   *)
(* from the list and contents from the row of the same id, and asks again    *)
(* only when the ETag says that the template row was saved.                  *)
EXTENDS Naturals, Sequences

CONSTANTS
    Elements,   \* what users draw, in the order of the list
    Pages,      \* the editor pages that are open on the template
    Puts,       \* saves that may be under way at a time
    MaxEdits,   \* bound on what users draw, change and delete
    MaxSaves    \* bound on the saves

ASSUME LayoutsAssumption ==
    /\ Elements \subseteq Nat
    /\ MaxEdits \in Nat
    /\ MaxSaves \in Nat

VARIABLES
    template,   \* config: config_json; stamp: updated_at, 0 when there is no row yet
    widget,     \* widget[i]: the Widget row of id i
    page,
    put,
    player,
    spent,      \* edits and saves so far
    troubled    \* what has disturbed the saves, for the properties only

layoutVars == <<template, widget, page, put, player, spent, troubled>>

-----------------------------------------------------------------------------
(* An element of a list: id is that of its row, 0 one that generateId() has  *)
(* made in the browser; look stands for all that can be edited.              *)
Nothing == [drawn |-> FALSE, id |-> 0, look |-> 0]
Blank == [e \in Elements |-> Nothing]
Drawn(list) == {e \in Elements : list[e].drawn}
First(S) == CHOOSE e \in S : \A f \in S : e <= f

Closed == [pc |-> "closed", new |-> FALSE, list |-> Blank]
NotSeen == [etag |-> 0, config |-> Blank, caught |-> FALSE]
NoPut == [pc |-> "idle", of |-> {}, create |-> FALSE, list |-> Blank, todo |-> {}]

\* Either there is no template yet, or one of one widget.
LayoutInit ==
    /\ \/ /\ template = [config |-> Blank, stamp |-> 0]
          /\ widget = <<>>
       \/ \E e \in Elements :
             /\ template = [config |-> [Blank EXCEPT ![e] = [drawn |-> TRUE, id |-> 1, look |-> 0]],
                            stamp |-> 1]
             /\ widget = <<[element |-> e, look |-> 0]>>
    /\ page = [p \in Pages |-> Closed]
    /\ put = [h \in Puts |-> NoPut]
    /\ player = [pc |-> "idle", etag |-> 0, config |-> Blank, rows |-> <<>>, caught |-> FALSE,
                 seen |-> NotSeen]
    /\ spent = [edits |-> 0, saves |-> 0]
    /\ troubled = {}

-----------------------------------------------------------------------------
(* The editor.                                                               *)

\* Some save has written the list and not yet the ids of its rows.
HalfSaved == \E h \in Puts : put[h].pc \in {"refresh", "sync"}

\* The page takes the list from the server.
Load(p) ==
    /\ page' = [page EXCEPT ![p] = [pc |-> "editing", new |-> FALSE, list |-> template.config]]
    /\ troubled' = IF HalfSaved THEN troubled \cup {"overlapped"} ELSE troubled
    /\ UNCHANGED <<template, widget, put, player, spent>>

OpenEditor(p) ==
    /\ page[p].pc = "closed"
    /\ template.stamp > 0
    /\ Load(p)

\* /templates/new/edit: of the pages that make new templates, the one that makes this.
OpenNew(p) ==
    /\ template.stamp = 0
    /\ \A q \in Pages : page[q].pc = "closed"
    /\ \A h \in Puts : put[h].pc = "idle"
    /\ page' = [page EXCEPT ![p] = [pc |-> "editing", new |-> TRUE, list |-> Blank]]
    /\ UNCHANGED <<template, widget, put, player, spent, troubled>>

Fresh(e) ==
    /\ ~template.config[e].drawn
    /\ \A p \in Pages : ~page[p].list[e].drawn
    /\ \A h \in Puts : ~put[h].list[e].drawn
    /\ \A i \in DOMAIN widget : widget[i].element # e

\* A save that is under way does not keep the user from editing.
Edit(p, e, entry) ==
    /\ page[p].pc # "closed"
    /\ spent.edits < MaxEdits
    /\ page' = [page EXCEPT ![p].list[e] = entry]
    /\ spent' = [spent EXCEPT !.edits = @ + 1]
    /\ UNCHANGED <<template, widget, put, player, troubled>>

NewLook == spent.edits + 1
AddWidget(p, e) == Fresh(e) /\ Edit(p, e, [drawn |-> TRUE, id |-> 0, look |-> NewLook])
ChangeWidget(p, e) ==
    page[p].list[e].drawn /\ Edit(p, e, [page[p].list[e] EXCEPT !.look = NewLook])
DeleteWidget(p, e) == page[p].list[e].drawn /\ Edit(p, e, Nothing)

SaveTemplate(p, h) ==
    /\ page[p].pc = "editing"
    /\ put[h].pc = "idle"
    /\ spent.saves < MaxSaves
    /\ spent' = [spent EXCEPT !.saves = @ + 1]
    /\ page' = [page EXCEPT ![p].pc = "saving"]
    /\ put' = [put EXCEPT ![h] = [pc |-> "save", of |-> {p}, create |-> page[p].new,
                                  list |-> page[p].list, todo |-> {}]]
    /\ troubled' = IF \E g \in Puts : put[g].pc # "idle"
                   THEN troubled \cup {"overlapped"} ELSE troubled
    /\ UNCHANGED <<template, widget, player>>

\* The page loads what was saved, to learn the ids of the rows.
LoadTemplateData(p) == page[p].pc = "loading" /\ Load(p)

\* A bound: one answer is lost or one save cut short.
MayFail == troubled \cap {"lost", "died"} = {}

\* What page p makes of an error; another try to create would make another template.
GivenUp(p) == [page EXCEPT ![p] = IF page[p].new THEN Closed ELSE [@ EXCEPT !.pc = "editing"]]

\* No answer comes, of the save or of the load; the server goes on.
LoseAnswer(p) ==
    /\ page[p].pc \in {"saving", "loading"}
    /\ MayFail
    /\ troubled' = troubled \cup {"lost"}
    /\ page' = GivenUp(p)
    /\ put' = [h \in Puts |-> [put[h] EXCEPT !.of = @ \ {p}]]
    /\ UNCHANGED <<template, widget, player, spent>>

-----------------------------------------------------------------------------
(* perform_create and perform_update.                                        *)

PutAt(h, pc) == put[h].pc = pc

\* A list without widgets is not synced at all.
Syncing(h, list) ==
    put' = [put EXCEPT ![h].pc = IF Drawn(list) = {} THEN "answer" ELSE "sync",
                       ![h].list = list, ![h].todo = Drawn(list)]

SaveRow(h) ==
    /\ PutAt(h, "save")
    /\ template' = [config |-> put[h].list, stamp |-> template.stamp + 1]
    /\ IF put[h].create THEN Syncing(h, put[h].list)
       ELSE put' = [put EXCEPT ![h].pc = "refresh"]
    /\ UNCHANGED <<widget, page, player, spent, troubled>>

\* An update works on with what is in the row now, be it the list of another.
RefreshFromDb(h) ==
    /\ PutAt(h, "refresh")
    /\ Syncing(h, template.config)
    /\ UNCHANGED <<template, widget, page, player, spent, troubled>>

\* _sync_widgets_from_config: the next widget gets its row, a new one under a new id.
SyncOfNewOnly(h) ==
    LET e == First(put[h].todo) IN
    /\ PutAt(h, "sync") /\ put[h].todo # {}
    /\ IF put[h].list[e].id = 0
       THEN /\ widget' = Append(widget, [element |-> e, look |-> put[h].list[e].look])
            /\ put' = [put EXCEPT ![h].todo = @ \ {e}, ![h].list[e].id = Len(widget) + 1]
       ELSE /\ widget' = widget
            /\ put' = [put EXCEPT ![h].todo = @ \ {e}]
    /\ UNCHANGED <<template, page, player, spent, troubled>>
SyncWidget(h) ==
    LET e == First(put[h].todo)
        id == IF put[h].list[e].id = 0 THEN Len(widget) + 1 ELSE put[h].list[e].id
        row == [element |-> e, look |-> put[h].list[e].look]
    IN
    /\ PutAt(h, "sync") /\ put[h].todo # {}
    /\ widget' = IF id > Len(widget) THEN Append(widget, row) ELSE [widget EXCEPT ![id] = row]
    /\ put' = [put EXCEPT ![h].todo = @ \ {e}, ![h].list[e].id = id]
    /\ UNCHANGED <<template, page, player, spent, troubled>>

\* At last the list with its ids is saved, and updated_at is not.
EndForgotten(h) ==
    /\ PutAt(h, "sync") /\ put[h].todo = {}
    /\ put' = [put EXCEPT ![h].pc = "answer"]
    /\ UNCHANGED <<template, widget, page, player, spent, troubled>>
EndSync(h) ==
    /\ PutAt(h, "sync") /\ put[h].todo = {}
    /\ template' = [template EXCEPT !.config = put[h].list]
    /\ put' = [put EXCEPT ![h].pc = "answer"]
    /\ UNCHANGED <<widget, page, player, spent, troubled>>

\* A page that has created a template goes on with the ids it has: the route it
\* replaces is of the same component, and has not changed yet when it would load.
Answer(h) ==
    /\ PutAt(h, "answer")
    /\ put' = [put EXCEPT ![h] = NoPut]
    /\ page' = [p \in Pages |->
          IF p \notin put[h].of THEN page[p]
          ELSE IF put[h].create THEN [page[p] EXCEPT !.pc = "editing", !.new = FALSE]
          ELSE [page[p] EXCEPT !.pc = "loading"]]
    /\ troubled' = IF put[h].create THEN troubled \cup {"created"} ELSE troubled
    /\ UNCHANGED <<template, widget, player, spent>>

\* The worker is killed or a step raises; what is saved stays saved.
Die(h) ==
    /\ put[h].pc # "idle"
    /\ MayFail
    /\ troubled' = troubled \cup {"died"}
    /\ put' = [put EXCEPT ![h] = NoPut]
    /\ page' = [p \in Pages |-> IF p \in put[h].of THEN GivenUp(p)[p] ELSE page[p]]
    /\ UNCHANGED <<template, widget, player, spent>>

-----------------------------------------------------------------------------
(* The player, whose screen shows the template.                              *)

EtagOfVersion == IF template.stamp = 0 THEN 0 ELSE 1
PlayerTemplateEtag == template.stamp

\* Every minute and at each refresh command; an answer that nothing has changed
\* leaves things as they are.
FetchTemplate ==
    /\ player.pc = "idle"
    /\ PlayerTemplateEtag # player.etag
    /\ player' = [player EXCEPT !.pc = "reading", !.seen =
          [etag |-> PlayerTemplateEtag, config |-> template.config, caught |-> HalfSaved]]
    /\ UNCHANGED <<template, widget, page, put, spent, troubled>>

\* The rows of the widgets are read after the template, and the answer comes.
FetchLayers ==
    /\ player.pc = "reading"
    /\ player' = [player EXCEPT !.pc = "idle", !.etag = player.seen.etag,
          !.config = player.seen.config, !.rows = widget, !.caught = player.seen.caught,
          !.seen = NotSeen]
    /\ UNCHANGED <<template, widget, page, put, spent, troubled>>

\* What the player makes of a list and the rows: <<element, look, contents>>. Without
\* a list it shows every row.
BuildPlaybackLayers(config, rows) ==
    IF Drawn(config) = {}
    THEN {<<rows[i].element, rows[i].look, rows[i].look>> : i \in DOMAIN rows}
    ELSE {<<e, config[e].look,
            IF config[e].id \in DOMAIN rows THEN rows[config[e].id].look ELSE 0>> : e \in Drawn(config)}

-----------------------------------------------------------------------------
PutStep(h) == SaveRow(h) \/ RefreshFromDb(h) \/ SyncWidget(h) \/ EndSync(h) \/ Answer(h)
PlayerStep == FetchTemplate \/ FetchLayers

PageStep(p) ==
    \/ OpenEditor(p) \/ OpenNew(p) \/ LoadTemplateData(p) \/ LoseAnswer(p)
    \/ \E e \in Elements : AddWidget(p, e) \/ ChangeWidget(p, e) \/ DeleteWidget(p, e)
    \/ \E h \in Puts : SaveTemplate(p, h)

EditorNext == (\E p \in Pages : PageStep(p)) \/ (\E h \in Puts : PutStep(h) \/ Die(h))
LayoutNext == EditorNext \/ PlayerStep
LayoutSpec == LayoutInit /\ [][LayoutNext]_layoutVars

\* A request that was sent is worked on, and the player asks every minute.
LayoutFairness ==
    /\ \A h \in Puts : WF_layoutVars(PutStep(h))
    /\ WF_layoutVars(PlayerStep)

-----------------------------------------------------------------------------
(* Properties.                                                               *)

AtRest == template.stamp > 0 /\ \A h \in Puts : put[h].pc = "idle"
Shown == BuildPlaybackLayers(player.config, player.rows)

\* When no save is under way, every widget of the list has a row of its own with the
\* look of the list: also after an answer was lost and the list was sent again, though
\* not after two saves have run over each other or one was cut short.
SavedHasRows ==
    AtRest /\ troubled \subseteq {"created", "lost"} =>
        \A e \in Drawn(template.config) :
            LET id == template.config[e].id
            IN  id > 0 /\ widget[id] = [element |-> e, look |-> template.config[e].look]

\* What was drawn once has one row, however often and by whomever it is changed and
\* saved: as long as no answer is lost, no save is cut short or overlaps with another
\* or with a load, and no page has created the template and gone on with its own ids.
OneRowPerElement ==
    troubled = {} =>
        \A i, j \in DOMAIN widget : widget[i].element = widget[j].element => i = j

\* Liveness: in the end the player shows what is saved, unless its last fetch came
\* while a save had written the list and not yet its ids: the ETag never changes for
\* those, and the player keeps what it has until the next save.
PlayerCatchesUp ==
    AtRest /\ ~player.caught
        ~> \/ Shown = BuildPlaybackLayers(template.config, widget)
           \/ ~AtRest
           \/ player.caught

\* The screen shows the widgets of the editor, once it has fetched the last save that
\* nothing has disturbed.
ShownIsWhatWasDrawn ==
    AtRest /\ troubled = {} /\ ~player.caught /\ player.pc = "idle" /\ player.etag = template.stamp
        => {s[1] : s \in Shown} = Drawn(template.config)
=============================================================================
