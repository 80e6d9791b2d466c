--------------------------- MODULE MonitorsPage ---------------------------
(* One browser tab on the Monitors page or on the Groups & Labels settings,  *)
(* the monitor and group handlers it calls, and another client that edits    *)
(* the same monitors.  The page acts on the list it has cached: between the  *)
(* click and the handler the monitors may change, vanish or be renamed.      *)
(*                                                                           *)
(* A reference to a monitor, in the list, the selection, a form or a         *)
(* request, is an id.  The model also carries the birth of the monitor the   *)
(* id stood for when the user picked it: no code reads it, the properties    *)
(* do.                                                                       *)
EXTENDS QueryCache, FiniteSets

CONSTANTS
    Group, Label,    \* the names a monitor's group and labels are taken from
    Param,           \* what c.Param gives a handler for a name the page put
                     \* into the path with encodeURIComponent: the name, or,
                     \* where Go's encoding of the path differs, its escapes
    Number,          \* values of interval (with timeout and expected_status, one
                     \* representative) and max_retries
    Form,            \* what the user may type in the create and edit form
    BulkForm,        \* what the user may leave in the bulk form
    Search,          \* what the search box and status tab let through, as ids
    Mobile,          \* useBreakpoint().isMobile
    InitDb,          \* the monitors at the start
    MaxId,           \* bound: monitors ever created
    MaxWork          \* bound: clicks of the user and writes of the other client

NoGroup == "no group"
Id == 1..MaxId

ASSUME PageAssumption ==
    /\ MaxId \in Nat /\ MaxWork \in Nat
    /\ NoGroup \notin Group /\ None \notin Group \cup Label
    /\ DOMAIN Param = Group \cup Label
    /\ \A name \in Group \cup Label : Param[name] # NoGroup
    /\ Form \subseteq [grp : Group \cup {NoGroup}, labs : SUBSET Label,
                         interval : Number, retries : Number]
    /\ \E n \in 0..MaxId : DOMAIN InitDb = 1..n
    /\ \A i \in DOMAIN InitDb :
            InitDb[i] \in [born : Nat, grp : Group \cup {NoGroup}, labs : SUBSET Label,
                          interval : Number, retries : Number, fav : BOOLEAN, pub : BOOLEAN]

VARIABLES
    db,        \* the monitors table: id -> monitor
    nextId,    \* the id the table's sequence gives next
    births,    \* monitors ever created
    ver,       \* per key, how often the answer to its query has changed
    cache,     \* the query cache, per key
    page,      \* component state of the mounted page
    calls,     \* requests in flight, by the order they were issued in
    must,      \* per key, the version the page may not fall behind (ghost)
    early,     \* per key, the version of the writes that settled during its
               \* first load (ghost)
    work       \* clicks and foreign writes so far

vars == <<db, nextId, births, ver, cache, page, calls, must, early, work>>

Key == {"monitors", "monitor-groups", "settings-groups", "settings-labels"}

\* The queries each route observes.
Observed(route) ==
    IF route = "monitors" THEN {"monitors", "monitor-groups"}
                          ELSE {"settings-groups", "settings-labels"}
Mounted(k) == k \in Observed(page.route)

NoVersions == [k \in Key |-> 0]

---------------------------------------------------------------------------
(* The server: what the GETs answer.                                         *)

InGroup(d, g)  == {i \in DOMAIN d : d[i].grp = g}
Labelled(d, l) == {i \in DOMAIN d : l \in d[i].labs}

ListGroups(d) == {g \in Group : InGroup(d, g) # {}}

ListGroupsWithCount(d) ==
    {[name |-> g, count |-> Cardinality(InGroup(d, g))] : g \in ListGroups(d)}

ListLabelsWithCount(d) ==
    {[name |-> l, count |-> Cardinality(Labelled(d, l))] :
        l \in {x \in Label : Labelled(d, x) # {}}}

Query(k, d) ==
    CASE k = "monitors"        -> d
      [] k = "monitor-groups"  -> ListGroups(d)
      [] k = "settings-groups" -> ListGroupsWithCount(d)
      [] k = "settings-labels" -> ListLabelsWithCount(d)

---------------------------------------------------------------------------
(* The server: the statement each handler runs.  ids maps the addressed ids  *)
(* to the births the user saw.                                               *)

Created(d, f) ==
    [i \in DOMAIN d \cup {nextId} |->
        IF i = nextId
        THEN [born |-> births, grp |-> f.grp, labs |-> f.labs, interval |-> f.interval,
              retries |-> f.retries, fav |-> FALSE, pub |-> FALSE]
        ELSE d[i]]

Updated(m, f) == [m EXCEPT !.grp = f.grp, !.labs = f.labs,
                           !.interval = f.interval, !.retries = f.retries]

Deleted(d, ids) == [i \in DOMAIN d \ ids |-> d[i]]

\* BulkUpdate builds its SET list from the fields that are present, and a
\* number counts as present when it is positive.
BulkUpdated(m, f) ==
    LET Has(field) == field \in DOMAIN f
    IN  [m EXCEPT !.grp      = IF Has("grp") THEN f.grp ELSE @,
                  !.labs     = IF Has("labs") THEN f.labs ELSE @,
                  !.interval = IF Has("interval") /\ f.interval > 0 THEN f.interval ELSE @,
                  !.retries  = IF Has("retries") /\ f.retries > 0 THEN f.retries ELSE @,
                  !.fav      = IF Has("fav") THEN f.fav ELSE @]

RenamedGroup(d, old, new) ==
    [i \in DOMAIN d |-> IF d[i].grp = old THEN [d[i] EXCEPT !.grp = new] ELSE d[i]]

\* The CASE of the statement: when the new name is already among the labels
\* the old one is only removed.
RenamedLabel(d, old, new) ==
    [i \in DOMAIN d |->
        IF old \notin d[i].labs THEN d[i]
        ELSE [d[i] EXCEPT !.labs = IF new \in @ THEN @ \ {old}
                                   ELSE (@ \ {old}) \cup {new}]]

DeletedGroup(d, name) ==
    [i \in DOMAIN d |-> IF d[i].grp = name THEN [d[i] EXCEPT !.grp = NoGroup] ELSE d[i]]

DeletedLabel(d, name) == [i \in DOMAIN d |-> [d[i] EXCEPT !.labs = @ \ {name}]]

\* One monitor after the request c about it.
Rewritten(m, c) ==
    CASE c.op = "update"     -> Updated(m, c.arg)
      [] c.op = "favorite"   -> [m EXCEPT !.fav = c.arg]
      [] c.op = "visibility" -> [m EXCEPT !.pub = c.arg]
      [] c.op = "bulk"       -> BulkUpdated(m, c.arg)

\* The table after the handler of request c.
Effect(c) ==
    CASE c.op \in {"update", "favorite", "visibility", "bulk"} ->
            [i \in DOMAIN db |-> IF i \in DOMAIN c.ids THEN Rewritten(db[i], c) ELSE db[i]]
      [] c.op = "create"      -> Created(db, c.arg)
      [] c.op = "delete"      -> Deleted(db, DOMAIN c.ids)
      [] c.op = "renameGroup" -> RenamedGroup(db, Param[c.arg.old], c.arg.new)
      [] c.op = "renameLabel" -> RenamedLabel(db, Param[c.arg.old], c.arg.new)
      [] c.op = "deleteGroup" -> DeletedGroup(db, Param[c.arg])
      [] c.op = "deleteLabel" -> DeletedLabel(db, Param[c.arg])

\* 404 for a monitor that is gone, 400 for a bulk update of nothing.
Accepted(c) ==
    /\ c.op \in {"update", "favorite", "visibility", "delete"} =>
            DOMAIN c.ids \subseteq DOMAIN db
    /\ c.op = "bulk" => DOMAIN c.ids # {}

\* The table becomes d; the keys whose answer changed get a new version.
Changed(d) == {k \in Key : Query(k, d) # Query(k, db)}
Commit(d) ==
    /\ db' = d
    /\ ver' = [k \in Key |-> IF k \in Changed(d) THEN ver[k] + 1 ELSE ver[k]]

---------------------------------------------------------------------------
(* The page.  sel maps the selected ids to births; form is the open modal    *)
(* (the monitor it edits, or nobody for a new one), bulk says whether the    *)
(* bulk form is open; text, grp and lab are the filters.                     *)

FreshPage ==
    [route |-> "monitors", sel |-> <<>>, text |-> Id, grp |-> None, lab |-> None,
     view |-> "grouped", form |-> None, bulk |-> FALSE]

FreshTab == [route |-> "groups",
             group |-> [editing |-> None, target |-> None, busy |-> FALSE],
             label |-> [editing |-> None, target |-> None, busy |-> FALSE]]

OnMonitors == page.route = "monitors"
OnGroups   == page.route = "groups"

\* No modal covers the page.
PageFree == OnMonitors /\ page.form = None /\ ~page.bulk
TabFree  == OnGroups /\ page.group.target = None /\ page.label.target = None

List   == IF Loaded(cache["monitors"]) THEN cache["monitors"].data ELSE <<>>
Groups == IF Loaded(cache["monitor-groups"]) THEN cache["monitor-groups"].data ELSE {}
Names(kind) ==
    LET e == cache[IF kind = "group" THEN "settings-groups" ELSE "settings-labels"]
    IN  IF Loaded(e) THEN {s.name : s \in e.data} ELSE {}

AllLabels == UNION {List[i].labs : i \in DOMAIN List}

Filtered ==
    {i \in DOMAIN List :
        /\ i \in page.text
        /\ page.grp # None => List[i].grp = page.grp
        /\ page.lab # None => page.lab \in List[i].labs}

Selected == DOMAIN page.sel
Tick(ids)   == [i \in Selected \cup ids |-> IF i \in ids THEN List[i].born ELSE page.sel[i]]
Untick(ids) == [i \in Selected \ ids |-> page.sel[i]]

\* What a checkbox that governs the monitors h does: toggleSelectAll.
Toggled(h) == IF h \subseteq Selected THEN Untick(h) ELSE Tick(h \ Selected)

\* The sections of the grouped view: one per group that has a filtered
\* monitor, and the monitors without one.
Grouped(g) == {i \in Filtered : List[i].grp = g}
Ungrouped  == Grouped(NoGroup)
FlatView   == page.view = "flat" \/ Groups = {}

\* The header checkboxes the page shows, as the monitors each one governs.
Headers ==
    IF FlatView THEN (IF Mobile THEN {} ELSE {Filtered})
    ELSE {Grouped(g) : g \in {List[i].grp : i \in Filtered} \ {NoGroup}}
         \cup (IF Mobile \/ Ungrouped = {} THEN {} ELSE {Ungrouped})

AllSelectedFavorited ==
    Selected # {} /\ \A i \in Selected \cap DOMAIN List : List[i].fav

\* Requests of the mounted component with the given operations.
Pending(ops) ==
    {n \in DOMAIN calls : calls[n].here /\ calls[n].op \in ops /\ calls[n].st # "ok"
                                       /\ calls[n].st # "err"}

\* A call remembers whether its component is still mounted, whether its
\* mutation object was used again since, and which keys its handler changed.
Issue(op, ids, arg) ==
    /\ calls' = [n \in DOMAIN calls \cup {work} |->
                    IF n = work
                    THEN [op |-> op, ids |-> ids, arg |-> arg, st |-> "sent",
                          latest |-> TRUE, here |-> TRUE, at |-> NoVersions]
                    ELSE [calls[n] EXCEPT !.latest = @ /\ calls[n].op # op]]

Works      == work < MaxWork /\ work' = work + 1
ServerSame == UNCHANGED <<db, nextId, births, ver, must, early>>
Click(p)   == Works /\ page' = p /\ ServerSame /\ UNCHANGED <<cache, calls>>
Send(op, ids, arg, p) ==
    Works /\ Issue(op, ids, arg) /\ page' = p /\ ServerSame /\ UNCHANGED cache

Row(i) == [j \in {i} |-> List[j].born]

\* The status tabs and the search box.
Find == /\ PageFree
        /\ \E s \in Search : Click([page EXCEPT !.text = s])

\* The filter sidebar: a second click on a filter clears it.
FilterBy ==
    /\ PageFree
    /\ \/ \E g \in Groups : Click([page EXCEPT !.grp = IF @ = g THEN None ELSE g])
       \/ \E l \in AllLabels : Click([page EXCEPT !.lab = IF @ = l THEN None ELSE l])

\* The badges of the active filters.
ClearFilter ==
    /\ PageFree
    /\ \/ page.grp # None /\ Click([page EXCEPT !.grp = None])
       \/ page.lab # None /\ Click([page EXCEPT !.lab = None])

SwitchView ==
    /\ PageFree /\ ~Mobile /\ Groups # {}
    /\ Click([page EXCEPT !.view = IF @ = "grouped" THEN "flat" ELSE "grouped"])

ToggleSelect ==
    /\ PageFree
    /\ \E i \in Filtered : Click([page EXCEPT !.sel = Toggled({i})])

\* The checkbox of a table's or a group's header.
ToggleHeader ==
    /\ PageFree
    /\ \E h \in Headers : Click([page EXCEPT !.sel = Toggled(h)])

DeselectAll == PageFree /\ Selected # {} /\ Click([page EXCEPT !.sel = <<>>])

\* Row controls: they send the negation of what the list shows.
Favorite ==
    /\ PageFree
    /\ \E i \in Filtered : Send("favorite", Row(i), ~List[i].fav, page)

Visibility ==
    /\ PageFree /\ ~Mobile
    /\ \E i \in Filtered : Send("visibility", Row(i), ~List[i].pub, page)

HandleDelete ==
    /\ PageFree
    /\ \E i \in Filtered : Send("delete", Row(i), None, page)

\* The header's button and the row menu open the form.
AddMonitor  == PageFree /\ Click([page EXCEPT !.form = <<>>])
EditMonitor == PageFree /\ \E i \in Filtered : Click([page EXCEPT !.form = Row(i)])

CloseForm == OnMonitors /\ page.form # None /\ Click([page EXCEPT !.form = None])

\* Save stays disabled while a create or an update of this page is pending.
HandleSave ==
    /\ OnMonitors /\ page.form # None
    /\ Pending({"create", "update"}) = {}
    /\ \E f \in Form :
        Send(IF page.form = <<>> THEN "create" ELSE "update", page.form, f, page)

\* The bulk bar.
OpenBulk == PageFree /\ Selected # {} /\ Click([page EXCEPT !.bulk = TRUE])

CloseBulk == OnMonitors /\ page.bulk /\ Click([page EXCEPT !.bulk = FALSE])

HandleBulkFavorite ==
    /\ PageFree /\ Selected # {} /\ Pending({"bulk"}) = {}
    /\ Send("bulk", page.sel, [fav |-> ~AllSelectedFavorited], page)

\* The bulk form: on is the set of fields the user enabled; a number is
\* None when its box is empty.  Zero retries are allowed.
BulkSavable(f) ==
    /\ f.on # {}
    /\ "interval" \in f.on => f.interval # None /\ f.interval > 0
    /\ "retries" \in f.on => f.retries # None

BulkPayload(f) == [field \in f.on |-> f[field]]

\* Apply addresses whatever is selected by now, nothing included.
HandleBulkSave(payload) == Send("bulk", page.sel, payload, page)

ApplyBulk ==
    /\ OnMonitors /\ page.bulk /\ Pending({"bulk"}) = {}
    /\ \E f \in BulkForm : BulkSavable(f) /\ HandleBulkSave(BulkPayload(f))

---------------------------------------------------------------------------
(* The Groups & Labels settings: one section per kind.                       *)

Kind == {"group", "label"}
NamesOf(kind) == IF kind = "group" THEN Group ELSE Label
RenameOp == [group |-> "renameGroup", label |-> "renameLabel"]
DeleteOp == [group |-> "deleteGroup", label |-> "deleteLabel"]

StartRename ==
    /\ TabFree
    /\ \E kind \in Kind : \E n \in Names(kind) : Click([page EXCEPT ![kind].editing = n])

CancelRename ==
    /\ TabFree
    /\ \E kind \in Kind : /\ page[kind].editing # None
                          /\ Click([page EXCEPT ![kind].editing = None])

\* Faulty variant: a draft that names the row itself is sent too.
RenameWithoutGuard ==
    /\ TabFree
    /\ \E kind \in Kind : \E new \in NamesOf(kind) :
        /\ page[kind].editing \in Names(kind)
        /\ Send(RenameOp[kind], <<>>, [old |-> page[kind].editing, new |-> new], page)

\* Enter in the rename row, also while an earlier rename is pending; a draft
\* that names the row itself only closes it.
HandleRename ==
    /\ TabFree
    /\ \E kind \in Kind : \E new \in NamesOf(kind) :
        /\ page[kind].editing \in Names(kind)
        /\ IF new = page[kind].editing
           THEN Click([page EXCEPT ![kind].editing = None])
           ELSE Send(RenameOp[kind], <<>>, [old |-> page[kind].editing, new |-> new], page)

AskDelete ==
    /\ TabFree
    /\ \E kind \in Kind : \E n \in Names(kind) : Click([page EXCEPT ![kind].target = n])

CancelDelete ==
    /\ OnGroups
    /\ \E kind \in Kind : /\ page[kind].target # None /\ ~page[kind].busy
                          /\ Click([page EXCEPT ![kind].target = None])

ConfirmDelete ==
    /\ OnGroups
    /\ \E kind \in Kind :
        /\ page[kind].target # None /\ ~page[kind].busy
        /\ Send(DeleteOp[kind], <<>>, page[kind].target, [page EXCEPT ![kind].busy = TRUE])

\* The link from one route to the other: component state is lost, the calls
\* in flight lose the component that waits for them, and the queries of the
\* new route mount: those older than their staleTime are fetched as well.
Navigate ==
    /\ page' = IF OnMonitors THEN FreshTab ELSE FreshPage
    /\ \E stale \in SUBSET Observed(page'.route) :
        cache' = [k \in Key |-> CASE k \in stale -> Ask(cache[k])
                                  [] k \in Observed(page'.route) \ stale -> Mount(cache[k])
                                  [] OTHER -> cache[k]]
    /\ calls' = [n \in DOMAIN calls |-> [calls[n] EXCEPT !.here = FALSE]]
    /\ Works /\ ServerSame

---------------------------------------------------------------------------
(* Requests: handled, lost before or after the handler, settled.             *)

Resolve(n, st, at) == calls' = [calls EXCEPT ![n].st = st, ![n].at = at]

\* The handler runs; its answer arrives or is lost on the way back.
Handle ==
    \E n \in DOMAIN calls :
        LET c == calls[n]
        IN  /\ c.st = "sent" /\ Accepted(c)
            /\ c.op = "create" => nextId \in Id
            /\ Commit(Effect(c))
            /\ nextId' = IF c.op = "create" THEN nextId + 1 ELSE nextId
            /\ births' = IF c.op = "create" THEN births + 1 ELSE births
            /\ \E st \in {"ok", "err"} :
                Resolve(n, st, [k \in Key |-> IF k \in Changed(db') THEN ver'[k] ELSE 0])
            /\ UNCHANGED <<cache, page, must, early, work>>

\* The handler refuses, or the request never reaches it.
Refuse ==
    \E n \in DOMAIN calls :
        /\ calls[n].st = "sent"
        /\ Resolve(n, "err", NoVersions)
        /\ UNCHANGED <<db, nextId, births, ver, cache, page, must, early, work>>

\* Faulty variant: favorites and visibility invalidate nothing.
InvalidatesForgetful(op) ==
    IF op \in {"favorite", "visibility"} THEN {}
    ELSE {"settings-groups", "settings-labels", "monitors", "monitor-groups"}

\* The keys the hook of an operation invalidates when it succeeds.
Invalidates(op) ==
    CASE op \in {"create", "update", "delete", "bulk"} -> {"monitors", "monitor-groups"}
      [] op \in {"favorite", "visibility"}             -> {"monitors"}
      [] op \in {"renameGroup", "deleteGroup"} ->
            {"settings-groups", "monitors", "monitor-groups"}
      [] op \in {"renameLabel", "deleteLabel"} -> {"settings-labels", "monitors"}

\* What the component does when its call returns.  The state setters run on
\* the component as it is now, whatever was opened or ticked since.
Continue(c) ==
    CASE c.op \in {"create", "update"} -> [page EXCEPT !.form = None]
      [] c.op = "delete" -> [page EXCEPT !.sel = Untick(DOMAIN c.ids)]
      [] c.op = "bulk" -> [page EXCEPT !.sel = <<>>, !.bulk = @ /\ DOMAIN c.arg = {"fav"}]
      [] OTHER -> page

\* The callbacks of one mutate call run only while it is the latest of its
\* mutation.  A failed rename keeps its row open.
ContinueTab(c) ==
    LET kind == IF c.op \in {"renameGroup", "deleteGroup"} THEN "group" ELSE "label"
    IN  IF ~c.latest THEN page
        ELSE IF c.op = RenameOp[kind]
        THEN (IF c.st = "ok" THEN [page EXCEPT ![kind].editing = None] ELSE page)
        ELSE [page EXCEPT ![kind].busy = FALSE,
                          ![kind].target = IF c.st = "ok" THEN None ELSE @]

\* The page that sent request c is told that it succeeded, with key k on it.
Told(c, k) == c.st = "ok" /\ c.here /\ Mounted(k)

\* Its first load is under way: the invalidation joins that load, whose answer
\* may be older than the write and clears the mark all the same.
Joined(e) == Fetching(e) /\ ~Loaded(e)

Latest(a, b) == IF a < b THEN b ELSE a

Settle ==
    \E n \in DOMAIN calls :
        LET c == calls[n]
        IN  /\ c.st # "sent"
            /\ calls' = [m \in DOMAIN calls \ {n} |-> calls[m]]
            /\ page' = CASE c.here /\ OnMonitors /\ c.st = "ok" -> Continue(c)
                         [] c.here /\ OnGroups -> ContinueTab(c)
                         [] OTHER -> page
            /\ cache' = [k \in Key |-> IF c.st = "ok" /\ k \in Invalidates(c.op)
                                       THEN Invalidate(cache[k], Mounted(k)) ELSE cache[k]]
            /\ must' = [k \in Key |-> IF Told(c, k) /\ ~Joined(cache[k])
                                      THEN Latest(must[k], c.at[k]) ELSE must[k]]
            /\ early' = [k \in Key |-> IF Told(c, k) /\ Joined(cache[k])
                                       THEN Latest(early[k], c.at[k]) ELSE early[k]]
            /\ UNCHANGED <<db, nextId, births, ver, work>>

---------------------------------------------------------------------------
(* The query cache.                                                          *)

Fetch(k, e) ==
    /\ cache' = [cache EXCEPT ![k] = e]
    /\ UNCHANGED <<db, nextId, births, ver, page, calls, early, work>>

\* The list is polled every 30 s and by the refresh button.
Poll == Mounted("monitors") /\ Fetch("monitors", Ask(cache["monitors"])) /\ UNCHANGED must

Answer ==
    \E k \in Key : /\ cache[k].fetch.step = "asked"
                   /\ Fetch(k, [cache[k] EXCEPT !.fetch = Answered(Query(k, db), ver[k])])
                   /\ UNCHANGED must

Arrive ==
    \E k \in Key :
        /\ cache[k].fetch.step = "answered" /\ Fetch(k, Deliver(cache[k]))
        /\ must' = IF Loaded(cache[k])
                   THEN [must EXCEPT ![k] = Latest(@, early[k])] ELSE must

Fail == \E k \in Key : Fetching(cache[k]) /\ Fetch(k, GiveUp(cache[k])) /\ UNCHANGED must

---------------------------------------------------------------------------
(* The other client: one more console, or the API.                           *)

\* Faulty variant: RESTART IDENTITY.
ResetRestartingIds == db' = <<>> /\ nextId' = 1 /\ births' = births

\* The reset of the monitoring data truncates the table and leaves its
\* sequence as it is.
ResetMonitoringData == db' = <<>> /\ nextId' = nextId /\ births' = births

OtherWrites ==
    /\ Works
    /\ \/ \E f \in Form : /\ nextId \in Id /\ db' = Created(db, f)
                          /\ nextId' = nextId + 1 /\ births' = births + 1
       \/ \E i \in DOMAIN db : db' = Deleted(db, {i}) /\ UNCHANGED <<nextId, births>>
       \/ \E i \in DOMAIN db, f \in Form :
            db' = [db EXCEPT ![i] = Updated(@, f)] /\ UNCHANGED <<nextId, births>>
       \/ ResetMonitoringData
    /\ Commit(db')
    /\ UNCHANGED <<cache, page, calls, must, early>>

---------------------------------------------------------------------------
\* The tab is opened on either route.
Init ==
    /\ db = InitDb /\ nextId = Cardinality(DOMAIN InitDb) + 1
    /\ births = Cardinality(DOMAIN InitDb) + 1
    /\ ver = NoVersions /\ must = NoVersions /\ early = NoVersions
    /\ page \in {FreshPage, FreshTab}
    /\ cache = [k \in Key |-> IF Mounted(k) THEN Mount(Empty) ELSE Empty]
    /\ calls = <<>> /\ work = 0

Next ==
    \/ Find \/ FilterBy \/ ClearFilter \/ SwitchView
    \/ ToggleSelect \/ ToggleHeader \/ DeselectAll
    \/ Favorite \/ Visibility \/ HandleDelete
    \/ AddMonitor \/ EditMonitor \/ CloseForm \/ HandleSave
    \/ OpenBulk \/ CloseBulk \/ HandleBulkFavorite \/ ApplyBulk
    \/ StartRename \/ CancelRename \/ HandleRename
    \/ AskDelete \/ CancelDelete \/ ConfirmDelete \/ Navigate
    \/ Handle \/ Refuse \/ Settle
    \/ Poll \/ Answer \/ Arrive \/ Fail \/ OtherWrites

Spec == Init /\ [][Next]_vars

---------------------------------------------------------------------------
(* Properties.                                                               *)

\* An id anywhere in the tab, in the selection, in the open form or in a
\* request still to be handled, never stands for another monitor than the
\* one the user picked, however the list and the table moved on: at worst
\* for none (DELETE, TRUNCATE and the sequence of monitors.id).
PicksKeepIdentity ==
    LET Same(ids) == \A i \in DOMAIN ids \cap DOMAIN db : db[i].born = ids[i]
    IN  /\ OnMonitors => /\ Same(page.sel)
                         /\ page.form # None => Same(page.form)
        /\ \A n \in DOMAIN calls : calls[n].st = "sent" => Same(calls[n].ids)

\* Once a page has been told that its write succeeded, the lists it was showing
\* are not older than the write, unless the fetch that follows the write is
\* under way or has failed: no poll answered before the write may settle in the
\* cache after it.  A write that succeeds during the first load of a list is in
\* it after the next fetch (useMonitors and useGroupsLabels, onSuccess).
OwnWritesVisible ==
    \A k \in Key : Mounted(k) /\ ~cache[k].invalid => cache[k].at >= must[k]

\* A rename of a label that the path carries unchanged puts the new name in the
\* place of the old one on every monitor that has it by then, and touches no
\* other label, although names move and the answer may be lost; if it did not,
\* the page is not told that it did (RenameRow's guard, RenameLabel's CASE).
Swapped(c, labs) ==
    IF c.arg.old \in labs THEN (labs \ {c.arg.old}) \cup {c.arg.new} ELSE labs
RenameKept(n) ==
    LET c == calls[n]
    IN  /\ c.op = "renameLabel" /\ c.st = "sent" /\ Param[c.arg.old] = c.arg.old
        /\ n \in DOMAIN calls' /\ calls'[n].st # "sent"
        => \/ \A i \in DOMAIN db : db'[i].labs = Swapped(c, db[i].labs)
           \/ calls'[n].st = "err" /\ UNCHANGED db
RenameKeepsLabels == [][\A n \in DOMAIN calls : RenameKept(n)]_vars
===========================================================================
