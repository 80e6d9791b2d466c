------------------------ MODULE MonitorsPage_proofs ------------------------
(* The properties of MonitorsPage for every number of monitors, groups,      *)
(* labels, clicks and requests.  Identity: every id the tab holds has been   *)
(* given by the sequence before, and the sequence never goes back.  Own      *)
(* writes: a success restarts the fetches of what it changed.                *)
EXTENDS MonitorsPage, FiniteSetTheorems, TLAPS

MonitorFields == {"born", "grp", "labs", "interval", "retries", "fav", "pub"}
PageFields  == {"route", "sel", "text", "grp", "lab", "view", "form", "bulk"}
EntryFields == {"data", "at", "invalid", "fetch"}
CallFields  == {"op", "ids", "arg", "st", "latest", "here", "at"}

MonitorOps == {"create", "update", "delete", "bulk", "favorite", "visibility"}
TabOps     == {"renameGroup", "renameLabel", "deleteGroup", "deleteLabel"}

---------------------------------------------------------------------------
(* Identity.                                                                 *)

\* A map from ids to births, and a list of monitors, that name nobody else.
Ref(ids) ==
    \A i \in DOMAIN ids : /\ i \in Nat /\ i < nextId
                          /\ i \in DOMAIN db => db[i].born = ids[i]
RefList(l) ==
    \A i \in DOMAIN l : /\ i \in Nat /\ i < nextId
                        /\ i \in DOMAIN db => db[i].born = l[i].born

TableOK ==
    /\ nextId \in Nat
    /\ \A i \in DOMAIN db : i \in Nat /\ i < nextId /\ DOMAIN db[i] = MonitorFields

GoodEntry(e) ==
    /\ DOMAIN e = EntryFields
    /\ e.data # None => RefList(e.data)
    /\ e.fetch.step = "answered" => RefList(e.fetch.data)

GoodPage(p) ==
    \/ /\ p.route = "monitors" /\ DOMAIN p = PageFields
       /\ Ref(p.sel) /\ (p.form # None => Ref(p.form))
    \/ p.route = "groups" /\ DOMAIN p = {"route", "group", "label"}

GoodCall(c) ==
    /\ DOMAIN c = CallFields /\ c.op \in MonitorOps \cup TabOps
    /\ Ref(c.ids)
    /\ c.op = "renameLabel" => c.arg.old # c.arg.new

PickInv ==
    /\ TableOK
    /\ DOMAIN cache = Key /\ GoodEntry(cache["monitors"])
    /\ GoodPage(page)
    /\ \A n \in DOMAIN calls : GoodCall(calls[n])

\* The table only gains the id the sequence gives next.
Moves ==
    /\ TableOK'
    /\ nextId' >= nextId
    /\ \A i \in DOMAIN db' : (i \in DOMAIN db /\ db'[i].born = db[i].born) \/ i = nextId

LEMMA RefMoves ==
  ASSUME TableOK, Moves
  PROVE  /\ \A x : Ref(x) => Ref(x)'
         /\ \A x : RefList(x) => RefList(x)'
  BY DEF TableOK, Moves, Ref, RefList

\* What holds of the new page, requests and list under the old table holds
\* under the new one.
LEMMA PickStep ==
  ASSUME PickInv, Moves, GoodPage(page'),
         \A n \in DOMAIN calls' : GoodCall(calls'[n]),
         DOMAIN cache' = Key, GoodEntry(cache'["monitors"])
  PROVE  PickInv'
<1>1. (\A x : Ref(x) => Ref(x)') /\ \A x : RefList(x) => RefList(x)'
  BY RefMoves DEF PickInv
<1>2. /\ \A x : GoodPage(x) => GoodPage(x)'
      /\ \A x : GoodCall(x) => GoodCall(x)'
      /\ \A x : GoodEntry(x) => GoodEntry(x)'
  BY <1>1 DEF GoodPage, GoodCall, GoodEntry
<1>3. GoodPage(page)' /\ GoodEntry(cache["monitors"])'
  BY <1>2
<1>4. \A n \in DOMAIN calls' : GoodCall(calls[n])'
  BY <1>2
<1> QED BY <1>3, <1>4 DEF PickInv, Moves

LEMMA TableStays ==
  ASSUME TableOK, UNCHANGED <<db, nextId>>
  PROVE  Moves
  BY DEF TableOK, Moves

LEMMA EntryKept ==
  ASSUME NEW e, GoodEntry(e)
  PROVE  /\ GoodEntry(Ask(e)) /\ GoodEntry(Mount(e)) /\ GoodEntry(GiveUp(e))
         /\ \A o : GoodEntry(Invalidate(e, o))
         /\ e.fetch.step = "answered" => GoodEntry(Deliver(e))
<1>1. DOMAIN e = EntryFields /\ Idle.step # "answered" /\ Asked.step # "answered"
  BY DEF GoodEntry, Idle, Asked
<1>2. GoodEntry([e EXCEPT !.fetch = Asked]) /\ GoodEntry([e EXCEPT !.fetch = Idle])
  BY <1>1 DEF GoodEntry, EntryFields
<1>3. GoodEntry(Ask(e)) /\ GoodEntry(Mount(e)) /\ GoodEntry(GiveUp(e))
  BY <1>2 DEF Ask, Mount, GiveUp
<1>4. ASSUME NEW o PROVE GoodEntry(Invalidate(e, o))
  <2>1. PICK f \in {e.fetch, Asked} : Invalidate(e, o) = [e EXCEPT !.invalid = TRUE, !.fetch = f]
    BY DEF Invalidate
  <2> QED BY <1>1, <2>1 DEF GoodEntry, EntryFields
<1>5. e.fetch.step = "answered" => GoodEntry(Deliver(e))
  BY <1>1 DEF Deliver, GoodEntry, EntryFields
<1> QED BY <1>3, <1>4, <1>5

LEMMA PickStart == Init => PickInv
<1> SUFFICES ASSUME Init PROVE PickInv
  OBVIOUS
<1>1. PICK n \in 0..MaxId : DOMAIN InitDb = 1..n
  BY PageAssumption
<1>2. n \in Nat /\ Cardinality(1..n) = n
  BY <1>1, PageAssumption, FS_Interval
<1>3. db = InitDb /\ nextId = n + 1
  BY <1>1, <1>2 DEF Init
<1>4. \A i \in DOMAIN InitDb : DOMAIN InitDb[i] = MonitorFields
  BY PageAssumption DEF MonitorFields
<1>5. TableOK
  BY <1>1, <1>2, <1>3, <1>4 DEF TableOK
<1>6. GoodPage(page)
  <2>1. GoodPage(FreshPage)
    <3>1. /\ DOMAIN FreshPage = PageFields /\ FreshPage.route = "monitors"
          /\ FreshPage.sel = <<>> /\ FreshPage.form = None
      BY DEF FreshPage, PageFields
    <3> QED BY <3>1 DEF GoodPage, Ref
  <2>2. GoodPage(FreshTab)
    BY DEF GoodPage, FreshTab
  <2> QED BY <2>1, <2>2 DEF Init
<1>7. GoodEntry(Empty)
  BY DEF GoodEntry, Empty, EntryFields, Idle
<1>8. DOMAIN cache = Key /\ cache["monitors"] \in {Empty, Mount(Empty)}
  BY DEF Init, Key
<1>9. DOMAIN calls = {}
  BY DEF Init
<1> QED BY <1>5, <1>6, <1>7, <1>8, <1>9, EntryKept DEF PickInv

---------------------------------------------------------------------------
(* The user.                                                                 *)

LEMMA ListRef ==
  ASSUME PickInv
  PROVE  /\ RefList(List) /\ Filtered \subseteq DOMAIN List
         /\ \A h \in Headers : h \subseteq DOMAIN List
<1>1. RefList(List)
  BY DEF PickInv, GoodEntry, Loaded, List, RefList
<1>2. Filtered \subseteq DOMAIN List
  BY DEF Filtered
<1>3. \A h \in Headers : h \subseteq Filtered
  BY DEF Headers, Grouped, Ungrouped
<1> QED BY <1>1, <1>2, <1>3

\* Every way to pick a monitor copies from the list.
LEMMA Picks ==
  ASSUME PickInv
  PROVE  /\ Ref(<<>>)
         /\ \A i \in DOMAIN List : Ref(Row(i))
         /\ Ref(page.sel) => \A h : Ref(Untick(h))
         /\ Ref(page.sel) => \A h : h \subseteq DOMAIN List => Ref(Toggled(h))
<1>1. RefList(List)
  BY ListRef
<1>2. Ref(<<>>) /\ \A i \in DOMAIN List : Ref(Row(i))
  BY <1>1 DEF Ref, RefList, Row
<1>3. Ref(page.sel) => \A h : Ref(Untick(h))
  BY DEF Ref, Untick, Selected
<1>4. Ref(page.sel) => \A h : h \subseteq DOMAIN List => Ref(Tick(h))
  BY <1>1 DEF Ref, RefList, Tick, Selected
<1>5. ASSUME Ref(page.sel), NEW h, h \subseteq DOMAIN List PROVE Ref(Toggled(h))
  <2>1. h \ Selected \subseteq DOMAIN List
    BY <1>5
  <2> QED BY <1>3, <1>4, <1>5, <2>1 DEF Toggled
<1> QED BY <1>2, <1>3, <1>5

LEMMA ClickKeeps ==
  ASSUME PickInv, NEW p, Click(p), GoodPage(p)
  PROVE  PickInv'
  BY PickStep, TableStays DEF PickInv, Click, ServerSame

LEMMA SendKeeps ==
  ASSUME PickInv, NEW op \in MonitorOps \cup TabOps, NEW ids, NEW arg, NEW p,
         Send(op, ids, arg, p), Ref(ids), GoodPage(p),
         op = "renameLabel" => arg.old # arg.new
  PROVE  PickInv'
<1> DEFINE new == [op |-> op, ids |-> ids, arg |-> arg, st |-> "sent",
                   latest |-> TRUE, here |-> TRUE, at |-> NoVersions]
<1>1. GoodCall(new)
  BY DEF GoodCall, CallFields
<1>2. \A n \in DOMAIN calls : GoodCall([calls[n] EXCEPT !.latest = @ /\ calls[n].op # op])
  BY DEF PickInv, GoodCall, CallFields
<1>3. \A n \in DOMAIN calls' : GoodCall(calls'[n])
  BY <1>1, <1>2 DEF Send, Issue
<1>4. UNCHANGED <<db, nextId, cache>> /\ page' = p
  BY DEF Send, ServerSame
<1> QED BY <1>3, <1>4, PickStep, TableStays DEF PickInv

\* Changes of the page that touch no reference.
LEMMA OtherFields ==
  ASSUME GoodPage(page), OnMonitors
  PROVE  /\ \A x : /\ GoodPage([page EXCEPT !.text = x]) /\ GoodPage([page EXCEPT !.grp = x])
                   /\ GoodPage([page EXCEPT !.lab = x]) /\ GoodPage([page EXCEPT !.view = x])
                   /\ GoodPage([page EXCEPT !.bulk = x])
         /\ GoodPage([page EXCEPT !.form = None])
         /\ \A x : Ref(x) => GoodPage([page EXCEPT !.sel = x]) /\ GoodPage([page EXCEPT !.form = x])
         /\ \A x : GoodPage([page EXCEPT !.sel = <<>>, !.bulk = x])
         /\ Ref(page.sel) /\ (page.form # None => Ref(page.form))
<1>1. DOMAIN page = PageFields /\ page.route = "monitors"
      /\ Ref(page.sel) /\ (page.form # None => Ref(page.form)) /\ Ref(<<>>)
  BY DEF GoodPage, OnMonitors, Ref
<1> QED BY <1>1 DEF GoodPage, PageFields

LEMMA FilterKeeps ==
  ASSUME PickInv, Find \/ FilterBy \/ ClearFilter \/ SwitchView \/ AddMonitor \/ EditMonitor
                    \/ CloseForm \/ OpenBulk \/ CloseBulk
  PROVE  PickInv'
<1>1. OnMonitors /\ GoodPage(page)
  BY DEF PickInv, Find, FilterBy, ClearFilter, SwitchView, AddMonitor, EditMonitor,
         CloseForm, OpenBulk, CloseBulk, PageFree
<1>2. CASE Find BY <1>1, <1>2, ClickKeeps, OtherFields DEF Find
<1>3. CASE FilterBy BY <1>1, <1>3, ClickKeeps, OtherFields DEF FilterBy
<1>4. CASE ClearFilter BY <1>1, <1>4, ClickKeeps, OtherFields DEF ClearFilter
<1>5. CASE SwitchView BY <1>1, <1>5, ClickKeeps, OtherFields DEF SwitchView
<1>6. CASE AddMonitor BY <1>1, <1>6, ClickKeeps, OtherFields, Picks DEF AddMonitor
<1>7. CASE EditMonitor BY <1>1, <1>7, ClickKeeps, OtherFields, Picks, ListRef DEF EditMonitor
<1>8. CASE CloseForm BY <1>1, <1>8, ClickKeeps, OtherFields DEF CloseForm
<1>9. CASE OpenBulk BY <1>1, <1>9, ClickKeeps, OtherFields DEF OpenBulk
<1>10. CASE CloseBulk BY <1>1, <1>10, ClickKeeps, OtherFields DEF CloseBulk
<1> QED BY <1>2, <1>3, <1>4, <1>5, <1>6, <1>7, <1>8, <1>9, <1>10

LEMMA SelectKeeps ==
  ASSUME PickInv, ToggleSelect \/ ToggleHeader \/ DeselectAll
  PROVE  PickInv'
<1>1. OnMonitors /\ GoodPage(page)
  BY DEF PickInv, ToggleSelect, ToggleHeader, DeselectAll, PageFree
<1>2. Ref(page.sel)
  BY <1>1, OtherFields
<1>3. CASE DeselectAll BY <1>1, <1>3, ClickKeeps, OtherFields, Picks DEF DeselectAll
<1>4. CASE ToggleSelect
  <2>1. \A i \in Filtered : {i} \subseteq DOMAIN List
    BY ListRef
  <2>2. \A i \in Filtered : GoodPage([page EXCEPT !.sel = Toggled({i})])
    BY <1>1, <1>2, <2>1, OtherFields, Picks
  <2> QED BY <1>4, <2>2, ClickKeeps DEF ToggleSelect
<1>5. CASE ToggleHeader
  <2>1. \A h \in Headers : GoodPage([page EXCEPT !.sel = Toggled(h)])
    BY <1>1, <1>2, ListRef, OtherFields, Picks
  <2> QED BY <1>5, <2>1, ClickKeeps DEF ToggleHeader
<1> QED BY <1>3, <1>4, <1>5

LEMMA RequestKeeps ==
  ASSUME PickInv, Favorite \/ Visibility \/ HandleDelete \/ HandleSave \/ HandleBulkFavorite
                    \/ ApplyBulk
  PROVE  PickInv'
<1>1. OnMonitors /\ GoodPage(page)
  BY DEF PickInv, Favorite, Visibility, HandleDelete, HandleSave, HandleBulkFavorite,
         ApplyBulk, PageFree
<1>2. Ref(page.sel) /\ (page.form # None => Ref(page.form))
  BY <1>1, OtherFields
<1>3. \A i \in Filtered : Ref(Row(i))
  BY ListRef, Picks
<1>4. \A op \in MonitorOps : op # "renameLabel"
  BY DEF MonitorOps
<1>5. \A op \in MonitorOps : \A ids, arg : (Ref(ids) /\ Send(op, ids, arg, page)) => PickInv'
  BY <1>1, <1>4, SendKeeps
<1>6. CASE Favorite \/ Visibility \/ HandleDelete
  BY <1>3, <1>5, <1>6 DEF Favorite, Visibility, HandleDelete, MonitorOps
<1>7. CASE HandleSave
  BY <1>2, <1>5, <1>7 DEF HandleSave, MonitorOps
<1>8. CASE HandleBulkFavorite \/ ApplyBulk
  BY <1>2, <1>5, <1>8 DEF HandleBulkFavorite, ApplyBulk, HandleBulkSave, MonitorOps
<1> QED BY <1>6, <1>7, <1>8

LEMMA TabFields ==
  ASSUME GoodPage(page), OnGroups
  PROVE  \A kind \in Kind : \A x : /\ GoodPage([page EXCEPT ![kind].editing = x])
                                 /\ GoodPage([page EXCEPT ![kind].target = x])
                                 /\ GoodPage([page EXCEPT ![kind].busy = x])
                                 /\ \A y : GoodPage([page EXCEPT ![kind].busy = x, ![kind].target = y])
<1>1. DOMAIN page = {"route", "group", "label"} /\ page.route = "groups"
  BY DEF GoodPage, OnGroups
<1>2. \A kind \in Kind : \A x : GoodPage([page EXCEPT ![kind] = x])
  BY <1>1 DEF GoodPage, Kind
<1>3. ASSUME NEW kind \in Kind, NEW x, NEW y
      PROVE  GoodPage([page EXCEPT ![kind].busy = x, ![kind].target = y])
  <2> PICK z : z = [page[kind] EXCEPT !.busy = x]
    OBVIOUS
  <2> PICK w : w = [z EXCEPT !.target = y]
    OBVIOUS
  <2>1. [page EXCEPT ![kind].busy = x, ![kind].target = y] = [page EXCEPT ![kind] = w]
    BY <1>1 DEF Kind
  <2> QED BY <1>2, <2>1
<1> QED BY <1>2, <1>3

LEMMA TabKeeps ==
  ASSUME PickInv, StartRename \/ CancelRename \/ HandleRename \/ AskDelete \/ CancelDelete
                    \/ ConfirmDelete
  PROVE  PickInv'
<1>1. OnGroups /\ GoodPage(page)
  BY DEF PickInv, StartRename, CancelRename, HandleRename, AskDelete, CancelDelete,
         ConfirmDelete, TabFree
<1>2. Ref(<<>>)
  BY Picks
<1>3. CASE StartRename \/ CancelRename \/ AskDelete \/ CancelDelete
  BY <1>1, <1>3, ClickKeeps, TabFields DEF StartRename, CancelRename, AskDelete, CancelDelete
<1>4. CASE ConfirmDelete
  <2>1. PICK kind \in Kind : Send(DeleteOp[kind], <<>>, page[kind].target,
                                  [page EXCEPT ![kind].busy = TRUE])
    BY <1>4 DEF ConfirmDelete
  <2>2. DeleteOp[kind] \in MonitorOps \cup TabOps /\ DeleteOp[kind] # "renameLabel"
    BY DEF DeleteOp, Kind, TabOps
  <2>3. GoodPage([page EXCEPT ![kind].busy = TRUE])
    BY <1>1, TabFields
  <2> QED BY <1>2, <2>1, <2>2, <2>3, SendKeeps
<1>5. CASE HandleRename
  <2>1. PICK kind \in Kind : \E new \in NamesOf(kind) :
            IF new = page[kind].editing
            THEN Click([page EXCEPT ![kind].editing = None])
            ELSE Send(RenameOp[kind], <<>>, [old |-> page[kind].editing, new |-> new], page)
    BY <1>5 DEF HandleRename
  <2>2. PICK new : IF new = page[kind].editing
            THEN Click([page EXCEPT ![kind].editing = None])
            ELSE Send(RenameOp[kind], <<>>, [old |-> page[kind].editing, new |-> new], page)
    BY <2>1
  <2>3. CASE new = page[kind].editing
    BY <1>1, <2>2, <2>3, ClickKeeps, TabFields
  <2>4. CASE new # page[kind].editing
    <3> PICK arg : arg = [old |-> page[kind].editing, new |-> new]
      OBVIOUS
    <3>1. Send(RenameOp[kind], <<>>, arg, page) /\ arg.old # arg.new
      BY <2>2, <2>4
    <3>2. RenameOp[kind] \in MonitorOps \cup TabOps
      BY DEF RenameOp, Kind, TabOps
    <3> QED BY <1>1, <1>2, <3>1, <3>2, SendKeeps
  <2> QED BY <2>3, <2>4
<1> QED BY <1>3, <1>4, <1>5

LEMMA NavigateKeeps == ASSUME PickInv, Navigate PROVE PickInv'
<1>1. GoodPage(page')
  <2>1. GoodPage(FreshTab)
    BY DEF GoodPage, FreshTab
  <2>2. DOMAIN FreshPage = PageFields /\ FreshPage.route = "monitors"
        /\ FreshPage.sel = <<>> /\ FreshPage.form = None
    BY DEF FreshPage, PageFields
  <2>3. GoodPage(FreshPage)
    BY <2>2, Picks DEF GoodPage
  <2> QED BY <2>1, <2>3 DEF Navigate
<1>2. \A n \in DOMAIN calls' : GoodCall(calls'[n])
  BY DEF Navigate, PickInv, GoodCall, CallFields
<1>3. DOMAIN cache' = Key /\ cache'["monitors"] \in {Ask(cache["monitors"]), Mount(cache["monitors"]),
                                                   cache["monitors"]}
  BY DEF Navigate, Key
<1>4. GoodEntry(cache'["monitors"])
  BY <1>3, EntryKept DEF PickInv
<1>5. UNCHANGED <<db, nextId>>
  BY DEF Navigate, ServerSame
<1> QED BY <1>1, <1>2, <1>3, <1>4, <1>5, PickStep, TableStays DEF PickInv

---------------------------------------------------------------------------
(* The handlers.                                                             *)

\* What a handler may do to a table d: keep, change or drop rows, never their
\* births, and add one under the next id.
Carries(d) ==
    \A i \in DOMAIN d :
        /\ DOMAIN d[i] = MonitorFields
        /\ (i \in DOMAIN db /\ d[i].born = db[i].born) \/ i = nextId

LEMMA CarriesMoves ==
  ASSUME TableOK, Carries(db'), nextId' \in {nextId, nextId + 1},
         nextId \in DOMAIN db' => nextId' = nextId + 1
  PROVE  Moves
  BY DEF TableOK, Carries, Moves

LEMMA CreatedCarries ==
  ASSUME TableOK, NEW f
  PROVE  Carries(Created(db, f))
  BY DEF Carries, Created, TableOK, MonitorFields

LEMMA RowsKept ==
  ASSUME NEW m, DOMAIN m = MonitorFields, NEW c,
         c.op \in {"update", "favorite", "visibility", "bulk"}
  PROVE  DOMAIN Rewritten(m, c) = MonitorFields /\ Rewritten(m, c).born = m.born
<1>1. CASE c.op = "update"
  <2> PICK g, l, i, r : g = c.arg.grp /\ l = c.arg.labs /\ i = c.arg.interval /\ r = c.arg.retries
    OBVIOUS
  <2>1. Rewritten(m, c) = [m EXCEPT !.grp = g, !.labs = l, !.interval = i, !.retries = r]
    BY <1>1 DEF Rewritten, Updated
  <2> QED BY <2>1 DEF MonitorFields
<1>2. CASE c.op = "favorite"
  BY <1>2 DEF Rewritten, MonitorFields
<1>3. CASE c.op = "visibility"
  BY <1>3 DEF Rewritten, MonitorFields
<1>4. CASE c.op = "bulk"
  <2> DEFINE f == c.arg
             g == IF "grp" \in DOMAIN f THEN f.grp ELSE m.grp
             l == IF "labs" \in DOMAIN f THEN f.labs ELSE m.labs
             i == IF "interval" \in DOMAIN f /\ f.interval > 0 THEN f.interval ELSE m.interval
             r == IF "retries" \in DOMAIN f /\ f.retries > 0 THEN f.retries ELSE m.retries
             v == IF "fav" \in DOMAIN f THEN f.fav ELSE m.fav
  <2>1. Rewritten(m, c) =
            [m EXCEPT !.grp = g, !.labs = l, !.interval = i, !.retries = r, !.fav = v]
    BY <1>4 DEF Rewritten, BulkUpdated
  <2> HIDE DEF g, l, i, r, v
  <2> QED BY <2>1 DEF MonitorFields
<1> QED BY <1>1, <1>2, <1>3, <1>4

LEMMA EffectCarries ==
  ASSUME TableOK, NEW c, GoodCall(c)
  PROVE  /\ Carries(Effect(c))
         /\ c.op # "create" => nextId \notin DOMAIN Effect(c)
<1>1. \A i \in DOMAIN db : DOMAIN db[i] = MonitorFields /\ i # nextId
  BY DEF TableOK
<1>2. CASE c.op = "create"
  BY <1>2, CreatedCarries DEF Effect
<1>3. CASE c.op \in {"update", "favorite", "visibility", "bulk"}
  BY <1>1, <1>3, RowsKept DEF Effect, Carries
<1>4. CASE c.op = "delete"
  BY <1>1, <1>4 DEF Effect, Deleted, Carries
<1>5. CASE c.op = "renameGroup"
  BY <1>1, <1>5 DEF Effect, RenamedGroup, Carries, MonitorFields
<1>6. CASE c.op = "renameLabel"
  BY <1>1, <1>6 DEF Effect, RenamedLabel, Carries, MonitorFields
<1>7. CASE c.op = "deleteGroup"
  BY <1>1, <1>7 DEF Effect, DeletedGroup, Carries, MonitorFields
<1>8. CASE c.op = "deleteLabel"
  BY <1>1, <1>8 DEF Effect, DeletedLabel, Carries, MonitorFields
<1> QED BY <1>2, <1>3, <1>4, <1>5, <1>6, <1>7, <1>8 DEF GoodCall, MonitorOps, TabOps

LEMMA ResolveGood ==
  ASSUME PickInv, NEW n \in DOMAIN calls, NEW st, NEW at, Resolve(n, st, at)
  PROVE  \A m \in DOMAIN calls' : GoodCall(calls'[m])
<1>1. GoodCall([calls[n] EXCEPT !.st = st, !.at = at])
  BY DEF PickInv, GoodCall, CallFields
<1>2. \A m \in DOMAIN calls' : calls'[m] \in {calls[m], [calls[n] EXCEPT !.st = st, !.at = at]}
                              /\ m \in DOMAIN calls
  BY DEF Resolve
<1> QED BY <1>1, <1>2 DEF PickInv

LEMMA HandleKeeps == ASSUME PickInv, Handle PROVE PickInv'
<1>1. PICK n \in DOMAIN calls :
        /\ db' = Effect(calls[n])
        /\ nextId' = IF calls[n].op = "create" THEN nextId + 1 ELSE nextId
        /\ \E st, at : Resolve(n, st, at)
        /\ UNCHANGED <<cache, page>>
  BY DEF Handle, Commit
<1>2. GoodCall(calls[n])
  BY DEF PickInv
<1>3. Moves
  BY <1>1, <1>2, EffectCarries, CarriesMoves DEF PickInv
<1>4. \A m \in DOMAIN calls' : GoodCall(calls'[m])
  BY <1>1, ResolveGood
<1> QED BY <1>1, <1>3, <1>4, PickStep DEF PickInv

LEMMA OtherKeeps == ASSUME PickInv, OtherWrites PROVE PickInv'
<1> SUFFICES Moves
  BY PickStep DEF PickInv, OtherWrites
<1>1. \A i \in DOMAIN db : DOMAIN db[i] = MonitorFields /\ i # nextId
  BY DEF PickInv, TableOK
<1>2. CASE \E f \in Form : db' = Created(db, f) /\ nextId' = nextId + 1
  BY <1>2, CreatedCarries, CarriesMoves DEF PickInv
<1>3. CASE (\E i \in DOMAIN db : db' = Deleted(db, {i})) /\ nextId' = nextId
  <2>1. Carries(db') /\ nextId \notin DOMAIN db'
    BY <1>1, <1>3 DEF Deleted, Carries
  <2> QED BY <1>3, <2>1, CarriesMoves DEF PickInv
<1>4. CASE (\E i \in DOMAIN db, f \in Form : db' = [db EXCEPT ![i] = Updated(@, f)])
           /\ nextId' = nextId
  <2>1. PICK i \in DOMAIN db, f \in Form : db' = [db EXCEPT ![i] = Updated(@, f)]
    BY <1>4
  <2> PICK g, l, v, r : g = f.grp /\ l = f.labs /\ v = f.interval /\ r = f.retries
    OBVIOUS
  <2>2. Updated(db[i], f) = [db[i] EXCEPT !.grp = g, !.labs = l, !.interval = v, !.retries = r]
    BY DEF Updated
  <2>3. DOMAIN Updated(db[i], f) = MonitorFields /\ Updated(db[i], f).born = db[i].born
    BY <1>1, <2>2 DEF MonitorFields
  <2>4. Carries(db') /\ nextId \notin DOMAIN db'
    BY <1>1, <2>1, <2>3 DEF Carries
  <2> QED BY <1>4, <2>4, CarriesMoves DEF PickInv
<1>5. CASE ResetMonitoringData
  <2>1. DOMAIN db' = {} /\ nextId' = nextId
    BY <1>5 DEF ResetMonitoringData
  <2>2. Carries(db')
    BY <2>1 DEF Carries
  <2> QED BY <2>1, <2>2, CarriesMoves DEF PickInv
<1> QED BY <1>2, <1>3, <1>4, <1>5 DEF OtherWrites

LEMMA RefuseKeeps == ASSUME PickInv, Refuse PROVE PickInv'
<1>1. \A m \in DOMAIN calls' : GoodCall(calls'[m])
  BY ResolveGood DEF Refuse
<1> QED BY <1>1, PickStep, TableStays DEF PickInv, Refuse

\* What a component does with an answer picks nothing new.
LEMMA ContinueGood ==
  ASSUME PickInv, NEW c, GoodCall(c)
  PROVE  /\ OnMonitors => GoodPage(Continue(c))
         /\ OnGroups => GoodPage(ContinueTab(c))
<1>1. GoodPage(page)
  BY DEF PickInv
<1>2. ASSUME OnMonitors PROVE GoodPage(Continue(c))
  <2>1. \A h : Ref(Untick(h))
    BY <1>1, <1>2, OtherFields, Picks
  <2> QED BY <1>1, <1>2, <2>1, OtherFields DEF Continue
<1>3. ASSUME OnGroups PROVE GoodPage(ContinueTab(c))
  <2> PICK kind \in Kind :
        kind = IF c.op \in {"renameGroup", "deleteGroup"} THEN "group" ELSE "label"
    BY DEF Kind
  <2> PICK target : target = IF c.st = "ok" THEN None ELSE page[kind].target
    OBVIOUS
  <2>1. GoodPage([page EXCEPT ![kind].editing = None])
    BY <1>1, <1>3, TabFields
  <2>2. GoodPage([page EXCEPT ![kind].busy = FALSE, ![kind].target = target])
    BY <1>1, <1>3, TabFields
  <2>3. ContinueTab(c) \in
            {page, [page EXCEPT ![kind].editing = None],
             [page EXCEPT ![kind].busy = FALSE, ![kind].target = target]}
    <3>1. DOMAIN page = {"route", "group", "label"}
      BY <1>1, <1>3 DEF GoodPage, OnGroups
    <3> QED BY <3>1 DEF ContinueTab, Kind
  <2> QED BY <1>1, <2>1, <2>2, <2>3
<1> QED BY <1>2, <1>3

LEMMA SettleKeeps == ASSUME PickInv, Settle PROVE PickInv'
<1>1. PICK n \in DOMAIN calls :
        /\ calls' = [m \in DOMAIN calls \ {n} |-> calls[m]]
        /\ page' = CASE calls[n].here /\ OnMonitors /\ calls[n].st = "ok" -> Continue(calls[n])
                     [] calls[n].here /\ OnGroups -> ContinueTab(calls[n])
                     [] OTHER -> page
        /\ cache' = [k \in Key |-> IF calls[n].st = "ok" /\ k \in Invalidates(calls[n].op)
                                   THEN Invalidate(cache[k], Mounted(k)) ELSE cache[k]]
        /\ UNCHANGED <<db, nextId>>
  BY DEF Settle
<1>2. GoodCall(calls[n]) /\ GoodPage(page)
  BY DEF PickInv
<1>3. GoodPage(page')
  BY <1>1, <1>2, ContinueGood DEF OnMonitors, OnGroups
<1>4. \A m \in DOMAIN calls' : GoodCall(calls'[m])
  BY <1>1 DEF PickInv
<1>5. DOMAIN cache' = Key /\ GoodEntry(cache'["monitors"])
  <2>1. "monitors" \in Key /\ GoodEntry(cache["monitors"])
    BY DEF Key, PickInv
  <2>2. GoodEntry(Invalidate(cache["monitors"], Mounted("monitors")))
    BY <2>1, EntryKept
  <2> QED BY <1>1, <2>1, <2>2
<1> QED BY <1>1, <1>3, <1>4, <1>5, PickStep, TableStays DEF PickInv

LEMMA CacheKeeps == ASSUME PickInv, Poll \/ Answer \/ Arrive \/ Fail PROVE PickInv'
<1>1. UNCHANGED <<db, nextId, page, calls>>
  BY DEF Poll, Answer, Arrive, Fail, Fetch
<1> DEFINE Fetched(k, e) ==
        /\ cache' = [cache EXCEPT ![k] = e]
        /\ \/ e \in {Ask(cache[k]), GiveUp(cache[k])}
           \/ cache[k].fetch.step = "answered" /\ e = Deliver(cache[k])
           \/ e = [cache[k] EXCEPT !.fetch = Answered(Query(k, db), ver[k])]
<1>0. PICK k \in Key : \E e : Fetched(k, e)
  BY DEF Poll, Answer, Arrive, Fail, Fetch, Key
<1>2. PICK e : Fetched(k, e)
  BY <1>0
<1>3. DOMAIN cache' = Key /\ DOMAIN cache = Key /\ GoodEntry(cache["monitors"])
  BY <1>2 DEF PickInv
<1>4. ASSUME k = "monitors" PROVE GoodEntry(e)
  <2>1. RefList(db)
    BY DEF PickInv, TableOK, RefList
  <2>2. GoodEntry([cache[k] EXCEPT !.fetch = Answered(Query(k, db), ver[k])])
    <3> PICK f : f = Answered(Query(k, db), ver[k])
      OBVIOUS
    <3>1. f.data = db
      BY <1>4 DEF Answered, Query
    <3> QED BY <1>3, <1>4, <2>1, <3>1 DEF GoodEntry, EntryFields
  <2> QED BY <1>2, <1>3, <1>4, <2>2, EntryKept
<1>5. GoodEntry(cache'["monitors"])
  BY <1>2, <1>3, <1>4 DEF Key
<1> QED BY <1>1, <1>3, <1>5, PickStep, TableStays DEF PickInv

LEMMA PickNext == PickInv /\ [Next]_vars => PickInv'
<1> SUFFICES ASSUME PickInv, [Next]_vars PROVE PickInv'
  OBVIOUS
<1>1. CASE \/ Find \/ FilterBy \/ ClearFilter \/ SwitchView \/ AddMonitor \/ EditMonitor
           \/ CloseForm \/ OpenBulk \/ CloseBulk
  BY <1>1, FilterKeeps
<1>2. CASE ToggleSelect \/ ToggleHeader \/ DeselectAll BY <1>2, SelectKeeps
<1>3. CASE Favorite \/ Visibility \/ HandleDelete \/ HandleSave \/ HandleBulkFavorite \/ ApplyBulk
  BY <1>3, RequestKeeps
<1>4. CASE StartRename \/ CancelRename \/ HandleRename \/ AskDelete \/ CancelDelete \/ ConfirmDelete
  BY <1>4, TabKeeps
<1>5. CASE Navigate BY <1>5, NavigateKeeps
<1>6. CASE Handle BY <1>6, HandleKeeps
<1>7. CASE Refuse BY <1>7, RefuseKeeps
<1>8. CASE Settle BY <1>8, SettleKeeps
<1>9. CASE Poll \/ Answer \/ Arrive \/ Fail BY <1>9, CacheKeeps
<1>10. CASE OtherWrites BY <1>10, OtherKeeps
<1>11. CASE UNCHANGED vars
  BY <1>11, PickStep, TableStays DEF PickInv, vars
<1> QED BY <1>1, <1>2, <1>3, <1>4, <1>5, <1>6, <1>7, <1>8, <1>9, <1>10, <1>11 DEF Next

\* An id in the selection, in the form or in a request never stands for
\* another monitor than the one picked (DELETE, TRUNCATE, the sequence of
\* monitors.id).
THEOREM PicksAreKept == Spec => []PicksKeepIdentity
<1>1. PickInv => PicksKeepIdentity
  BY DEF PickInv, GoodPage, GoodCall, Ref, PicksKeepIdentity, OnMonitors
<1> QED BY <1>1, PickStart, PickNext, PTL DEF Spec

---------------------------------------------------------------------------
\* A rename that the path carries unchanged replaces the old name on whoever
\* has it and touches nothing else (HandleRename's guard, RenameLabel's CASE).
THEOREM LabelsAreKept == Spec => RenameKeepsLabels
<1>1. PickInv /\ [Next]_vars => [\A n \in DOMAIN calls : RenameKept(n)]_vars
  <2> SUFFICES ASSUME PickInv, Next, NEW n \in DOMAIN calls,
                      calls[n].op = "renameLabel", calls[n].st = "sent",
                      Param[calls[n].arg.old] = calls[n].arg.old,
                      n \in DOMAIN calls', calls'[n].st # "sent"
               PROVE  \/ \A i \in DOMAIN db : db'[i].labs = Swapped(calls[n], db[i].labs)
                      \/ calls'[n].st = "err" /\ UNCHANGED db
    BY DEF RenameKept
  <2>1. DOMAIN calls[n] = CallFields /\ calls[n].arg.old # calls[n].arg.new
        /\ \A i \in DOMAIN db : DOMAIN db[i] = MonitorFields
    BY DEF PickInv, GoodCall, TableOK
  <2>2. Handle \/ Refuse
    <3>1. ASSUME NEW op, NEW ids, NEW arg, Issue(op, ids, arg) PROVE FALSE
      BY <2>1, <3>1 DEF Issue, CallFields
    <3>2. ASSUME calls' = calls PROVE FALSE
      BY <3>2
    <3>3. ASSUME NEW op, NEW ids, NEW arg, NEW p, Send(op, ids, arg, p) PROVE FALSE
      BY <3>1, <3>3 DEF Send
    <3>4. ASSUME NEW p, Click(p) PROVE FALSE
      BY <3>2, <3>4 DEF Click
    <3>5. ~(Find \/ FilterBy \/ ClearFilter \/ SwitchView \/ AddMonitor \/ EditMonitor
            \/ CloseForm \/ OpenBulk \/ CloseBulk \/ ToggleSelect \/ ToggleHeader \/ DeselectAll
            \/ StartRename \/ CancelRename \/ AskDelete \/ CancelDelete)
      BY <3>4 DEF Find, FilterBy, ClearFilter, SwitchView, AddMonitor, EditMonitor, CloseForm,
         OpenBulk, CloseBulk, ToggleSelect, ToggleHeader, DeselectAll, StartRename, CancelRename,
         AskDelete, CancelDelete
    <3>6. ~(Favorite \/ Visibility \/ HandleDelete \/ HandleSave \/ HandleBulkFavorite \/ ApplyBulk
            \/ HandleRename \/ ConfirmDelete)
      BY <3>3, <3>4 DEF Favorite, Visibility, HandleDelete, HandleSave, HandleBulkFavorite,
         ApplyBulk, HandleBulkSave, HandleRename, ConfirmDelete
    <3>7. ~(Poll \/ Answer \/ Arrive \/ Fail \/ OtherWrites)
      BY <3>2 DEF Poll, Answer, Arrive, Fail, OtherWrites, Fetch
    <3>8. ~Navigate
      BY <2>1 DEF Navigate, CallFields
    <3>9. ~Settle
      BY DEF Settle
    <3> QED BY <3>2, <3>5, <3>6, <3>7, <3>8, <3>9 DEF Next
  <2>3. CASE Handle
    <3>1. PICK m \in DOMAIN calls :
              calls[m].st = "sent" /\ db' = Effect(calls[m]) /\ \E st, at : Resolve(m, st, at)
      BY <2>3 DEF Handle, Commit
    <3>2. m = n
      BY <3>1 DEF Resolve
    <3>3. db' = RenamedLabel(db, calls[n].arg.old, calls[n].arg.new)
      BY <3>1, <3>2 DEF Effect
    <3> QED BY <2>1, <3>3 DEF RenamedLabel, Swapped, MonitorFields
  <2>4. CASE Refuse
    <3>1. PICK m \in DOMAIN calls : Resolve(m, "err", NoVersions) /\ UNCHANGED db
      BY <2>4 DEF Refuse
    <3>2. m = n
      BY <3>1 DEF Resolve
    <3> QED BY <2>1, <3>1, <3>2 DEF Resolve, CallFields
  <2> QED BY <2>2, <2>3, <2>4
<1> QED BY <1>1, PickStart, PickNext, PTL DEF Spec, RenameKeepsLabels

---------------------------------------------------------------------------
(* Own writes.                                                               *)

\* The queries the page that sends op observes.
OpKeys(op) == Observed(IF op \in MonitorOps THEN "monitors" ELSE "groups")

\* An entry behind no write of version m, and which the answer of a later
\* fetch than the first load brings to version y.
FreshEntry(e, m, y) ==
    /\ DOMAIN e = EntryFields /\ e.at \in Nat
    /\ ~e.invalid => e.at >= m
    /\ e.fetch.step = "answered" =>
          /\ e.fetch.at \in Nat /\ e.fetch.at >= m
          /\ Loaded(e) => e.fetch.at >= y

\* While its component is there, a request has changed nothing the page
\* shows that its success will not have fetched again.
FreshCall(c) ==
    /\ c.at \in [Key -> Nat] /\ \A k \in Key : c.at[k] <= ver[k]
    /\ \A k \in OpKeys(c.op) : c.at[k] > 0 => k \in Invalidates(c.op)
    /\ c.here => Observed(page.route) = OpKeys(c.op)

FreshInv ==
    /\ ver \in [Key -> Nat] /\ must \in [Key -> Nat] /\ early \in [Key -> Nat]
    /\ \A k \in Key : /\ must[k] <= ver[k] /\ early[k] <= ver[k]
                      /\ FreshEntry(cache[k], must[k], early[k])
    /\ \A n \in DOMAIN calls : FreshCall(calls[n])

LEMMA FreshKept ==
  ASSUME NEW e, NEW m \in Nat, NEW y \in Nat, FreshEntry(e, m, y)
  PROVE  /\ FreshEntry(Ask(e), m, y) /\ FreshEntry(Mount(e), m, y)
         /\ FreshEntry(GiveUp(e), m, y)
         /\ \A o : FreshEntry(Invalidate(e, o), m, y)
         /\ \A d, v : v \in Nat /\ v >= m /\ v >= y =>
                FreshEntry([e EXCEPT !.fetch = Answered(d, v)], m, y)
<1>1. DOMAIN e = EntryFields /\ Idle.step # "answered" /\ Asked.step # "answered"
  BY DEF FreshEntry, Idle, Asked
<1>2. /\ FreshEntry([e EXCEPT !.fetch = Asked], m, y)
      /\ FreshEntry([e EXCEPT !.fetch = Idle], m, y)
  BY <1>1 DEF FreshEntry, EntryFields
<1>3. /\ FreshEntry(Ask(e), m, y) /\ FreshEntry(Mount(e), m, y)
      /\ FreshEntry(GiveUp(e), m, y)
  BY <1>2 DEF Ask, Mount, GiveUp
<1>4. ASSUME NEW o PROVE FreshEntry(Invalidate(e, o), m, y)
  <2>1. PICK f \in {e.fetch, Asked} : Invalidate(e, o) = [e EXCEPT !.invalid = TRUE, !.fetch = f]
    BY DEF Invalidate
  <2> QED BY <1>1, <2>1 DEF FreshEntry, EntryFields, Loaded
<1>5. ASSUME NEW d, NEW v \in Nat, v >= m, v >= y
      PROVE  FreshEntry([e EXCEPT !.fetch = Answered(d, v)], m, y)
  <2> PICK f : f = Answered(d, v)
    OBVIOUS
  <2>1. f.at = v
    BY DEF Answered
  <2> QED BY <1>1, <1>5, <2>1 DEF FreshEntry, EntryFields
<1> QED BY <1>3, <1>4, <1>5

\* An answer that arrives: the first load owes nothing to the writes that
\* settled during it, every later fetch does.
LEMMA Arrived ==
  ASSUME NEW e, NEW m \in Nat, NEW y \in Nat, FreshEntry(e, m, y), e.fetch.step = "answered"
  PROVE  FreshEntry(Deliver(e), IF Loaded(e) THEN Latest(m, y) ELSE m, y)
<1> DEFINE d == Deliver(e)
           n == IF Loaded(e) THEN Latest(m, y) ELSE m
<1>1. DOMAIN d = EntryFields /\ d.at = e.fetch.at /\ d.fetch = Idle
  BY DEF Deliver, EntryFields
<1>2. Idle.step # "answered"
  BY DEF Idle
<1>3. e.fetch.at \in Nat /\ e.fetch.at >= m /\ (Loaded(e) => e.fetch.at >= y)
  BY DEF FreshEntry
<1>4. e.fetch.at >= n
  BY <1>3 DEF Latest
<1> HIDE DEF d, n
<1>5. d.fetch.step # "answered"
  BY <1>1, <1>2
<1>6. FreshEntry(d, n, y)
  BY <1>1, <1>3, <1>4, <1>5 DEF FreshEntry
<1> QED BY <1>6 DEF d, n

\* A successful request restarts the fetches of what is shown, but for a first
\* load.
LEMMA Restarted ==
  ASSUME NEW e, NEW m, NEW y, FreshEntry(e, m, y), ~Joined(e), NEW v
  PROVE  FreshEntry(Invalidate(e, TRUE), v, y)
<1>1. Invalidate(e, TRUE) = [e EXCEPT !.invalid = TRUE, !.fetch = Asked]
  BY DEF Invalidate, Joined
<1>2. DOMAIN e = EntryFields /\ e.at \in Nat
  BY DEF FreshEntry
<1> PICK x : x = Invalidate(e, TRUE)
  OBVIOUS
<1>3. DOMAIN x = EntryFields /\ x.at = e.at /\ x.invalid = TRUE /\ x.fetch = Asked
  BY <1>1, <1>2 DEF EntryFields
<1>4. x.fetch.step # "answered"
  <2>1. Asked.step # "answered"
    BY DEF Asked
  <2>2. x.fetch = Asked
    BY <1>3
  <2> QED BY <2>1, <2>2
<1>5. FreshEntry(x, v, y)
  BY <1>2, <1>3, <1>4 DEF FreshEntry
<1> QED BY <1>5

\* What is owed to a list that is not there yet is owed by nobody so far.
LEMMA OwedLater ==
  ASSUME NEW e, NEW m, NEW y, FreshEntry(e, m, y), ~Loaded(e), NEW z, NEW o,
         FreshEntry(Invalidate(e, o), m, y)
  PROVE  FreshEntry(Invalidate(e, o), m, z)
<1>1. Invalidate(e, o).data = e.data
  BY DEF Invalidate, FreshEntry, EntryFields
<1> QED BY <1>1 DEF FreshEntry, Loaded

LEMMA FreshStart == Init => FreshInv
<1> SUFFICES ASSUME Init PROVE FreshInv
  OBVIOUS
<1>1. ver = NoVersions /\ must = NoVersions /\ early = NoVersions /\ DOMAIN calls = {}
  BY DEF Init
<1>2. NoVersions \in [Key -> Nat] /\ \A k \in Key : NoVersions[k] = 0
  BY DEF NoVersions
<1>3. FreshEntry(Empty, 0, 0)
  BY DEF FreshEntry, Empty, EntryFields, Idle
<1>4. \A k \in Key : cache[k] \in {Empty, Mount(Empty)}
  BY DEF Init
<1> QED BY <1>1, <1>2, <1>3, <1>4, FreshKept DEF FreshInv

\* Steps that change neither the versions nor the cache.
LEMMA FreshSame ==
  ASSUME FreshInv, UNCHANGED <<ver, must, early, cache>>, page'.route = page.route,
         \A n \in DOMAIN calls' : FreshCall(calls'[n])
  PROVE  FreshInv'
<1>1. \A c : FreshCall(c) => FreshCall(c)'
  BY DEF FreshCall
<1>2. \A n \in DOMAIN calls' : FreshCall(calls[n])'
  BY <1>1
<1> QED BY <1>2 DEF FreshInv

LEMMA FreshSend ==
  ASSUME PickInv, FreshInv, NEW op, NEW ids, NEW arg, NEW p, Send(op, ids, arg, p),
         p.route = page.route, Observed(page.route) = OpKeys(op)
  PROVE  FreshInv'
<1> DEFINE new == [op |-> op, ids |-> ids, arg |-> arg, st |-> "sent",
                   latest |-> TRUE, here |-> TRUE, at |-> NoVersions]
<1>1. NoVersions \in [Key -> Nat] /\ \A k \in Key : NoVersions[k] = 0
  BY DEF NoVersions
<1>2. \A k \in OpKeys(op) : k \in Key
  BY DEF OpKeys, Observed, Key
<1>3. FreshCall(new)
  BY <1>1, <1>2 DEF FreshCall, FreshInv
<1>4. \A n \in DOMAIN calls : FreshCall([calls[n] EXCEPT !.latest = @ /\ calls[n].op # op])
  BY DEF PickInv, GoodCall, CallFields, FreshInv, FreshCall
<1>5. \A n \in DOMAIN calls' : FreshCall(calls'[n])
  BY <1>3, <1>4 DEF Send, Issue
<1> QED BY <1>5, FreshSame DEF Send, ServerSame

LEMMA FreshClick ==
  ASSUME FreshInv, NEW p, Click(p), p.route = page.route
  PROVE  FreshInv'
  BY FreshSame DEF FreshInv, Click, ServerSame

\* A page or a tab that only changes its own fields.
LEMMA RouteStays ==
  ASSUME PickInv, [Next]_vars, ~Navigate
  PROVE  page'.route = page.route
<1>1. DOMAIN page = PageFields \/ DOMAIN page = {"route", "group", "label"}
  BY DEF PickInv, GoodPage
<1>2. /\ \A x : /\ [page EXCEPT !.text = x].route = page.route
                /\ [page EXCEPT !.grp = x].route = page.route
                /\ [page EXCEPT !.lab = x].route = page.route
                /\ [page EXCEPT !.view = x].route = page.route
                /\ [page EXCEPT !.sel = x].route = page.route
                /\ [page EXCEPT !.form = x].route = page.route
                /\ [page EXCEPT !.bulk = x].route = page.route
      /\ \A x, y : [page EXCEPT !.sel = x, !.bulk = y].route = page.route
      /\ \A kind \in Kind : \A x : [page EXCEPT ![kind] = x].route = page.route
  BY <1>1 DEF PageFields, Kind
<1>3. ASSUME NEW p, Click(p), p.route = page.route PROVE page'.route = page.route
  BY <1>3 DEF Click
<1>4. ASSUME NEW op, NEW ids, NEW arg, NEW p, Send(op, ids, arg, p), p.route = page.route
      PROVE  page'.route = page.route
  BY <1>4 DEF Send
<1>5. CASE \/ Find \/ FilterBy \/ ClearFilter \/ SwitchView \/ AddMonitor \/ EditMonitor
           \/ CloseForm \/ OpenBulk \/ CloseBulk
  BY <1>2, <1>3, <1>5 DEF Find, FilterBy, ClearFilter, SwitchView, AddMonitor, EditMonitor,
     CloseForm, OpenBulk, CloseBulk
<1>6. CASE ToggleSelect \/ ToggleHeader \/ DeselectAll
  BY <1>2, <1>3, <1>6 DEF ToggleSelect, ToggleHeader, DeselectAll
<1>7. CASE \/ Favorite \/ Visibility \/ HandleDelete \/ HandleSave \/ HandleBulkFavorite
           \/ ApplyBulk
  BY <1>4, <1>7 DEF Favorite, Visibility, HandleDelete, HandleSave, HandleBulkFavorite,
     ApplyBulk, HandleBulkSave
<1>8. CASE StartRename \/ CancelRename \/ AskDelete \/ CancelDelete
  BY <1>2, <1>3, <1>8 DEF StartRename, CancelRename, AskDelete, CancelDelete
<1>9. CASE HandleRename \/ ConfirmDelete
  BY <1>2, <1>3, <1>4, <1>9 DEF HandleRename, ConfirmDelete
<1>10. CASE Settle
  <2>1. \A c : Continue(c).route = page.route
    BY <1>2 DEF Continue
  <2>2. \A c : ContinueTab(c).route = page.route
    <3> SUFFICES ASSUME NEW c PROVE ContinueTab(c).route = page.route
      OBVIOUS
    <3> PICK kind \in Kind :
          kind = IF c.op \in {"renameGroup", "deleteGroup"} THEN "group" ELSE "label"
      BY DEF Kind
    <3>1. \A x : [page EXCEPT ![kind].editing = x].route = page.route
      BY <1>1 DEF Kind
    <3>2. ASSUME NEW x, NEW y
          PROVE  [page EXCEPT ![kind].busy = x, ![kind].target = y].route = page.route
      <4> PICK z : z = [page[kind] EXCEPT !.busy = x]
        OBVIOUS
      <4> PICK w : w = [z EXCEPT !.target = y]
        OBVIOUS
      <4>1. [page EXCEPT ![kind].busy = x, ![kind].target = y] = [page EXCEPT ![kind] = w]
        BY <1>1 DEF Kind
      <4>2. [page EXCEPT ![kind] = w].route = page.route
        BY <1>2
      <4> QED BY <4>1, <4>2
    <3> QED BY <3>1, <3>2 DEF ContinueTab
  <2> QED BY <1>10, <2>1, <2>2 DEF Settle
<1>11. CASE Handle \/ Refuse \/ Poll \/ Answer \/ Arrive \/ Fail \/ OtherWrites \/ UNCHANGED vars
  BY <1>11 DEF Handle, Refuse, Poll, Answer, Arrive, Fail, Fetch, OtherWrites, vars
<1> QED BY <1>5, <1>6, <1>7, <1>8, <1>9, <1>10, <1>11 DEF Next

LEMMA SameGroups ==
  ASSUME NEW d, NEW e, DOMAIN d = DOMAIN e, \A i \in DOMAIN d : d[i].grp = e[i].grp
  PROVE  ListGroups(d) = ListGroups(e) /\ ListGroupsWithCount(d) = ListGroupsWithCount(e)
<1>1. \A g : InGroup(d, g) = InGroup(e, g)
  BY DEF InGroup
<1> QED BY <1>1 DEF ListGroups, ListGroupsWithCount

LEMMA SameLabels ==
  ASSUME NEW d, NEW e, DOMAIN d = DOMAIN e, \A i \in DOMAIN d : d[i].labs = e[i].labs
  PROVE  ListLabelsWithCount(d) = ListLabelsWithCount(e)
<1>1. \A l : Labelled(d, l) = Labelled(e, l)
  BY DEF Labelled
<1> QED BY <1>1 DEF ListLabelsWithCount

\* What a handler changes of the lists its page shows is what the page's
\* hook invalidates.
LEMMA EffectInvalidated ==
  ASSUME PickInv, NEW c, c.op \in MonitorOps \cup TabOps, NEW k \in OpKeys(c.op),
         k \in Changed(Effect(c))
  PROVE  k \in Invalidates(c.op)
<1>1. \A i \in DOMAIN db : DOMAIN db[i] = MonitorFields
  BY DEF PickInv, TableOK
<1>2. CASE c.op \in {"create", "update", "delete", "bulk"}
  BY <1>2 DEF OpKeys, Observed, MonitorOps, Invalidates
<1>3. CASE c.op \in {"favorite", "visibility"}
  <2>1. PICK d : d = Effect(c)
    OBVIOUS
  <2>2. DOMAIN d = DOMAIN db /\ \A i \in DOMAIN d : d[i].grp = db[i].grp
    BY <1>1, <1>3, <2>1 DEF Effect, Rewritten, MonitorFields
  <2>3. k # "monitor-groups"
    BY <2>1, <2>2, SameGroups DEF Changed, Query
  <2> QED BY <1>3, <2>3 DEF OpKeys, Observed, MonitorOps, Invalidates
<1>4. CASE c.op \in {"renameGroup", "deleteGroup"}
  <2>1. PICK d : d = Effect(c)
    OBVIOUS
  <2>2. DOMAIN d = DOMAIN db /\ \A i \in DOMAIN d : d[i].labs = db[i].labs
    BY <1>1, <1>4, <2>1 DEF Effect, RenamedGroup, DeletedGroup, MonitorFields
  <2>3. k # "settings-labels"
    BY <2>1, <2>2, SameLabels DEF Changed, Query
  <2> QED BY <1>4, <2>3 DEF OpKeys, Observed, MonitorOps, Invalidates
<1>5. CASE c.op \in {"renameLabel", "deleteLabel"}
  <2>1. PICK d : d = Effect(c)
    OBVIOUS
  <2>2. DOMAIN d = DOMAIN db /\ \A i \in DOMAIN d : d[i].grp = db[i].grp
    BY <1>1, <1>5, <2>1 DEF Effect, RenamedLabel, DeletedLabel, MonitorFields
  <2>3. k # "settings-groups"
    BY <2>1, <2>2, SameGroups DEF Changed, Query
  <2> QED BY <1>5, <2>3 DEF OpKeys, Observed, MonitorOps, Invalidates
<1> QED BY <1>2, <1>3, <1>4, <1>5 DEF MonitorOps, TabOps

LEMMA FreshUser ==
  ASSUME PickInv, FreshInv, ~Navigate, [Next]_vars,
         ~(Handle \/ Refuse \/ Settle \/ Poll \/ Answer \/ Arrive \/ Fail \/ OtherWrites)
  PROVE  FreshInv'
<1>1. page'.route = page.route
  BY RouteStays
<1>2. ASSUME NEW p, Click(p) PROVE FreshInv'
  BY <1>1, <1>2, FreshClick DEF Click
<1>3. ASSUME NEW op, NEW ids, NEW arg, NEW p, Send(op, ids, arg, p),
             Observed(page.route) = OpKeys(op)
      PROVE  FreshInv'
  BY <1>1, <1>3, FreshSend DEF Send
<1>4. /\ OnMonitors => \A op \in MonitorOps : Observed(page.route) = OpKeys(op)
      /\ OnGroups => \A op \in TabOps : Observed(page.route) = OpKeys(op)
  BY DEF OnMonitors, OnGroups, OpKeys, MonitorOps, TabOps
<1>5. CASE \/ Find \/ FilterBy \/ ClearFilter \/ SwitchView \/ AddMonitor \/ EditMonitor
           \/ CloseForm \/ OpenBulk \/ CloseBulk \/ ToggleSelect \/ ToggleHeader \/ DeselectAll
           \/ StartRename \/ CancelRename \/ AskDelete \/ CancelDelete
  BY <1>2, <1>5 DEF Find, FilterBy, ClearFilter, SwitchView, AddMonitor, EditMonitor,
     CloseForm, OpenBulk, CloseBulk, ToggleSelect, ToggleHeader, DeselectAll,
     StartRename, CancelRename, AskDelete, CancelDelete
<1>6. CASE \/ Favorite \/ Visibility \/ HandleDelete \/ HandleSave \/ HandleBulkFavorite
           \/ ApplyBulk
  BY <1>3, <1>4, <1>6 DEF Favorite, Visibility, HandleDelete, HandleSave, HandleBulkFavorite,
     ApplyBulk, HandleBulkSave, PageFree, MonitorOps
<1>7. CASE HandleRename \/ ConfirmDelete
  <2>1. \A kind \in Kind : RenameOp[kind] \in TabOps /\ DeleteOp[kind] \in TabOps
    BY DEF RenameOp, DeleteOp, Kind, TabOps
  <2> QED BY <1>2, <1>3, <1>4, <1>7, <2>1 DEF HandleRename, ConfirmDelete, TabFree
<1>8. CASE UNCHANGED vars
  BY <1>1, <1>8, FreshSame DEF FreshInv, vars
<1> QED BY <1>5, <1>6, <1>7, <1>8 DEF Next

LEMMA FreshNavigate == ASSUME PickInv, FreshInv, Navigate PROVE FreshInv'
<1>1. UNCHANGED <<ver, must, early>>
  BY DEF Navigate, ServerSame
<1>2. \A k \in Key : FreshEntry(cache'[k], must[k], early[k])
  BY FreshKept DEF Navigate, FreshInv
<1>3. \A n \in DOMAIN calls' : FreshCall(calls[n])'
  BY <1>1 DEF Navigate, PickInv, GoodCall, CallFields, FreshInv, FreshCall
<1> QED BY <1>1, <1>2, <1>3 DEF FreshInv

\* The versions grow: what the cache and the requests owe is unchanged.
LEMMA FreshGrow ==
  ASSUME FreshInv, UNCHANGED <<must, early, cache, page>>, ver' \in [Key -> Nat],
         \A k \in Key : ver'[k] >= ver[k],
         \A n \in DOMAIN calls' : FreshCall(calls[n])'
  PROVE  FreshInv'
  BY DEF FreshInv

LEMMA CommitGrows ==
  ASSUME FreshInv, NEW d, Commit(d)
  PROVE  /\ ver' \in [Key -> Nat] /\ \A k \in Key : ver'[k] >= ver[k]
         /\ db' = d
  BY DEF Commit, FreshInv

LEMMA FreshHandle == ASSUME PickInv, FreshInv, Handle PROVE FreshInv'
<1>1. PICK n \in DOMAIN calls : \E st :
        /\ Commit(Effect(calls[n]))
        /\ Resolve(n, st, [k \in Key |-> IF k \in Changed(db') THEN ver'[k] ELSE 0])
        /\ UNCHANGED <<cache, page, must, early>>
  BY DEF Handle
<1>2. PICK st : Resolve(n, st, [k \in Key |-> IF k \in Changed(db') THEN ver'[k] ELSE 0])
  BY <1>1
<1>3. ver' \in [Key -> Nat] /\ (\A k \in Key : ver'[k] >= ver[k]) /\ db' = Effect(calls[n])
  BY <1>1, CommitGrows
<1> PICK at : at = [k \in Key |-> IF k \in Changed(db') THEN ver'[k] ELSE 0]
  OBVIOUS
<1>4. calls' = [calls EXCEPT ![n].st = st, ![n].at = at]
  BY <1>2 DEF Resolve
<1>5. at \in [Key -> Nat] /\ \A k \in Key : at[k] <= ver'[k]
  BY <1>3
<1>6. \A k \in OpKeys(calls[n].op) : at[k] > 0 => k \in Invalidates(calls[n].op)
  <2>1. \A k \in OpKeys(calls[n].op) : k \in Key
    BY DEF OpKeys, Observed, Key
  <2>2. calls[n].op \in MonitorOps \cup TabOps
    BY DEF PickInv, GoodCall
  <2>3. \A k \in OpKeys(calls[n].op) : at[k] > 0 => k \in Changed(Effect(calls[n]))
    BY <1>3, <2>1
  <2> QED BY <2>2, <2>3, EffectInvalidated
<1>7. \A m \in DOMAIN calls' : FreshCall(calls[m])'
  <2> SUFFICES ASSUME NEW m \in DOMAIN calls' PROVE FreshCall(calls[m])'
    OBVIOUS
  <2>1. m \in DOMAIN calls /\ FreshCall(calls[m]) /\ DOMAIN calls[m] = CallFields
    BY <1>4 DEF FreshInv, PickInv, GoodCall
  <2>2. page' = page
    BY <1>1
  <2>3. CASE m # n
    <3>1. calls'[m] = calls[m]
      BY <1>4, <2>1, <2>3
    <3> QED BY <1>3, <2>1, <2>2, <3>1 DEF FreshCall, FreshInv
  <2>4. CASE m = n
    <3>1. calls'[m].op = calls[m].op /\ calls'[m].here = calls[m].here /\ calls'[m].at = at
      BY <1>4, <2>1, <2>4 DEF CallFields
    <3> QED BY <1>5, <1>6, <2>1, <2>2, <2>4, <3>1 DEF FreshCall
  <2> QED BY <2>3, <2>4
<1> QED BY <1>1, <1>3, <1>7, FreshGrow

LEMMA FreshRefuse == ASSUME PickInv, FreshInv, Refuse PROVE FreshInv'
<1>1. PICK n \in DOMAIN calls :
        /\ Resolve(n, "err", NoVersions) /\ UNCHANGED <<ver, cache, page, must, early>>
  BY DEF Refuse
<1>2. NoVersions \in [Key -> Nat] /\ \A k \in Key : NoVersions[k] = 0
  BY DEF NoVersions
<1>3. \A k : \A m \in DOMAIN calls : k \in OpKeys(calls[m].op) => k \in Key
  BY DEF OpKeys, Observed, Key
<1>4. \A m \in DOMAIN calls' : FreshCall(calls'[m])
  <2> SUFFICES ASSUME NEW m \in DOMAIN calls' PROVE FreshCall(calls'[m])
    OBVIOUS
  <2>1. m \in DOMAIN calls /\ FreshCall(calls[m]) /\ DOMAIN calls[m] = CallFields
    BY <1>1 DEF FreshInv, PickInv, GoodCall, Resolve
  <2>2. /\ calls'[m].op = calls[m].op /\ calls'[m].here = calls[m].here
        /\ calls'[m].at \in {calls[m].at, NoVersions}
    BY <1>1, <2>1 DEF CallFields, Resolve
  <2> QED BY <1>2, <1>3, <2>1, <2>2 DEF FreshCall, FreshInv
<1> QED BY <1>1, <1>4, FreshSame

LEMMA FreshSettle == ASSUME PickInv, FreshInv, Settle PROVE FreshInv'
<1>1. page'.route = page.route
  BY RouteStays DEF Next, Settle, Navigate, ServerSame, Works
<1>2. PICK n \in DOMAIN calls :
        /\ calls' = [m \in DOMAIN calls \ {n} |-> calls[m]]
        /\ cache' = [k \in Key |-> IF calls[n].st = "ok" /\ k \in Invalidates(calls[n].op)
                                   THEN Invalidate(cache[k], Mounted(k)) ELSE cache[k]]
        /\ must' = [k \in Key |-> IF Told(calls[n], k) /\ ~Joined(cache[k])
                                  THEN Latest(must[k], calls[n].at[k]) ELSE must[k]]
        /\ early' = [k \in Key |-> IF Told(calls[n], k) /\ Joined(cache[k])
                                   THEN Latest(early[k], calls[n].at[k]) ELSE early[k]]
        /\ UNCHANGED ver
  BY DEF Settle
<1>3. FreshCall(calls[n]) /\ \A k \in Key : calls[n].at[k] \in Nat /\ calls[n].at[k] <= ver[k]
  BY DEF FreshInv, FreshCall
<1>4. /\ must' \in [Key -> Nat] /\ early' \in [Key -> Nat]
      /\ \A k \in Key : must'[k] <= ver'[k] /\ early'[k] <= ver'[k]
  BY <1>2, <1>3 DEF FreshInv, Latest
<1>5. ASSUME NEW k \in Key PROVE FreshEntry(cache'[k], must'[k], early'[k])
  <2>1. /\ FreshEntry(cache[k], must[k], early[k])
        /\ must[k] \in Nat /\ early[k] \in Nat
    BY DEF FreshInv
  <2>2. FreshEntry(cache'[k], must[k], early[k])
    BY <1>2, <2>1, FreshKept
  <2>3. CASE ~Told(calls[n], k) \/ calls[n].at[k] = 0
    <3>1. must'[k] = must[k] /\ early'[k] = early[k]
      BY <1>2, <2>1, <2>3 DEF Latest
    <3> QED BY <2>2, <3>1
  <2>4. CASE Told(calls[n], k) /\ calls[n].at[k] # 0
    <3>1. k \in OpKeys(calls[n].op) /\ calls[n].at[k] > 0
      BY <1>3, <2>4 DEF FreshCall, Mounted, Told
    <3>2. k \in Invalidates(calls[n].op)
      BY <1>3, <3>1 DEF FreshCall
    <3>3. cache'[k] = Invalidate(cache[k], TRUE)
      BY <1>2, <2>4, <3>2 DEF Told
    <3>4. CASE Joined(cache[k])
      <4>1. must'[k] = must[k] /\ ~Loaded(cache[k])
        BY <1>2, <3>4 DEF Joined
      <4> QED BY <2>1, <2>2, <3>3, <4>1, OwedLater
    <3>5. CASE ~Joined(cache[k])
      <4>1. early'[k] = early[k]
        BY <1>2, <3>5
      <4> QED BY <2>1, <3>3, <3>5, <4>1, Restarted
    <3> QED BY <3>4, <3>5
  <2> QED BY <2>3, <2>4
<1>6. \A m \in DOMAIN calls' : FreshCall(calls[m])'
  BY <1>1, <1>2 DEF FreshInv, FreshCall
<1> QED BY <1>2, <1>4, <1>5, <1>6 DEF FreshInv

LEMMA FreshFetch ==
  ASSUME PickInv, FreshInv, Poll \/ Answer \/ Arrive \/ Fail
  PROVE  FreshInv'
<1>1. UNCHANGED <<ver, early, page, calls>>
  BY DEF Poll, Answer, Arrive, Fail, Fetch
<1>2. PICK k \in Key :
        /\ \A j \in Key \ {k} : cache'[j] = cache[j] /\ must'[j] = must[j]
        /\ must' \in [Key -> Nat]
        /\ \/ /\ \/ cache'[k] \in {Ask(cache[k]), GiveUp(cache[k])}
                 \/ cache'[k] = [cache[k] EXCEPT !.fetch = Answered(Query(k, db), ver[k])]
              /\ must'[k] = must[k]
           \/ /\ cache[k].fetch.step = "answered" /\ cache'[k] = Deliver(cache[k])
              /\ must'[k] = IF Loaded(cache[k]) THEN Latest(must[k], early[k]) ELSE must[k]
  <2>1. DOMAIN cache = Key /\ must \in [Key -> Nat] /\ early \in [Key -> Nat]
    BY DEF PickInv, FreshInv
  <2>2. CASE Poll
    <3>1. "monitors" \in Key
      BY DEF Key
    <3> QED BY <2>1, <2>2, <3>1 DEF Poll, Fetch
  <2>3. CASE Answer
    BY <2>1, <2>3 DEF Answer, Fetch
  <2>4. CASE Arrive
    BY <2>1, <2>4 DEF Arrive, Fetch, Latest
  <2>5. CASE Fail
    BY <2>1, <2>5 DEF Fail, Fetch
  <2> QED BY <2>2, <2>3, <2>4, <2>5
<1>3. /\ FreshEntry(cache[k], must[k], early[k]) /\ must[k] \in Nat /\ early[k] \in Nat
      /\ ver[k] \in Nat /\ ver[k] >= must[k] /\ ver[k] >= early[k]
  BY DEF FreshInv
<1>4. FreshEntry(cache'[k], must'[k], early[k])
  <2>1. CASE must'[k] = must[k] /\ cache'[k] \in {Ask(cache[k]), GiveUp(cache[k])}
    BY <1>3, <2>1, FreshKept
  <2>2. CASE /\ must'[k] = must[k]
             /\ cache'[k] = [cache[k] EXCEPT !.fetch = Answered(Query(k, db), ver[k])]
    BY <1>3, <2>2, FreshKept
  <2>3. CASE /\ cache[k].fetch.step = "answered" /\ cache'[k] = Deliver(cache[k])
             /\ must'[k] = IF Loaded(cache[k]) THEN Latest(must[k], early[k]) ELSE must[k]
    BY <1>3, <2>3, Arrived
  <2> QED BY <1>2, <2>1, <2>2, <2>3
<1>5. \A j \in Key : FreshEntry(cache'[j], must'[j], early[j])
  BY <1>2, <1>4 DEF FreshInv
<1>6. \A j \in Key : must'[j] <= ver[j]
  BY <1>2, <1>3 DEF FreshInv, Latest
<1>7. \A n \in DOMAIN calls' : FreshCall(calls[n])'
  BY <1>1 DEF FreshInv, FreshCall
<1> QED BY <1>1, <1>2, <1>5, <1>6, <1>7 DEF FreshInv

LEMMA FreshOther == ASSUME PickInv, FreshInv, OtherWrites PROVE FreshInv'
<1>1. ver' \in [Key -> Nat] /\ \A k \in Key : ver'[k] >= ver[k]
  BY CommitGrows DEF OtherWrites
<1>2. UNCHANGED <<must, early, cache, page, calls>>
  BY DEF OtherWrites
<1>3. \A n \in DOMAIN calls' : FreshCall(calls[n])'
  <2> SUFFICES ASSUME NEW n \in DOMAIN calls' PROVE FreshCall(calls[n])'
    OBVIOUS
  <2>1. FreshCall(calls[n]) /\ calls'[n] = calls[n] /\ page' = page
    BY <1>2 DEF FreshInv
  <2> QED BY <1>1, <2>1 DEF FreshCall, FreshInv
<1> QED BY <1>1, <1>2, <1>3, FreshGrow

LEMMA FreshNext == PickInv /\ FreshInv /\ [Next]_vars => FreshInv'
<1> SUFFICES ASSUME PickInv, FreshInv, [Next]_vars PROVE FreshInv'
  OBVIOUS
<1>1. CASE Handle BY <1>1, FreshHandle
<1>2. CASE Refuse BY <1>2, FreshRefuse
<1>3. CASE Settle BY <1>3, FreshSettle
<1>4. CASE Poll \/ Answer \/ Arrive \/ Fail BY <1>4, FreshFetch
<1>5. CASE OtherWrites BY <1>5, FreshOther
<1>6. CASE Navigate BY <1>6, FreshNavigate
<1>7. CASE ~(Navigate \/ Handle \/ Refuse \/ Settle \/ Poll \/ Answer \/ Arrive \/ Fail
             \/ OtherWrites)
  BY <1>7, FreshUser
<1> QED BY <1>1, <1>2, <1>3, <1>4, <1>5, <1>6, <1>7

\* A write the page was told of is in every list it shows that is not marked
\* for a fetch (onSuccess of useMonitors and useGroupsLabels).
THEOREM OwnWrites == Spec => []OwnWritesVisible
<1>1. FreshInv => OwnWritesVisible
  BY DEF FreshInv, FreshEntry, OwnWritesVisible
<1> QED BY <1>1, PickStart, PickNext, FreshStart, FreshNext, PTL DEF Spec
===========================================================================
