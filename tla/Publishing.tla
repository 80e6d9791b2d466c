---------------------------- MODULE Publishing ----------------------------
(* What an instance tells the outside, and where that is decided: the switch *)
(* of the Monitors page that hides URLs, the card of one channel on the      *)
(* Notifications page, both in one tab of the console; and a visitor of the  *)
(* public status pages.                                                      *)
(*                                                                           *)
(* Three ways to hold what the server holds: the switch shows its own click  *)
(* before the server has it and takes it back; the card copies the row into  *)
(* fields once and its switch waits for the list; the public pages only      *)
(* read.  The links of these are computed in the browser, the pages they     *)
(* lead to are found by a statement of the database, from the name of a      *)
(* group: a name is a stem, its case, what separates its words, and whether  *)
(* it has a sign a path reserves, as "R&D" and "env:prod" do.                *)
EXTENDS QueryCache, FiniteSets

CONSTANTS
    Monitor,
    Name,         \* the groups' names
    Text,         \* what the fields of the card can hold: URL and messages
    Blank,        \* the fields of a card nobody has filled in
    MaxId,        \* bound: rows ever inserted for the channel
    MaxWork       \* bound: clicks, changes by other clients, lost messages

Gap == {"hyphen", "space", "spaces"}

ASSUME PublishingAssumption ==
    /\ Name \subseteq [case : {"lower", "mixed"}, gap : Gap, sign : {"none", "reserved"}]
    /\ Blank \in Text /\ None \notin Text \cup BOOLEAN
    /\ MaxId \in Nat /\ MaxWork \in Nat

VARIABLES
    mons,      \* the monitors: name of the group, public or not
    show,      \* what GetShowURL answers
    row,       \* the row of the channel in notification_channels, or None
    nextId,
    cache,     \* the tab's query cache, per key
    tab,       \* its page; the fields of the card and the row they came from
    calls,     \* its requests, by the order they were issued in
    visitor,
    work

vars == <<mons, show, row, nextId, cache, tab, calls, visitor, work>>
server  == <<mons, show, row, nextId>>
console == <<cache, tab, calls>>

Key == {"show-url", "notifications"}
Observed(route) == IF route = "monitors" THEN "show-url" ELSE "notifications"
OnScreen(k) == k = Observed(tab.route)

Query(k) == IF k = "show-url" THEN show ELSE IF row = None THEN {} ELSE {row}

Works == work < MaxWork /\ work' = work + 1
Call == 0..(MaxWork - 1)

\* The request just issued; id is the row it addresses.
Issued(op, arg, id) ==
    [n \in DOMAIN calls \cup {work} |->
        IF n = work THEN [op |-> op, arg |-> arg, id |-> id, st |-> "sent"] ELSE calls[n]]

---------------------------------------------------------------------------
(* The switch.                                                               *)

\* { data: showURL = true }
ShowURL == LET e == cache["show-url"] IN IF Loaded(e) THEN e.data ELSE TRUE

Cancel(e) == [e EXCEPT !.fetch = Idle]

\* onMutate: fetches are cancelled, the old value is kept for onError.
ToggleShowURL ==
    /\ tab.route = "monitors" /\ Works
    /\ cache' = [cache EXCEPT !["show-url"] = Put(Cancel(@), ~ShowURL)]
    /\ calls' = Issued("show", [on |-> ~ShowURL, prev |-> cache["show-url"].data], None)
    /\ UNCHANGED <<server, tab, visitor>>

\* An entry without an observer is only marked; an answer on its way to it
\* will clear the mark.  at is 1 for such an answer, 0 for any other.
Overtaken(e) == IF e.fetch.step = "answered" THEN [e EXCEPT !.fetch.at = 1] ELSE e

Marked(e) ==
    IF OnScreen("show-url") THEN Invalidate(e, TRUE) ELSE Overtaken(Invalidate(e, FALSE))

Reverted(e, c) == IF c.st = "ok" \/ c.arg.prev = None THEN e ELSE Put(e, c.arg.prev)

\* Faulty variant: only a success is followed by a fetch.
SettledOnSuccess(e, c) == IF c.st = "ok" THEN Marked(e) ELSE Reverted(e, c)

\* onError, then onSettled.
Settled(e, c) == Marked(Reverted(e, c))

---------------------------------------------------------------------------
(* The card.                                                                 *)

Existing ==
    LET e == cache["notifications"]
    IN  IF Loaded(e) /\ e.data # {} THEN CHOOSE r \in e.data : TRUE ELSE None
IsEnabled == Existing # None /\ Existing.on

IdOf(data) == IF data = None \/ data = {} THEN None ELSE (CHOOSE r \in data : TRUE).id

\* Faulty variant: the effect depends on the row, not on its id.
SyncedAlways(v, data) ==
    IF IdOf(data) = None THEN [v EXCEPT !.id = None]
    ELSE [v EXCEPT !.id = IdOf(data), !.text = (CHOOSE r \in data : TRUE).text]

\* The effect that fills the fields runs when the id of the row changes.
Synced(v, data) ==
    IF IdOf(data) = None THEN [v EXCEPT !.id = None]
    ELSE IF IdOf(data) = v.id THEN v
    ELSE [v EXCEPT !.id = IdOf(data), !.text = (CHOOSE r \in data : TRUE).text]

Page(route) == [route |-> route, id |-> None, text |-> Blank, last |-> None]

\* The fields are there while the channel is on.
TypeText ==
    /\ tab.route = "notifications" /\ IsEnabled /\ Works
    /\ \E x \in Text \ {tab.text} : tab' = [tab EXCEPT !.text = x]
    /\ UNCHANGED <<server, cache, calls, visitor>>

Save(on) ==
    /\ calls' = Issued("upsert", [on |-> on, text |-> tab.text], None)
    /\ tab' = [tab EXCEPT !.last = work]

\* The button is disabled while the last save waits.
HandleSave ==
    /\ tab.route = "notifications" /\ IsEnabled /\ tab.last \notin DOMAIN calls
    /\ Works /\ Save(IsEnabled)
    /\ UNCHANGED <<server, cache, visitor>>

\* A channel the list does not have is saved, with the fields as they are.
HandleToggle ==
    /\ tab.route = "notifications" /\ Works
    /\ IF Existing = None THEN Save(TRUE)
       ELSE calls' = Issued("enabled", ~IsEnabled, Existing.id) /\ tab' = tab
    /\ UNCHANGED <<server, cache, visitor>>

---------------------------------------------------------------------------
(* The tab: pages, fetches and answers.                                      *)

\* Data older than staleTime is fetched again as well.
OpenPage(route) ==
    /\ tab.route # route /\ Works
    /\ LET k == Observed(route)
       IN  /\ \E e \in {Mount(cache[k]), Ask(cache[k])} : cache' = [cache EXCEPT ![k] = e]
           /\ tab' = Synced(Page(route), IF route = "monitors" THEN None ELSE cache[k].data)
    /\ UNCHANGED <<server, calls, visitor>>

AnswerQuery(k) ==
    /\ cache[k].fetch.step = "asked"
    /\ cache' = [cache EXCEPT ![k].fetch = Answered(Query(k), 0)]
    /\ UNCHANGED <<server, tab, calls, visitor, work>>

DeliverQuery(k) ==
    /\ cache[k].fetch.step = "answered"
    /\ cache' = [cache EXCEPT ![k] = Deliver(@)]
    /\ tab' = IF k = "notifications" /\ OnScreen(k)
              THEN Synced(tab, cache[k].fetch.data) ELSE tab
    /\ UNCHANGED <<server, calls, visitor, work>>

LoseQuery(k) ==
    /\ Fetching(cache[k]) /\ Works
    /\ cache' = [cache EXCEPT ![k] = GiveUp(@)]
    /\ UNCHANGED <<server, tab, calls, visitor>>

Hears(n, st) == calls' = [calls EXCEPT ![n].st = st]

SetShowURL(n) ==
    /\ calls[n].op = "show" /\ calls[n].st = "sent"
    /\ show' = calls[n].arg.on /\ Hears(n, "ok")
    /\ UNCHANGED <<mons, row, nextId>>

SetEnabled(n) ==
    /\ calls[n].op = "enabled" /\ calls[n].st = "sent"
    /\ IF row # None /\ row.id = calls[n].id
       THEN row' = [row EXCEPT !.on = calls[n].arg] /\ Hears(n, "ok")
       ELSE row' = row /\ Hears(n, "refused")
    /\ UNCHANGED <<mons, show, nextId>>

\* UPDATE by type; without a row INSERT, which the unique type can refuse.
Upsert(n) ==
    LET a == calls[n].arg
    IN  /\ calls[n].op = "upsert"
        /\ \/ /\ calls[n].st = "sent" /\ row # None
              /\ row' = [row EXCEPT !.text = a.text, !.on = a.on]
              /\ Hears(n, "ok") /\ nextId' = nextId
           \/ /\ calls[n].st = "sent" /\ row = None
              /\ Hears(n, "insert") /\ UNCHANGED <<row, nextId>>
           \/ /\ calls[n].st = "insert" /\ row # None
              /\ Hears(n, "refused") /\ UNCHANGED <<row, nextId>>
           \/ /\ calls[n].st = "insert" /\ row = None /\ nextId <= MaxId
              /\ row' = [id |-> nextId, text |-> a.text, on |-> a.on]
              /\ Hears(n, "ok") /\ nextId' = nextId + 1
        /\ UNCHANGED <<mons, show>>

Handle(n) ==
    /\ n \in DOMAIN calls
    /\ SetShowURL(n) \/ SetEnabled(n) \/ Upsert(n)
    /\ UNCHANGED <<cache, tab, visitor, work>>

\* The request or its answer is lost, whatever the handler did.
LoseCall(n) ==
    /\ n \in DOMAIN calls /\ calls[n].st # "refused" /\ Works
    /\ Hears(n, "refused")
    /\ UNCHANGED <<server, cache, tab, visitor>>

DeliverCall(n) ==
    /\ n \in DOMAIN calls /\ calls[n].st \in {"ok", "refused"}
    /\ calls' = [m \in DOMAIN calls \ {n} |-> calls[m]]
    /\ cache' =
        IF calls[n].op = "show"
        THEN [cache EXCEPT !["show-url"] = Settled(@, calls[n])]
        ELSE IF calls[n].st = "ok"
        THEN [cache EXCEPT !["notifications"] = Invalidate(@, OnScreen("notifications"))]
        ELSE cache
    /\ UNCHANGED <<server, tab, visitor, work>>

---------------------------------------------------------------------------
(* Another client.                                                           *)

EditElsewhere ==
    /\ Works
    /\ \/ /\ \E m \in Monitor, g \in Name, p \in BOOLEAN :
                mons' = [mons EXCEPT ![m] = [grp |-> g, pub |-> p]]
          /\ UNCHANGED <<show, row, nextId>>
       \/ /\ row # None /\ row' = None
          /\ UNCHANGED <<mons, show, nextId>>
       \/ /\ \E x \in Text, on \in BOOLEAN :
                IF row # None THEN row' = [row EXCEPT !.text = x, !.on = on] /\ nextId' = nextId
                ELSE /\ nextId <= MaxId /\ nextId' = nextId + 1
                     /\ row' = [id |-> nextId, text |-> x, on |-> on]
          /\ UNCHANGED <<mons, show>>
    /\ UNCHANGED <<console, visitor>>

---------------------------------------------------------------------------
(* The visitor.                                                              *)

\* LOWER(REPLACE(group_name, ' ', '-'))
ServerSlug(name) ==
    [case |-> "lower", hyphens |-> IF name.gap = "spaces" THEN 2 ELSE 1, sign |-> name.sign]

\* Faulty variant: the case is kept.
SlugifyCased(name) == [case |-> name.case, hyphens |-> 1, sign |-> name.sign]

\* toLowerCase().replace(/\s+/g, '-')
GroupSlugify(name) == [case |-> "lower", hyphens |-> 1, sign |-> name.sign]

\* encodeURIComponent escapes a reserved sign, and c.Param leaves it escaped.
Param(slug) == [slug EXCEPT !.sign = IF @ = "reserved" THEN "escaped" ELSE @]

\* The path of the status page; the others end in a slug.
Home == None

\* A page of the visitor: what it shows, how its last fetch ended, and the
\* fetch under way.  want is the group whose link led here.
FreshView(path, want) ==
    [path |-> path, want |-> want, data |-> None, ended |-> "none", had |-> {}, fetch |-> Idle]

GroupOf(m) == mons[m].grp
PublicIn(g) == {m \in Monitor : mons[m].pub /\ GroupOf(m) = g}

\* First the monitors, as the status page or the page of a group selects
\* them; had is the group the visitor asked for at that moment.
ReadMonitors ==
    /\ visitor.fetch.step = "asked"
    /\ LET found == {m \in Monitor : /\ mons[m].pub
                                     /\ visitor.path = Home \/ ServerSlug(GroupOf(m)) = Param(visitor.path)}
       IN  visitor' = [visitor EXCEPT !.fetch =
                [step |-> "read", mons |-> [m \in found |-> GroupOf(m)],
                 had |-> IF visitor.want = None THEN {} ELSE PublicIn(visitor.want)]]
    /\ UNCHANGED <<server, console, work>>

\* Then the setting and, on the status page, the groups.
ReadRest ==
    /\ visitor.fetch.step = "read"
    /\ visitor' = [visitor EXCEPT !.fetch =
            [step |-> "answered", had |-> @.had,
             data |-> [mons |-> @.mons, show |-> show,
                       groups |-> {GroupOf(m) : m \in {x \in Monitor : mons[x].pub}}]]]
    /\ UNCHANGED <<server, console, work>>

\* A group without public monitors is a 404.
DeliverView ==
    /\ visitor.fetch.step = "answered"
    /\ LET f == visitor.fetch
           found == visitor.path = Home \/ DOMAIN f.data.mons # {}
       IN  visitor' = [visitor EXCEPT !.fetch = Idle, !.had = f.had, !.ended = IF found THEN "ok" ELSE "missing",
                                      !.data = IF found THEN f.data ELSE @]
    /\ UNCHANGED <<server, console, work>>

LoseView ==
    /\ visitor.fetch.step # "idle" /\ Works
    /\ visitor' = [visitor EXCEPT !.fetch = Idle, !.ended = "lost"]
    /\ UNCHANGED <<server, console>>

\* Every 30 s, or by the button.
Refetch ==
    /\ visitor.fetch.step = "idle"
    /\ visitor' = [visitor EXCEPT !.fetch = Asked]
    /\ UNCHANGED <<server, console, work>>

\* The links of the status page: a pill for each group, and a section for
\* each group one of the monitors is in.
Links(data) == data.groups \cup {data.mons[m] : m \in DOMAIN data.mons}

Follow ==
    /\ visitor.path = Home /\ visitor.data # None /\ Works
    /\ \E g \in Links(visitor.data) : visitor' = FreshView(GroupSlugify(g), g)
    /\ UNCHANGED <<server, console>>

Back ==
    /\ visitor.path # Home /\ Works
    /\ visitor' = FreshView(Home, None)
    /\ UNCHANGED <<server, console>>

---------------------------------------------------------------------------
Init ==
    /\ mons \in [Monitor -> [grp : Name, pub : {TRUE}]]
    /\ show = TRUE
    /\ row \in {None} \cup {[id |-> 1, text |-> x, on |-> on] : x \in Text \ {Blank}, on \in BOOLEAN}
    /\ nextId = IF row = None THEN 1 ELSE 2
    /\ \E route \in {"monitors", "notifications"} :
        /\ cache = [k \in Key |-> IF k = Observed(route) THEN Ask(Empty) ELSE Empty]
        /\ tab = Page(route)
    /\ calls = <<>>
    /\ visitor = FreshView(Home, None)
    /\ work = 0

Next ==
    \/ ToggleShowURL \/ TypeText \/ HandleSave \/ HandleToggle
    \/ \E route \in {"monitors", "notifications"} : OpenPage(route)
    \/ \E k \in Key : AnswerQuery(k) \/ DeliverQuery(k) \/ LoseQuery(k)
    \/ \E n \in Call : Handle(n) \/ LoseCall(n) \/ DeliverCall(n)
    \/ EditElsewhere
    \/ ReadMonitors \/ ReadRest \/ DeliverView \/ LoseView \/ Refetch \/ Follow \/ Back

Spec == Init /\ [][Next]_vars

---------------------------------------------------------------------------
(* Properties.                                                               *)

\* When no click is under way and no fetch is due or has failed, the switch
\* on the Monitors page says what the server does: clicks that overlap, that
\* are refused or whose answer is lost after the server obeyed are put right
\* by the fetch that follows each (useToggleShowURL).  One case is left out: a
\* click that settles while another page is open and a fetch is under way.
SwitchTellsTruth ==
    LET e == cache["show-url"]
        Waits == \E n \in DOMAIN calls : calls[n].op = "show"
    IN  (tab.route = "monitors" /\ Loaded(e) /\ ~e.invalid /\ ~Waits)
            => e.data = show \/ e.at = 1

\* The fields of the card change when the user types, and when another row
\* than theirs appears: neither the fetches after a click on the switch or a
\* save, nor an edit of the row elsewhere, overwrites what is being typed.
TypingSurvives ==
    [][(tab.route = "notifications" /\ tab'.route = "notifications" /\ tab.id # None
            /\ tab'.id = tab.id /\ tab'.text # tab.text) => TypeText]_vars

\* A link to a group leads to all public monitors it has when they are read,
\* for names whose words are one space or hyphen apart and that have no sign a
\* path reserves: the slug the browser computes and sends is the one the
\* database finds (groupSlugify, GetGroupStatus).
GroupLinkReaches ==
    (visitor.want # None /\ visitor.ended \in {"ok", "missing"}) =>
        LET Shown == IF visitor.ended = "ok" THEN DOMAIN visitor.data.mons ELSE {}
        IN  (visitor.want.gap # "spaces" /\ visitor.want.sign = "none")
                => visitor.had \subseteq Shown
===========================================================================
