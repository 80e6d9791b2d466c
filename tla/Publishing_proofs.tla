------------------------- MODULE Publishing_proofs -------------------------
(* The properties of Publishing for every number of monitors, clicks and     *)
(* requests.  The switch: an answer of the server is right unless a click    *)
(* has been handled since, and then that click has still to settle.  The     *)
(* link: the browser's slug is the database's, and nothing the visitor does  *)
(* separates a page from the link that led to it.                            *)
EXTENDS Publishing, TLAPS

---------------------------------------------------------------------------
(* The switch.                                                               *)

Fetches == {Idle, Asked} \cup [step : {"answered"}, data : BOOLEAN, at : {0, 1}]
Entries == [data : BOOLEAN \cup {None}, at : {0, 1}, invalid : BOOLEAN, fetch : Fetches]

Switch == cache["show-url"]
Clicks == {n \in DOMAIN calls : calls[n].op = "show"}

CallOK(n) ==
    /\ n \in Nat /\ n < work
    /\ DOMAIN calls[n] = {"op", "arg", "id", "st"}
    /\ calls[n].op = "show" =>
            calls[n].arg \in [on : BOOLEAN, prev : BOOLEAN \cup {None}]

SwitchTypes ==
    /\ DOMAIN cache = Key /\ Switch \in Entries
    /\ show \in BOOLEAN /\ work \in Nat
    /\ \A n \in DOMAIN calls : CallOK(n)

\* A click shows itself at once; without clicks an answer under way and what
\* is shown unmarked are the server's, or overtaken.
SwitchInv ==
    /\ SwitchTypes
    /\ Clicks # {} => Loaded(Switch)
    /\ (Clicks = {} /\ Switch.fetch.step = "answered") =>
            Switch.fetch.data = show \/ Switch.fetch.at = 1
    /\ (Clicks = {} /\ Loaded(Switch) /\ ~Switch.invalid) =>
            Switch.data = show \/ Switch.at = 1

\* The operations of the cache give entries back.
LEMMA EntryTypes ==
  ASSUME NEW e \in Entries
  PROVE  /\ Ask(e) \in Entries /\ Mount(e) \in Entries /\ GiveUp(e) \in Entries
         /\ Cancel(e) \in Entries /\ Overtaken(e) \in Entries
         /\ \A o \in BOOLEAN : Invalidate(e, o) \in Entries
         /\ \A d \in BOOLEAN : Put(e, d) \in Entries
         /\ e.fetch.step = "answered" => Deliver(e) \in Entries
<1>1. Idle \in Fetches /\ Asked \in Fetches
  BY DEF Fetches
<1>2. e.fetch \in Fetches /\ \A f \in Fetches : [e EXCEPT !.fetch = f] \in Entries
  BY DEF Entries
<1>3. Ask(e) \in Entries /\ GiveUp(e) \in Entries /\ Cancel(e) \in Entries
  BY <1>1, <1>2 DEF Ask, GiveUp, Cancel
<1>4. Mount(e) \in Entries
  BY <1>3 DEF Mount
<1>5. ASSUME e.fetch.step = "answered"
      PROVE  Overtaken(e) \in Entries /\ Deliver(e) \in Entries
  <2>1. e.fetch \in [step : {"answered"}, data : BOOLEAN, at : {0, 1}]
    BY <1>2, <1>5 DEF Fetches, Idle, Asked
  <2>2. [e.fetch EXCEPT !.at = 1] \in Fetches
    BY <2>1 DEF Fetches
  <2>3. Overtaken(e) \in Entries
    BY <1>2, <1>5, <2>2 DEF Overtaken
  <2>4. Deliver(e) \in Entries
    BY <1>1, <2>1 DEF Deliver, Entries
  <2> QED BY <2>3, <2>4
<1>6. e.fetch.step # "answered" => Overtaken(e) \in Entries
  BY DEF Overtaken
<1>7. \A o \in BOOLEAN : Invalidate(e, o) \in Entries
  <2> SUFFICES ASSUME NEW o \in BOOLEAN PROVE Invalidate(e, o) \in Entries
    OBVIOUS
  <2> DEFINE f == IF ~o \/ (Fetching(e) /\ ~Loaded(e)) THEN e.fetch ELSE Asked
  <2>1. f \in Fetches
    BY <1>1, <1>2
  <2>2. Invalidate(e, o) = [e EXCEPT !.invalid = TRUE, !.fetch = f]
    BY DEF Invalidate
  <2> HIDE DEF f
  <2> QED BY <2>1, <2>2 DEF Entries
<1>8. \A d \in BOOLEAN : Put(e, d) \in Entries
  BY DEF Put, Entries
<1> QED BY <1>3, <1>4, <1>5, <1>6, <1>7, <1>8

\* A fetch changes nothing else before it is answered.
LEMMA FetchOnly ==
  ASSUME NEW e \in Entries, NEW x \in {Ask(e), Mount(e), GiveUp(e)}
  PROVE  /\ x \in Entries /\ x.data = e.data /\ x.invalid = e.invalid /\ x.at = e.at
         /\ x.fetch.step = "answered" => x.fetch = e.fetch
<1>1. DOMAIN e = {"data", "at", "invalid", "fetch"}
  BY DEF Entries
<1>2. x \in {e, [e EXCEPT !.fetch = Asked], [e EXCEPT !.fetch = Idle]}
  BY DEF Ask, Mount, GiveUp
<1> QED BY <1>1, <1>2, EntryTypes DEF Idle, Asked

\* Steps that leave the switch alone, but for other requests.
LEMMA SwitchApart ==
  ASSUME SwitchInv, DOMAIN cache' = Key, Switch' = Switch, show' = show, work' \in Nat,
         \A n \in DOMAIN calls' : CallOK(n)', Clicks' = Clicks
  PROVE  SwitchInv'
  BY DEF SwitchInv, SwitchTypes

\* A fetch of the switch begins, is given up, or has been there already.
LEMMA SwitchFetch ==
  ASSUME SwitchInv, Switch' \in {Ask(Switch), Mount(Switch), GiveUp(Switch)},
         DOMAIN cache' = Key, show' = show, work' \in Nat, calls' = calls,
         \A n \in DOMAIN calls' : CallOK(n)'
  PROVE  SwitchInv'
<1>1. /\ Switch' \in Entries /\ Switch'.data = Switch.data
      /\ Switch'.invalid = Switch.invalid /\ Switch'.at = Switch.at
      /\ Switch'.fetch.step = "answered" => Switch'.fetch = Switch.fetch
  BY FetchOnly DEF SwitchInv, SwitchTypes
<1>2. Clicks' = Clicks
  BY DEF Clicks
<1>3. SwitchTypes'
  BY <1>1 DEF SwitchInv, SwitchTypes
<1> QED BY <1>1, <1>2, <1>3 DEF SwitchInv, Loaded

LEMMA SwitchStart == Init => SwitchInv
<1> SUFFICES ASSUME Init PROVE SwitchInv
  OBVIOUS
<1>1. PICK route \in {"monitors", "notifications"} :
        cache = [k \in Key |-> IF k = Observed(route) THEN Ask(Empty) ELSE Empty]
  BY DEF Init
<1>2. Empty \in Entries /\ Empty.data = None /\ Empty.fetch.step = "idle"
  BY DEF Empty, Entries, Fetches, Idle
<1>3. Ask(Empty) \in Entries /\ Ask(Empty).data = None /\ Ask(Empty).fetch.step = "asked"
  BY <1>2, EntryTypes DEF Ask, Empty, Idle, Asked, Fetching
<1>4. DOMAIN cache = Key /\ Switch \in {Empty, Ask(Empty)}
  BY <1>1 DEF Key, Switch
<1>5. DOMAIN calls = {} /\ show \in BOOLEAN /\ work \in Nat
  BY DEF Init
<1> QED BY <1>2, <1>3, <1>4, <1>5 DEF SwitchInv, SwitchTypes, Clicks, Loaded

---------------------------------------------------------------------------
(* The switch is clicked.                                                    *)

\* Requests stay well-formed when one is issued, moves on or ends.
LEMMA IssuedOK ==
  ASSUME SwitchTypes, NEW op, NEW arg, NEW id, calls' = Issued(op, arg, id), work' = work + 1,
         op = "show" => arg \in [on : BOOLEAN, prev : BOOLEAN \cup {None}]
  PROVE  /\ \A n \in DOMAIN calls' : CallOK(n)'
         /\ Clicks' = Clicks \cup IF op = "show" THEN {work} ELSE {}
<1>1. work \in Nat /\ \A n \in DOMAIN calls : CallOK(n) /\ n # work
  BY DEF SwitchTypes, CallOK
<1>2. DOMAIN calls' = DOMAIN calls \cup {work}
  BY DEF Issued
<1>3. calls'[work] = [op |-> op, arg |-> arg, id |-> id, st |-> "sent"]
  BY DEF Issued
<1>4. \A n \in DOMAIN calls : calls'[n] = calls[n]
  BY <1>1 DEF Issued
<1>5. \A n \in {work} : CallOK(n)'
  BY <1>1, <1>3 DEF CallOK
<1>6. \A n \in DOMAIN calls : CallOK(n)'
  BY <1>1, <1>4 DEF CallOK
<1>7. Clicks' = Clicks \cup IF op = "show" THEN {work} ELSE {}
  BY <1>1, <1>2, <1>3, <1>4 DEF Clicks
<1> QED BY <1>2, <1>5, <1>6, <1>7

LEMMA HearsOK ==
  ASSUME SwitchTypes, NEW n \in DOMAIN calls, NEW st, Hears(n, st), work' = work
  PROVE  (\A m \in DOMAIN calls' : CallOK(m)') /\ Clicks' = Clicks
<1>1. DOMAIN calls' = DOMAIN calls /\ \A m \in DOMAIN calls : CallOK(m)
  BY DEF Hears, SwitchTypes
<1>2. \A m \in DOMAIN calls : /\ DOMAIN calls'[m] = DOMAIN calls[m]
                              /\ calls'[m].op = calls[m].op /\ calls'[m].arg = calls[m].arg
  BY <1>1 DEF Hears, CallOK
<1>3. \A m \in DOMAIN calls : CallOK(m)'
  BY <1>1, <1>2 DEF CallOK
<1> QED BY <1>1, <1>2, <1>3 DEF Clicks

\* A click: no fetch is under way any more.
LEMMA ClickKeeps == ASSUME SwitchInv, ToggleShowURL PROVE SwitchInv'
<1> DEFINE e == Switch
           on == ~ShowURL
<1>1. e \in Entries /\ DOMAIN cache = Key /\ show \in BOOLEAN /\ work \in Nat
  BY DEF SwitchInv, SwitchTypes
<1>2. on \in BOOLEAN /\ e.data \in BOOLEAN \cup {None}
  BY <1>1 DEF Entries
<1>3. /\ cache' = [cache EXCEPT !["show-url"] = Put(Cancel(e), on)]
      /\ calls' = Issued("show", [on |-> on, prev |-> e.data], None)
      /\ work' = work + 1 /\ show' = show
  BY DEF ToggleShowURL, Works, server, Switch
<1>4. DOMAIN cache' = Key /\ Switch' = Put(Cancel(e), on)
  BY <1>1, <1>3 DEF Switch, Key
<1>5. Switch' \in Entries /\ Switch'.data = on
  <2>1. Cancel(e) \in Entries
    BY <1>1, EntryTypes
  <2>2. Put(Cancel(e), on) \in Entries
    BY <1>2, <2>1, EntryTypes
  <2>3. Put(Cancel(e), on).data = on
    BY <2>1 DEF Put, Entries
  <2> QED BY <1>4, <2>2, <2>3
<1>6. Loaded(Switch')
  BY <1>2, <1>5, PublishingAssumption DEF Loaded
<1>7. (\A n \in DOMAIN calls' : CallOK(n)') /\ Clicks' # {}
  <2>1. [on |-> on, prev |-> e.data] \in [on : BOOLEAN, prev : BOOLEAN \cup {None}]
    BY <1>2
  <2>2. SwitchTypes
    BY DEF SwitchInv
  <2> HIDE DEF on, e
  <2> QED BY <1>3, <2>1, <2>2, IssuedOK
<1> QED BY <1>1, <1>3, <1>4, <1>5, <1>6, <1>7 DEF SwitchInv, SwitchTypes

---------------------------------------------------------------------------
(* A click settles.                                                          *)

\* Whatever was shown, it is marked afterwards, and an answer that was under
\* way is cancelled or marked as overtaken.
LEMMA MarkedMeans ==
  ASSUME NEW e \in Entries, Loaded(e)
  PROVE  /\ Marked(e) \in Entries /\ Marked(e).invalid = TRUE /\ Loaded(Marked(e))
         /\ Marked(e).fetch.step = "answered" => Marked(e).fetch.at = 1
<1>1. DOMAIN e = {"data", "at", "invalid", "fetch"} /\ e.fetch \in Fetches
  BY DEF Entries
<1>2. CASE OnScreen("show-url")
  <2>1. Marked(e) = [e EXCEPT !.invalid = TRUE, !.fetch = Asked]
    BY <1>2 DEF Marked, Invalidate, Fetching
  <2>2. Marked(e) \in Entries
    BY <1>2, EntryTypes DEF Marked
  <2> QED BY <1>1, <2>1, <2>2 DEF Loaded, Asked
<1>3. CASE ~OnScreen("show-url")
  <2> DEFINE i == [e EXCEPT !.invalid = TRUE, !.fetch = @]
  <2>1. Marked(e) = Overtaken(i) /\ i = Invalidate(e, FALSE)
    BY <1>3 DEF Marked, Invalidate
  <2>2. i \in Entries /\ Marked(e) \in Entries
    BY <2>1, EntryTypes
  <2>3. i.invalid = TRUE /\ i.data = e.data /\ i.fetch = e.fetch
        /\ DOMAIN i = {"data", "at", "invalid", "fetch"}
    BY <1>1
  <2> HIDE DEF i
  <2>4. CASE i.fetch.step # "answered"
    BY <2>1, <2>2, <2>3, <2>4 DEF Overtaken, Loaded
  <2>5. CASE i.fetch.step = "answered"
    <3>1. i.fetch \in [step : {"answered"}, data : BOOLEAN, at : {0, 1}]
      BY <1>1, <2>3, <2>5 DEF Fetches, Idle, Asked
    <3>2. Marked(e) = [i EXCEPT !.fetch = [i.fetch EXCEPT !.at = 1]]
      BY <2>1, <2>5 DEF Overtaken
    <3> QED BY <2>2, <2>3, <3>1, <3>2 DEF Loaded
  <2> QED BY <2>4, <2>5
<1> QED BY <1>2, <1>3

LEMMA SettleKeeps ==
  ASSUME SwitchInv, NEW n \in Call, DeliverCall(n)
  PROVE  SwitchInv'
<1> PICK c : c = calls[n]
  OBVIOUS
<1>1. n \in DOMAIN calls /\ calls' = [m \in DOMAIN calls \ {n} |-> calls[m]]
      /\ show' = show /\ work' = work
  BY DEF DeliverCall, server
<1>2. DOMAIN cache = Key /\ Switch \in Entries /\ show \in BOOLEAN /\ work \in Nat /\ CallOK(n)
  BY <1>1 DEF SwitchInv, SwitchTypes
<1>3. \A m \in DOMAIN calls' : CallOK(m)'
  BY <1>1 DEF SwitchInv, SwitchTypes, CallOK
<1>4. CASE c.op = "show"
  <2>1. Loaded(Switch)
    BY <1>1, <1>4 DEF SwitchInv, Clicks
  <2>2. Reverted(Switch, c) \in Entries /\ Loaded(Reverted(Switch, c))
    <3>1. c.arg.prev \in BOOLEAN \cup {None}
      BY <1>2, <1>4 DEF CallOK
    <3>2. ASSUME c.arg.prev # None
          PROVE  Put(Switch, c.arg.prev) \in Entries /\ Loaded(Put(Switch, c.arg.prev))
      <4>1. Put(Switch, c.arg.prev) \in Entries
        BY <1>2, <3>1, <3>2, EntryTypes
      <4>2. Put(Switch, c.arg.prev).data = c.arg.prev
        BY <1>2 DEF Put, Entries
      <4> QED BY <3>2, <4>1, <4>2 DEF Loaded
    <3> QED BY <1>2, <2>1, <3>2 DEF Reverted
  <2>3. DOMAIN cache' = Key /\ Switch' = Marked(Reverted(Switch, c))
    BY <1>2, <1>4 DEF DeliverCall, Settled, Switch, Key
  <2>4. /\ Switch' \in Entries /\ Switch'.invalid = TRUE /\ Loaded(Switch')
        /\ Switch'.fetch.step = "answered" => Switch'.fetch.at = 1
    BY <2>2, <2>3, MarkedMeans
  <2> QED BY <1>1, <1>2, <1>3, <2>3, <2>4 DEF SwitchInv, SwitchTypes
<1>5. CASE c.op # "show"
  <2>1. Clicks' = Clicks
    BY <1>1, <1>5 DEF Clicks
  <2>2. DOMAIN cache' = Key /\ Switch' = Switch
    BY <1>2, <1>5 DEF DeliverCall, Switch, Key
  <2> QED BY <1>1, <1>2, <1>3, <2>1, <2>2, SwitchApart
<1> QED BY <1>4, <1>5

---------------------------------------------------------------------------
(* The other steps.                                                          *)

\* The server obeys a click: that click has still to settle.
LEMMA HandleKeeps == ASSUME SwitchInv, NEW n \in Call, Handle(n) PROVE SwitchInv'
<1>1. n \in DOMAIN calls /\ cache' = cache /\ work' = work
  BY DEF Handle
<1>2. PICK st : Hears(n, st)
  BY DEF Handle, SetShowURL, SetEnabled, Upsert
<1>3. (\A m \in DOMAIN calls' : CallOK(m)') /\ Clicks' = Clicks
  BY <1>1, <1>2, HearsOK DEF SwitchInv
<1>4. DOMAIN cache' = Key /\ Switch' = Switch /\ work' \in Nat
  BY <1>1 DEF SwitchInv, SwitchTypes, Switch
<1>5. CASE calls[n].op = "show" /\ SetShowURL(n)
  <2>1. n \in Clicks
    BY <1>1, <1>5 DEF Clicks
  <2>2. show' \in BOOLEAN
    BY <1>1, <1>5 DEF SetShowURL, SwitchInv, SwitchTypes, CallOK
  <2> QED BY <1>3, <1>4, <2>1, <2>2 DEF SwitchInv, SwitchTypes
<1>6. CASE show' = show
  BY <1>3, <1>4, <1>6, SwitchApart
<1> QED BY <1>5, <1>6 DEF Handle, SetShowURL, SetEnabled, Upsert

LEMMA LoseCallKeeps == ASSUME SwitchInv, NEW n \in Call, LoseCall(n) PROVE SwitchInv'
<1>1. n \in DOMAIN calls /\ Hears(n, "refused") /\ cache' = cache /\ show' = show
      /\ work' = work + 1 /\ work \in Nat
  BY DEF LoseCall, Works, server, SwitchInv, SwitchTypes
<1>2. \A m \in DOMAIN calls' :
        /\ m \in DOMAIN calls /\ DOMAIN calls'[m] = DOMAIN calls[m]
        /\ calls'[m].op = calls[m].op /\ calls'[m].arg = calls[m].arg
  BY <1>1 DEF Hears, SwitchInv, SwitchTypes, CallOK
<1>3. \A m \in DOMAIN calls' : CallOK(m)'
  BY <1>1, <1>2 DEF SwitchInv, SwitchTypes, CallOK
<1>4. Clicks' = Clicks
  BY <1>1, <1>2 DEF Clicks, Hears
<1>5. DOMAIN cache' = Key /\ Switch' = Switch /\ work' \in Nat
  BY <1>1 DEF SwitchInv, SwitchTypes, Switch
<1> QED BY <1>1, <1>3, <1>4, <1>5, SwitchApart

\* Saves and clicks on the card's switch.
LEMMA CardKeeps ==
  ASSUME SwitchInv, HandleSave \/ HandleToggle \/ TypeText
  PROVE  SwitchInv'
<1>1. cache' = cache /\ show' = show /\ work' = work + 1 /\ work \in Nat
  BY DEF HandleSave, HandleToggle, TypeText, Works, server, SwitchInv, SwitchTypes
<1>2. (\A m \in DOMAIN calls' : CallOK(m)') /\ Clicks' = Clicks
  <2>1. CASE calls' = calls
    BY <1>1, <2>1 DEF SwitchInv, SwitchTypes, CallOK, Clicks
  <2>2. ASSUME NEW arg, calls' = Issued("upsert", arg, None)
        PROVE  (\A m \in DOMAIN calls' : CallOK(m)') /\ Clicks' = Clicks
    <3>1. SwitchTypes
      BY DEF SwitchInv
    <3> QED BY <1>1, <2>2, <3>1, IssuedOK
  <2>3. ASSUME NEW arg, NEW id, calls' = Issued("enabled", arg, id)
        PROVE  (\A m \in DOMAIN calls' : CallOK(m)') /\ Clicks' = Clicks
    <3>1. SwitchTypes
      BY DEF SwitchInv
    <3> QED BY <1>1, <2>3, <3>1, IssuedOK
  <2> QED BY <2>1, <2>2, <2>3 DEF HandleSave, HandleToggle, Save, TypeText
<1>3. DOMAIN cache' = Key /\ Switch' = Switch /\ work' \in Nat
  BY <1>1 DEF SwitchInv, SwitchTypes, Switch
<1> QED BY <1>1, <1>2, <1>3, SwitchApart

LEMMA LaterOK ==
  ASSUME SwitchInv, calls' = calls, work' \in {work, work + 1}
  PROVE  work' \in Nat /\ (\A m \in DOMAIN calls' : CallOK(m)') /\ Clicks' = Clicks
  BY DEF SwitchInv, SwitchTypes, CallOK, Clicks

\* Pages and fetches.
LEMMA FetchKeeps ==
  ASSUME SwitchInv,
         \/ \E route \in {"monitors", "notifications"} : OpenPage(route)
         \/ \E k \in Key : AnswerQuery(k) \/ DeliverQuery(k) \/ LoseQuery(k)
  PROVE  SwitchInv'
<1>1. DOMAIN cache = Key /\ Switch \in Entries
  BY DEF SwitchInv, SwitchTypes
<1>2. show' = show /\ calls' = calls /\ work' \in {work, work + 1}
  BY DEF OpenPage, AnswerQuery, DeliverQuery, LoseQuery, Works, server
<1>3. work' \in Nat /\ (\A m \in DOMAIN calls' : CallOK(m)') /\ Clicks' = Clicks
  BY <1>2, LaterOK
<1>4. DOMAIN cache' = Key
  BY <1>1 DEF OpenPage, AnswerQuery, DeliverQuery, LoseQuery
<1>5. CASE Switch' \in {Ask(Switch), Mount(Switch), GiveUp(Switch)}
  BY <1>2, <1>3, <1>4, <1>5, SwitchFetch
<1>6. CASE Switch' = Switch
  BY <1>2, <1>3, <1>4, <1>6, SwitchApart
<1>7. CASE AnswerQuery("show-url")
  <2>1. Switch' = [Switch EXCEPT !.fetch = Answered(show, 0)]
    BY <1>1, <1>7 DEF AnswerQuery, Query, Switch, Key
  <2>2. Answered(show, 0) \in Fetches /\ Answered(show, 0).data = show
    BY DEF Answered, Fetches, SwitchInv, SwitchTypes
  <2>3. /\ Switch' \in Entries /\ Switch'.data = Switch.data /\ Switch'.at = Switch.at
        /\ Switch'.invalid = Switch.invalid /\ Switch'.fetch = Answered(show, 0)
    BY <1>1, <2>1, <2>2 DEF Entries
  <2> QED BY <1>2, <1>3, <1>4, <2>2, <2>3 DEF SwitchInv, SwitchTypes, Loaded
<1>8. CASE DeliverQuery("show-url")
  <2>1. Switch' = Deliver(Switch) /\ Switch.fetch.step = "answered"
    BY <1>1, <1>8 DEF DeliverQuery, Switch, Key
  <2>2. Switch' \in Entries
    BY <1>1, <2>1, EntryTypes
  <2>3. /\ Switch'.data = Switch.fetch.data /\ Switch'.at = Switch.fetch.at
        /\ Switch'.fetch.step = "idle"
    BY <2>1 DEF Deliver, Idle
  <2>4. Loaded(Switch')
    BY <1>1, <2>1, <2>3, PublishingAssumption DEF Entries, Fetches, Loaded, Idle, Asked
  <2> QED BY <1>2, <1>3, <1>4, <2>1, <2>2, <2>3, <2>4 DEF SwitchInv, SwitchTypes
<1>9. QED
  <2>1. CASE OpenPage("monitors")
    BY <1>1, <1>5, <2>1 DEF OpenPage, Switch, Observed, Key
  <2>2. CASE OpenPage("notifications")
    BY <1>1, <1>6, <2>2 DEF OpenPage, Switch, Observed, Key
  <2>3. CASE LoseQuery("show-url")
    BY <1>1, <1>5, <2>3 DEF LoseQuery, Switch, Key
  <2>4. CASE AnswerQuery("notifications") \/ DeliverQuery("notifications")
                \/ LoseQuery("notifications")
    BY <1>1, <1>6, <2>4 DEF AnswerQuery, DeliverQuery, LoseQuery, Switch, Key
  <2> QED BY <1>7, <1>8, <2>1, <2>2, <2>3, <2>4 DEF Key

\* Nobody else writes the setting, and the visitor only reads.
LEMMA OthersKeep ==
  ASSUME SwitchInv,
         EditElsewhere \/ ReadMonitors \/ ReadRest \/ DeliverView \/ LoseView \/ Refetch
            \/ Follow \/ Back
  PROVE  SwitchInv'
<1>1. cache' = cache /\ calls' = calls /\ show' = show /\ work' \in {work, work + 1}
  BY DEF EditElsewhere, ReadMonitors, ReadRest, DeliverView, LoseView, Refetch, Follow, Back,
         Works, server, console
<1>2. DOMAIN cache' = Key /\ Switch' = Switch
  BY <1>1 DEF SwitchInv, SwitchTypes, Switch
<1> QED BY <1>1, <1>2, LaterOK, SwitchApart

LEMMA SwitchStep == SwitchInv /\ [Next]_vars => SwitchInv'
<1> SUFFICES ASSUME SwitchInv, [Next]_vars PROVE SwitchInv'
  OBVIOUS
<1>1. CASE ToggleShowURL BY <1>1, ClickKeeps
<1>2. CASE TypeText \/ HandleSave \/ HandleToggle BY <1>2, CardKeeps
<1>3. CASE \/ \E route \in {"monitors", "notifications"} : OpenPage(route)
           \/ \E k \in Key : AnswerQuery(k) \/ DeliverQuery(k) \/ LoseQuery(k)
  BY <1>3, FetchKeeps
<1>4. CASE \E n \in Call : Handle(n) \/ LoseCall(n) \/ DeliverCall(n)
  BY <1>4, HandleKeeps, LoseCallKeeps, SettleKeeps
<1>5. CASE EditElsewhere \/ ReadMonitors \/ ReadRest \/ DeliverView \/ LoseView \/ Refetch
            \/ Follow \/ Back
  BY <1>5, OthersKeep
<1>6. CASE UNCHANGED vars
  <2>1. Switch' = Switch /\ DOMAIN cache' = Key /\ show' = show /\ calls' = calls /\ work' = work
    BY <1>6 DEF vars, Switch, SwitchInv, SwitchTypes
  <2> QED BY <2>1, LaterOK, SwitchApart
<1> QED BY <1>1, <1>2, <1>3, <1>4, <1>5, <1>6 DEF Next

\* The switch on the Monitors page says what the server does, whatever clicks
\* overlap, are refused or lose their answer (useToggleShowURL).
THEOREM SwitchIsTrue == Spec => []SwitchTellsTruth
<1>1. SwitchInv => SwitchTellsTruth
  BY DEF SwitchInv, SwitchTellsTruth, Switch, Clicks
<1> QED BY <1>1, SwitchStart, SwitchStep, PTL DEF Spec

---------------------------------------------------------------------------
(* The card.                                                                 *)

TabInv == DOMAIN tab = {"route", "id", "text", "last"}

LEMMA TabStart == Init => TabInv
  BY DEF Init, TabInv, Page

\* The effect of a new list.
LEMMA SyncedTab ==
  ASSUME NEW v, DOMAIN v = {"route", "id", "text", "last"}, NEW data
  PROVE  /\ DOMAIN Synced(v, data) = {"route", "id", "text", "last"}
         /\ Synced(v, data).route = v.route
         /\ Synced(v, data).id = v.id /\ v.id # None => Synced(v, data).text = v.text
<1>1. CASE IdOf(data) = None
  <2>1. Synced(v, data) = [v EXCEPT !.id = None]
    BY <1>1 DEF Synced
  <2> QED BY <2>1
<1>2. CASE IdOf(data) # None /\ IdOf(data) = v.id
  BY <1>2 DEF Synced
<1>3. CASE IdOf(data) # None /\ IdOf(data) # v.id
  <2> PICK i, x : i = IdOf(data) /\ x = (CHOOSE r \in data : TRUE).text
    OBVIOUS
  <2>1. Synced(v, data) = [v EXCEPT !.id = i, !.text = x]
    BY <1>3 DEF Synced
  <2> QED BY <1>3, <2>1
<1> QED BY <1>1, <1>2, <1>3

\* Only typing and a page that opens do more to the tab than the effect does.
LEMMA TabStep ==
  ASSUME TabInv, [Next]_vars
  PROVE  /\ TabInv'
         /\ (tab.route = "notifications" /\ tab'.route = "notifications" /\ tab.id # None
                /\ tab'.id = tab.id /\ tab'.text # tab.text) => TypeText
<1>1. CASE tab' = tab
  BY <1>1 DEF TabInv
<1>2. CASE TypeText
  BY <1>2 DEF TypeText, TabInv
<1>3. CASE tab' = [tab EXCEPT !.last = work]
  BY <1>3 DEF TabInv
<1>4. CASE \E route \in {"monitors", "notifications"} : OpenPage(route)
  <2> PICK route \in {"monitors", "notifications"} : OpenPage(route)
    BY <1>4
  <2> PICK data : data = IF route = "monitors" THEN None ELSE cache[Observed(route)].data
    OBVIOUS
  <2>1. tab' = Synced(Page(route), data) /\ tab.route # route
    BY DEF OpenPage
  <2>2. DOMAIN Page(route) = {"route", "id", "text", "last"} /\ Page(route).route = route
    BY DEF Page
  <2>3. DOMAIN tab' = {"route", "id", "text", "last"} /\ tab'.route = route
    BY <2>1, <2>2, SyncedTab
  <2> QED BY <2>1, <2>3 DEF TabInv
<1>5. CASE \E k \in Key : DeliverQuery(k)
  <2> PICK k \in Key : DeliverQuery(k)
    BY <1>5
  <2> PICK data : data = cache[k].fetch.data
    OBVIOUS
  <2>1. tab' = tab \/ tab' = Synced(tab, data)
    BY DEF DeliverQuery
  <2>2. CASE tab' = Synced(tab, data)
    BY <2>2, SyncedTab DEF TabInv
  <2> QED BY <1>1, <2>1, <2>2
<1> QED
  <2>1. CASE HandleSave \/ HandleToggle
    BY <1>1, <1>3, <2>1 DEF HandleSave, HandleToggle, Save
  <2>2. CASE UNCHANGED vars
    BY <1>1, <2>2 DEF vars
  <2>3. CASE ToggleShowURL \/ EditElsewhere \/ ReadMonitors \/ ReadRest \/ DeliverView
                \/ LoseView \/ Refetch \/ Follow \/ Back
    BY <1>1, <2>3 DEF ToggleShowURL, EditElsewhere, ReadMonitors, ReadRest, DeliverView,
        LoseView, Refetch, Follow, Back, console
  <2>4. CASE \/ \E k \in Key : AnswerQuery(k) \/ LoseQuery(k)
             \/ \E n \in Call : Handle(n) \/ LoseCall(n) \/ DeliverCall(n)
    BY <1>1, <2>4 DEF AnswerQuery, LoseQuery, Handle, LoseCall, DeliverCall
  <2> QED BY <1>2, <1>4, <1>5, <2>1, <2>2, <2>3, <2>4 DEF Next

\* No fetch, no click and no edit elsewhere overwrites what is being typed
\* into the card (ChannelCard's effect).
THEOREM TypingIsKept == Spec => TypingSurvives
<1>1. TabInv /\ [Next]_vars =>
        [(tab.route = "notifications" /\ tab'.route = "notifications" /\ tab.id # None
            /\ tab'.id = tab.id /\ tab'.text # tab.text) => TypeText]_vars
  BY TabStep
<1>2. TabInv /\ [Next]_vars => TabInv'
  BY TabStep
<1> QED BY <1>1, <1>2, TabStart, PTL DEF Spec, TypingSurvives

---------------------------------------------------------------------------
(* The visitor.                                                              *)

\* What the visitor wanted is on the page that is shown, read or on its way.
VisitorInv ==
    /\ DOMAIN visitor = {"path", "want", "data", "ended", "had", "fetch"}
    /\ visitor.want # None => visitor.path = GroupSlugify(visitor.want)
    /\ (visitor.want # None /\ visitor.want.gap # "spaces" /\ visitor.want.sign = "none") =>
        LET f == visitor.fetch
        IN  /\ f.step = "read" => f.had \subseteq DOMAIN f.mons
            /\ f.step = "answered" => f.had \subseteq DOMAIN f.data.mons
            /\ visitor.ended = "ok" => visitor.had \subseteq DOMAIN visitor.data.mons
            /\ visitor.ended = "missing" => visitor.had = {}

LEMMA FreshVisitor ==
  ASSUME NEW path, NEW want, visitor' = FreshView(path, want),
         want # None => path = GroupSlugify(want)
  PROVE  VisitorInv'
  BY DEF VisitorInv, FreshView, Idle

LEMMA VisitorStart == Init => VisitorInv
  BY DEF Init, VisitorInv, FreshView, Idle

\* The slug that arrives is the database's, but for names with two spaces or
\* a reserved sign.
LEMMA SlugsAgree ==
  ASSUME NEW g, g.gap # "spaces", g.sign = "none"
  PROVE  ServerSlug(g) = Param(GroupSlugify(g))
  BY DEF ServerSlug, GroupSlugify, Param

LEMMA ReadKeeps == ASSUME VisitorInv, ReadMonitors PROVE VisitorInv'
<1> DEFINE found == {m \in Monitor : /\ mons[m].pub
                                     /\ visitor.path = Home \/ ServerSlug(GroupOf(m)) = Param(visitor.path)}
           had == IF visitor.want = None THEN {} ELSE PublicIn(visitor.want)
           f == [step |-> "read", mons |-> [m \in found |-> GroupOf(m)], had |-> had]
<1>1. visitor' = [visitor EXCEPT !.fetch = f]
  BY DEF ReadMonitors
<1>2. ASSUME visitor.want # None, visitor.want.gap # "spaces", visitor.want.sign = "none"
      PROVE  had \subseteq found
  <2>1. Param(visitor.path) = ServerSlug(visitor.want)
    BY <1>2, SlugsAgree DEF VisitorInv
  <2> QED BY <1>2, <2>1 DEF PublicIn, GroupOf
<1>3. f.step = "read" /\ f.had = had /\ DOMAIN f.mons = found
  OBVIOUS
<1> HIDE DEF found, had, f
<1> QED BY <1>1, <1>2, <1>3 DEF VisitorInv

LEMMA RestKeeps == ASSUME VisitorInv, ReadRest PROVE VisitorInv'
<1> DEFINE d == [mons |-> visitor.fetch.mons, show |-> show,
                 groups |-> {GroupOf(m) : m \in {x \in Monitor : mons[x].pub}}]
           f == [step |-> "answered", had |-> visitor.fetch.had, data |-> d]
<1>1. visitor' = [visitor EXCEPT !.fetch = f] /\ visitor.fetch.step = "read"
  BY DEF ReadRest, VisitorInv
<1>2. f.step = "answered" /\ f.had = visitor.fetch.had /\ f.data.mons = visitor.fetch.mons
  OBVIOUS
<1> HIDE DEF d, f
<1> QED BY <1>1, <1>2 DEF VisitorInv

LEMMA ViewKeeps == ASSUME VisitorInv, DeliverView PROVE VisitorInv'
<1> DEFINE f == visitor.fetch
           found == visitor.path = Home \/ DOMAIN f.data.mons # {}
           ended == IF found THEN "ok" ELSE "missing"
           data == IF found THEN f.data ELSE visitor.data
<1>1. /\ visitor' = [visitor EXCEPT !.fetch = Idle, !.had = f.had, !.ended = ended, !.data = data]
      /\ f.step = "answered"
  BY DEF DeliverView, VisitorInv
<1>2. /\ ended = "ok" => data = f.data
      /\ ended = "missing" => DOMAIN f.data.mons = {}
  OBVIOUS
<1> HIDE DEF found, ended, data
<1>3. /\ DOMAIN visitor' = {"path", "want", "data", "ended", "had", "fetch"}
      /\ visitor'.path = visitor.path /\ visitor'.want = visitor.want
      /\ visitor'.fetch = Idle /\ visitor'.had = f.had /\ visitor'.ended = ended
      /\ visitor'.data = data
  BY <1>1 DEF VisitorInv
<1> QED BY <1>1, <1>2, <1>3 DEF VisitorInv, Idle

LEMMA VisitorStep == VisitorInv /\ [Next]_vars => VisitorInv'
<1> SUFFICES ASSUME VisitorInv, [Next]_vars PROVE VisitorInv'
  OBVIOUS
<1>1. CASE visitor' = visitor
  BY <1>1 DEF VisitorInv
<1>2. CASE ReadMonitors \/ ReadRest \/ DeliverView
  BY <1>2, ReadKeeps, RestKeeps, ViewKeeps
<1>3. CASE LoseView
  BY <1>3 DEF LoseView, VisitorInv, Idle
<1>4. CASE Refetch
  BY <1>4 DEF Refetch, VisitorInv, Asked
<1>5. CASE Follow
  BY <1>5, FreshVisitor DEF Follow
<1>6. CASE Back
  BY <1>6, FreshVisitor DEF Back
<1> QED
  <2>1. CASE UNCHANGED vars
    BY <1>1, <2>1 DEF vars
  <2>2. CASE ToggleShowURL \/ TypeText \/ HandleSave \/ HandleToggle \/ EditElsewhere
    BY <1>1, <2>2 DEF ToggleShowURL, TypeText, HandleSave, HandleToggle, EditElsewhere
  <2>3. CASE \/ \E route \in {"monitors", "notifications"} : OpenPage(route)
             \/ \E k \in Key : AnswerQuery(k) \/ DeliverQuery(k) \/ LoseQuery(k)
             \/ \E n \in Call : Handle(n) \/ LoseCall(n) \/ DeliverCall(n)
    BY <1>1, <2>3 DEF OpenPage, AnswerQuery, DeliverQuery, LoseQuery, Handle, LoseCall, DeliverCall
  <2> QED BY <1>2, <1>3, <1>4, <1>5, <1>6, <2>1, <2>2, <2>3 DEF Next

\* A link to a group leads to all public monitors the group has when they are
\* read (groupSlugify, GetGroupStatus).
THEOREM LinksReach == Spec => []GroupLinkReaches
<1>1. VisitorInv => GroupLinkReaches
  BY DEF VisitorInv, GroupLinkReaches
<1> QED BY <1>1, VisitorStart, VisitorStep, PTL DEF Spec
===========================================================================
