------------------------------ MODULE Console ------------------------------
(* Accounts and the sessions of the console: the pages that create, reset    *)
(* and use an account, the settings tabs that change it, the handlers behind *)
(* them, and the token every tab of a browser shares.  A token names a user  *)
(* by id and is trusted for 72 hours, whatever happens to the user.          *)
(*                                                                           *)
(* born tells accounts apart that had the same id; no code reads it.  The    *)
(* user types valid names and passwords: the checks that stop the others     *)
(* change nothing.                                                           *)
EXTENDS Naturals

CONSTANTS
    None,
    Tab, Browser,
    Sharing,     \* the ways the tabs are spread over browsers
    Email, Password,
    MaxId,       \* bound: accounts, and API keys, ever created
    MaxWork      \* bound: clicks that do more than close something, lost
                 \* polls, tokens that expire

Id   == 1..MaxId
Form == {"info", "password"}
Call == 0..(MaxWork - 1)

ASSUME ConsoleAssumption ==
    /\ MaxId \in Nat \ {0} /\ MaxWork \in Nat
    /\ Sharing # {} /\ Sharing \subseteq [Tab -> Browser]
    /\ Email # {} /\ Password # {}

VARIABLES
    users,     \* the users table: id -> account
    keys,      \* the api_keys table: id -> owner
    next,      \* the ids the sequences of the two tables give next
    births,    \* accounts ever created
    browser,   \* the browser each tab belongs to
    stored,    \* the token in each browser's localStorage, or None
    tabs,      \* what each tab shows
    calls,     \* requests of the pages, by the order they were issued in
    polls,     \* the poll of each tab that is refused, or None
    work

vars == <<users, keys, next, births, browser, stored, tabs, calls, polls, work>>
server == <<users, keys, next, births>>

Public == {"login", "setup", "forgot", "done", "register"}
InApp  == {"overview", "profile", "api-keys", "danger-zone"}

Token(i) == [uid |-> i, born |-> users[i].born]

\* A page that has just been mounted.  check is the first-run check of the
\* page load, busy the form of a public page or of the danger zone.
Fresh(path) ==
    [path |-> path, check |-> "done", busy |-> FALSE,
     save |-> [f \in Form |-> "idle"], timers |-> [f \in Form |-> 0],
     dialog |-> "none", revoking |-> 0]

Works == work < MaxWork /\ work' = work + 1

At(t, path) == tabs[t].check = "done" /\ tabs[t].path = path

\* Another route is shown: the component that made a request is gone, but
\* what it awaits still returns to it.
Shown(t, path) ==
    /\ tabs' = [tabs EXCEPT ![t] = Fresh(path)]
    /\ calls' = [n \in DOMAIN calls |->
                    IF calls[n].tab = t THEN [calls[n] EXCEPT !.here = FALSE] ELSE calls[n]]

Answered == {"ok", "refused", "401"}

\* The page is loaded anew: nothing of it is left to hear an answer, and
\* SetupGuard asks first.
Loaded(t, path) ==
    /\ tabs' = [tabs EXCEPT ![t] = [Fresh(path) EXCEPT !.check = "asked"]]
    /\ calls' = [n \in {m \in DOMAIN calls : calls[m].tab # t \/ calls[m].st \notin Answered} |->
                    IF calls[n].tab = t
                    THEN [calls[n] EXCEPT !.here = FALSE, !.alive = FALSE] ELSE calls[n]]
    /\ polls' = [polls EXCEPT ![t] = None]

Stores(t, token) == stored' = [stored EXCEPT ![browser[t]] = token]

\* The interceptor of lib/api.ts: whatever token is stored by now goes.
SignedOut(t) == Stores(t, None) /\ Loaded(t, "login")

Send(t, op, arg, view) ==
    /\ Works
    /\ tabs' = [tabs EXCEPT ![t] = view]
    /\ calls' = [n \in DOMAIN calls \cup {work} |->
                    IF n = work
                    THEN [tab |-> t, op |-> op, arg |-> arg, tok |-> stored[browser[t]],
                          st |-> "sent", here |-> TRUE, alive |-> TRUE, latest |-> TRUE]
                    ELSE [calls[n] EXCEPT
                            !.latest = @ /\ ~(calls[n].tab = t /\ calls[n].op = op)]]
    /\ UNCHANGED <<server, browser, stored, polls>>

---------------------------------------------------------------------------
(* Page loads and navigation.                                                *)

Open(t) ==
    /\ Works
    /\ \E path \in {"setup", "login", "forgot", "overview"} : Loaded(t, path)
    /\ UNCHANGED <<server, browser, stored>>

\* NeedsSetup counts the users; its answer is acted on later, or never comes.
NeedsSetup(t) ==
    /\ tabs[t].check = "asked"
    /\ tabs' = [tabs EXCEPT ![t].check = IF users = <<>> THEN "needed" ELSE "unneeded"]
    /\ UNCHANGED <<server, browser, stored, calls, polls, work>>

SetupGuard(t) ==
    /\ tabs[t].check # "done"
    /\ LET p == tabs[t].path
       IN  \/ tabs[t].check = "needed" /\ Shown(t, "setup")
           \/ tabs[t].check = "unneeded" /\ Shown(t, IF p = "setup" THEN "login" ELSE p)
           \/ tabs[t].check = "asked" /\ Shown(t, p)
    /\ UNCHANGED <<server, browser, stored, polls, work>>

\* Links between the public pages, and the sidebar and tabs of the console.
Go(t) ==
    /\ Works
    /\ \/ At(t, "login") /\ Shown(t, "forgot")
       \/ (At(t, "forgot") \/ At(t, "done")) /\ Shown(t, "login")
       \/ \E from, to \in InApp : from # to /\ At(t, from) /\ Shown(t, to)
    /\ UNCHANGED <<server, browser, stored, polls>>

HandleLogout(t) ==
    /\ \E path \in InApp : At(t, path)
    /\ Works /\ Stores(t, None) /\ Shown(t, "login")
    /\ UNCHANGED <<server, browser, polls>>

---------------------------------------------------------------------------
(* The forms.  Each is disabled while it waits; the two of the profile show  *)
(* the outcome for some seconds, and the timer that ends this sets the form  *)
(* back even if it has been sent again.                                      *)

Busy(t) == [tabs[t] EXCEPT !.busy = TRUE]

SubmitLogin(t) ==
    /\ At(t, "login") /\ ~tabs[t].busy
    /\ \E e \in Email, p \in Password : Send(t, "login", [email |-> e, pw |-> p], Busy(t))

SubmitSetup(t) ==
    /\ At(t, "setup") /\ ~tabs[t].busy
    /\ \E e \in Email, p \in Password : Send(t, "register", [email |-> e, pw |-> p], Busy(t))

SubmitForgot(t) ==
    /\ At(t, "forgot") /\ ~tabs[t].busy
    /\ \E p \in Password, right \in BOOLEAN :
        Send(t, "forgot", [pw |-> p, secret |-> right], Busy(t))

Saving(t, f) == [tabs[t] EXCEPT !.save[f] = "saving"]

HandleProfileSave(t) ==
    /\ At(t, "profile") /\ tabs[t].save["info"] # "saving"
    /\ \E e \in Email : Send(t, "info", [email |-> e], Saving(t, "info"))

HandlePasswordSave(t) ==
    /\ At(t, "profile") /\ tabs[t].save["password"] # "saving"
    /\ \E p, q \in Password : Send(t, "password", [old |-> p, new |-> q], Saving(t, "password"))

Timer(t) ==
    \E f \in Form :
        /\ tabs[t].timers[f] > 0
        /\ tabs' = [tabs EXCEPT ![t].timers[f] = @ - 1, ![t].save[f] = "idle"]
        /\ UNCHANGED <<server, browser, stored, calls, polls, work>>

\* Enter in the name box generates a key even while one is being generated.
GenerateKey(t) ==
    /\ At(t, "api-keys") /\ tabs[t].dialog # "show"
    /\ Send(t, "createKey", None, [tabs[t] EXCEPT !.dialog = "generate"])

CloseDialog(t) ==
    /\ tabs[t].dialog # "none"
    /\ tabs' = [tabs EXCEPT ![t].dialog = "none"]
    /\ calls' = [n \in DOMAIN calls |->
                    IF calls[n].tab = t /\ calls[n].op = "createKey"
                    THEN [calls[n] EXCEPT !.here = FALSE] ELSE calls[n]]
    /\ UNCHANGED <<server, browser, stored, polls, work>>

\* One spinner for all keys: only the key revoked last is disabled.
HandleRevoke(t) ==
    /\ At(t, "api-keys") /\ tabs[t].dialog = "none"
    /\ \E k \in DOMAIN keys \ {tabs[t].revoking} :
        Send(t, "revokeKey", k, [tabs[t] EXCEPT !.revoking = k])

HandleReset(t) ==
    /\ At(t, "danger-zone") /\ ~tabs[t].busy
    /\ Send(t, "resetAll", None, Busy(t))

---------------------------------------------------------------------------
(* The handlers.  st moves from sent, through the statements of a handler    *)
(* that others can come between, to the answer.                              *)

Done(n) == [m \in DOMAIN calls \ {n} |-> calls[m]]

Answers(n, st) ==
    calls' = IF st \in Answered /\ ~calls[n].alive THEN Done(n)
             ELSE [calls EXCEPT ![n].st = st]

Issues(n, token) ==
    calls' = IF ~calls[n].alive THEN Done(n)
             ELSE [calls EXCEPT ![n].st = "ok", ![n].arg = token]

Trusted(n) == calls[n].tok # None
User(n)    == calls[n].tok.uid
HasUser(n) == Trusted(n) /\ User(n) \in DOMAIN users

Taken(e) == {i \in DOMAIN users : users[i].email = e}

\* The handler of request n refuses without a change.
Refuses(n, st) == Answers(n, st) /\ UNCHANGED server

Login(n) ==
    LET a == calls[n].arg
        found == {i \in Taken(a.email) : users[i].pw = a.pw}
    IN  /\ calls[n].op = "login" /\ calls[n].st = "sent"
        /\ IF found = {} THEN Answers(n, "refused")
           ELSE \E i \in found : Issues(n, Token(i))
        /\ UNCHANGED server

\* Users are counted before the account is inserted, a count that fails is
\* read as zero, and the e-mail is unique.
Register(n) ==
    LET a == calls[n].arg
    IN  /\ calls[n].op = "register"
        /\ \/ /\ calls[n].st = "sent"
              /\ \E st \in {"counted"} \union IF users = <<>> THEN {} ELSE {"refused"} :
                    Refuses(n, st)
           \/ /\ calls[n].st = "counted" /\ Taken(a.email) # {}
              /\ Refuses(n, "refused")
           \/ /\ calls[n].st = "counted" /\ Taken(a.email) = {} /\ next.user \in Id
              /\ users' = [i \in DOMAIN users \cup {next.user} |->
                            IF i = next.user
                            THEN [born |-> births, email |-> a.email, pw |-> a.pw] ELSE users[i]]
              /\ next' = [next EXCEPT !.user = @ + 1] /\ births' = births + 1 /\ keys' = keys
              /\ Issues(n, [uid |-> next.user, born |-> births])

\* Every account gets the new password.
ResetPassword(n) ==
    LET a == calls[n].arg
    IN  /\ calls[n].op = "forgot" /\ calls[n].st = "sent"
        /\ IF ~a.secret \/ users = <<>> THEN Refuses(n, "refused")
           ELSE /\ users' = [i \in DOMAIN users |-> [users[i] EXCEPT !.pw = a.pw]]
                /\ Answers(n, "ok") /\ UNCHANGED <<keys, next, births>>

UpdateProfile(n) ==
    LET a == calls[n].arg
    IN  /\ calls[n].op = "info" /\ calls[n].st = "sent"
        /\ IF ~Trusted(n) THEN Refuses(n, "401")
           ELSE IF ~HasUser(n) \/ Taken(a.email) \ {User(n)} # {} THEN Refuses(n, "refused")
           ELSE /\ users' = [users EXCEPT ![User(n)].email = a.email]
                /\ Answers(n, "ok") /\ UNCHANGED <<keys, next, births>>

\* The hash is read and compared, and replaced in a later statement.  A wrong
\* password is answered with 401 as well.
ChangePassword(n) ==
    LET a == calls[n].arg
    IN  /\ calls[n].op = "password"
        /\ \/ /\ calls[n].st = "sent"
              /\ Refuses(n, IF ~Trusted(n) THEN "401"
                            ELSE IF ~HasUser(n) THEN "refused"
                            ELSE IF users[User(n)].pw # a.old THEN "401" ELSE "compared")
           \/ /\ calls[n].st = "compared"
              /\ users' = [i \in DOMAIN users |->
                            IF i = User(n) THEN [users[i] EXCEPT !.pw = a.new] ELSE users[i]]
              /\ Answers(n, "ok") /\ UNCHANGED <<keys, next, births>>

CreateKey(n) ==
    /\ calls[n].op = "createKey" /\ calls[n].st = "sent"
    /\ IF ~Trusted(n) THEN Refuses(n, "401")
       ELSE IF ~HasUser(n) THEN Refuses(n, "refused")
       ELSE /\ next.key \in Id /\ next' = [next EXCEPT !.key = @ + 1]
            /\ keys' = [k \in DOMAIN keys \cup {next.key} |->
                            IF k = next.key
                            THEN [uid |-> User(n), born |-> calls[n].tok.born] ELSE keys[k]]
            /\ Answers(n, "ok") /\ UNCHANGED <<users, births>>

DeleteKey(n) ==
    LET k == calls[n].arg
    IN  /\ calls[n].op = "revokeKey" /\ calls[n].st = "sent"
        /\ IF ~Trusted(n) THEN Refuses(n, "401")
           ELSE IF k \notin DOMAIN keys THEN Refuses(n, "refused")
           ELSE IF keys[k].uid # User(n) THEN Refuses(n, "refused")
           ELSE /\ keys' = [j \in DOMAIN keys \ {k} |-> keys[j]]
                /\ Answers(n, "ok") /\ UNCHANGED <<users, next, births>>

\* Faulty variant: RESTART IDENTITY.
TruncateRestarting(n) ==
    /\ users' = <<>> /\ keys' = <<>> /\ next' = [user |-> 1, key |-> 1]
    /\ births' = births

\* TRUNCATE users CASCADE takes the keys along; the sequences go on.
Truncate(n) ==
    /\ users' = <<>> /\ keys' = <<>>
    /\ UNCHANGED <<next, births>>

\* One TRUNCATE after the other, the keys before the users; a failure leaves
\* what has been emptied.
ResetAllData(n) ==
    /\ calls[n].op = "resetAll"
    /\ \/ calls[n].st = "sent" /\ ~Trusted(n) /\ Refuses(n, "401")
       \/ /\ calls[n].st = "sent" /\ Trusted(n)
          /\ keys' = <<>> /\ UNCHANGED <<users, next, births>> /\ Answers(n, "emptied")
       \/ calls[n].st = "emptied" /\ Truncate(n) /\ Answers(n, "ok")

Handle(n) ==
    /\ n \in DOMAIN calls
    /\ \/ Login(n) \/ Register(n) \/ ResetPassword(n) \/ UpdateProfile(n)
       \/ ChangePassword(n) \/ CreateKey(n) \/ DeleteKey(n) \/ ResetAllData(n)
    /\ UNCHANGED <<browser, stored, tabs, polls, work>>

\* A statement fails, or the request or its answer is lost: an error without
\* a status, or a 500.
FailCall(n) ==
    /\ n \in DOMAIN calls
    /\ calls[n].st \notin {"401", "refused"}
    /\ Answers(n, "refused")
    /\ UNCHANGED <<server, browser, stored, tabs, polls, work>>

---------------------------------------------------------------------------
(* What a page does with an answer.                                          *)

\* Faulty variant: a failed save is not handled.
SavedWithoutError(f, st) == IF st = "ok" THEN "saved" ELSE "saving"

Saved(f, st) == IF st = "ok" THEN "saved" ELSE "error"

\* The component is still there: its own state.  Callbacks given to mutate
\* run for the latest call only.
Continued(c) ==
    LET v == tabs[c.tab]
    IN  CASE c.op \in {"login", "register", "resetAll"} -> [v EXCEPT !.busy = FALSE]
          [] c.op = "forgot" ->
                [v EXCEPT !.busy = FALSE, !.path = IF c.st = "ok" THEN "done" ELSE @]
          [] c.op \in Form /\ c.latest ->
                [v EXCEPT !.save[c.op] = Saved(c.op, c.st),
                          !.timers[c.op] = IF Saved(c.op, c.st) = "saving" THEN @ ELSE @ + 1]
          [] c.op = "createKey" /\ c.latest /\ c.st = "ok" -> [v EXCEPT !.dialog = "show"]
          [] c.op = "revokeKey" /\ c.latest -> [v EXCEPT !.revoking = 0]
          [] OTHER -> v

\* A page that is no longer loaded hears nothing.  Signing in, a reset and
\* the interceptor act whatever the tab shows by then.
Deliver(n) ==
    /\ n \in DOMAIN calls /\ calls[n].st \in Answered
    /\ LET c == calls[n]
       IN  \/ /\ c.op \in {"login", "register"} /\ c.st = "ok"
              /\ Stores(c.tab, c.arg)
              /\ tabs' = [tabs EXCEPT ![c.tab] = Fresh("overview")]
              /\ calls' = [m \in DOMAIN calls \ {n} |->
                            IF calls[m].tab = c.tab
                            THEN [calls[m] EXCEPT !.here = FALSE] ELSE calls[m]]
              /\ polls' = polls
           \/ /\ c.op = "resetAll" /\ c.st = "ok"
              /\ Stores(c.tab, None) /\ Loaded(c.tab, "register")
           \/ c.st = "401" /\ SignedOut(c.tab)
           \/ /\ c.st # "401" /\ ~(c.op \in {"login", "register", "resetAll"} /\ c.st = "ok")
              /\ tabs' = IF c.here THEN [tabs EXCEPT ![c.tab] = Continued(c)] ELSE tabs
              /\ calls' = Done(n)
              /\ UNCHANGED <<stored, polls>>
    /\ UNCHANGED <<server, browser, work>>

---------------------------------------------------------------------------
(* The queries every page of the console repeats, as one.                    *)

\* It carries the token of the moment it is sent in; its answer is acted on
\* later.  One that is answered with data leaves no trace here.
Poll(t) ==
    /\ \E path \in InApp : At(t, path)
    /\ polls[t] = None /\ stored[browser[t]] = None
    /\ polls' = [polls EXCEPT ![t] = "401"]
    /\ UNCHANGED <<server, browser, stored, tabs, calls, work>>

\* Faulty variant: the interceptor is missing.
ArriveIgnoring401(t) ==
    /\ polls[t] # None /\ polls' = [polls EXCEPT ![t] = None]
    /\ UNCHANGED <<server, browser, stored, tabs, calls, work>>

ArrivePoll(t) ==
    /\ polls[t] # None
    /\ SignedOut(t)
    /\ UNCHANGED <<server, browser, work>>

LosePoll(t) ==
    /\ polls[t] # None /\ Works
    /\ polls' = [polls EXCEPT ![t] = None]
    /\ UNCHANGED <<server, browser, stored, tabs, calls>>

\* 72 hours pass: the token is refused as none at all is.
Expire(b) ==
    /\ stored[b] # None /\ Works
    /\ stored' = [stored EXCEPT ![b] = None]
    /\ UNCHANGED <<server, browser, tabs, calls, polls>>

---------------------------------------------------------------------------
\* A new instance, or one whose administrator is signed in everywhere.
Init ==
    /\ users \in {<<>>, <<[born |-> 0, email |-> CHOOSE e \in Email : TRUE,
                          pw |-> CHOOSE p \in Password : TRUE]>>}
    /\ keys = <<>>
    /\ births = IF users = <<>> THEN 0 ELSE 1
    /\ next = [user |-> births + 1, key |-> 1]
    /\ browser \in Sharing
    /\ stored = [b \in Browser |-> IF users = <<>> THEN None ELSE Token(1)]
    /\ \E path \in IF users = <<>> THEN {"setup"} ELSE InApp :
        tabs = [t \in Tab |-> Fresh(path)]
    /\ calls = <<>> /\ polls = [t \in Tab |-> None]
    /\ work = 0

Next ==
    \/ \E t \in Tab :
        \/ Open(t) \/ NeedsSetup(t) \/ SetupGuard(t) \/ Go(t) \/ HandleLogout(t)
        \/ SubmitLogin(t) \/ SubmitSetup(t) \/ SubmitForgot(t)
        \/ HandleProfileSave(t) \/ HandlePasswordSave(t) \/ Timer(t)
        \/ GenerateKey(t) \/ CloseDialog(t) \/ HandleRevoke(t) \/ HandleReset(t)
        \/ Poll(t) \/ ArrivePoll(t) \/ LosePoll(t)
    \/ \E n \in Call : Handle(n) \/ FailCall(n) \/ Deliver(n)
    \/ \E b \in Browser : Expire(b)

\* Queries are repeated while a tab is in front, each is answered, and a page
\* that is loaded gets its first-run check answered or goes on without.
Fairness ==
    \A t \in Tab : WF_vars(SetupGuard(t)) /\ WF_vars(Poll(t)) /\ WF_vars(ArrivePoll(t))

Spec == Init /\ [][Next]_vars /\ Fairness

---------------------------------------------------------------------------
(* Properties.                                                               *)

\* A token or an API key that still names an account names the one it was
\* issued to: a reset of all data does not wait for the tokens of other
\* browsers, so the next administrator must not get an id that one of them
\* names (ResetAllData, GenerateToken).
CredentialsNameTheirOwner ==
    LET Right(c) == c.uid \in DOMAIN users => users[c.uid].born = c.born
    IN  /\ \A b \in Browser : stored[b] # None => Right(stored[b])
        /\ \A k \in DOMAIN keys : Right(keys[k])

\* Signing out in one tab, or a token that has expired, ends the session of
\* every tab of that browser, wherever it is and whatever it waits for, or
\* somebody signs in again (handleLogout, the interceptor of lib/api.ts).
SignOutReachesEveryTab ==
    \A t \in Tab :
        LET NoSession == stored[browser[t]] = None
        IN  (NoSession /\ tabs[t].path \in InApp) ~> (tabs[t].path \notin InApp \/ ~NoSession)

\* A form of the profile that says it is saving waits for a request whose
\* outcome it will hear: not for one overtaken by a second, nor for one it has
\* already heard of, with or without the timers that reset it meanwhile
\* (handlePasswordSave, handleProfileSave).
SavingIsUnderWay ==
    \A t \in Tab, f \in Form :
        tabs[t].save[f] = "saving" =>
            \E n \in DOMAIN calls : /\ calls[n].tab = t /\ calls[n].op = f
                                    /\ calls[n].here /\ calls[n].latest
===========================================================================
