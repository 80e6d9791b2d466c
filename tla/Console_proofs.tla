-------------------------- MODULE Console_proofs --------------------------
(* What an account can rely on, for every number of tabs, browsers, accounts *)
(* and requests: no token and no API key ever names an account it was not    *)
(* issued to.  The argument: every id a credential holds, wherever it is,    *)
(* has been given by the sequence before, and the sequence never goes back.  *)
EXTENDS Console, TLAPS

CallFields == {"tab", "op", "arg", "tok", "st", "here", "alive", "latest"}

\* A token names an id that has been given, and not another account.
Right(tok) ==
    tok # None =>
        /\ tok.uid \in Nat /\ tok.uid < next.user
        /\ tok.uid \in DOMAIN users => users[tok.uid].born = tok.born

\* A request carries a token, or its answer brings one.
GoodCall(c) ==
    /\ DOMAIN c = CallFields
    /\ Right(c.tok)
    /\ (c.op \in {"login", "register"} /\ c.st = "ok") => Right(c.arg)

AccountsOK ==
    /\ next \in [user : Nat, key : Nat]
    /\ \A i \in DOMAIN users :
        i \in Nat /\ i < next.user /\ DOMAIN users[i] = {"born", "email", "pw"}
    /\ \A k \in DOMAIN keys : keys[k].uid \in Nat /\ keys[k].uid < next.user
    /\ \A k \in DOMAIN keys :
        keys[k].uid \in DOMAIN users => users[keys[k].uid].born = keys[k].born

TokensOK ==
    /\ browser \in [Tab -> Browser]
    /\ DOMAIN stored = Browser
    /\ \A b \in Browser : Right(stored[b])
    /\ \A n \in DOMAIN calls : GoodCall(calls[n])

CredInv == AccountsOK /\ TokensOK

---------------------------------------------------------------------------
\* What pages do to a request in flight leaves its credentials alone.
LEMMA GoodMarked ==
  ASSUME NEW c, GoodCall(c), NEW x
  PROVE  /\ GoodCall([c EXCEPT !.here = x])
         /\ GoodCall([c EXCEPT !.latest = x])
         /\ GoodCall([[c EXCEPT !.here = x] EXCEPT !.alive = x])
         /\ GoodCall([c EXCEPT !.here = x, !.alive = x])
  BY DEF GoodCall, CallFields

\* So does an answer that brings no token.
LEMMA GoodAnswered ==
  ASSUME NEW c, GoodCall(c), NEW st, c.op \notin {"login", "register"} \/ st # "ok"
  PROVE  GoodCall([c EXCEPT !.st = st])
  BY DEF GoodCall, CallFields

\* A step of the pages keeps the invariant when it stores and sends only
\* tokens that were there.
LEMMA PageStep ==
  ASSUME CredInv, UNCHANGED <<users, keys, next, browser>>,
         DOMAIN stored' = Browser,
         \A b \in Browser : Right(stored'[b]),
         \A n \in DOMAIN calls' : GoodCall(calls'[n])
  PROVE  CredInv'
  BY DEF CredInv, AccountsOK, TokensOK, Right, GoodCall

LEMMA ShownGood ==
  ASSUME TokensOK, NEW t, NEW path, Shown(t, path)
  PROVE  \A n \in DOMAIN calls' : GoodCall(calls'[n])
<1>1. \A n \in DOMAIN calls : GoodCall(calls[n]) /\ GoodCall([calls[n] EXCEPT !.here = FALSE])
  BY GoodMarked DEF TokensOK
<1> QED BY <1>1 DEF Shown

LEMMA LoadedGood ==
  ASSUME TokensOK, NEW t, NEW path, Loaded(t, path)
  PROVE  \A n \in DOMAIN calls' : GoodCall(calls'[n])
<1>1. \A n \in DOMAIN calls :
        GoodCall(calls[n]) /\ GoodCall([calls[n] EXCEPT !.here = FALSE, !.alive = FALSE])
  BY GoodMarked DEF TokensOK
<1> QED BY <1>1 DEF Loaded

LEMMA SendGood ==
  ASSUME TokensOK, NEW t \in Tab, NEW op, NEW arg, NEW view, Send(t, op, arg, view)
  PROVE  \A n \in DOMAIN calls' : GoodCall(calls'[n])
<1> DEFINE new == [tab |-> t, op |-> op, arg |-> arg, tok |-> stored[browser[t]],
                   st |-> "sent", here |-> TRUE, alive |-> TRUE, latest |-> TRUE]
<1>1. GoodCall(new)
  BY DEF TokensOK, GoodCall, CallFields
<1>2. ASSUME NEW n \in DOMAIN calls
      PROVE  GoodCall([calls[n] EXCEPT
                !.latest = @ /\ ~(calls[n].tab = t /\ calls[n].op = op)])
  BY GoodMarked DEF TokensOK
<1> QED BY <1>1, <1>2 DEF Send

LEMMA StoresRight ==
  ASSUME TokensOK, NEW t, NEW token, Stores(t, token), Right(token)
  PROVE  DOMAIN stored' = Browser /\ \A b \in Browser : Right(stored'[b])
  BY DEF TokensOK, Stores

---------------------------------------------------------------------------
THEOREM CredInit == Init => CredInv
<1> SUFFICES ASSUME Init PROVE CredInv
  OBVIOUS
<1>1. browser \in [Tab -> Browser]
  BY ConsoleAssumption DEF Init
<1>2. CASE users = <<>>
  BY <1>1, <1>2 DEF Init, CredInv, AccountsOK, TokensOK, Right
<1>3. CASE users = <<[born |-> 0, email |-> CHOOSE e \in Email : TRUE,
                      pw |-> CHOOSE p \in Password : TRUE]>>
  <2>1. DOMAIN users = {1} /\ users # <<>> /\ users[1].born = 0
        /\ DOMAIN users[1] = {"born", "email", "pw"}
    BY <1>3
  <2>2. next.user = 2 /\ next \in [user : Nat, key : Nat]
    BY <2>1 DEF Init
  <2>3. \A b \in Browser : Right(stored[b])
    BY <2>1, <2>2 DEF Init, Right, Token
  <2>4. AccountsOK
    <3>1. DOMAIN keys = {}
      BY DEF Init
    <3> QED BY <2>1, <2>2, <3>1 DEF AccountsOK
  <2>5. DOMAIN stored = Browser /\ DOMAIN calls = {}
    BY DEF Init
  <2> QED BY <1>1, <2>3, <2>4, <2>5 DEF CredInv, TokensOK
<1> QED BY <1>2, <1>3 DEF Init

---------------------------------------------------------------------------
(* The steps of the pages.                                                   *)

LEMMA NavigationKeeps ==
  ASSUME CredInv, NEW t \in Tab,
         Open(t) \/ NeedsSetup(t) \/ SetupGuard(t) \/ Go(t) \/ HandleLogout(t)
  PROVE  CredInv'
<1>1. UNCHANGED <<users, keys, next, browser>>
  BY DEF Open, NeedsSetup, SetupGuard, Go, HandleLogout, server
<1>2. DOMAIN stored' = Browser /\ \A b \in Browser : Right(stored'[b])
  BY StoresRight DEF CredInv, TokensOK, Open, NeedsSetup, SetupGuard, Go, HandleLogout, Right
<1>3. \A n \in DOMAIN calls' : GoodCall(calls'[n])
  <2>1. CASE Open(t) BY <2>1, LoadedGood DEF CredInv, Open
  <2>2. CASE NeedsSetup(t) BY <2>2 DEF CredInv, TokensOK, NeedsSetup
  <2>3. CASE SetupGuard(t) BY <2>3, ShownGood DEF CredInv, SetupGuard
  <2>4. CASE Go(t) BY <2>4, ShownGood DEF CredInv, Go
  <2>5. CASE HandleLogout(t) BY <2>5, ShownGood DEF CredInv, HandleLogout
  <2> QED BY <2>1, <2>2, <2>3, <2>4, <2>5
<1> QED BY <1>1, <1>2, <1>3, PageStep

Sends(t) ==
    \/ SubmitLogin(t) \/ SubmitSetup(t) \/ SubmitForgot(t)
    \/ HandleProfileSave(t) \/ HandlePasswordSave(t)
    \/ GenerateKey(t) \/ HandleRevoke(t) \/ HandleReset(t)

LEMMA SendsKeep == ASSUME CredInv, NEW t \in Tab, Sends(t) PROVE CredInv'
<1>1. PICK op, arg, view : Send(t, op, arg, view)
  BY DEF Sends, SubmitLogin, SubmitSetup, SubmitForgot, HandleProfileSave,
         HandlePasswordSave, GenerateKey, HandleRevoke, HandleReset
<1>2. UNCHANGED <<users, keys, next, browser, stored>>
  BY <1>1 DEF Send, server
<1>3. \A n \in DOMAIN calls' : GoodCall(calls'[n])
  BY <1>1, SendGood DEF CredInv
<1> QED BY <1>2, <1>3, PageStep DEF CredInv, TokensOK

LEMMA LocalKeeps ==
  ASSUME CredInv, NEW t \in Tab,
         Timer(t) \/ CloseDialog(t) \/ Poll(t) \/ ArrivePoll(t) \/ LosePoll(t)
  PROVE  CredInv'
<1>1. UNCHANGED <<users, keys, next, browser>>
  BY DEF Timer, CloseDialog, Poll, ArrivePoll, LosePoll, server
<1>2. CASE Timer(t) \/ Poll(t) \/ LosePoll(t)
  BY <1>1, <1>2, PageStep DEF Timer, Poll, LosePoll, CredInv, TokensOK
<1>3. CASE CloseDialog(t)
  <2>1. \A n \in DOMAIN calls : GoodCall(calls[n]) /\ GoodCall([calls[n] EXCEPT !.here = FALSE])
    BY GoodMarked DEF CredInv, TokensOK
  <2>2. \A n \in DOMAIN calls' : GoodCall(calls'[n])
    BY <1>3, <2>1 DEF CloseDialog
  <2> QED BY <1>1, <1>3, <2>2, PageStep DEF CloseDialog, CredInv, TokensOK
<1>4. CASE ArrivePoll(t)
  <2>1. CASE SignedOut(t)
    BY <1>1, <2>1, StoresRight, LoadedGood, PageStep DEF SignedOut, CredInv, Right
  <2>2. CASE UNCHANGED <<stored, calls>>
    BY <1>1, <2>2, PageStep DEF CredInv, TokensOK
  <2> QED BY <1>4, <2>1, <2>2 DEF ArrivePoll
<1> QED BY <1>2, <1>3, <1>4

LEMMA ExpireKeeps == ASSUME CredInv, NEW b \in Browser, Expire(b) PROVE CredInv'
<1>1. UNCHANGED <<users, keys, next, browser, calls>>
  BY DEF Expire, server
<1>2. DOMAIN stored' = Browser /\ \A c \in Browser : Right(stored'[c])
  BY DEF Expire, CredInv, TokensOK, Right
<1> QED BY <1>1, <1>2, PageStep DEF CredInv, TokensOK

LEMMA DeliverKeeps == ASSUME CredInv, NEW n, Deliver(n) PROVE CredInv'
<1> DEFINE c == calls[n]
<1>1. UNCHANGED <<users, keys, next, browser>> /\ n \in DOMAIN calls
  BY DEF Deliver, server
<1>2. CASE /\ c.op \in {"login", "register"} /\ c.st = "ok"
           /\ Stores(c.tab, c.arg)
           /\ calls' = [m \in DOMAIN calls \ {n} |->
                            IF calls[m].tab = c.tab
                            THEN [calls[m] EXCEPT !.here = FALSE] ELSE calls[m]]
  <2>1. Right(c.arg)
    BY <1>1, <1>2 DEF CredInv, TokensOK, GoodCall
  <2>2. \A m \in DOMAIN calls : GoodCall(calls[m]) /\ GoodCall([calls[m] EXCEPT !.here = FALSE])
    BY GoodMarked DEF CredInv, TokensOK
  <2>3. \A m \in DOMAIN calls' : GoodCall(calls'[m])
    BY <1>2, <2>2
  <2> QED BY <1>1, <1>2, <2>1, <2>3, StoresRight, PageStep DEF CredInv
<1>3. CASE Stores(c.tab, None) /\ \E path : Loaded(c.tab, path)
  BY <1>1, <1>3, StoresRight, LoadedGood, PageStep DEF CredInv, Right
<1>4. CASE calls' = Done(n) /\ stored' = stored
  BY <1>1, <1>4, PageStep DEF Done, CredInv, TokensOK
<1> QED BY <1>2, <1>3, <1>4 DEF Deliver, SignedOut

---------------------------------------------------------------------------
(* The handlers.                                                             *)

\* Answers that bring no token, with the accounts as they are.
LEMMA AnswersGood ==
  ASSUME TokensOK, NEW n \in DOMAIN calls, NEW st, Answers(n, st),
         calls[n].op \notin {"login", "register"} \/ st # "ok"
  PROVE  \A m \in DOMAIN calls' : GoodCall(calls'[m])
<1>1. GoodCall([calls[n] EXCEPT !.st = st])
  BY GoodAnswered DEF TokensOK
<1>2. CASE calls' = Done(n)
  BY <1>2 DEF Done, TokensOK
<1>3. CASE calls' = [calls EXCEPT ![n].st = st]
  BY <1>1, <1>3 DEF TokensOK
<1> QED BY <1>2, <1>3 DEF Answers

\* An answer that brings the token of an account.
LEMMA IssuesGood ==
  ASSUME TokensOK, NEW n \in DOMAIN calls, NEW token, Issues(n, token), Right(token)
  PROVE  \A m \in DOMAIN calls' : GoodCall(calls'[m])
<1>1. GoodCall([calls[n] EXCEPT !.st = "ok", !.arg = token])
  BY DEF TokensOK, GoodCall, CallFields
<1>2. CASE calls' = Done(n)
  BY <1>2 DEF Done, TokensOK
<1>3. CASE calls' = [calls EXCEPT ![n].st = "ok", ![n].arg = token]
  BY <1>1, <1>3 DEF TokensOK
<1> QED BY <1>2, <1>3 DEF Issues

\* Accounts that keep their birth, or go, leave every credential right.
LEMMA AccountStep ==
  ASSUME CredInv, UNCHANGED <<browser, stored>>,
         next' \in [user : Nat, key : Nat], next'.user >= next.user,
         \A i \in DOMAIN users' :
            /\ DOMAIN users'[i] = {"born", "email", "pw"}
            /\ i \in Nat /\ i < next'.user
            /\ i < next.user => i \in DOMAIN users /\ users'[i].born = users[i].born,
         \A k \in DOMAIN keys' :
            \/ k \in DOMAIN keys /\ keys'[k] = keys[k]
            \/ \E tok : tok # None /\ Right(tok) /\ keys'[k].uid = tok.uid
                        /\ keys'[k].born = tok.born,
         \A n \in DOMAIN calls' : GoodCall(calls[n])'
  PROVE  CredInv'
<1>1. ASSUME NEW tok, Right(tok) PROVE Right(tok)'
  BY <1>1 DEF Right, CredInv, AccountsOK
<1>2. \A k \in DOMAIN keys' :
        /\ keys'[k].uid \in Nat /\ keys'[k].uid < next'.user
        /\ keys'[k].uid \in DOMAIN users' => users'[keys'[k].uid].born = keys'[k].born
  <2> TAKE k \in DOMAIN keys'
  <2>1. CASE k \in DOMAIN keys /\ keys'[k] = keys[k]
    BY <2>1 DEF CredInv, AccountsOK
  <2>2. CASE \E tok : tok # None /\ Right(tok) /\ keys'[k].uid = tok.uid
                     /\ keys'[k].born = tok.born
    BY <2>2, <1>1 DEF Right
  <2> QED BY <2>1, <2>2
<1>3. AccountsOK'
  BY <1>2 DEF AccountsOK
<1>4. TokensOK'
  BY <1>1 DEF CredInv, TokensOK
<1> QED BY <1>3, <1>4 DEF CredInv

\* Goodness of a request survives what accounts may do.
LEMMA GoodLater ==
  ASSUME CredInv, NEW c, GoodCall(c),
         next' \in [user : Nat, key : Nat], next'.user >= next.user,
         \A i \in DOMAIN users' :
            i < next.user => i \in DOMAIN users /\ users'[i].born = users[i].born
  PROVE  GoodCall(c)'
  BY DEF GoodCall, Right, CredInv, AccountsOK

\* A handler that leaves the tables alone.
LEMMA RefusesKeeps ==
  ASSUME CredInv, NEW n \in DOMAIN calls, NEW st, Refuses(n, st),
         UNCHANGED <<browser, stored>>,
         calls[n].op \notin {"login", "register"} \/ st # "ok"
  PROVE  CredInv'
<1>1. \A m \in DOMAIN calls' : GoodCall(calls'[m])
  BY AnswersGood DEF Refuses, CredInv
<1> QED BY <1>1, PageStep DEF Refuses, server, CredInv, TokensOK

\* A handler that changes accounts without giving a token.
LEMMA ChangesKeep ==
  ASSUME CredInv, NEW n \in DOMAIN calls, NEW st, Answers(n, st),
         calls[n].op \notin {"login", "register"},
         UNCHANGED <<browser, stored>>,
         next' \in [user : Nat, key : Nat], next'.user >= next.user,
         \A i \in DOMAIN users' :
            /\ i \in DOMAIN users /\ users'[i].born = users[i].born
            /\ DOMAIN users'[i] = {"born", "email", "pw"},
         \A k \in DOMAIN keys' :
            \/ k \in DOMAIN keys /\ keys'[k] = keys[k]
            \/ \E tok : tok # None /\ Right(tok) /\ keys'[k].uid = tok.uid
                        /\ keys'[k].born = tok.born
  PROVE  CredInv'
<1>1. \A m \in DOMAIN calls' : GoodCall(calls'[m])
  BY AnswersGood DEF CredInv
<1>2. \A i \in DOMAIN users' : i \in Nat /\ i < next'.user
  BY DEF CredInv, AccountsOK
<1>3. \A m \in DOMAIN calls' : GoodCall(calls[m])'
  BY <1>1, GoodLater
<1> QED BY <1>2, <1>3, AccountStep

LEMMA LoginKeeps ==
  ASSUME CredInv, NEW n \in DOMAIN calls, Login(n), UNCHANGED <<browser, stored>>
  PROVE  CredInv'
<1>1. UNCHANGED <<users, keys, next>>
  BY DEF Login, server
<1>2. CASE Answers(n, "refused")
  BY <1>1, <1>2, AnswersGood, PageStep DEF CredInv, TokensOK
<1>3. CASE \E i \in DOMAIN users : Issues(n, Token(i))
  <2> PICK i \in DOMAIN users : Issues(n, Token(i))
    BY <1>3
  <2>1. Right(Token(i))
    BY DEF Right, Token, CredInv, AccountsOK
  <2> QED BY <1>1, <2>1, IssuesGood, PageStep DEF CredInv, TokensOK
<1> QED BY <1>2, <1>3 DEF Login, Taken

LEMMA RegisterKeeps ==
  ASSUME CredInv, NEW n \in DOMAIN calls, Register(n), UNCHANGED <<browser, stored>>
  PROVE  CredInv'
<1> DEFINE a == calls[n].arg
           account == [born |-> births, email |-> a.email, pw |-> a.pw]
<1>1. CASE \E st \in {"counted", "refused"} : Refuses(n, st)
  BY <1>1, RefusesKeeps
<1>2. CASE /\ users' = [i \in DOMAIN users \cup {next.user} |->
                            IF i = next.user THEN account ELSE users[i]]
           /\ next' = [next EXCEPT !.user = @ + 1] /\ keys' = keys
           /\ Issues(n, [uid |-> next.user, born |-> births])
  <2> PICK id : id = next.user
    OBVIOUS
  <2> PICK token : token = [uid |-> next.user, born |-> births]
    OBVIOUS
  <2>1. id \in Nat /\ next' \in [user : Nat, key : Nat] /\ next'.user = id + 1
    BY <1>2 DEF CredInv, AccountsOK
  <2>2. /\ DOMAIN users' = DOMAIN users \cup {id}
        /\ DOMAIN users'[id] = {"born", "email", "pw"} /\ users'[id].born = token.born
        /\ \A i \in DOMAIN users : i \in Nat /\ i < id /\ users'[i] = users[i]
    BY <1>2, <2>1 DEF CredInv, AccountsOK
  <2>3. \A i \in DOMAIN users' :
            /\ DOMAIN users'[i] = {"born", "email", "pw"}
            /\ i \in Nat /\ i < next'.user
            /\ i < id => i \in DOMAIN users /\ users'[i].born = users[i].born
    BY <2>1, <2>2 DEF CredInv, AccountsOK
  <2>4. token.uid \in Nat /\ token.uid < next'.user /\ token.uid = id
    BY <2>1
  <2>5. Right(token)'
    BY <2>2, <2>4 DEF Right
  <2>6. \A c : GoodCall(c) => GoodCall(c)'
    BY <2>1, <2>3, GoodLater
  <2>7. \A m \in DOMAIN calls : GoodCall(calls[m])
    BY DEF CredInv, TokensOK
  <2>8. PICK new : new = [calls[n] EXCEPT !.st = "ok", !.arg = token]
    OBVIOUS
  <2>9. GoodCall(new)'
    BY <2>5, <2>6, <2>7, <2>8 DEF GoodCall, CallFields
  <2>10. \A m \in DOMAIN calls' : m \in DOMAIN calls /\ calls'[m] \in {calls[m], new}
    BY <1>2, <2>8 DEF Issues, Done
  <2>11. \A m \in DOMAIN calls' : GoodCall(calls[m])'
    BY <2>6, <2>7, <2>9, <2>10
  <2>12. next'.user >= next.user /\ \A k \in DOMAIN keys' : k \in DOMAIN keys /\ keys'[k] = keys[k]
    BY <1>2, <2>1
  <2>13. \A i \in DOMAIN users' :
            /\ DOMAIN users'[i] = {"born", "email", "pw"}
            /\ i \in Nat /\ i < next'.user
            /\ i < next.user => i \in DOMAIN users /\ users'[i].born = users[i].born
    BY <2>3
  <2> QED BY <2>1, <2>11, <2>12, <2>13, AccountStep
<1> QED BY <1>1, <1>2 DEF Register

LEMMA OthersKeep ==
  ASSUME CredInv, NEW n \in DOMAIN calls, UNCHANGED <<browser, stored>>,
         \/ ResetPassword(n) \/ UpdateProfile(n) \/ ChangePassword(n)
         \/ CreateKey(n) \/ DeleteKey(n) \/ ResetAllData(n)
  PROVE  CredInv'
<1>1. calls[n].op \notin {"login", "register"}
  BY DEF ResetPassword, UpdateProfile, ChangePassword, CreateKey, DeleteKey, ResetAllData
<1>2. CASE \E st : Refuses(n, st)
  BY <1>1, <1>2, RefusesKeeps
<1>3. ASSUME NEW st, Answers(n, st),
             next' = next \/ next' = [next EXCEPT !.key = @ + 1],
             \A i \in DOMAIN users' :
                /\ i \in DOMAIN users /\ users'[i].born = users[i].born
                /\ DOMAIN users'[i] = {"born", "email", "pw"},
             \A k \in DOMAIN keys' :
                \/ k \in DOMAIN keys /\ keys'[k] = keys[k]
                \/ /\ Trusted(n)
                   /\ keys'[k] = [uid |-> User(n), born |-> calls[n].tok.born]
      PROVE  CredInv'
  <2>1. next' \in [user : Nat, key : Nat] /\ next'.user >= next.user
    BY <1>3 DEF CredInv, AccountsOK
  <2>2. Right(calls[n].tok)
    BY DEF CredInv, TokensOK, GoodCall
  <2>3. \A k \in DOMAIN keys' :
            \/ k \in DOMAIN keys /\ keys'[k] = keys[k]
            \/ \E tok : tok # None /\ Right(tok) /\ keys'[k].uid = tok.uid
                        /\ keys'[k].born = tok.born
    BY <1>3, <2>2 DEF Trusted, User
  <2> QED BY <1>1, <1>3, <2>1, <2>3, ChangesKeep
<1>4. \A i \in DOMAIN users : DOMAIN users[i] = {"born", "email", "pw"}
  BY DEF CredInv, AccountsOK
<1>5. CASE ResetPassword(n)
  BY <1>2, <1>3, <1>4, <1>5 DEF ResetPassword
<1>6. CASE UpdateProfile(n)
  BY <1>2, <1>3, <1>4, <1>6 DEF UpdateProfile
<1>7. CASE ChangePassword(n)
  BY <1>2, <1>3, <1>4, <1>7 DEF ChangePassword
<1>8. CASE CreateKey(n)
  BY <1>2, <1>3, <1>4, <1>8 DEF CreateKey
<1>9. CASE DeleteKey(n)
  BY <1>2, <1>3, <1>4, <1>9 DEF DeleteKey
<1>10. CASE ResetAllData(n)
  BY <1>2, <1>3, <1>4, <1>10 DEF ResetAllData, Truncate
<1> QED BY <1>5, <1>6, <1>7, <1>8, <1>9, <1>10

\* A request that fails, or whose answer is lost.
LEMMA FailKeeps == ASSUME CredInv, NEW n, FailCall(n) PROVE CredInv'
<1>1. n \in DOMAIN calls /\ Answers(n, "refused") /\ UNCHANGED <<server, browser, stored>>
  BY DEF FailCall
<1> QED BY <1>1, RefusesKeeps DEF Refuses

LEMMA HandleKeeps == ASSUME CredInv, NEW n, Handle(n) PROVE CredInv'
<1>1. n \in DOMAIN calls /\ UNCHANGED <<browser, stored>>
  BY DEF Handle
<1> QED BY <1>1, LoginKeeps, RegisterKeeps, OthersKeep DEF Handle

---------------------------------------------------------------------------
LEMMA CredStep == CredInv /\ [Next]_vars => CredInv'
<1> SUFFICES ASSUME CredInv, [Next]_vars PROVE CredInv'
  OBVIOUS
<1>1. ASSUME NEW t \in Tab,
             \/ Open(t) \/ NeedsSetup(t) \/ SetupGuard(t) \/ Go(t) \/ HandleLogout(t)
             \/ Sends(t)
             \/ Timer(t) \/ CloseDialog(t) \/ Poll(t) \/ ArrivePoll(t) \/ LosePoll(t)
      PROVE  CredInv'
  BY <1>1, NavigationKeeps, SendsKeep, LocalKeeps
<1>2. ASSUME NEW n \in Call, Handle(n) \/ FailCall(n) \/ Deliver(n) PROVE CredInv'
  BY <1>2, HandleKeeps, FailKeeps, DeliverKeeps
<1>3. ASSUME NEW b \in Browser, Expire(b) PROVE CredInv'
  BY <1>3, ExpireKeeps
<1>4. CASE UNCHANGED vars
  BY <1>4, PageStep DEF vars, CredInv, TokensOK
<1> QED BY <1>1, <1>2, <1>3, <1>4 DEF Next, Sends

\* No token and no key names an account that it was not issued to, whatever
\* becomes of the accounts: through full resets, first registrations that
\* race, and answers that arrive late (GenerateToken, ResetAllData).
THEOREM Credentials == Spec => []CredentialsNameTheirOwner
<1>1. CredInv => CredentialsNameTheirOwner
  BY DEF CredInv, AccountsOK, TokensOK, Right, CredentialsNameTheirOwner
<1> QED BY <1>1, CredInit, CredStep, PTL DEF Spec

---------------------------------------------------------------------------
(* The forms of the profile.  Of the requests a tab has sent for a form the  *)
(* last one stays in flight, and audible, as long as the form waits.         *)

PageFields == {"path", "check", "busy", "save", "timers", "dialog", "revoking"}

Hears(n, t, f) ==
    n \in DOMAIN calls /\ calls[n].tab = t /\ calls[n].op = f /\ calls[n].here /\ calls[n].latest

SaveInv ==
    /\ work \in Nat
    /\ \A n \in DOMAIN calls :
        /\ DOMAIN calls[n] = CallFields
        /\ n \in Nat /\ n < work
        /\ calls[n].here => calls[n].alive
    /\ DOMAIN tabs = Tab
    /\ \A t \in Tab : DOMAIN tabs[t] = PageFields /\ DOMAIN tabs[t].save = Form
    /\ \A t \in Tab, f \in Form : tabs[t].save[f] = "saving" => \E n : Hears(n, t, f)

\* The request the form of a tab waits for is left alone.
LEMMA StillHeard ==
  ASSUME NEW n, NEW t, NEW f, Hears(n, t, f), n \in DOMAIN calls',
         calls'[n].tab = calls[n].tab, calls'[n].op = calls[n].op,
         calls'[n].here = calls[n].here, calls'[n].latest = calls[n].latest
  PROVE  Hears(n, t, f)'
  BY DEF Hears

LEMMA SaveInit == Init => SaveInv
<1> SUFFICES ASSUME Init PROVE SaveInv
  OBVIOUS
<1>1. PICK path : tabs = [t \in Tab |-> Fresh(path)]
  BY DEF Init
<1>2. DOMAIN calls = {} /\ work = 0
  BY DEF Init
<1>3. DOMAIN Fresh(path) = PageFields /\ Fresh(path).save = [f \in Form |-> "idle"]
  BY DEF Fresh, PageFields
<1> QED BY <1>1, <1>2, <1>3 DEF SaveInv

\* A step that shows another page in one tab.
LEMMA FreshKeeps ==
  ASSUME SaveInv, NEW t, NEW view,
         DOMAIN view = PageFields, view.save = [f \in Form |-> "idle"],
         tabs' = [tabs EXCEPT ![t] = view],
         work' \in Nat, work' >= work,
         \A n \in DOMAIN calls' :
            /\ n \in DOMAIN calls /\ DOMAIN calls'[n] = CallFields
            /\ calls'[n].here => calls'[n].alive,
         \A n \in DOMAIN calls : calls[n].tab # t => n \in DOMAIN calls' /\ calls'[n] = calls[n]
  PROVE  SaveInv'
<1>1. ASSUME NEW u \in Tab, NEW f \in Form, tabs'[u].save[f] = "saving"
      PROVE  \E n : Hears(n, u, f)'
  <2>1. u # t /\ tabs'[u] = tabs[u]
    BY <1>1 DEF SaveInv
  <2>2. PICK n : Hears(n, u, f)
    BY <1>1, <2>1 DEF SaveInv
  <2>3. n \in DOMAIN calls' /\ calls'[n] = calls[n]
    BY <2>1, <2>2 DEF Hears
  <2> QED BY <2>2, <2>3, StillHeard
<1>2. \A u \in Tab : DOMAIN tabs'[u] = PageFields /\ DOMAIN tabs'[u].save = Form
  BY DEF SaveInv
<1>3. \A n \in DOMAIN calls' : n \in Nat /\ n < work'
  BY DEF SaveInv
<1> QED BY <1>1, <1>2, <1>3 DEF SaveInv

LEMMA ShownKeepsSave ==
  ASSUME SaveInv, NEW t, NEW path, Shown(t, path), work' \in Nat, work' >= work
  PROVE  SaveInv'
<1>1. DOMAIN Fresh(path) = PageFields /\ Fresh(path).save = [f \in Form |-> "idle"]
  BY DEF Fresh, PageFields
<1>2. \A n \in DOMAIN calls' :
        /\ n \in DOMAIN calls /\ DOMAIN calls'[n] = CallFields
        /\ calls'[n].here => calls'[n].alive
  BY DEF Shown, SaveInv, CallFields
<1>3. \A n \in DOMAIN calls : calls[n].tab # t => n \in DOMAIN calls' /\ calls'[n] = calls[n]
  BY DEF Shown
<1> QED BY <1>1, <1>2, <1>3, FreshKeeps DEF Shown

LEMMA LoadedKeepsSave ==
  ASSUME SaveInv, NEW t, NEW path, Loaded(t, path), work' \in Nat, work' >= work
  PROVE  SaveInv'
<1> DEFINE view == [Fresh(path) EXCEPT !.check = "asked"]
<1>1. DOMAIN view = PageFields /\ view.save = [f \in Form |-> "idle"]
  BY DEF Fresh, PageFields
<1>2. \A n \in DOMAIN calls' :
        /\ n \in DOMAIN calls /\ DOMAIN calls'[n] = CallFields
        /\ calls'[n].here => calls'[n].alive
  BY DEF Loaded, SaveInv, CallFields
<1>3. \A n \in DOMAIN calls : calls[n].tab # t => n \in DOMAIN calls' /\ calls'[n] = calls[n]
  BY DEF Loaded
<1>4. tabs' = [tabs EXCEPT ![t] = view]
  BY DEF Loaded
<1> HIDE DEF view
<1> QED BY <1>1, <1>2, <1>3, <1>4, FreshKeeps

\* A step that leaves what the forms wait for where it is.
LEMMA QuietKeeps ==
  ASSUME SaveInv, work' = work, DOMAIN tabs' = Tab,
         \A t \in Tab :
            /\ DOMAIN tabs'[t] = PageFields /\ DOMAIN tabs'[t].save = Form
            /\ \A f \in Form : tabs'[t].save[f] = "saving" => tabs[t].save[f] = "saving",
         \A n \in DOMAIN calls' :
            /\ n \in DOMAIN calls /\ DOMAIN calls'[n] = CallFields
            /\ calls'[n].here => calls'[n].alive,
         \A n \in DOMAIN calls, t \in Tab, f \in Form :
            Hears(n, t, f) /\ tabs'[t].save[f] = "saving" => Hears(n, t, f)'
  PROVE  SaveInv'
<1>1. ASSUME NEW t \in Tab, NEW f \in Form, tabs'[t].save[f] = "saving"
      PROVE  \E n : Hears(n, t, f)'
  <2>1. PICK n : Hears(n, t, f)
    BY <1>1 DEF SaveInv
  <2> QED BY <1>1, <2>1 DEF Hears
<1> QED BY <1>1 DEF SaveInv

\* A request of another kind leaves the forms alone; one of a form makes it
\* wait for that request.
LEMMA SendKeepsSave ==
  ASSUME SaveInv, NEW t \in Tab, NEW op, NEW arg, NEW view, Send(t, op, arg, view),
         DOMAIN view = PageFields, DOMAIN view.save = Form,
         \A f \in Form : f # op => view.save[f] = tabs[t].save[f]
  PROVE  SaveInv'
<1>1. work' = work + 1 /\ work \in Nat
  BY DEF Send, Works, SaveInv
<1>2. DOMAIN calls' = DOMAIN calls \cup {work} /\ work \notin DOMAIN calls
  BY <1>1 DEF Send, SaveInv
<1>3. /\ DOMAIN calls'[work] = CallFields
      /\ calls'[work].tab = t /\ calls'[work].op = op
      /\ calls'[work].here /\ calls'[work].alive /\ calls'[work].latest
  BY DEF Send, CallFields
<1>4. ASSUME NEW n \in DOMAIN calls
      PROVE  /\ DOMAIN calls'[n] = CallFields
             /\ calls'[n].tab = calls[n].tab /\ calls'[n].op = calls[n].op
             /\ calls'[n].here = calls[n].here /\ calls'[n].alive = calls[n].alive
             /\ ~(calls[n].tab = t /\ calls[n].op = op) /\ calls[n].latest => calls'[n].latest
  <2>1. DOMAIN calls[n] = CallFields /\ n # work
    BY <1>2 DEF SaveInv
  <2>2. calls'[n] = [calls[n] EXCEPT !.latest = @ /\ ~(calls[n].tab = t /\ calls[n].op = op)]
    BY <2>1 DEF Send
  <2> QED BY <2>1, <2>2 DEF CallFields
<1>5. /\ DOMAIN tabs' = Tab
      /\ \A u \in Tab : tabs'[u] = IF u = t THEN view ELSE tabs[u]
  BY DEF Send, SaveInv
<1>6. ASSUME NEW u \in Tab, NEW f \in Form, tabs'[u].save[f] = "saving"
      PROVE  \E n : Hears(n, u, f)'
  <2>1. CASE u = t /\ f = op
    BY <1>2, <1>3, <2>1 DEF Hears
  <2>2. CASE ~(u = t /\ f = op)
    <3>1. tabs[u].save[f] = "saving"
      BY <1>5, <1>6, <2>2
    <3>2. PICK n : Hears(n, u, f)
      BY <3>1 DEF SaveInv
    <3>3. Hears(n, u, f)'
      BY <1>2, <1>4, <2>2, <3>2 DEF Hears
    <3> QED BY <3>3
  <2> QED BY <2>1, <2>2
<1>7. \A n \in DOMAIN calls' :
        /\ DOMAIN calls'[n] = CallFields /\ n \in Nat /\ n < work'
        /\ calls'[n].here => calls'[n].alive
  BY <1>1, <1>2, <1>3, <1>4 DEF SaveInv
<1>8. \A u \in Tab : DOMAIN tabs'[u] = PageFields /\ DOMAIN tabs'[u].save = Form
  BY <1>5 DEF SaveInv
<1> QED BY <1>1, <1>5, <1>6, <1>7, <1>8 DEF SaveInv

LEMMA SendsKeepSave == ASSUME SaveInv, NEW t \in Tab, Sends(t) PROVE SaveInv'
<1> DEFINE Fits(view, op) ==
        /\ DOMAIN view = PageFields /\ DOMAIN view.save = Form
        /\ \A f \in Form : f # op => view.save[f] = tabs[t].save[f]
<1>1. DOMAIN tabs[t] = PageFields /\ DOMAIN tabs[t].save = Form
  BY DEF SaveInv
<1>2. \A op : Fits(Busy(t), op)
  BY <1>1 DEF Busy, PageFields
<1>3. \A f \in Form : Fits(Saving(t, f), f)
  BY <1>1 DEF Saving, PageFields
<1>4. \A op, x : /\ Fits([tabs[t] EXCEPT !.dialog = x], op)
                 /\ Fits([tabs[t] EXCEPT !.revoking = x], op)
  BY <1>1 DEF PageFields
<1>5. PICK op, arg, view : Send(t, op, arg, view) /\ Fits(view, op)
  <2> HIDE DEF Fits
  <2>1. CASE SubmitLogin(t) \/ SubmitSetup(t) \/ SubmitForgot(t) \/ HandleReset(t)
    BY <1>2, <2>1 DEF SubmitLogin, SubmitSetup, SubmitForgot, HandleReset
  <2>2. CASE HandleProfileSave(t) \/ HandlePasswordSave(t)
    BY <1>3, <2>2 DEF HandleProfileSave, HandlePasswordSave, Form
  <2>3. CASE GenerateKey(t) \/ HandleRevoke(t)
    BY <1>4, <2>3 DEF GenerateKey, HandleRevoke
  <2> QED BY <2>1, <2>2, <2>3 DEF Sends
<1> QED BY <1>5, SendKeepsSave

LEMMA NavigationKeepsSave ==
  ASSUME SaveInv, NEW t \in Tab,
         Open(t) \/ SetupGuard(t) \/ Go(t) \/ HandleLogout(t)
  PROVE  SaveInv'
<1>1. work' \in Nat /\ work' >= work
  BY DEF SaveInv, Works, Open, SetupGuard, Go, HandleLogout
<1>2. \/ \E path : Shown(t, path)
      \/ \E path : Loaded(t, path)
  BY DEF Open, SetupGuard, Go, HandleLogout
<1> QED BY <1>1, <1>2, ShownKeepsSave, LoadedKeepsSave

LEMMA SameKeepsSave ==
  ASSUME SaveInv, UNCHANGED <<tabs, calls, work>> PROVE SaveInv'
  BY DEF SaveInv, Hears

LEMMA LocalKeepsSave ==
  ASSUME SaveInv, NEW t \in Tab,
         NeedsSetup(t) \/ Timer(t) \/ CloseDialog(t)
  PROVE  SaveInv'
<1>1. DOMAIN tabs[t] = PageFields /\ DOMAIN tabs[t].save = Form /\ DOMAIN tabs = Tab
  BY DEF SaveInv
<1>2. CASE UNCHANGED <<calls, work>> /\ \E x : tabs' = [tabs EXCEPT ![t].check = x]
  <2>1. \A n, u, f : Hears(n, u, f) => Hears(n, u, f)'
    BY <1>2 DEF Hears
  <2>2. \A u \in Tab : DOMAIN tabs'[u] = PageFields /\ tabs'[u].save = tabs[u].save
    BY <1>1, <1>2 DEF PageFields, SaveInv
  <2> QED BY <1>1, <1>2, <2>1, <2>2, QuietKeeps DEF SaveInv
<1>3. CASE Timer(t)
  <2> PICK f \in Form :
        tabs' = [tabs EXCEPT ![t].timers[f] = @ - 1, ![t].save[f] = "idle"]
    BY <1>3 DEF Timer
  <2>1. UNCHANGED <<calls, work>>
    BY <1>3 DEF Timer
  <2>2. \A n, u, g : Hears(n, u, g) => Hears(n, u, g)'
    BY <2>1 DEF Hears
  <2>3. DOMAIN tabs' = Tab /\ \A u \in Tab : u # t => tabs'[u] = tabs[u]
    BY <1>1
  <2>4. /\ DOMAIN tabs'[t] = PageFields
        /\ tabs'[t].save = [tabs[t].save EXCEPT ![f] = "idle"]
    BY <1>1 DEF PageFields
  <2> QED BY <2>1, <2>2, <2>3, <2>4, <1>1, QuietKeeps DEF SaveInv
<1>4. CASE CloseDialog(t)
  <2>1. work' = work /\ tabs' = [tabs EXCEPT ![t].dialog = "none"]
    BY <1>4 DEF CloseDialog
  <2>2. \A u \in Tab : DOMAIN tabs'[u] = PageFields /\ tabs'[u].save = tabs[u].save
    BY <1>1, <2>1 DEF PageFields, SaveInv
  <2>3. \A n \in DOMAIN calls :
            /\ calls[n].op # "createKey" => calls'[n] = calls[n]
            /\ calls'[n] = calls[n] \/ calls'[n] = [calls[n] EXCEPT !.here = FALSE]
    BY <1>4 DEF CloseDialog
  <2>4. DOMAIN calls' = DOMAIN calls
    BY <1>4 DEF CloseDialog
  <2>5. \A n, u : \A g \in Form : Hears(n, u, g) => Hears(n, u, g)'
    BY <2>3, <2>4 DEF Hears, Form
  <2>6. \A n \in DOMAIN calls' :
            DOMAIN calls'[n] = CallFields /\ (calls'[n].here => calls'[n].alive)
    BY <2>3, <2>4 DEF SaveInv, CallFields
  <2> QED BY <1>1, <2>1, <2>2, <2>4, <2>5, <2>6, QuietKeeps DEF SaveInv
<1> QED BY <1>2, <1>3, <1>4 DEF NeedsSetup

\* The polls, and the clock that ends a session.
LEMMA PollsKeepSave ==
  ASSUME SaveInv,
         \/ \E t \in Tab : Poll(t) \/ ArrivePoll(t) \/ LosePoll(t)
         \/ \E b \in Browser : Expire(b)
  PROVE  SaveInv'
<1>1. work' \in Nat /\ work' >= work
  BY DEF SaveInv, Works, Poll, ArrivePoll, LosePoll, Expire
<1>2. CASE \E t, path : Loaded(t, path)
  BY <1>1, <1>2, LoadedKeepsSave
<1>3. CASE UNCHANGED <<tabs, calls>>
  BY <1>1, <1>3 DEF SaveInv, Hears
<1> QED BY <1>2, <1>3 DEF Poll, ArrivePoll, LosePoll, Expire, SignedOut

\* A handler changes how far a request has come, and forgets the answer only
\* when the page that asked is gone.
LEMMA HandleKeepsSave ==
  ASSUME SaveInv, NEW n, Handle(n) \/ FailCall(n) PROVE SaveInv'
<1>1. n \in DOMAIN calls /\ UNCHANGED <<tabs, work>>
  BY DEF Handle, FailCall
<1>2. (\E st : Answers(n, st)) \/ (\E token : Issues(n, token))
  <2>1. CASE Login(n) \/ Register(n) \/ ResetPassword(n) \/ UpdateProfile(n)
    BY <2>1 DEF Login, Register, ResetPassword, UpdateProfile, Refuses
  <2>2. CASE ChangePassword(n) \/ CreateKey(n) \/ DeleteKey(n) \/ ResetAllData(n)
    BY <2>2 DEF ChangePassword, CreateKey, DeleteKey, ResetAllData, Refuses
  <2> QED BY <2>1, <2>2 DEF Handle, FailCall
<1>3. \/ ~calls[n].alive /\ calls' = Done(n)
      \/ \E st : calls' = [calls EXCEPT ![n].st = st]
      \/ \E token : calls' = [calls EXCEPT ![n].st = "ok", ![n].arg = token]
  BY <1>2 DEF Answers, Issues
<1>4. /\ DOMAIN calls[n] = CallFields
      /\ calls[n].here => calls[n].alive
  BY <1>1 DEF SaveInv
<1>5. \A m \in DOMAIN calls : m # n => m \in DOMAIN calls' /\ calls'[m] = calls[m]
  BY <1>1, <1>3 DEF Done
<1>6. /\ DOMAIN calls' \subseteq DOMAIN calls
      /\ n \notin DOMAIN calls' => ~calls[n].here
      /\ n \in DOMAIN calls' =>
            \E d : /\ d = calls'[n] /\ DOMAIN d = CallFields
                   /\ d.tab = calls[n].tab /\ d.op = calls[n].op /\ d.here = calls[n].here
                   /\ d.alive = calls[n].alive /\ d.latest = calls[n].latest
  <2> PICK c : c = calls[n]
    OBVIOUS
  <2>1. CASE ~calls[n].alive /\ calls' = Done(n)
    BY <1>1, <1>4, <2>1 DEF Done
  <2>3. CASE \E st : calls' = [calls EXCEPT ![n].st = st]
    <3> PICK st : calls' = [calls EXCEPT ![n] = [c EXCEPT !.st = st]]
      BY <1>1, <2>3
    <3> PICK d : d = [c EXCEPT !.st = st]
      OBVIOUS
    <3>1. /\ DOMAIN d = CallFields /\ d.tab = c.tab /\ d.op = c.op /\ d.here = c.here
          /\ d.alive = c.alive /\ d.latest = c.latest
      BY <1>4 DEF CallFields
    <3>2. calls' = [calls EXCEPT ![n] = d]
      OBVIOUS
    <3>3. DOMAIN calls' = DOMAIN calls /\ calls'[n] = d
      BY <1>1, <3>2
    <3> QED BY <1>1, <3>1, <3>3
  <2>4. CASE \E token : calls' = [calls EXCEPT ![n].st = "ok", ![n].arg = token]
    <3> PICK token :
            calls' = [calls EXCEPT ![n] = [c EXCEPT !.st = "ok", !.arg = token]]
      BY <1>1, <2>4
    <3> PICK d : d = [c EXCEPT !.st = "ok", !.arg = token]
      OBVIOUS
    <3>1. /\ DOMAIN d = CallFields /\ d.tab = c.tab /\ d.op = c.op /\ d.here = c.here
          /\ d.alive = c.alive /\ d.latest = c.latest
      BY <1>4 DEF CallFields
    <3>2. calls' = [calls EXCEPT ![n] = d]
      OBVIOUS
    <3>3. DOMAIN calls' = DOMAIN calls /\ calls'[n] = d
      BY <1>1, <3>2
    <3> QED BY <1>1, <3>1, <3>3
  <2> QED BY <1>3, <2>1, <2>3, <2>4
<1>7. \A m \in DOMAIN calls : \A t, f : Hears(m, t, f) => Hears(m, t, f)'
  BY <1>5, <1>6 DEF Hears
<1>8. \A m \in DOMAIN calls' :
        /\ m \in DOMAIN calls /\ DOMAIN calls'[m] = CallFields
        /\ calls'[m].here => calls'[m].alive
  BY <1>4, <1>5, <1>6 DEF SaveInv
<1> QED BY <1>1, <1>7, <1>8, QuietKeeps DEF SaveInv

\* An answer ends the wait of the form it belongs to, if it is the form's
\* latest request and its page is still there.
LEMMA DeliverKeepsSave == ASSUME SaveInv, NEW n, Deliver(n) PROVE SaveInv'
<1> PICK c : c = calls[n]
  OBVIOUS
<1>1. n \in DOMAIN calls /\ work' = work /\ work \in Nat /\ DOMAIN c = CallFields
  BY DEF Deliver, SaveInv
<1>2. CASE \E t, path : Loaded(t, path)
  BY <1>1, <1>2, LoadedKeepsSave
<1>3. CASE /\ tabs' = [tabs EXCEPT ![c.tab] = Fresh("overview")]
           /\ calls' = [m \in DOMAIN calls \ {n} |->
                            IF calls[m].tab = c.tab
                            THEN [calls[m] EXCEPT !.here = FALSE] ELSE calls[m]]
  <2> PICK view : view = Fresh("overview")
    OBVIOUS
  <2>1. DOMAIN view = PageFields /\ view.save = [f \in Form |-> "idle"]
    BY DEF Fresh, PageFields
  <2>2. \A m \in DOMAIN calls' :
            /\ m \in DOMAIN calls /\ DOMAIN calls'[m] = CallFields
            /\ calls'[m].here => calls'[m].alive
    BY <1>3 DEF SaveInv, CallFields
  <2>3. \A m \in DOMAIN calls : calls[m].tab # c.tab =>
            m \in DOMAIN calls' /\ calls'[m] = calls[m]
    BY <1>3
  <2>4. tabs' = [tabs EXCEPT ![c.tab] = view] /\ work' >= work
    BY <1>1, <1>3
  <2> QED BY <1>1, <2>1, <2>2, <2>3, <2>4, FreshKeeps
<1>4. CASE /\ tabs' = IF c.here THEN [tabs EXCEPT ![c.tab] = Continued(c)] ELSE tabs
           /\ calls' = Done(n)
  <2>1. DOMAIN calls' = DOMAIN calls \ {n} /\ \A m \in DOMAIN calls' : calls'[m] = calls[m]
    BY <1>4 DEF Done
  <2>2. ASSUME c.here, c.tab \in Tab
        PROVE  /\ DOMAIN Continued(c) = PageFields /\ DOMAIN Continued(c).save = Form
               /\ \A f \in Form : Continued(c).save[f] = "saving" =>
                    tabs[c.tab].save[f] = "saving" /\ ~(c.op = f /\ c.latest)
    <3> PICK v : v = tabs[c.tab]
      OBVIOUS
    <3>1. DOMAIN v = PageFields /\ DOMAIN v.save = Form
      BY <2>2 DEF SaveInv
    <3>2. CASE c.op \in Form /\ c.latest
      <4> PICK s : s = Saved(c.op, c.st)
        OBVIOUS
      <4>1. s # "saving"
        BY DEF Saved
      <4>2. Continued(c) = [v EXCEPT !.save[c.op] = s,
                                     !.timers[c.op] = IF s = "saving" THEN @ ELSE @ + 1]
        BY <3>2 DEF Continued, Form
      <4>3. /\ DOMAIN Continued(c) = PageFields
            /\ Continued(c).save = [v.save EXCEPT ![c.op] = s]
        BY <3>1, <4>2 DEF PageFields
      <4> QED BY <3>1, <3>2, <4>1, <4>3
    <3>3. CASE ~(c.op \in Form /\ c.latest)
      <4>1. DOMAIN Continued(c) = PageFields /\ Continued(c).save = v.save
        BY <3>1, <3>3 DEF Continued, PageFields, Form
      <4> QED BY <3>1, <3>3, <4>1
    <3> QED BY <3>2, <3>3
  <2>3. ASSUME NEW t \in Tab
        PROVE  /\ DOMAIN tabs'[t] = PageFields /\ DOMAIN tabs'[t].save = Form
               /\ \A f \in Form : tabs'[t].save[f] = "saving" =>
                    tabs[t].save[f] = "saving"
                        /\ ~(c.here /\ c.tab = t /\ c.op = f /\ c.latest)
    <3> PICK w : w = Continued(c)
      OBVIOUS
    <3>1. CASE c.here /\ c.tab = t
      <4>1. tabs'[t] = w
        BY <1>4, <3>1 DEF SaveInv
      <4> QED BY <2>2, <3>1, <4>1
    <3>2. CASE ~(c.here /\ c.tab = t)
      <4>1. tabs'[t] = tabs[t]
        BY <1>4, <3>2
      <4> QED BY <3>2, <4>1 DEF SaveInv
    <3> QED BY <3>1, <3>2
  <2>4. \A m \in DOMAIN calls, t \in Tab, f \in Form :
            Hears(m, t, f) /\ tabs'[t].save[f] = "saving" => Hears(m, t, f)'
    BY <2>1, <2>3 DEF Hears
  <2>5. \A m \in DOMAIN calls' :
            /\ m \in DOMAIN calls /\ DOMAIN calls'[m] = CallFields
            /\ calls'[m].here => calls'[m].alive
    BY <2>1 DEF SaveInv
  <2>6. DOMAIN tabs' = Tab
    BY <1>4 DEF SaveInv
  <2> QED BY <1>1, <2>3, <2>4, <2>5, <2>6, QuietKeeps
<1> QED BY <1>2, <1>3, <1>4 DEF Deliver, SignedOut

LEMMA SaveStep == SaveInv /\ [Next]_vars => SaveInv'
<1> SUFFICES ASSUME SaveInv, [Next]_vars PROVE SaveInv'
  OBVIOUS
<1>1. ASSUME NEW t \in Tab,
             \/ Open(t) \/ NeedsSetup(t) \/ SetupGuard(t) \/ Go(t) \/ HandleLogout(t)
             \/ Sends(t)
             \/ Timer(t) \/ CloseDialog(t) \/ Poll(t) \/ ArrivePoll(t) \/ LosePoll(t)
      PROVE  SaveInv'
  BY <1>1, NavigationKeepsSave, SendsKeepSave, LocalKeepsSave, PollsKeepSave
<1>2. ASSUME NEW n \in Call, Handle(n) \/ FailCall(n) \/ Deliver(n) PROVE SaveInv'
  BY <1>2, HandleKeepsSave, DeliverKeepsSave
<1>3. ASSUME NEW b \in Browser, Expire(b) PROVE SaveInv'
  BY <1>3, PollsKeepSave
<1>4. CASE UNCHANGED vars
  BY <1>4, SameKeepsSave DEF vars
<1> QED BY <1>1, <1>2, <1>3, <1>4 DEF Next, Sends

\* A form of the profile that shows it is saving waits for a request that is
\* its latest and whose answer its page will hear, however many requests,
\* timers, reloads and sign-outs come between (handleProfileSave,
\* handlePasswordSave).
THEOREM Saves == Spec => []SavingIsUnderWay
<1>1. SaveInv => SavingIsUnderWay
  BY DEF SaveInv, Hears, SavingIsUnderWay
<1> QED BY <1>1, SaveInit, SaveStep, PTL DEF Spec
===========================================================================
