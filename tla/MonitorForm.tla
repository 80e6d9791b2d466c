---------------------------- MODULE MonitorForm ----------------------------
(* The create and edit form of a monitor, the handlers that save and test    *)
(* what it holds, and other consoles that change the same monitors while it  *)
(* is open.  The form shows a copy of the monitor as it was; a connection    *)
(* string is never copied, a blank one means that the stored one stays.      *)
(*                                                                           *)
(* http stands for the types that need a URL.  A number is in halves, as the *)
(* boxes also take fractions: 3 is 1.5.  interval stands for max_retries as  *)
(* well.  Blank text, an empty box and an absent string are None.            *)
EXTENDS Integers, FiniteSets

CONSTANTS
    None,
    Name, Url,       \* what the user may type
    Host, Port,      \* hosts and ports of a database
    DSN,             \* connection strings typed in one piece
    Box,             \* numbers typed into a box
    Long,            \* names longer than their column
    MaxColumn,       \* the largest number an INT column takes
    MaxInt,          \* the largest int of the server
    HasKey,          \* DB_ENCRYPTION_KEY holds a key
    InitRows,        \* the monitors at the start
    MaxId,           \* bound: monitors ever created
    MaxTyped,        \* bound: fields changed in one open form
    MaxWork          \* bound: forms opened, saves, writes of other consoles

Id     == 1..MaxId
Type   == {"http", "ssl", "database"}
Driver == {"postgresql", "redis"}

Secs(n) == 2 * n
DefaultPort    == [d \in Driver |-> IF d = "redis" THEN 6379 ELSE 5432]
DefaultTimeout == [d \in Driver |-> IF d = "redis" THEN Secs(5) ELSE Secs(10)]

Whole(x)    == x % 2 = 0
Placeholder(d) == <<d, "encrypted">>
BuiltDSN    == [driver : Driver, host : Host \cup {"localhost"}, port : Nat]

ASSUME FormAssumption ==
    /\ MaxId \in Nat /\ MaxTyped \in Nat /\ MaxWork \in Nat
    /\ Box \subseteq Int \cup {None} /\ Long \subseteq Name /\ HasKey \in BOOLEAN
    /\ MaxColumn \in Nat /\ MaxInt \in Nat /\ 200 <= MaxColumn /\ MaxColumn <= MaxInt
    /\ Port \subseteq Nat /\ None \notin Port
    /\ None \notin Name \cup Url \cup Host \cup DSN \cup BuiltDSN \cup Driver
    /\ \E n \in 0..MaxId : InitRows \in
            [1..n -> [name : Name, url : Url \cup {Placeholder(d) : d \in Driver},
                      type : Type, interval : Nat, timeout : Nat, expected : Nat, warn : Nat,
                      driver : Driver \cup {None}, dsn : DSN \cup BuiltDSN \cup {None},
                      restored : BOOLEAN]]
    /\ \A i \in DOMAIN InitRows :
            InitRows[i].type = "database" => InitRows[i].dsn # None

VARIABLES
    rows,      \* the monitors table: id -> monitor
    nextId,    \* the id its sequence gives next
    form,      \* the open form, or None
    saving,    \* the create or update in flight, or None
    test,      \* the connection test of the open form
    work       \* bounded work done so far

formVars == <<rows, nextId, form, saving, test, work>>

\* A request whose answer is still due.
Sent(c) == c # None /\ c.st = "sent"

Answered(c, st) == [st |-> st, target |-> c.target, sound |-> c.sound]

Works == work < MaxWork /\ work' = work + 1

---------------------------------------------------------------------------
(* The handlers.  A request is rejected, or changes one row.                 *)

Within(x, n) == -Secs(n + 1) <= x /\ x <= Secs(n)

\* The body is bound to a struct of integers first.
Binds(x) == Whole(x) /\ Within(x, MaxInt)
Numbers(p) == {p.interval, p.timeout, p.expected, p.warn}
Bound(p) == \A x \in Numbers(p) : Binds(x)

\* A connection string is encrypted, whatever the type: an error without a key.
Encrypts(p) == p.dsn # None => HasKey

\* The statement fails when a column is too small for its value.
Fits(p) == p.name \notin Long /\ \A x \in Numbers(p) : Within(x, MaxColumn)

Positive(x, default) == IF x > 0 THEN x ELSE default

CreatedRow(p) ==
    [name |-> p.name, type |-> p.type, driver |-> p.driver, dsn |-> p.dsn,
     url |-> IF p.url = None THEN Placeholder(p.driver) ELSE p.url,
     interval |-> Positive(p.interval, Secs(60)), timeout |-> Positive(p.timeout, Secs(30)),
     expected |-> Positive(p.expected, Secs(200)), warn |-> p.warn, restored |-> FALSE]

Create(p) ==
    /\ Bound(p) /\ p.name # None
    /\ IF p.type = "database" THEN p.dsn # None /\ p.driver # None ELSE p.url # None
    /\ Encrypts(p) /\ Fits(CreatedRow(p))

Kept(x, old) == IF x = None THEN old ELSE x

\* Update validates nothing: a blank or a number that is not positive keeps
\* what the row has.
UpdatedRow(r, p) ==
    [r EXCEPT !.name = Kept(p.name, @), !.url = Kept(p.url, @), !.type = p.type,
              !.interval = Positive(p.interval, @), !.timeout = Positive(p.timeout, @),
              !.expected = Positive(p.expected, @), !.warn = Positive(p.warn, @),
              !.driver = Kept(p.driver, @), !.dsn = Kept(p.dsn, @)]

\* What the test of a connection is run against: nothing when it is refused.
\* A database without a string in the request takes the stored one.
TestedDSN(p) ==
    IF p.dsn # None THEN p.dsn
    ELSE IF p.target \in DOMAIN rows THEN rows[p.target].dsn ELSE None

TestAccepted(p) ==
    /\ Binds(p.timeout) /\ Binds(p.expected) /\ Binds(p.warn)
    /\ p.type = "database" => TestedDSN(p) # None /\ Encrypts(p)

---------------------------------------------------------------------------
(* The form.                                                                 *)

\* A number the form starts from is always whole.
EmptyForm ==
    [target |-> 0, stored |-> FALSE, name |-> None, url |-> None, type |-> "http",
     interval |-> Secs(60), timeout |-> Secs(30), expected |-> Secs(200), warn |-> Secs(30),
     driver |-> "postgresql", dsn |-> None, mode |-> "fields", host |-> None,
     port |-> None, typed |-> 0]

\* The edit form starts from the row; stored is db_connection_string_set.
FormOf(i) ==
    [f \in DOMAIN EmptyForm |->
        CASE f = "target" -> i
          [] f = "stored" -> rows[i].dsn # None
          [] f \in {"name", "url", "type", "interval", "timeout", "expected", "warn",
                    "driver"} -> rows[i][f]
          [] OTHER -> EmptyForm[f]]

\* The connection string put together from the fields.
BuildDSN(f) ==
    [driver |-> f.driver, host |-> IF f.host = None THEN "localhost" ELSE f.host,
     port |-> IF f.port = None THEN DefaultPort[f.driver] ELSE f.port]

Num(x) == IF x = None THEN 0 ELSE x

\* payloadFromFormState.  A raw string typed before the type was changed
\* travels along.
Payload(f) ==
    [target |-> f.target, name |-> f.name, type |-> f.type, driver |-> f.driver,
     url |-> IF f.type = "database" THEN Placeholder(f.driver) ELSE f.url,
     interval |-> Num(f.interval), timeout |-> Num(f.timeout), expected |-> Num(f.expected),
     warn |-> IF Num(f.warn) = 0 THEN Secs(30) ELSE f.warn,
     dsn |-> IF f.type = "database" /\ f.mode = "fields" THEN BuildDSN(f) ELSE f.dsn]

InvalidBox(x) == x = None \/ x <= 0

HasInvalidNumbers(f) ==
    \/ InvalidBox(f.interval) \/ InvalidBox(f.timeout)
    \/ f.type = "http" /\ InvalidBox(f.expected)

\* Faulty variant: a host is never asked for.
DbInvalidWithoutHost(f) ==
    /\ f.type = "database"
    /\ f.driver = None \/ (f.mode = "dsn" /\ ~f.stored /\ f.dsn = None)

\* Faulty variant: a raw connection string is never asked for.
DbInvalidWithoutStored(f) ==
    /\ f.type = "database"
    /\ f.driver = None \/ (f.mode = "fields" /\ f.host = None)

DbInvalid(f) ==
    /\ f.type = "database"
    /\ \/ f.driver = None
       \/ f.mode = "dsn" /\ ~f.stored /\ f.dsn = None
       \/ f.mode = "fields" /\ f.host = None

CanSave(f) ==
    /\ f.name # None /\ ~HasInvalidNumbers(f) /\ ~DbInvalid(f)
    /\ f.type = "database" \/ f.url # None

\* The same without the name and the numbers.
CanTest(f) == ~DbInvalid(f) /\ (f.type = "database" \/ f.url # None)

ServerSame == UNCHANGED <<rows, nextId>>

AddMonitor ==
    /\ form = None /\ form' = EmptyForm /\ test' = None
    /\ Works /\ ServerSame /\ UNCHANGED saving

\* What the list showed when the form was opened may be older than the rows:
\* that is a form opened earlier.
EditMonitor ==
    /\ form = None /\ \E i \in DOMAIN rows : form' = FormOf(i)
    /\ test' = None
    /\ Works /\ ServerSame /\ UNCHANGED saving

Close ==
    /\ form # None /\ form' = None /\ test' = None
    /\ ServerSame /\ UNCHANGED <<saving, work>>

Set(f) ==
    /\ form # None /\ form.typed < MaxTyped
    /\ form' = [f EXCEPT !.typed = @ + 1]
    /\ ServerSame /\ UNCHANGED <<saving, test, work>>

TypeText ==
    \/ \E v \in Name \cup {None} : Set([form EXCEPT !.name = v])
    \/ form.type # "database" /\ \E v \in Url \cup {None} : Set([form EXCEPT !.url = v])

ChangeType == \E v \in Type \ {form.type} : Set([form EXCEPT !.type = v])

TypeNumber ==
    \E v \in Box :
        \/ Set([form EXCEPT !.interval = v])
        \/ Set([form EXCEPT !.timeout = v])
        \/ form.type = "http" /\ Set([form EXCEPT !.expected = v])
        \/ form.type = "ssl" /\ Set([form EXCEPT !.warn = v])

\* A port that is blank or a default follows the driver; so does a timeout
\* that is a default.
ChangeDriver ==
    /\ form.type = "database"
    /\ \E d \in Driver \ {form.driver} :
        Set([form EXCEPT
            !.driver = d,
            !.port = IF @ = None \/ \E e \in Driver : @ = DefaultPort[e]
                     THEN DefaultPort[d] ELSE @,
            !.timeout = IF @ # None /\ (@ = Secs(30) \/ \E e \in Driver : @ = DefaultTimeout[e])
                        THEN DefaultTimeout[d] ELSE @])

TypeConnection ==
    /\ form.type = "database"
    /\ \/ \E m \in {"fields", "dsn"} \ {form.mode} : Set([form EXCEPT !.mode = m])
       \/ form.mode = "fields" /\ \E h \in Host \cup {None} : Set([form EXCEPT !.host = h])
       \/ form.mode = "fields" /\ \E p \in Port \cup {None} : Set([form EXCEPT !.port = p])
       \/ form.mode = "dsn" /\ \E d \in DSN \cup {None} : Set([form EXCEPT !.dsn = d])

Fill ==
    /\ form # None
    /\ TypeText \/ ChangeType \/ TypeNumber \/ ChangeDriver \/ TypeConnection

\* The numbers in boxes are whole and no larger than n.
Typed(boxes, n) == \A x \in boxes : x # None => Whole(x) /\ Within(x, n)

\* One save of the page at a time.  silent: the form gives no connection;
\* sound: nothing in it that the form does not look at is in the way.
Save ==
    /\ form # None /\ saving = None /\ CanSave(form)
    /\ saving' = [st |-> "sent", target |-> form.target, payload |-> Payload(form),
                  sound |-> /\ Typed({form.interval, form.timeout, form.expected, form.warn},
                                     MaxColumn)
                            /\ form.name \notin Long /\ Encrypts(Payload(form)),
                  silent |-> form.host = None /\ form.dsn = None]
    /\ ServerSame /\ UNCHANGED <<form, test, work>>

\* The test sends the same payload; its answer is shown until the next one.
Test ==
    /\ form # None /\ CanTest(form)
    /\ ~Sent(test)
    /\ test' = [st |-> "sent", target |-> form.target, payload |-> Payload(form),
                sound |-> /\ Typed({form.timeout, form.expected, form.warn}, MaxInt)
                          /\ form.type = "database" => Encrypts(Payload(form))]
    /\ ServerSame /\ UNCHANGED <<form, saving, work>>

---------------------------------------------------------------------------
(* The requests.                                                             *)

SaveAccepted(p) ==
    IF p.target = 0 THEN Create(p)
    ELSE Bound(p) /\ Encrypts(p) /\ Fits(p) /\ p.target \in DOMAIN rows

\* The handler runs; its answer arrives or is lost.
HandleSave ==
    /\ Sent(saving) /\ SaveAccepted(saving.payload)
    /\ LET p == saving.payload
       IN  IF p.target = 0
           THEN /\ nextId \in Id /\ nextId' = nextId + 1
                /\ rows' = [i \in DOMAIN rows \cup {nextId} |->
                                IF i = nextId THEN CreatedRow(p) ELSE rows[i]]
           ELSE /\ rows' = [rows EXCEPT ![p.target] = UpdatedRow(@, p)]
                /\ nextId' = nextId
    /\ \E st \in {"ok", "err"} : saving' = Answered(saving, st)
    /\ UNCHANGED <<form, test, work>>

\* The handler refuses, or the request never reaches it.
RefuseSave ==
    /\ Sent(saving)
    /\ \/ ~SaveAccepted(saving.payload) /\ saving' = Answered(saving, "refused")
       \/ saving' = Answered(saving, "err")
    /\ ServerSame /\ UNCHANGED <<form, test, work>>

\* A success closes whatever form is open by then; a failure shows nothing.
SettleSave ==
    /\ saving # None /\ ~Sent(saving)
    /\ saving' = None
    /\ form' = IF saving.st = "ok" THEN None ELSE form
    /\ test' = IF saving.st = "ok" THEN None ELSE test
    /\ ServerSame /\ UNCHANGED work

AnswerTest ==
    /\ Sent(test)
    /\ \E st \in {"err"} \cup IF TestAccepted(test.payload) THEN {"shown"} ELSE {"refused"} :
            test' = Answered(test, st)
    /\ ServerSame /\ UNCHANGED <<form, saving, work>>

DismissTest ==
    /\ test # None /\ ~Sent(test) /\ test' = None
    /\ ServerSame /\ UNCHANGED <<form, saving, work>>

---------------------------------------------------------------------------
(* Other consoles.                                                           *)

\* Faulty variant: the bulk form offers every type.
BulkTypesWithDatabase == Type

\* The types the bulk form offers.
BulkTypes == Type \ {"database"}

\* Another console deletes a monitor, edits one with a form of its own, or
\* changes the type of one in bulk.
OtherDeletes(i) == rows' = [j \in DOMAIN rows \ {i} |-> rows[j]]

OtherEdits(i) ==
    \E t \in Type, d \in DSN \cup {None} :
        LET f == [FormOf(i) EXCEPT !.type = t, !.mode = "dsn", !.dsn = d]
        IN  /\ CanSave(f) /\ SaveAccepted(Payload(f))
            /\ rows' = [rows EXCEPT ![i] = UpdatedRow(@, Payload(f))]

OtherRetypes(i) == \E t \in BulkTypes : rows' = [rows EXCEPT ![i].type = t]

OtherWrites ==
    /\ \E i \in DOMAIN rows : OtherDeletes(i) \/ OtherEdits(i) \/ OtherRetypes(i)
    /\ Works /\ UNCHANGED <<nextId, form, saving, test>>

---------------------------------------------------------------------------
FormInit ==
    /\ rows = InitRows
    /\ nextId = Cardinality(DOMAIN InitRows) + 1
    /\ form = None /\ saving = None /\ test = None /\ work = 0

FormNext ==
    \/ AddMonitor \/ EditMonitor \/ Close \/ Fill \/ Save \/ Test
    \/ HandleSave \/ RefuseSave \/ SettleSave \/ AnswerTest \/ DismissTest
    \/ OtherWrites

---------------------------------------------------------------------------
(* Properties.                                                               *)

\* A request of the form is refused only when its monitor is gone, or for what
\* the form does not look at: a fraction, a number or name its column cannot
\* hold, or a connection string while the server has no key.  For the rest the
\* conditions of the buttons cover what Create, Update and TestConnection ask
\* for, whatever changed while the form was open (canSave and canTest in
\* MonitorModal).
AcceptedByServer ==
    LET Refused(c) == c # None /\ c.st = "refused"
        Excused(c) == ~c.sound \/ (c.target # 0 /\ c.target \notin DOMAIN rows)
    IN  /\ Refused(saving) => Excused(saving)
        /\ Refused(test) => Excused(test)

\* A database monitor has a connection string, unless it comes from a
\* backup: Update never asks for one, so the form of every console and the
\* list of types of the bulk form have to (dbInvalid, BulkEditModal).
DatabaseHasDSN ==
    \A i \in DOMAIN rows :
        rows[i].type = "database" => rows[i].dsn # None \/ rows[i].restored

\* Saving an edit in which the user gave neither a host nor a connection
\* string leaves the stored one as it is: the fields are empty when the form
\* opens and a string built from them would overwrite it (dbInvalid,
\* buildDSN, the CASE of Update).
StoredDSNKept ==
    [][HandleSave /\ saving.silent /\ saving.target # 0
        => rows'[saving.target].dsn = rows[saving.target].dsn]_formVars
===========================================================================
