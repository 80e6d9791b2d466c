--------------------------- MODULE Backup_proofs ---------------------------
(* The properties of MonitorForm and Backup for every set of monitors and    *)
(* files, and any number of forms, requests and imports.                     *)
EXTENDS Backup, FiniteSetTheorems, TLAPS

RowFields == {"name", "type", "driver", "dsn", "url", "interval", "timeout", "expected",
              "warn", "restored"}
FormFields == {"target", "stored", "name", "url", "type", "interval", "timeout", "expected",
               "warn", "driver", "dsn", "mode", "host", "port", "typed"}
EntryFields == {"name", "url", "type", "interval", "timeout", "expected", "items"}
TabFields == {"file", "confirmed", "loading", "result"}
ImportFields == {"st", "file", "left", "new", "items", "here", "alone"}

---------------------------------------------------------------------------
(* The monitors.  What a form or a request knows of its monitor: its id was  *)
(* given by the sequence, to no row an import holds back, and a connection   *)
(* string that was stored stays until the monitor goes.                      *)

Known(i) ==
    /\ i \in Nat /\ i < nextId
    /\ \A n \in DOMAIN imports : i \notin DOMAIN imports[n].new

HasDSN(i) == i \in DOMAIN rows => rows[i].dsn # None

GoodRow(r) ==
    /\ DOMAIN r = RowFields
    /\ r.driver \in Driver \cup {None}
    /\ r.interval \in Int /\ r.timeout \in Int /\ r.expected \in Int /\ r.warn \in Int
    /\ r.type = "database" => r.dsn # None \/ r.restored

RowsOK ==
    /\ nextId \in Nat \ {0}
    /\ \A i \in DOMAIN rows : i # 0 /\ Known(i) /\ GoodRow(rows[i])

\* The rows an import will commit.
NewOK ==
    \A n \in DOMAIN imports :
        /\ DOMAIN imports[n] = ImportFields
        /\ \A i \in DOMAIN imports[n].new :
            /\ i \in Nat \ {0} /\ i < nextId /\ GoodRow(imports[n].new[i])
            /\ \A m \in DOMAIN imports \ {n} : i \notin DOMAIN imports[m].new

Boxed(x) == x \in Int \cup {None}

GoodForm(f) ==
    /\ DOMAIN f = FormFields
    /\ Known(f.target)
    /\ f.stored => f.target # 0 /\ HasDSN(f.target)
    /\ f.driver \in Driver \cup {None} /\ f.host \in Host \cup {None}
    /\ f.port \in Nat \cup {None} /\ f.mode \in {"fields", "dsn"}
    /\ Boxed(f.interval) /\ Boxed(f.timeout) /\ Boxed(f.expected) /\ Boxed(f.warn)

\* A database that is saved or tested has a string: its own, or the stored one.
Connected(p) ==
    p.type = "database" => p.dsn # None \/ (p.target # 0 /\ HasDSN(p.target))

GoodPayload(p) ==
    /\ p.driver \in Driver \cup {None}
    /\ p.interval \in Int /\ p.timeout \in Int /\ p.expected \in Int /\ p.warn \in Int
    /\ Connected(p)

Excused(c) == ~c.sound \/ (c.target # 0 /\ c.target \notin DOMAIN rows)

GoodSave(c) ==
    /\ Known(c.target)
    /\ c.st = "refused" => Excused(c)
    /\ c.st = "sent" =>
        /\ c.payload.target = c.target /\ GoodPayload(c.payload)
        /\ c.sound => /\ Bound(c.payload) /\ Encrypts(c.payload) /\ Fits(c.payload)
                      /\ c.target = 0 => Create(c.payload)
        /\ c.silent => c.payload.dsn = None

GoodTest(c) ==
    /\ Known(c.target)
    /\ c.st = "refused" => Excused(c)
    /\ c.st = "sent" =>
        /\ c.payload.target = c.target /\ GoodPayload(c.payload)
        /\ c.sound => /\ Binds(c.payload.timeout) /\ Binds(c.payload.expected)
                      /\ Binds(c.payload.warn)
                      /\ c.payload.type = "database" => Encrypts(c.payload)

FormInv ==
    /\ RowsOK /\ NewOK
    /\ form # None => GoodForm(form)
    /\ saving # None => GoodSave(saving)
    /\ test # None => GoodTest(test)

\* What a step may do to the monitors: a row stays or goes, or is new, or is
\* one an import held back; ids held back are new.
Moves ==
    /\ nextId' \in Nat /\ nextId' >= nextId
    /\ \A i \in DOMAIN rows' :
        \/ i \in DOMAIN rows /\ (rows[i].dsn # None => rows'[i].dsn # None)
        \/ i = nextId
        \/ \E n \in DOMAIN imports : i \in DOMAIN imports[n].new
    /\ \A n \in DOMAIN imports' : \A i \in DOMAIN imports'[n].new :
        i = nextId \/ \E m \in DOMAIN imports : i \in DOMAIN imports[m].new

LEMMA KnownMoves ==
  ASSUME RowsOK, Moves
  PROVE  /\ \A i : Known(i) => Known(i)'
         /\ \A i : Known(i) /\ HasDSN(i) => HasDSN(i)'
         /\ \A i : Known(i) /\ i \notin DOMAIN rows => i \notin DOMAIN rows'
<1>1. nextId \in Nat /\ nextId' \in Nat /\ nextId' >= nextId
  BY DEF RowsOK, Moves
<1>2. ASSUME NEW i, Known(i) PROVE Known(i)'
  <2>1. /\ i \in Nat /\ i < nextId /\ i # nextId
        /\ \A n \in DOMAIN imports : i \notin DOMAIN imports[n].new
    BY <1>1, <1>2 DEF Known
  <2>2. i < nextId'
    BY <1>1, <2>1
  <2>3. \A n \in DOMAIN imports' : i \notin DOMAIN imports'[n].new
    BY <2>1 DEF Moves
  <2> QED BY <2>1, <2>2, <2>3 DEF Known
<1>3. ASSUME NEW i, Known(i)
      PROVE  /\ HasDSN(i) => HasDSN(i)'
             /\ i \notin DOMAIN rows => i \notin DOMAIN rows'
  <2>1. i # nextId /\ \A n \in DOMAIN imports : i \notin DOMAIN imports[n].new
    BY <1>1, <1>3 DEF Known
  <2> QED BY <2>1 DEF Moves, HasDSN
<1> QED BY <1>2, <1>3

\* What is known of a form or a request stays true.
LEMMA GoodMoves ==
  ASSUME RowsOK, Moves
  PROVE  /\ \A f : GoodForm(f) => GoodForm(f)'
         /\ \A c : GoodSave(c) => GoodSave(c)'
         /\ \A c : GoodTest(c) => GoodTest(c)'
<1>1. ASSUME NEW f, GoodForm(f) PROVE GoodForm(f)'
  <2>1. Known(f.target)' /\ (f.stored => HasDSN(f.target)')
    BY <1>1, KnownMoves DEF GoodForm
  <2> QED BY <1>1, <2>1 DEF GoodForm, Boxed
<1>2. ASSUME NEW c, Known(c.target) PROVE Known(c.target)' /\ (Excused(c) => Excused(c)')
  BY <1>2, KnownMoves DEF Excused
<1>3. ASSUME NEW p, Known(p.target), GoodPayload(p) PROVE GoodPayload(p)'
  <2>1. Connected(p)'
    BY <1>3, KnownMoves DEF GoodPayload, Connected
  <2> QED BY <1>3, <2>1 DEF GoodPayload
<1>4. ASSUME NEW c, GoodSave(c) PROVE GoodSave(c)'
  <2>1. c.st = "sent" => GoodPayload(c.payload)'
    BY <1>3, <1>4 DEF GoodSave
  <2> QED BY <1>2, <1>4, <2>1 DEF GoodSave
<1>5. ASSUME NEW c, GoodTest(c) PROVE GoodTest(c)'
  <2>1. c.st = "sent" => GoodPayload(c.payload)'
    BY <1>3, <1>5 DEF GoodTest
  <2> QED BY <1>2, <1>5, <2>1 DEF GoodTest
<1> QED BY <1>1, <1>4, <1>5

LEMMA FormKept ==
  ASSUME FormInv, Moves, RowsOK', NewOK',
         form' # None => GoodForm(form'), saving' # None => GoodSave(saving'),
         test' # None => GoodTest(test')
  PROVE  FormInv'
<1>1. (form' # None => GoodForm(form)') /\ (saving' # None => GoodSave(saving)')
      /\ (test' # None => GoodTest(test)')
  BY GoodMoves DEF FormInv
<1> QED BY <1>1 DEF FormInv

\* The ids the imports hold back stay as they are.
SameImports ==
    /\ DOMAIN imports' = DOMAIN imports
    /\ \A n \in DOMAIN imports :
        DOMAIN imports'[n] = ImportFields /\ imports'[n].new = imports[n].new

\* Steps that write no monitor.
LEMMA Quiet ==
  ASSUME FormInv, rows' = rows, nextId' = nextId, SameImports
  PROVE  Moves /\ RowsOK' /\ NewOK'
BY DEF FormInv, Moves, RowsOK, NewOK, Known, GoodRow, SameImports

LEMMA RowWritten ==
  ASSUME FormInv, nextId' = nextId, SameImports,
         NEW i \in DOMAIN rows, NEW r, rows' = [rows EXCEPT ![i] = r],
         GoodRow(r), rows[i].dsn # None => r.dsn # None
  PROVE  Moves /\ RowsOK' /\ NewOK'
<1>1. DOMAIN rows' = DOMAIN rows /\ \A j \in DOMAIN rows : rows'[j] = IF j = i THEN r ELSE rows[j]
  OBVIOUS
<1>2. Moves
  BY <1>1 DEF FormInv, Moves, RowsOK, SameImports
<1>3. \A j \in DOMAIN rows' : j # 0 /\ Known(j)' /\ GoodRow(rows'[j])
  BY <1>1 DEF FormInv, RowsOK, Known, SameImports
<1> QED BY <1>2, <1>3 DEF FormInv, RowsOK, NewOK, SameImports, GoodRow

LEMMA RowDropped ==
  ASSUME FormInv, nextId' = nextId, SameImports,
         NEW i, rows' = [j \in DOMAIN rows \ {i} |-> rows[j]]
  PROVE  Moves /\ RowsOK' /\ NewOK'
<1>1. \A j \in DOMAIN rows' : j \in DOMAIN rows /\ rows'[j] = rows[j]
  OBVIOUS
<1>2. Moves
  BY <1>1 DEF FormInv, Moves, RowsOK, SameImports
<1>3. \A j \in DOMAIN rows' : j # 0 /\ Known(j)' /\ GoodRow(rows'[j])
  BY <1>1 DEF FormInv, RowsOK, Known, SameImports
<1> QED BY <1>2, <1>3 DEF FormInv, RowsOK, NewOK, SameImports, GoodRow

LEMMA RowAdded ==
  ASSUME FormInv, nextId' = nextId + 1, SameImports, NEW r, GoodRow(r),
         rows' = [j \in DOMAIN rows \cup {nextId} |-> IF j = nextId THEN r ELSE rows[j]]
  PROVE  Moves /\ RowsOK' /\ NewOK'
<1> PICK k : k = nextId
  OBVIOUS
<1>1. DOMAIN rows' = DOMAIN rows \cup {k}
      /\ \A j \in DOMAIN rows' : rows'[j] = IF j = k THEN r ELSE rows[j]
  OBVIOUS
<1>2. nextId \in Nat \ {0} /\ nextId' \in Nat \ {0}
  BY DEF FormInv, RowsOK
<1>3. Moves
  BY <1>1, <1>2 DEF FormInv, Moves, RowsOK, SameImports
<1>4. NewOK'
  BY <1>2 DEF FormInv, NewOK, SameImports, GoodRow
<1>5. Known(k)'
  BY <1>2 DEF FormInv, NewOK, SameImports, Known
<1>6. \A j \in DOMAIN rows : j # k /\ Known(j)'
  BY <1>2 DEF FormInv, RowsOK, SameImports, Known
<1>7. \A j \in DOMAIN rows' : j # 0 /\ Known(j)' /\ GoodRow(rows'[j])
  BY <1>1, <1>2, <1>5, <1>6 DEF FormInv, RowsOK
<1> QED BY <1>2, <1>3, <1>4, <1>7 DEF RowsOK, GoodRow

LEMMA Assumed ==
  /\ \A d \in Driver : DefaultPort[d] \in Nat /\ DefaultTimeout[d] \in Int
  /\ None \notin Host /\ None \notin BuiltDSN /\ None \notin Driver /\ Port \subseteq Nat
  /\ \A x \in Box : Boxed(x)
  /\ Secs(60) \in Int /\ Secs(30) \in Int /\ Secs(200) \in Int
<1>1. Secs(60) = 120 /\ Secs(30) = 60 /\ Secs(200) = 400 /\ Secs(10) = 20 /\ Secs(5) = 10
  BY DEF Secs
<1>2. ASSUME NEW d \in Driver PROVE DefaultPort[d] \in Nat /\ DefaultTimeout[d] \in Int
  <2>1. DefaultPort[d] = IF d = "redis" THEN 6379 ELSE 5432
    BY <1>2 DEF DefaultPort
  <2>2. DefaultTimeout[d] = IF d = "redis" THEN Secs(5) ELSE Secs(10)
    BY <1>2 DEF DefaultTimeout
  <2> QED BY <1>1, <2>1, <2>2
<1>3. /\ None \notin Host /\ None \notin BuiltDSN /\ None \notin Driver
      /\ Port \subseteq Nat /\ Box \subseteq Int \cup {None}
  BY FormAssumption
<1> QED BY <1>1, <1>2, <1>3 DEF Boxed

---------------------------------------------------------------------------
(* The form.                                                                 *)

LEMMA EmptyGood == ASSUME RowsOK, NewOK PROVE GoodForm(EmptyForm)
<1>1. Known(0)
  BY DEF RowsOK, NewOK, Known
<1>2. "postgresql" \in Driver
  BY DEF Driver
<1> QED BY <1>1, <1>2, Assumed DEF EmptyForm, GoodForm, FormFields, Boxed

LEMMA CopyGood == ASSUME RowsOK, NewOK, NEW i \in DOMAIN rows PROVE GoodForm(FormOf(i))
<1> PICK f : f = FormOf(i)
  OBVIOUS
<1>1. DOMAIN f = FormFields
  BY DEF FormOf, EmptyForm, FormFields
<1>2. /\ f.target = i /\ f.stored = (rows[i].dsn # None)
      /\ f.interval = rows[i].interval /\ f.timeout = rows[i].timeout
      /\ f.expected = rows[i].expected /\ f.warn = rows[i].warn /\ f.driver = rows[i].driver
  BY DEF FormOf, EmptyForm
<1>3. f.mode = "fields" /\ f.host = None /\ f.port = None
  BY DEF FormOf, EmptyForm
<1>4. i # 0 /\ Known(i) /\ GoodRow(rows[i])
  BY DEF RowsOK
<1> QED BY <1>1, <1>2, <1>3, <1>4 DEF GoodForm, GoodRow, HasDSN, Boxed

LEMMA FilledGood ==
  ASSUME NEW f, GoodForm(f)
  PROVE  /\ \A v : /\ GoodForm([f EXCEPT !.name = v]) /\ GoodForm([f EXCEPT !.url = v])
                   /\ GoodForm([f EXCEPT !.type = v]) /\ GoodForm([f EXCEPT !.typed = v])
                   /\ GoodForm([f EXCEPT !.dsn = v])
         /\ \A v : Boxed(v) => /\ GoodForm([f EXCEPT !.interval = v])
                               /\ GoodForm([f EXCEPT !.timeout = v])
                               /\ GoodForm([f EXCEPT !.expected = v])
                               /\ GoodForm([f EXCEPT !.warn = v])
         /\ \A v \in {"fields", "dsn"} : GoodForm([f EXCEPT !.mode = v])
         /\ \A v \in Host \cup {None} : GoodForm([f EXCEPT !.host = v])
         /\ \A v \in Nat \cup {None} : GoodForm([f EXCEPT !.port = v])
         /\ \A d \in Driver : \A p \in Nat \cup {None} : \A t :
                Boxed(t) => GoodForm([f EXCEPT !.driver = d, !.port = p, !.timeout = t])
<1>1. DOMAIN f = FormFields
  BY DEF GoodForm
<1>2. \A v : /\ GoodForm([f EXCEPT !.name = v]) /\ GoodForm([f EXCEPT !.url = v])
             /\ GoodForm([f EXCEPT !.type = v]) /\ GoodForm([f EXCEPT !.typed = v])
             /\ GoodForm([f EXCEPT !.dsn = v])
  BY <1>1 DEF GoodForm, FormFields
<1>3. \A v : Boxed(v) => /\ GoodForm([f EXCEPT !.interval = v])
                         /\ GoodForm([f EXCEPT !.timeout = v])
                         /\ GoodForm([f EXCEPT !.expected = v])
                         /\ GoodForm([f EXCEPT !.warn = v])
  BY <1>1 DEF GoodForm, FormFields
<1>4. /\ \A v \in {"fields", "dsn"} : GoodForm([f EXCEPT !.mode = v])
      /\ \A v \in Host \cup {None} : GoodForm([f EXCEPT !.host = v])
      /\ \A v \in Nat \cup {None} : GoodForm([f EXCEPT !.port = v])
  BY <1>1 DEF GoodForm, FormFields
<1>5. \A d \in Driver : \A p \in Nat \cup {None} : \A t :
        Boxed(t) => GoodForm([f EXCEPT !.driver = d, !.port = p, !.timeout = t])
  BY <1>1 DEF GoodForm, FormFields
<1> QED BY <1>2, <1>3, <1>4, <1>5

LEMMA FillGood ==
  ASSUME form # None, GoodForm(form), Fill
  PROVE  GoodForm(form') /\ UNCHANGED <<rows, nextId, saving, test>>
<1>1. ASSUME NEW f, GoodForm(f), Set(f)
      PROVE  GoodForm(form') /\ UNCHANGED <<rows, nextId, saving, test>>
  BY <1>1, FilledGood DEF Set, ServerSame
<1>2. CASE TypeText BY <1>1, <1>2, FilledGood DEF TypeText
<1>3. CASE ChangeType
  <2>1. PICK v \in Type : Set([form EXCEPT !.type = v])
    BY <1>3 DEF ChangeType
  <2>2. GoodForm([form EXCEPT !.type = v])
    BY FilledGood
  <2> QED BY <1>1, <2>1, <2>2
<1>4. CASE TypeNumber
  <2>1. PICK v \in Box :
            \/ Set([form EXCEPT !.interval = v]) \/ Set([form EXCEPT !.timeout = v])
            \/ Set([form EXCEPT !.expected = v]) \/ Set([form EXCEPT !.warn = v])
    BY <1>4 DEF TypeNumber
  <2>2. Boxed(v)
    BY Assumed
  <2>3. /\ GoodForm([form EXCEPT !.interval = v]) /\ GoodForm([form EXCEPT !.timeout = v])
        /\ GoodForm([form EXCEPT !.expected = v]) /\ GoodForm([form EXCEPT !.warn = v])
    BY <2>2, FilledGood
  <2> QED BY <1>1, <2>1, <2>3
<1>5. CASE TypeConnection BY <1>1, <1>5, FilledGood, Assumed DEF TypeConnection
<1>6. CASE ChangeDriver
  <2>1. PICK d \in Driver :
          Set([form EXCEPT
            !.driver = d,
            !.port = IF @ = None \/ \E e \in Driver : @ = DefaultPort[e]
                     THEN DefaultPort[d] ELSE @,
            !.timeout = IF @ # None /\ (@ = Secs(30) \/ \E e \in Driver : @ = DefaultTimeout[e])
                        THEN DefaultTimeout[d] ELSE @])
    BY <1>6 DEF ChangeDriver
  <2>2. PICK p : p = IF form.port = None \/ \E e \in Driver : form.port = DefaultPort[e]
                     THEN DefaultPort[d] ELSE form.port
    OBVIOUS
  <2>3. PICK t : t = IF /\ form.timeout # None
                        /\ \/ form.timeout = Secs(30)
                           \/ \E e \in Driver : form.timeout = DefaultTimeout[e]
                     THEN DefaultTimeout[d] ELSE form.timeout
    OBVIOUS
  <2>4. p \in Nat \cup {None} /\ Boxed(t)
    BY <2>2, <2>3, Assumed DEF GoodForm, Boxed
  <2>5. Set([form EXCEPT !.driver = d, !.port = p, !.timeout = t])
    BY <2>1, <2>2, <2>3
  <2>6. GoodForm([form EXCEPT !.driver = d, !.port = p, !.timeout = t])
    BY <2>4, FilledGood
  <2> QED BY <1>1, <2>5, <2>6
<1> QED BY <1>2, <1>3, <1>4, <1>5, <1>6 DEF Fill

\* What the form sends.
LEMMA PayloadGood ==
  ASSUME NEW f, GoodForm(f), ~DbInvalid(f)
  PROVE  /\ Payload(f).target = f.target /\ GoodPayload(Payload(f))
         /\ f.host = None /\ f.dsn = None => Payload(f).dsn = None
<1> PICK p : p = Payload(f)
  OBVIOUS
<1>1. /\ p.target = f.target /\ p.type = f.type /\ p.driver = f.driver
      /\ p.interval = Num(f.interval) /\ p.timeout = Num(f.timeout)
      /\ p.expected = Num(f.expected)
      /\ p.warn = IF Num(f.warn) = 0 THEN Secs(30) ELSE f.warn
      /\ p.dsn = IF f.type = "database" /\ f.mode = "fields" THEN BuildDSN(f) ELSE f.dsn
  BY DEF Payload
<1>2. p.interval \in Int /\ p.timeout \in Int /\ p.expected \in Int /\ p.warn \in Int
  BY <1>1, Assumed DEF Num, GoodForm, Boxed
<1>3. ASSUME f.type = "database", f.mode = "fields" PROVE p.dsn # None /\ f.host # None
  <2>1. f.driver \in Driver /\ f.host \in Host
    BY <1>3 DEF DbInvalid, GoodForm
  <2>2. BuildDSN(f) \in BuiltDSN
    BY <2>1, Assumed DEF BuildDSN, BuiltDSN, GoodForm
  <2> QED BY <1>1, <1>3, <2>1, <2>2, Assumed
<1>4. ASSUME f.type = "database", f.mode = "dsn" PROVE p.dsn # None \/ f.stored
  BY <1>1, <1>4 DEF DbInvalid
<1>5. Connected(p)
  BY <1>1, <1>3, <1>4 DEF Connected, GoodForm
<1> QED BY <1>1, <1>2, <1>3, <1>5 DEF GoodPayload, GoodForm

\* The numbers the form fills in by itself fit everywhere.
LEMMA DefaultsFit ==
  /\ \A x \in {0, Secs(30), Secs(60), Secs(200)} :
        x \in Int /\ Whole(x) /\ Within(x, MaxColumn)
  /\ \A x \in Int : Within(x, MaxColumn) => Within(x, MaxInt)
  /\ Secs(30) # 0
BY FormAssumption DEF Whole, Secs, Within

LEMMA CreatedFits ==
  ASSUME NEW p, GoodPayload(p), Fits(p)
  PROVE  Fits(CreatedRow(p))
<1> PICK r : r = CreatedRow(p)
  OBVIOUS
<1>1. /\ r.name = p.name /\ r.warn = p.warn
      /\ r.interval = Positive(p.interval, Secs(60)) /\ r.timeout = Positive(p.timeout, Secs(30))
      /\ r.expected = Positive(p.expected, Secs(200))
  BY DEF CreatedRow
<1> QED BY <1>1, DefaultsFit DEF Fits, Numbers, Positive

LEMMA SaveGood ==
  ASSUME NEW f, GoodForm(f), CanSave(f),
         NEW c, c = [st |-> "sent", target |-> f.target, payload |-> Payload(f),
                     sound |-> /\ Typed({f.interval, f.timeout, f.expected, f.warn}, MaxColumn)
                               /\ f.name \notin Long /\ Encrypts(Payload(f)),
                     silent |-> f.host = None /\ f.dsn = None]
  PROVE  GoodSave(c)
<1>1. ~DbInvalid(f) /\ f.name # None /\ (f.type = "database" \/ f.url # None)
  BY DEF CanSave
<1> PICK p : p = Payload(f)
  OBVIOUS
<1>2. /\ p.target = f.target /\ GoodPayload(p)
      /\ f.host = None /\ f.dsn = None => p.dsn = None
  BY <1>1, PayloadGood
<1>3. /\ c.st = "sent" /\ c.target = f.target /\ c.payload = p
      /\ c.sound = (/\ Typed({f.interval, f.timeout, f.expected, f.warn}, MaxColumn)
                    /\ f.name \notin Long /\ Encrypts(p))
      /\ c.silent = (f.host = None /\ f.dsn = None)
  OBVIOUS
<1>4. /\ p.name = f.name /\ p.type = f.type /\ p.driver = f.driver
      /\ p.interval = Num(f.interval) /\ p.timeout = Num(f.timeout)
      /\ p.expected = Num(f.expected)
      /\ p.warn = IF Num(f.warn) = 0 THEN Secs(30) ELSE f.warn
      /\ f.type # "database" => p.url = f.url
  BY DEF Payload
<1>5. ASSUME c.sound PROVE Bound(p) /\ Encrypts(p) /\ Fits(p)
  <2>1. \A x \in {p.interval, p.timeout, p.expected, p.warn} :
            x \in Int /\ Whole(x) /\ Within(x, MaxColumn)
    BY <1>2, <1>3, <1>4, <1>5, DefaultsFit DEF GoodPayload, Typed, Num
  <2>2. \A x \in {p.interval, p.timeout, p.expected, p.warn} : Binds(x)
    BY <2>1, DefaultsFit DEF Binds
  <2> QED BY <1>3, <1>4, <1>5, <2>1, <2>2 DEF Bound, Fits, Numbers
<1>6. ASSUME c.sound, c.target = 0 PROVE Create(p)
  <2>1. f.type = "database" => p.dsn # None /\ p.driver # None
    BY <1>1, <1>2, <1>3, <1>4, <1>6 DEF GoodPayload, Connected, DbInvalid
  <2>2. Fits(CreatedRow(p))
    BY <1>2, <1>5, <1>6, CreatedFits
  <2> QED BY <1>1, <1>4, <1>5, <1>6, <2>1, <2>2 DEF Create
<1> QED BY <1>2, <1>3, <1>5, <1>6 DEF GoodSave, GoodForm

LEMMA TestGood ==
  ASSUME NEW f, GoodForm(f), CanTest(f),
         NEW c, c = [st |-> "sent", target |-> f.target, payload |-> Payload(f),
                     sound |-> /\ Typed({f.timeout, f.expected, f.warn}, MaxInt)
                               /\ f.type = "database" => Encrypts(Payload(f))]
  PROVE  GoodTest(c)
<1> PICK p : p = Payload(f)
  OBVIOUS
<1>1. p.target = f.target /\ GoodPayload(p)
  BY PayloadGood DEF CanTest
<1>2. /\ c.st = "sent" /\ c.target = f.target /\ c.payload = p
      /\ c.sound = (/\ Typed({f.timeout, f.expected, f.warn}, MaxInt)
                    /\ f.type = "database" => Encrypts(p))
  OBVIOUS
<1>3. /\ p.timeout = Num(f.timeout) /\ p.expected = Num(f.expected) /\ p.type = f.type
      /\ p.warn = IF Num(f.warn) = 0 THEN Secs(30) ELSE f.warn
  BY DEF Payload
<1>4. c.sound => Binds(p.timeout) /\ Binds(p.expected) /\ Binds(p.warn)
  BY <1>2, <1>3, DefaultsFit DEF Binds, Typed, Num
<1> QED BY <1>1, <1>2, <1>3, <1>4 DEF GoodTest, GoodForm

---------------------------------------------------------------------------
(* The handlers.                                                             *)

LEMMA CreatedGood ==
  ASSUME NEW p, GoodPayload(p), Create(p)
  PROVE  GoodRow(CreatedRow(p))
<1> PICK r : r = CreatedRow(p)
  OBVIOUS
<1>1. DOMAIN r = RowFields
  BY DEF CreatedRow, RowFields
<1>2. /\ r.type = p.type /\ r.driver = p.driver /\ r.dsn = p.dsn
      /\ r.interval = Positive(p.interval, Secs(60)) /\ r.timeout = Positive(p.timeout, Secs(30))
      /\ r.expected = Positive(p.expected, Secs(200)) /\ r.warn = p.warn
  BY DEF CreatedRow
<1>3. r.interval \in Int /\ r.timeout \in Int /\ r.expected \in Int /\ r.warn \in Int
  BY <1>2, Assumed DEF Positive, GoodPayload
<1>4. r.type = "database" => r.dsn # None
  BY <1>2 DEF Create
<1> QED BY <1>1, <1>2, <1>3, <1>4 DEF GoodRow, GoodPayload

LEMMA UpdatedGood ==
  ASSUME NEW r, GoodRow(r), NEW p, GoodPayload(p),
         p.type = "database" => p.dsn # None \/ r.dsn # None
  PROVE  /\ GoodRow(UpdatedRow(r, p))
         /\ r.dsn # None => UpdatedRow(r, p).dsn # None
         /\ p.dsn = None => UpdatedRow(r, p).dsn = r.dsn
<1> PICK u : u = UpdatedRow(r, p)
  OBVIOUS
<1>1. DOMAIN u = RowFields
  BY DEF UpdatedRow, GoodRow
<1>2. /\ u.type = p.type /\ u.driver = Kept(p.driver, r.driver) /\ u.dsn = Kept(p.dsn, r.dsn)
      /\ u.interval = Positive(p.interval, r.interval) /\ u.timeout = Positive(p.timeout, r.timeout)
      /\ u.expected = Positive(p.expected, r.expected) /\ u.warn = Positive(p.warn, r.warn)
      /\ u.restored = r.restored
  BY DEF UpdatedRow, GoodRow, RowFields
<1>3. u.interval \in Int /\ u.timeout \in Int /\ u.expected \in Int /\ u.warn \in Int
  BY <1>2 DEF Positive, GoodPayload, GoodRow
<1>4. /\ u.driver \in Driver \cup {None}
      /\ u.dsn = IF p.dsn = None THEN r.dsn ELSE p.dsn
  BY <1>2 DEF Kept, GoodPayload, GoodRow
<1> QED BY <1>1, <1>2, <1>3, <1>4 DEF GoodRow

LEMMA AnsweredSave ==
  ASSUME NEW c, GoodSave(c), NEW st, st # "sent", st = "refused" => Excused(c)
  PROVE  GoodSave(Answered(c, st))
<1> PICK a : a = Answered(c, st)
  OBVIOUS
<1>1. a.st = st /\ a.target = c.target /\ a.sound = c.sound
  BY DEF Answered
<1> QED BY <1>1 DEF GoodSave, Excused

LEMMA HandleSaveGood ==
  ASSUME FormInv, HandleSave, SameImports PROVE FormInv'
<1> PICK c : c = saving
  OBVIOUS
<1>1. saving # None /\ c.st = "sent" /\ GoodSave(c) /\ SaveAccepted(c.payload)
  BY DEF HandleSave, Sent, FormInv
<1> PICK p : p = c.payload
  OBVIOUS
<1>2. p.target = c.target /\ GoodPayload(p) /\ form' = form /\ test' = test
  BY <1>1 DEF GoodSave, HandleSave
<1>3. GoodSave(saving')
  <2>1. PICK st \in {"ok", "err"} : saving' = Answered(saving, st)
    BY DEF HandleSave
  <2> QED BY <1>1, <2>1, AnsweredSave
<1>4. Moves /\ RowsOK' /\ NewOK'
  <2>1. CASE p.target = 0
    <3>1. /\ nextId' = nextId + 1
          /\ rows' = [i \in DOMAIN rows \cup {nextId} |->
                        IF i = nextId THEN CreatedRow(p) ELSE rows[i]]
      BY <2>1 DEF HandleSave
    <3>2. GoodRow(CreatedRow(p))
      BY <1>1, <1>2, <2>1, CreatedGood DEF SaveAccepted
    <3> QED BY <3>1, <3>2, RowAdded
  <2>2. CASE p.target # 0
    <3>1. /\ nextId' = nextId /\ p.target \in DOMAIN rows
          /\ rows' = [rows EXCEPT ![p.target] = UpdatedRow(@, p)]
      BY <1>1, <2>2 DEF HandleSave, SaveAccepted
    <3>2. rows' = [rows EXCEPT ![p.target] = UpdatedRow(rows[p.target], p)]
      BY <3>1
    <3>3. GoodRow(rows[p.target])
      BY <3>1 DEF FormInv, RowsOK
    <3>4. p.type = "database" => p.dsn # None \/ rows[p.target].dsn # None
      BY <1>2, <3>1 DEF GoodPayload, Connected, HasDSN
    <3>5. /\ GoodRow(UpdatedRow(rows[p.target], p))
          /\ rows[p.target].dsn # None => UpdatedRow(rows[p.target], p).dsn # None
      BY <1>2, <3>3, <3>4, UpdatedGood
    <3> QED BY <3>1, <3>2, <3>5, RowWritten
  <2> QED BY <2>1, <2>2
<1>5. (form' # None => GoodForm(form')) /\ (test' # None => GoodTest(test'))
  BY <1>2 DEF FormInv
<1> QED BY <1>3, <1>4, <1>5, FormKept

LEMMA RefuseSaveGood ==
  ASSUME FormInv, RefuseSave, SameImports PROVE FormInv'
<1>1. saving # None /\ saving.st = "sent" /\ GoodSave(saving)
  BY DEF RefuseSave, Sent, FormInv
<1>2. rows' = rows /\ nextId' = nextId /\ form' = form /\ test' = test
  BY DEF RefuseSave, ServerSame
<1>3. GoodSave(saving')
  <2>1. CASE saving' = Answered(saving, "err")
    BY <1>1, <2>1, AnsweredSave
  <2>2. CASE ~SaveAccepted(saving.payload) /\ saving' = Answered(saving, "refused")
    <3>1. Excused(saving)
      BY <1>1, <2>2 DEF SaveAccepted, GoodSave, Excused
    <3> QED BY <1>1, <2>2, <3>1, AnsweredSave
  <2> QED BY <2>1, <2>2 DEF RefuseSave
<1>4. Moves /\ RowsOK' /\ NewOK'
  BY <1>2, Quiet
<1> QED BY <1>2, <1>3, <1>4, FormKept DEF FormInv

LEMMA AnswerTestGood ==
  ASSUME FormInv, AnswerTest, SameImports PROVE FormInv'
<1>1. test # None /\ test.st = "sent" /\ GoodTest(test)
  BY DEF AnswerTest, Sent, FormInv
<1>2. rows' = rows /\ nextId' = nextId /\ form' = form /\ saving' = saving
  BY DEF AnswerTest, ServerSame
<1>3. PICK st : /\ test' = Answered(test, st)
                /\ st \in {"err"} \cup
                        IF TestAccepted(test.payload) THEN {"shown"} ELSE {"refused"}
  BY DEF AnswerTest
<1>4. st = "refused" => Excused(test)
  <2>1. SUFFICES ASSUME ~TestAccepted(test.payload) PROVE Excused(test)
    BY <1>3
  <2> PICK p : p = test.payload
    OBVIOUS
  <2>2. p.target = test.target /\ GoodPayload(p)
    BY <1>1 DEF GoodTest
  <2>3. CASE \/ ~(Binds(p.timeout) /\ Binds(p.expected) /\ Binds(p.warn))
             \/ p.type = "database" /\ ~Encrypts(p)
    BY <1>1, <2>3 DEF GoodTest, Excused
  <2>4. CASE p.type = "database" /\ TestedDSN(p) = None
    BY <2>2, <2>4 DEF TestedDSN, GoodPayload, Connected, HasDSN, Excused
  <2> QED BY <2>1, <2>3, <2>4 DEF TestAccepted
<1>5. GoodTest(test')
  <2> PICK a : a = test'
    OBVIOUS
  <2>1. a.st = st /\ a.target = test.target /\ a.sound = test.sound /\ st # "sent"
    BY <1>3 DEF Answered
  <2> QED BY <1>1, <1>4, <2>1 DEF GoodTest, Excused
<1>6. Moves /\ RowsOK' /\ NewOK'
  BY <1>2, Quiet
<1> QED BY <1>2, <1>5, <1>6, FormKept DEF FormInv

LEMMA OtherWritesGood ==
  ASSUME FormInv, OtherWrites, SameImports PROVE FormInv'
<1>1. nextId' = nextId /\ form' = form /\ saving' = saving /\ test' = test
  BY DEF OtherWrites
<1>2. PICK i \in DOMAIN rows : OtherDeletes(i) \/ OtherEdits(i) \/ OtherRetypes(i)
  BY DEF OtherWrites
<1>3. GoodRow(rows[i])
  BY DEF FormInv, RowsOK
<1>4. Moves /\ RowsOK' /\ NewOK'
  <2>1. CASE OtherDeletes(i)
    BY <1>1, <2>1, RowDropped DEF OtherDeletes
  <2>2. CASE OtherRetypes(i)
    <3>1. PICK t \in BulkTypes : rows' = [rows EXCEPT ![i].type = t]
      BY <2>2 DEF OtherRetypes
    <3> PICK r : r = [rows[i] EXCEPT !.type = t]
      OBVIOUS
    <3>2. rows' = [rows EXCEPT ![i] = r]
      BY <3>1
    <3>3. GoodRow(r) /\ r.dsn = rows[i].dsn
      BY <1>3, <3>1 DEF GoodRow, BulkTypes, RowFields
    <3> QED BY <1>1, <3>2, <3>3, RowWritten
  <2>3. CASE OtherEdits(i)
    <3>1. PICK f, t, d : /\ f = [FormOf(i) EXCEPT !.type = t, !.mode = "dsn", !.dsn = d]
                         /\ CanSave(f)
                         /\ rows' = [rows EXCEPT ![i] = UpdatedRow(@, Payload(f))]
      BY <2>3 DEF OtherEdits
    <3>2. GoodForm(f) /\ f.target = i
      <4>1. GoodForm(FormOf(i)) /\ FormOf(i).target = i
        BY CopyGood DEF FormInv, FormOf, EmptyForm
      <4>2. GoodForm([FormOf(i) EXCEPT !.type = t])
        BY <4>1, FilledGood
      <4>3. GoodForm([[FormOf(i) EXCEPT !.type = t] EXCEPT !.mode = "dsn"])
        BY <4>2, FilledGood
      <4>4. GoodForm([[[FormOf(i) EXCEPT !.type = t] EXCEPT !.mode = "dsn"] EXCEPT !.dsn = d])
        BY <4>3, FilledGood
      <4>5. f = [[[FormOf(i) EXCEPT !.type = t] EXCEPT !.mode = "dsn"] EXCEPT !.dsn = d]
        BY <3>1
      <4> QED BY <4>1, <4>4, <4>5
    <3>3. /\ Payload(f).target = i /\ GoodPayload(Payload(f))
      BY <3>1, <3>2, PayloadGood DEF CanSave
    <3>4. Payload(f).type = "database" => Payload(f).dsn # None \/ rows[i].dsn # None
      BY <3>3 DEF GoodPayload, Connected, HasDSN
    <3>5. /\ GoodRow(UpdatedRow(rows[i], Payload(f)))
          /\ rows[i].dsn # None => UpdatedRow(rows[i], Payload(f)).dsn # None
      BY <1>3, <3>3, <3>4, UpdatedGood
    <3>6. rows' = [rows EXCEPT ![i] = UpdatedRow(rows[i], Payload(f))]
      BY <3>1
    <3> QED BY <1>1, <3>5, <3>6, RowWritten
  <2> QED BY <1>2, <2>1, <2>2, <2>3
<1> QED BY <1>1, <1>4, FormKept DEF FormInv

\* Every step of the form, its requests and the other consoles.
LEMMA FormNextGood ==
  ASSUME FormInv, FormNext, SameImports PROVE FormInv'
<1>1. RowsOK /\ NewOK
  BY DEF FormInv
<1>2. CASE AddMonitor
  <2>1. GoodForm(form') /\ rows' = rows /\ nextId' = nextId /\ saving' = saving /\ test' = None
    BY <1>1, <1>2, EmptyGood DEF AddMonitor, ServerSame
  <2> QED BY <2>1, Quiet, FormKept DEF FormInv
<1>3. CASE EditMonitor
  <2>1. GoodForm(form') /\ rows' = rows /\ nextId' = nextId /\ saving' = saving /\ test' = None
    BY <1>1, <1>3, CopyGood DEF EditMonitor, ServerSame
  <2> QED BY <2>1, Quiet, FormKept DEF FormInv
<1>4. CASE Close
  <2>1. form' = None /\ rows' = rows /\ nextId' = nextId /\ saving' = saving /\ test' = None
    BY <1>4 DEF Close, ServerSame
  <2> QED BY <2>1, Quiet, FormKept DEF FormInv
<1>5. CASE Fill
  <2>1. GoodForm(form') /\ rows' = rows /\ nextId' = nextId /\ saving' = saving /\ test' = test
    BY <1>5, FillGood DEF Fill, FormInv
  <2> QED BY <2>1, Quiet, FormKept DEF FormInv
<1>6. CASE Save
  <2>1. /\ form # None /\ GoodForm(form) /\ CanSave(form)
        /\ form' = form /\ rows' = rows /\ nextId' = nextId /\ test' = test
    BY <1>6 DEF Save, FormInv, ServerSame
  <2>2. GoodSave(saving')
    BY <1>6, <2>1, SaveGood DEF Save
  <2> QED BY <2>1, <2>2, Quiet, FormKept DEF FormInv
<1>7. CASE Test
  <2>1. /\ form # None /\ GoodForm(form) /\ CanTest(form)
        /\ form' = form /\ rows' = rows /\ nextId' = nextId /\ saving' = saving
    BY <1>7 DEF Test, FormInv, ServerSame
  <2>2. GoodTest(test')
    BY <1>7, <2>1, TestGood DEF Test
  <2> QED BY <2>1, <2>2, Quiet, FormKept DEF FormInv
<1>8. CASE SettleSave
  <2>1. /\ form' = None \/ form' = form
        /\ test' = None \/ test' = test
        /\ saving' = None /\ rows' = rows /\ nextId' = nextId
    BY <1>8 DEF SettleSave, ServerSame
  <2> QED BY <2>1, Quiet, FormKept DEF FormInv
<1>9. CASE DismissTest
  <2>1. test' = None /\ rows' = rows /\ nextId' = nextId /\ form' = form /\ saving' = saving
    BY <1>9 DEF DismissTest, ServerSame
  <2> QED BY <2>1, Quiet, FormKept DEF FormInv
<1>10. CASE HandleSave BY <1>10, HandleSaveGood
<1>11. CASE RefuseSave BY <1>11, RefuseSaveGood
<1>12. CASE AnswerTest BY <1>12, AnswerTestGood
<1>13. CASE OtherWrites BY <1>13, OtherWritesGood
<1> QED BY <1>2, <1>3, <1>4, <1>5, <1>6, <1>7, <1>8, <1>9, <1>10, <1>11, <1>12, <1>13 DEF FormNext

---------------------------------------------------------------------------
(* The imports.                                                              *)

GoodEntry(e) ==
    /\ DOMAIN e = EntryFields /\ e.items \subseteq Item
    /\ e.interval \in Int /\ e.timeout \in Int /\ e.expected \in Int

GoodFile(f) == \A k \in DOMAIN f : GoodEntry(f[k])

FilesOK ==
    /\ disk # None => GoodFile(disk)
    /\ DOMAIN tab = TabFields /\ (tab.file # None => GoodFile(tab.file))
    /\ export # None => GoodFile(export.file)

HistOK ==
    /\ rows = [i \in DOMAIN rows |-> rows[i]]
    /\ hist \in [DOMAIN rows -> [Item -> Nat]]

Active(t) == t.st \in {"sent", "running"}

RowOf(t, i) == IF i \in DOMAIN t.new THEN t.new[i] ELSE rows[i]

\* In what the transaction sees, monitor i is entry e with all its history.
Covers(t, i, e) ==
    /\ i \in DOMAIN rows \cup DOMAIN t.new
    /\ SameKey(RowOf(t, i), e)
    /\ \A x \in e.items : Sees(t, i)[x] > 0

Unambiguous ==
    \A i, j \in DOMAIN rows :
        rows[i].name = rows[j].name /\ rows[i].url = rows[j].url => i = j

GoodImport(t) ==
    /\ t.file # None /\ GoodFile(t.file) /\ t.left \subseteq DOMAIN t.file
    /\ \A i \in DOMAIN t.items : t.items[i] \in [Item -> Nat]

\* An import nobody else wrote during has done the entries it has left
\* behind; one of a file that is there already has nothing to do.
Progress(t) ==
    Active(t) /\ t.alone =>
        \A k \in DOMAIN t.file \ t.left : \E i : Covers(t, i, t.file[k])

Idle(t) ==
    Active(t) /\ t.alone /\ t.file = applied /\ Unambiguous =>
        DOMAIN t.new = {} /\ DOMAIN t.items = {}

ImportOK(n) == GoodImport(imports[n]) /\ Progress(imports[n]) /\ Idle(imports[n])

BackupInv ==
    /\ FormInv /\ FilesOK /\ HistOK /\ ImportComplete
    /\ \A n \in DOMAIN imports : ImportOK(n)

LEMMA NoneSent == DOMAIN <<>> = {}
OBVIOUS

\* Steps that leave what import n has done alone.
LEMMA ImportFrame ==
  ASSUME NEW n \in DOMAIN imports, ImportOK(n),
         imports'[n].file = imports[n].file, imports'[n].left = imports[n].left,
         imports'[n].new = imports[n].new, imports'[n].items = imports[n].items,
         Active(imports'[n]) => Active(imports[n]),
         imports'[n].alone => /\ imports[n].alone
                              /\ rows' = rows /\ hist' = hist /\ applied' = applied
  PROVE  ImportOK(n)'
<1> PICK t : t = imports[n]
  OBVIOUS
<1> PICK u : u = imports'[n]
  OBVIOUS
<1>1. GoodImport(u)
  BY DEF ImportOK, GoodImport
<1>2. ASSUME Active(u), u.alone PROVE Active(t) /\ t.alone
  BY <1>2
<1>3. ASSUME Active(u), u.alone, NEW k \in DOMAIN u.file \ u.left
      PROVE  \E i : Covers(u, i, u.file[k])'
  <2>1. PICK i : Covers(t, i, t.file[k])
    BY <1>2, <1>3 DEF ImportOK, Progress
  <2>2. Covers(u, i, u.file[k])'
    BY <1>3, <2>1 DEF Covers, RowOf, SameKey, Sees
  <2> QED BY <2>2
<1>4. Progress(u)'
  BY <1>3 DEF Progress, Active
<1>5. Idle(u)'
  BY <1>2 DEF ImportOK, Idle, Active, Unambiguous
<1> QED BY <1>1, <1>4, <1>5 DEF ImportOK, GoodImport, GoodFile, GoodEntry, EntryFields, Item

\* Steps of the tab and of the export: no monitor, no history, no import.
LEMMA TabFrame ==
  ASSUME BackupInv, FilesOK',
         UNCHANGED <<rows, nextId, form, saving, test, hist, imports, applied>>
  PROVE  BackupInv'
<1>1. SameImports
  BY DEF BackupInv, FormInv, NewOK, SameImports
<1>2. FormInv'
  BY <1>1, Quiet, FormKept DEF BackupInv, FormInv
<1>3. HistOK' /\ ImportComplete'
  BY DEF BackupInv, HistOK, ImportComplete, SameKey
<1>4. ASSUME NEW n \in DOMAIN imports' PROVE ImportOK(n)'
  BY <1>4, ImportFrame DEF BackupInv
<1> QED BY <1>2, <1>3, <1>4 DEF BackupInv

LEMMA TabGood ==
  ASSUME BackupInv, HandleFile \/ Confirm \/ HandleClear
  PROVE  BackupInv'
<1>1. UNCHANGED <<rows, nextId, form, saving, test, hist, imports, applied>>
  BY DEF HandleFile, Confirm, HandleClear, Click
<1>2. disk' = disk /\ export' = export
  BY DEF HandleFile, Confirm, HandleClear, Click
<1>3. DOMAIN tab' = TabFields /\ (tab'.file = None \/ tab'.file = disk \/ tab'.file = tab.file)
  BY DEF HandleFile, Confirm, HandleClear, Click, BackupInv, FilesOK, TabFields
<1>4. FilesOK'
  BY <1>2, <1>3 DEF BackupInv, FilesOK, GoodFile, GoodEntry, Item
<1> QED BY <1>1, <1>4, TabFrame

LEMMA ItemsAdded ==
  ASSUME NEW file, GoodFile(file), NEW kind \in SUBSET Item
  PROVE  GoodFile(WithItems(file, kind))
<1> PICK f : f = WithItems(file, kind)
  OBVIOUS
<1>1. DOMAIN f = DOMAIN file
  BY DEF WithItems
<1>2. ASSUME NEW k \in DOMAIN f PROVE GoodEntry(f[k])
  <2>1. GoodEntry(file[k])
    BY <1>1, <1>2 DEF GoodFile
  <2>2. CASE k \in DOMAIN hist
    <3> PICK new : new = {x \in kind : hist[k][x] > 0}
      OBVIOUS
    <3>1. f[k] = [file[k] EXCEPT !.items = @ \cup new]
      BY <1>1, <1>2, <2>2 DEF WithItems
    <3> QED BY <2>1, <3>1 DEF GoodEntry, EntryFields
  <2>3. CASE k \notin DOMAIN hist
    BY <1>1, <1>2, <2>1, <2>3 DEF WithItems
  <2> QED BY <2>2, <2>3
<1> QED BY <1>2 DEF GoodFile

LEMMA ExportGood ==
  ASSUME BackupInv, ExportMonitors \/ ExportLogs \/ ExportIncidents \/ FailExport
  PROVE  BackupInv'
<1>1. /\ UNCHANGED <<rows, nextId, form, saving, test, hist, imports, applied>>
      /\ tab' = tab
  BY DEF ExportMonitors, ExportLogs, ExportIncidents, FailExport, ExportStep
<1>2. (disk' # None => GoodFile(disk')) /\ (export' # None => GoodFile(export'.file))
  <2>1. CASE ExportMonitors
    <3> PICK f : f = [i \in DOMAIN rows |-> Exported(rows[i])]
      OBVIOUS
    <3>1. ASSUME NEW i \in DOMAIN f PROVE GoodEntry(f[i])
      <4>1. f[i] = Exported(rows[i]) /\ GoodRow(rows[i])
        BY <3>1 DEF BackupInv, FormInv, RowsOK
      <4> QED BY <4>1 DEF Exported, GoodRow, GoodEntry, EntryFields
    <3>2. export' = [step |-> "logs", file |-> f] /\ disk' = disk
      BY <2>1 DEF ExportMonitors
    <3>3. GoodFile(f)
      BY <3>1 DEF GoodFile
    <3> QED BY <3>2, <3>3 DEF BackupInv, FilesOK
  <2>2. CASE ExportLogs
    <3> PICK f : f = WithItems(export.file, Log)
      OBVIOUS
    <3>1. GoodFile(f)
      BY <2>2, ItemsAdded DEF ExportLogs, BackupInv, FilesOK, Item
    <3>2. export' = [step |-> "incidents", file |-> f] /\ disk' = disk
      BY <2>2 DEF ExportLogs, ExportStep
    <3> QED BY <3>1, <3>2 DEF BackupInv, FilesOK
  <2>3. CASE ExportIncidents
    <3>1. GoodFile(WithItems(export.file, Incident))
      BY <2>3, ItemsAdded DEF ExportIncidents, BackupInv, FilesOK, Item
    <3>2. export' = None /\ disk' = WithItems(export.file, Incident)
      BY <2>3 DEF ExportIncidents, ExportStep
    <3> QED BY <3>1, <3>2
  <2>4. CASE FailExport
    BY <2>4 DEF FailExport, ExportStep, BackupInv, FilesOK
  <2> QED BY <2>1, <2>2, <2>3, <2>4
<1>3. FilesOK'
  BY <1>1, <1>2 DEF BackupInv, FilesOK, GoodFile, GoodEntry, Item
<1> QED BY <1>1, <1>3, TabFrame

\* Steps that change what the page knows of the imports, not what they do.
LEMMA PageFrame ==
  ASSUME BackupInv, FilesOK',
         UNCHANGED <<rows, nextId, form, saving, test, hist, applied>>,
         DOMAIN imports' = DOMAIN imports,
         \A n \in DOMAIN imports :
            /\ DOMAIN imports'[n] = ImportFields
            /\ imports'[n].file = imports[n].file /\ imports'[n].left = imports[n].left
            /\ imports'[n].new = imports[n].new /\ imports'[n].items = imports[n].items
            /\ Active(imports'[n]) => Active(imports[n])
            /\ imports'[n].alone = imports[n].alone
  PROVE  BackupInv'
<1>1. SameImports
  BY DEF SameImports
<1>2. FormInv'
  BY <1>1, Quiet, FormKept DEF BackupInv, FormInv
<1>3. HistOK' /\ ImportComplete'
  BY DEF BackupInv, HistOK, ImportComplete, SameKey
<1>4. ASSUME NEW n \in DOMAIN imports' PROVE ImportOK(n)'
  BY <1>4, ImportFrame DEF BackupInv
<1> QED BY <1>2, <1>3, <1>4 DEF BackupInv

LEMMA PageGood ==
  ASSUME BackupInv, Leave \/ SettleImport
  PROVE  BackupInv'
<1>1. /\ UNCHANGED <<rows, nextId, form, saving, test, hist, applied>>
      /\ disk' = disk /\ export' = export
  BY DEF Leave, SettleImport
<1>2. DOMAIN tab' = TabFields /\ (tab'.file = None \/ tab'.file = tab.file)
  BY DEF Leave, SettleImport, FreshTab, BackupInv, FilesOK, TabFields
<1>3. FilesOK'
  BY <1>1, <1>2 DEF BackupInv, FilesOK, GoodFile, GoodEntry, Item
<1>4. \A n \in DOMAIN imports : DOMAIN imports[n] = ImportFields
  BY DEF BackupInv, FormInv, NewOK
<1>5. CASE Leave
  <2>1. imports' = [n \in DOMAIN imports |-> [imports[n] EXCEPT !.here = FALSE]]
    BY <1>5 DEF Leave
  <2> QED BY <1>1, <1>3, <1>4, <2>1, PageFrame DEF ImportFields, Active
<1>6. CASE SettleImport
  <2>1. PICK m \in DOMAIN imports :
            imports[m].st \in {"ok", "err"} /\ imports' = [imports EXCEPT ![m].st = "settled"]
    BY <1>6 DEF SettleImport
  <2>2. DOMAIN imports' = DOMAIN imports
    BY <2>1
  <2>3. ASSUME NEW n \in DOMAIN imports
        PROVE  /\ DOMAIN imports'[n] = ImportFields
               /\ imports'[n].file = imports[n].file /\ imports'[n].left = imports[n].left
               /\ imports'[n].new = imports[n].new /\ imports'[n].items = imports[n].items
               /\ Active(imports'[n]) => Active(imports[n])
               /\ imports'[n].alone = imports[n].alone
    <3>1. imports'[n] = IF n = m THEN [imports[n] EXCEPT !.st = "settled"] ELSE imports[n]
      BY <2>1
    <3> QED BY <1>4, <3>1 DEF ImportFields, Active
  <2> QED BY <1>1, <1>3, <2>2, <2>3, PageFrame
<1> QED BY <1>5, <1>6

\* Somebody other than the imports writes history or monitors.
LEMMA DisturbedFrame ==
  ASSUME BackupInv, Disturbed, FormInv', HistOK', UNCHANGED <<disk, export, tab>>
  PROVE  BackupInv'
<1>1. \A n \in DOMAIN imports : DOMAIN imports[n] = ImportFields
  BY DEF BackupInv, FormInv, NewOK
<1>2. applied' = None /\ imports' = [n \in DOMAIN imports |-> [imports[n] EXCEPT !.alone = FALSE]]
  BY DEF Disturbed
<1>3. ASSUME NEW n \in DOMAIN imports' PROVE ImportOK(n)'
  <2>1. /\ imports'[n].file = imports[n].file /\ imports'[n].left = imports[n].left
        /\ imports'[n].new = imports[n].new /\ imports'[n].items = imports[n].items
        /\ imports'[n].st = imports[n].st /\ ~imports'[n].alone
    BY <1>1, <1>2, <1>3 DEF ImportFields
  <2> QED BY <1>2, <1>3, <2>1, ImportFrame DEF BackupInv, Active
<1>4. FilesOK'
  BY DEF BackupInv, FilesOK, GoodFile, GoodEntry, Item
<1>5. ImportComplete'
  BY <1>2 DEF ImportComplete
<1> QED BY <1>3, <1>4, <1>5 DEF BackupInv

LEMMA DisturbedImports ==
  ASSUME NewOK, Disturbed PROVE SameImports
BY DEF NewOK, Disturbed, SameImports, ImportFields

LEMMA CheckGood == ASSUME BackupInv, Check PROVE BackupInv'
<1>1. Disturbed /\ UNCHANGED <<rows, nextId, form, saving, test, disk, export, tab>>
  BY DEF Check
<1>2. FormInv'
  BY <1>1, DisturbedImports, Quiet, FormKept DEF BackupInv, FormInv
<1>3. HistOK'
  BY <1>1 DEF Check, BackupInv, HistOK
<1> QED BY <1>1, <1>2, <1>3, DisturbedFrame

LEMMA RowsFunction ==
  ASSUME FormNext, rows = [i \in DOMAIN rows |-> rows[i]]
  PROVE  rows' = [i \in DOMAIN rows' |-> rows'[i]]
<1>1. CASE rows' = rows BY <1>1
<1>2. CASE HandleSave
  BY <1>2 DEF HandleSave
<1>3. CASE OtherWrites
  BY <1>3 DEF OtherWrites, OtherDeletes, OtherEdits, OtherRetypes
<1>4. rows' = rows \/ HandleSave \/ OtherWrites
  BY DEF FormNext, AddMonitor, EditMonitor, Close, Fill, TypeText, ChangeType, TypeNumber,
         ChangeDriver, TypeConnection, Set, Save, Test, RefuseSave, SettleSave, AnswerTest,
         DismissTest, ServerSame
<1> QED BY <1>1, <1>2, <1>3, <1>4

LEMMA FormStepGood == ASSUME BackupInv, FormStep PROVE BackupInv'
<1>1. UNCHANGED <<disk, export, tab>> /\ FormNext
  BY DEF FormStep
<1>2. SameImports
  BY DisturbedImports DEF FormStep, BackupInv, FormInv, NewOK, SameImports
<1>3. FormInv'
  BY <1>1, <1>2, FormNextGood DEF BackupInv
<1>4. rows' = [i \in DOMAIN rows' |-> rows'[i]]
  BY <1>1, RowsFunction DEF BackupInv, HistOK
<1>5. HistOK'
  <2>1. hist' = [i \in DOMAIN rows' |-> IF i \in DOMAIN hist THEN hist[i] ELSE NoItems]
    BY DEF FormStep
  <2>2. NoItems \in [Item -> Nat]
    BY DEF NoItems
  <2> QED BY <1>4, <2>1, <2>2 DEF BackupInv, HistOK
<1>6. CASE rows' = rows
  <2>1. UNCHANGED <<applied, imports>>
    BY <1>6 DEF FormStep
  <2>2. hist' = hist
    BY <1>6 DEF FormStep, BackupInv, HistOK
  <2>3. ASSUME NEW n \in DOMAIN imports' PROVE ImportOK(n)'
    BY <1>6, <2>1, <2>2, <2>3, ImportFrame DEF BackupInv
  <2>4. FilesOK' /\ ImportComplete'
    BY <1>1, <1>6, <2>1, <2>2
       DEF BackupInv, FilesOK, GoodFile, GoodEntry, Item, ImportComplete, SameKey
  <2> QED BY <1>3, <1>5, <2>3, <2>4 DEF BackupInv
<1>7. CASE rows' # rows
  BY <1>1, <1>3, <1>5, <1>7, DisturbedFrame DEF FormStep
<1> QED BY <1>6, <1>7

\* Steps after which an import holds back what it did, or nothing.
LEMMA HeldFewer ==
  ASSUME FormInv, UNCHANGED <<rows, nextId, form, saving, test>>,
         \A n \in DOMAIN imports' :
            /\ DOMAIN imports'[n] = ImportFields
            /\ \/ n \in DOMAIN imports /\ imports'[n].new = imports[n].new
               \/ DOMAIN imports'[n].new = {}
  PROVE  FormInv'
<1>1. Moves
  BY DEF FormInv, RowsOK, Moves
<1>2. RowsOK'
  BY DEF FormInv, RowsOK, Known, GoodRow
<1>3. NewOK'
  <2>1. ASSUME NEW n \in DOMAIN imports', NEW i \in DOMAIN imports'[n].new
        PROVE  /\ i \in Nat \ {0} /\ i < nextId' /\ GoodRow(imports'[n].new[i])
               /\ \A m \in DOMAIN imports' \ {n} : i \notin DOMAIN imports'[m].new
    <3>1. n \in DOMAIN imports /\ imports'[n].new = imports[n].new
      BY <2>1
    <3>2. /\ i \in Nat \ {0} /\ i < nextId /\ GoodRow(imports[n].new[i])
          /\ \A m \in DOMAIN imports \ {n} : i \notin DOMAIN imports[m].new
      BY <2>1, <3>1 DEF FormInv, NewOK
    <3> QED BY <3>1, <3>2
  <2> QED BY <2>1 DEF NewOK, GoodRow
<1> QED BY <1>1, <1>2, <1>3, FormKept DEF FormInv

LEMMA HandleImportGood == ASSUME BackupInv, HandleImport PROVE BackupInv'
<1>1. /\ UNCHANGED <<rows, nextId, form, saving, test, hist, disk, export, applied>>
      /\ tab.file # None /\ DOMAIN tab' = TabFields /\ tab'.file = tab.file
  BY DEF HandleImport, BackupInv, FilesOK, TabFields
<1> PICK t : t = [st |-> "sent", file |-> tab.file, left |-> DOMAIN tab.file,
                  new |-> <<>>, items |-> <<>>, here |-> TRUE, alone |-> TRUE]
  OBVIOUS
<1>2. \A n \in DOMAIN imports' : imports'[n] = IF n \in DOMAIN imports THEN imports[n] ELSE t
  BY DEF HandleImport
<1>3. /\ DOMAIN t = ImportFields /\ t.file = tab.file /\ t.left = DOMAIN tab.file
      /\ DOMAIN t.new = {} /\ DOMAIN t.items = {}
  BY NoneSent DEF ImportFields
<1>4. FormInv'
  <2>1. \A n \in DOMAIN imports : DOMAIN imports[n] = ImportFields
    BY DEF BackupInv, FormInv, NewOK
  <2> QED BY <1>1, <1>2, <1>3, <2>1, HeldFewer DEF BackupInv
<1>5. FilesOK' /\ HistOK' /\ ImportComplete'
  BY <1>1 DEF BackupInv, FilesOK, GoodFile, GoodEntry, Item, HistOK, ImportComplete, SameKey
<1>6. ASSUME NEW n \in DOMAIN imports' PROVE ImportOK(n)'
  <2>1. CASE n \in DOMAIN imports
    BY <1>1, <1>2, <1>6, <2>1, ImportFrame DEF BackupInv
  <2>2. CASE n \notin DOMAIN imports
    <3>1. imports'[n] = t
      BY <1>2, <1>6, <2>2
    <3>2. GoodImport(t)
      BY <1>1, <1>3 DEF GoodImport, BackupInv, FilesOK
    <3>3. GoodImport(t)'
      BY <3>2 DEF GoodImport, GoodFile, GoodEntry, Item
    <3>4. Progress(t)' /\ Idle(t)'
      BY <1>3 DEF Progress, Idle
    <3> QED BY <3>1, <3>3, <3>4 DEF ImportOK
  <2> QED BY <2>1, <2>2
<1> QED BY <1>4, <1>5, <1>6 DEF BackupInv

LEMMA FailImportGood == ASSUME BackupInv, FailImport PROVE BackupInv'
<1>1. UNCHANGED <<rows, nextId, form, saving, test, hist, disk, export, tab, applied>>
  BY DEF FailImport
<1>2. PICK m \in DOMAIN imports :
        imports' = [imports EXCEPT ![m].st = "err", ![m].new = <<>>, ![m].items = <<>>]
  BY DEF FailImport
<1>3. \A n \in DOMAIN imports : DOMAIN imports[n] = ImportFields
  BY DEF BackupInv, FormInv, NewOK
<1>4. /\ DOMAIN imports' = DOMAIN imports
      /\ \A n \in DOMAIN imports \ {m} : imports'[n] = imports[n]
  BY <1>2
<1> PICK t : t = imports'[m]
  OBVIOUS
<1>5. /\ DOMAIN t = ImportFields /\ t.file = imports[m].file /\ t.left = imports[m].left
      /\ t.st = "err" /\ DOMAIN t.new = {} /\ DOMAIN t.items = {}
  BY <1>2, <1>3, NoneSent DEF ImportFields
<1>6. FormInv'
  BY <1>1, <1>3, <1>4, <1>5, HeldFewer DEF BackupInv
<1>7. FilesOK' /\ HistOK' /\ ImportComplete'
  BY <1>1 DEF BackupInv, FilesOK, GoodFile, GoodEntry, Item, HistOK, ImportComplete, SameKey
<1>8. ASSUME NEW n \in DOMAIN imports' PROVE ImportOK(n)'
  <2>1. CASE n # m
    BY <1>1, <1>4, <1>8, <2>1, ImportFrame DEF BackupInv
  <2>2. CASE n = m
    <3>1. GoodImport(t)'
      BY <1>5 DEF BackupInv, ImportOK, GoodImport, GoodFile, GoodEntry, Item
    <3>2. Progress(t)' /\ Idle(t)'
      BY <1>5 DEF Progress, Idle, Active
    <3> QED BY <2>2, <3>1, <3>2 DEF ImportOK
  <2> QED BY <2>1, <2>2
<1> QED BY <1>6, <1>7, <1>8 DEF BackupInv

LEMMA RestoredGood == ASSUME NEW e, GoodEntry(e) PROVE GoodRow(Restored(e))
BY Assumed DEF Restored, GoodRow, GoodEntry, RowFields

LEMMA SeesNat ==
  ASSUME HistOK, NEW t, \A i \in DOMAIN t.items : t.items[i] \in [Item -> Nat],
         NEW i, NEW x \in Item
  PROVE  /\ Sees(t, i)[x] \in Nat
         /\ Sees(t, i)[x] = (IF i \in DOMAIN hist THEN hist[i][x] ELSE 0)
                            + (IF i \in DOMAIN t.items THEN t.items[i][x] ELSE 0)
         /\ (IF i \in DOMAIN hist THEN hist[i][x] ELSE 0) \in Nat
<1>1. Sees(t, i)[x] = (IF i \in DOMAIN hist THEN hist[i][x] ELSE 0)
                      + (IF i \in DOMAIN t.items THEN t.items[i][x] ELSE 0)
  BY DEF Sees
<1>2. (IF i \in DOMAIN hist THEN hist[i][x] ELSE 0) \in Nat
  BY DEF HistOK
<1>3. (IF i \in DOMAIN t.items THEN t.items[i][x] ELSE 0) \in Nat
  OBVIOUS
<1> QED BY <1>1, <1>2, <1>3

\* What is left of an import when entry k is done with monitor i.
Done(t, k, i, e) == [Merged(t, k, i, e) EXCEPT !.st = "running"]

LEMMA MergedGood ==
  ASSUME HistOK, NEW t, DOMAIN t = ImportFields, NEW k, NEW i, NEW e, e.items \subseteq Item,
         \A j \in DOMAIN t.items : t.items[j] \in [Item -> Nat],
         NEW m, m = Done(t, k, i, e)
  PROVE  /\ DOMAIN m = ImportFields /\ m.file = t.file /\ m.left = t.left \ {k}
         /\ m.new = t.new /\ m.alone = t.alone /\ m.st = "running"
         /\ \A j \in DOMAIN m.items : m.items[j] \in [Item -> Nat]
         /\ \A j : \A x \in Item : Sees(t, j)[x] > 0 => Sees(m, j)[x] > 0
         /\ \A x \in e.items : Sees(m, i)[x] > 0
         /\ Missing(t, i, e) = {} => m.items = t.items
<1> PICK add : add = Missing(t, i, e)
  OBVIOUS
<1> PICK had : had = IF i \in DOMAIN t.items THEN t.items[i] ELSE NoItems
  OBVIOUS
<1> PICK its : its = IF add = {} THEN t.items
                     ELSE [j \in DOMAIN t.items \cup {i} |->
                            IF j = i THEN [x \in Item |-> had[x] + IF x \in add THEN 1 ELSE 0]
                            ELSE t.items[j]]
  OBVIOUS
<1>1. Merged(t, k, i, e) = [t EXCEPT !.left = @ \ {k}, !.items = its]
  BY DEF Merged
<1>2. m = [[t EXCEPT !.left = @ \ {k}, !.items = its] EXCEPT !.st = "running"]
  BY <1>1 DEF Done
<1>3. /\ DOMAIN m = ImportFields /\ m.file = t.file /\ m.left = t.left \ {k}
      /\ m.new = t.new /\ m.alone = t.alone /\ m.st = "running" /\ m.items = its
  BY <1>2 DEF ImportFields
<1>4. had \in [Item -> Nat]
  BY DEF NoItems
<1>5. \A j \in DOMAIN its : its[j] \in [Item -> Nat]
  <2>1. CASE add = {} BY <2>1
  <2>2. CASE add # {}
    <3>1. [x \in Item |-> had[x] + IF x \in add THEN 1 ELSE 0] \in [Item -> Nat]
      BY <1>4
    <3> QED BY <2>2, <3>1
  <2> QED BY <2>1, <2>2
<1>items. m.items = its /\ \A j \in DOMAIN m.items : m.items[j] \in [Item -> Nat]
  BY <1>3, <1>5
<1>6. \A x \in Item : (IF i \in DOMAIN t.items THEN t.items[i][x] ELSE 0) = had[x]
  BY DEF NoItems
<1>7. ASSUME add # {}
      PROVE  /\ i \in DOMAIN its
             /\ \A x \in Item : its[i][x] = had[x] + IF x \in add THEN 1 ELSE 0
             /\ \A j : j # i => (j \in DOMAIN its <=> j \in DOMAIN t.items)
             /\ \A j \in DOMAIN its : j # i => its[j] = t.items[j]
  BY <1>7
<1>8. ASSUME NEW j, NEW x \in Item, Sees(t, j)[x] > 0 PROVE Sees(m, j)[x] > 0
  <2> PICK h : h = IF j \in DOMAIN hist THEN hist[j][x] ELSE 0
    OBVIOUS
  <2>1. /\ Sees(t, j)[x] = h + (IF j \in DOMAIN t.items THEN t.items[j][x] ELSE 0)
        /\ h \in Nat
    BY SeesNat
  <2>2. Sees(m, j)[x] = h + (IF j \in DOMAIN its THEN its[j][x] ELSE 0)
    BY <1>items DEF Sees
  <2>3. CASE add = {} BY <1>8, <2>1, <2>2, <2>3
  <2>4. CASE add # {} /\ j # i BY <1>7, <1>8, <2>1, <2>2, <2>4
  <2>5. CASE add # {} /\ j = i
    <3>1. had[x] \in Nat /\ its[i][x] >= had[x]
      BY <1>4, <1>7, <2>5
    <3>2. its[i][x] \in Nat /\ i \in DOMAIN its
      BY <1>5, <1>7, <2>5
    <3>3. h + had[x] > 0
      BY <1>6, <1>8, <2>1, <2>5
    <3>4. h + its[i][x] > 0
      BY <2>1, <3>1, <3>2, <3>3
    <3> QED BY <2>2, <2>5, <3>2, <3>4
  <2> QED BY <2>3, <2>4, <2>5
<1>9. ASSUME NEW x \in e.items PROVE Sees(m, i)[x] > 0
  <2>1. CASE x \notin add
    <3>1. Sees(t, i)[x] # 0 /\ Sees(t, i)[x] \in Nat
      BY <2>1, SeesNat DEF Missing
    <3>2. Sees(t, i)[x] > 0
      BY <3>1
    <3> QED BY <1>8, <3>2
  <2>2. CASE x \in add
    <3> PICK h : h = IF i \in DOMAIN hist THEN hist[i][x] ELSE 0
      OBVIOUS
    <3>1. h \in Nat
      BY SeesNat
    <3>3. Sees(m, i)[x] = h + (IF i \in DOMAIN its THEN its[i][x] ELSE 0)
      BY <1>items DEF Sees
    <3>2. i \in DOMAIN its /\ its[i][x] = had[x] + 1 /\ had[x] \in Nat
      BY <1>4, <1>7, <2>2
    <3> QED BY <3>1, <3>2, <3>3
  <2> QED BY <2>1, <2>2
<1> QED BY <1>3, <1>5, <1>8, <1>9

\* One entry done: u is the import with the monitor it inserts, if any.
LEMMA EntryDone ==
  ASSUME HistOK, NEW t, Active(t), GoodImport(t), Progress(t), NEW k \in t.left,
         NEW u, DOMAIN u = ImportFields, u.file = t.file, u.left = t.left, u.items = t.items,
         u.alone = t.alone, DOMAIN t.new \subseteq DOMAIN u.new,
         \A j \in DOMAIN rows \cup DOMAIN t.new : RowOf(u, j) = RowOf(t, j),
         NEW i \in DOMAIN rows \cup DOMAIN u.new, SameKey(RowOf(u, i), t.file[k]),
         NEW m, m = Done(u, k, i, t.file[k])
  PROVE  GoodImport(m) /\ Progress(m) /\ DOMAIN m = ImportFields /\ m.new = u.new
<1> PICK e : e = t.file[k]
  OBVIOUS
<1>1. k \in DOMAIN t.file /\ GoodEntry(e)
  BY DEF GoodImport, GoodFile
<1>2. /\ DOMAIN m = ImportFields /\ m.file = u.file /\ m.left = u.left \ {k}
      /\ m.new = u.new /\ m.alone = u.alone /\ m.st = "running"
      /\ \A j \in DOMAIN m.items : m.items[j] \in [Item -> Nat]
      /\ \A j : \A x \in Item : Sees(u, j)[x] > 0 => Sees(m, j)[x] > 0
      /\ \A x \in e.items : Sees(m, i)[x] > 0
  <2>1. e.items \subseteq Item /\ \A j \in DOMAIN u.items : u.items[j] \in [Item -> Nat]
    BY <1>1 DEF GoodEntry, GoodImport
  <2>2. m = Done(u, k, i, e)
    OBVIOUS
  <2> QED BY <2>1, <2>2, MergedGood
<1>3. GoodImport(m)
  BY <1>2 DEF GoodImport
<1>4. \A j : Sees(u, j) = Sees(t, j)
  BY DEF Sees
<1>5. Covers(m, i, e)
  BY <1>2 DEF Covers, RowOf
<1>6. ASSUME m.alone, NEW l \in DOMAIN m.file \ m.left PROVE \E j : Covers(m, j, m.file[l])
  <2>1. CASE l = k
    BY <1>2, <1>5, <2>1
  <2>2. CASE l # k
    <3>1. PICK j : Covers(t, j, t.file[l])
      BY <1>2, <1>6, <2>2 DEF Progress
    <3>2. t.file[l].items \subseteq Item
      BY <1>2, <1>6 DEF GoodImport, GoodFile, GoodEntry
    <3>3. Covers(m, j, t.file[l])
      BY <1>2, <1>4, <3>1, <3>2 DEF Covers, RowOf
    <3> QED BY <1>2, <3>3
  <2> QED BY <2>1, <2>2
<1> QED BY <1>2, <1>3, <1>6 DEF Progress

\* An import of the file imported last finds the monitor and has nothing to
\* add to it.
LEMMA NothingMissing ==
  ASSUME BackupInv, NEW n \in DOMAIN imports, NEW t, t = imports[n],
         Active(t), t.alone, t.file = applied, Unambiguous, NEW k \in t.left
  PROVE  /\ \E i \in DOMAIN rows : SameKey(rows[i], t.file[k])
         /\ \A i \in DOMAIN rows : SameKey(rows[i], t.file[k]) =>
                Missing(t, i, t.file[k]) = {}
<1>1. GoodImport(t) /\ DOMAIN t.items = {}
  BY DEF BackupInv, ImportOK, Idle
<1>2. PICK j \in DOMAIN rows :
        /\ SameKey(rows[j], t.file[k]) /\ \A x \in t.file[k].items : hist[j][x] > 0
  BY <1>1 DEF BackupInv, ImportComplete, GoodImport
<1>3. ASSUME NEW i \in DOMAIN rows, SameKey(rows[i], t.file[k])
      PROVE  Missing(t, i, t.file[k]) = {}
  <2>1. i = j
    BY <1>2, <1>3 DEF SameKey, Unambiguous
  <2>2. ASSUME NEW x \in t.file[k].items PROVE Sees(t, i)[x] # 0
    <3>1. x \in Item
      BY <1>1, <2>2 DEF GoodImport, GoodFile, GoodEntry
    <3>2. j \in DOMAIN hist /\ hist[j][x] \in Nat
      BY <3>1 DEF BackupInv, HistOK
    <3>3. Sees(t, i)[x] = hist[j][x] + 0
      BY <1>1, <2>1, <3>1, <3>2 DEF Sees
    <3> QED BY <1>2, <2>2, <3>2, <3>3
  <2> QED BY <2>2 DEF Missing
<1> QED BY <1>2, <1>3

\* Whatever import n becomes, the others and the rest stay.
LEMMA ImportStep ==
  ASSUME BackupInv, NEW n \in DOMAIN imports, NEW m,
         imports' = [imports EXCEPT ![n] = m],
         UNCHANGED <<rows, form, saving, test, hist, disk, export, tab, applied>>,
         GoodImport(m), Progress(m), Idle(m), FormInv'
  PROVE  BackupInv'
<1>1. /\ DOMAIN imports' = DOMAIN imports /\ imports'[n] = m
      /\ \A l \in DOMAIN imports \ {n} : imports'[l] = imports[l]
  OBVIOUS
<1>2. FilesOK' /\ HistOK' /\ ImportComplete'
  BY DEF BackupInv, FilesOK, GoodFile, GoodEntry, Item, HistOK, ImportComplete, SameKey
<1>3. ASSUME NEW l \in DOMAIN imports' PROVE ImportOK(l)'
  <2>1. CASE l # n
    BY <1>1, <1>3, <2>1, ImportFrame DEF BackupInv
  <2>2. CASE l = n
    <3>1. GoodImport(m)' /\ Progress(m)' /\ Idle(m)'
      BY DEF GoodImport, GoodFile, GoodEntry, Item, Progress, Covers, RowOf, SameKey, Sees,
             Idle, Unambiguous, Active
    <3> QED BY <1>1, <2>2, <3>1 DEF ImportOK
  <2> QED BY <2>1, <2>2
<1> QED BY <1>2, <1>3 DEF BackupInv

LEMMA ImportMonitorGood == ASSUME BackupInv, ImportMonitor PROVE BackupInv'
<1>1. UNCHANGED <<rows, form, saving, test, hist, disk, export, tab, applied>>
  BY DEF ImportMonitor
<1> DEFINE Found(t, e) == {i \in DOMAIN rows : SameKey(rows[i], e)}
                          \cup {i \in DOMAIN t.new : SameKey(t.new[i], e)}
           WithNew(t, e) == [t EXCEPT !.new = [j \in DOMAIN @ \cup {nextId} |->
                                        IF j = nextId THEN Restored(e) ELSE @[j]]]
<1>2. PICK n \in DOMAIN imports : \E k \in imports[n].left :
        /\ imports[n].st \in {"sent", "running"}
        /\ \/ \E i \in Found(imports[n], imports[n].file[k]) :
                /\ imports' = [imports EXCEPT ![n] = Done(imports[n], k, i, imports[n].file[k])]
                /\ nextId' = nextId
           \/ /\ Found(imports[n], imports[n].file[k]) = {} /\ nextId' = nextId + 1
              /\ imports' = [imports EXCEPT ![n] =
                    Done(WithNew(imports[n], imports[n].file[k]), k, nextId, imports[n].file[k])]
  BY DEF ImportMonitor, Done
<1> PICK t : t = imports[n]
  OBVIOUS
<1>entry. PICK k \in t.left :
        /\ t.st \in {"sent", "running"}
        /\ \/ \E i \in Found(t, t.file[k]) :
                /\ imports' = [imports EXCEPT ![n] = Done(t, k, i, t.file[k])]
                /\ nextId' = nextId
           \/ /\ Found(t, t.file[k]) = {} /\ nextId' = nextId + 1
              /\ imports' = [imports EXCEPT ![n] =
                    Done(WithNew(t, t.file[k]), k, nextId, t.file[k])]
  BY <1>2
<1> PICK e : e = t.file[k]
  OBVIOUS
<1>3. /\ Active(t) /\ GoodImport(t) /\ Progress(t) /\ Idle(t) /\ DOMAIN t = ImportFields
      /\ HistOK /\ GoodEntry(e) /\ k \in t.left
  BY <1>entry DEF Active, BackupInv, ImportOK, FormInv, NewOK, GoodImport, GoodFile
<1>4. nextId \in Nat \ {0} /\ nextId \notin DOMAIN rows
      /\ \A l \in DOMAIN imports : nextId \notin DOMAIN imports[l].new
  BY DEF BackupInv, FormInv, RowsOK, NewOK, Known
<1>5. \A i \in DOMAIN rows : i \notin DOMAIN t.new
  BY DEF BackupInv, FormInv, RowsOK, Known
<1>6. ASSUME NEW i \in Found(t, e), nextId' = nextId,
             imports' = [imports EXCEPT ![n] = Done(t, k, i, e)]
      PROVE  BackupInv'
  <2> PICK m : m = Done(t, k, i, e)
    OBVIOUS
  <2>1. i \in DOMAIN rows \cup DOMAIN t.new /\ SameKey(RowOf(t, i), e)
    BY <1>5, <1>6 DEF RowOf
  <2>2. GoodImport(m) /\ Progress(m) /\ DOMAIN m = ImportFields /\ m.new = t.new
    BY <1>3, <2>1, EntryDone
  <2>3. Idle(m)
    <3>1. /\ m.file = t.file /\ m.alone = t.alone
          /\ Missing(t, i, e) = {} => m.items = t.items
      BY <1>3, MergedGood DEF GoodImport, GoodEntry
    <3>2. SUFFICES ASSUME t.alone, t.file = applied, Unambiguous
                   PROVE  DOMAIN m.new = {} /\ DOMAIN m.items = {}
      BY <3>1 DEF Idle
    <3>3. DOMAIN t.new = {} /\ DOMAIN t.items = {}
      BY <1>3, <3>2 DEF Idle
    <3>4. i \in DOMAIN rows /\ SameKey(rows[i], e)
      BY <1>6, <3>3
    <3>5. Missing(t, i, e) = {}
      BY <1>3, <3>2, <3>4, NothingMissing
    <3> QED BY <2>2, <3>1, <3>3, <3>5
  <2>4. SameImports
    <3>1. \A l \in DOMAIN imports : DOMAIN imports[l] = ImportFields
      BY DEF BackupInv, FormInv, NewOK
    <3> QED BY <1>6, <2>2, <3>1 DEF SameImports
  <2>5. FormInv'
    BY <1>1, <1>6, <2>4, Quiet, FormKept DEF BackupInv, FormInv
  <2> QED BY <1>1, <1>6, <2>2, <2>3, <2>5, ImportStep
<1>7. ASSUME Found(t, e) = {}, nextId' = nextId + 1,
             imports' = [imports EXCEPT ![n] = Done(WithNew(t, e), k, nextId, e)]
      PROVE  BackupInv'
  <2> PICK w : w = nextId
    OBVIOUS
  <2>u. PICK u : u = WithNew(t, e)
    OBVIOUS
  <2>m. PICK m : m = Done(u, k, w, e)
    OBVIOUS
  <2>1. /\ DOMAIN u = ImportFields /\ u.file = t.file /\ u.left = t.left /\ u.items = t.items
        /\ u.alone = t.alone /\ DOMAIN u.new = DOMAIN t.new \cup {w}
        /\ \A j \in DOMAIN u.new : u.new[j] = IF j = w THEN Restored(e) ELSE t.new[j]
    BY <1>3, <2>u DEF ImportFields
  <2>2. \A j \in DOMAIN rows \cup DOMAIN t.new : RowOf(u, j) = RowOf(t, j)
    BY <1>4, <2>1 DEF RowOf
  <2>3. w \in DOMAIN rows \cup DOMAIN u.new /\ SameKey(RowOf(u, w), e)
    BY <2>1 DEF RowOf, SameKey, Restored
  <2>4. GoodImport(m) /\ Progress(m) /\ DOMAIN m = ImportFields /\ m.new = u.new
    BY <1>3, <2>1, <2>2, <2>3, <2>m, EntryDone
  <2>5. Idle(m)
    <3>1. m.file = t.file /\ m.alone = t.alone
      BY <1>3, <2>1, <2>m, MergedGood DEF GoodImport, GoodEntry
    <3>2. ~(t.alone /\ t.file = applied /\ Unambiguous)
      BY <1>3, <1>7, NothingMissing
    <3> QED BY <3>1, <3>2 DEF Idle
  <2>6. FormInv'
    <3>1. /\ DOMAIN imports' = DOMAIN imports /\ imports'[n] = m
          /\ \A l \in DOMAIN imports \ {n} : imports'[l] = imports[l]
      BY <1>7, <2>u, <2>m
    <3>2. GoodRow(Restored(e))
      BY <1>3, RestoredGood
    <3>3. Moves
      BY <1>1, <1>4, <1>7, <2>1, <2>4, <3>1 DEF Moves
    <3>4. RowsOK'
      BY <1>1, <1>4, <1>7, <2>1, <2>4, <3>1 DEF BackupInv, FormInv, RowsOK, Known, GoodRow
    <3>5. NewOK'
      <4>1. \A l \in DOMAIN imports' : DOMAIN imports'[l] = ImportFields
        BY <2>4, <3>1 DEF BackupInv, FormInv, NewOK
      <4>2. ASSUME NEW l \in DOMAIN imports', NEW i \in DOMAIN imports'[l].new
            PROVE  i \in Nat \ {0} /\ i < nextId' /\ GoodRow(imports'[l].new[i])
        BY <1>4, <1>7, <2>1, <2>4, <3>1, <3>2, <4>2 DEF BackupInv, FormInv, NewOK
      <4>3. ASSUME NEW l \in DOMAIN imports', NEW i \in DOMAIN imports'[l].new,
                   NEW o \in DOMAIN imports' \ {l}
            PROVE  i \notin DOMAIN imports'[o].new
        BY <1>4, <2>1, <2>4, <3>1, <4>3 DEF BackupInv, FormInv, NewOK
      <4> QED BY <4>1, <4>2, <4>3 DEF NewOK, GoodRow
    <3> QED BY <1>1, <3>3, <3>4, <3>5, FormKept DEF BackupInv, FormInv
  <2> QED BY <1>1, <1>7, <2>u, <2>m, <2>4, <2>5, <2>6, ImportStep
<1> QED BY <1>entry, <1>6, <1>7

LEMMA CommitImportGood == ASSUME BackupInv, CommitImport PROVE BackupInv'
<1>1. UNCHANGED <<nextId, form, saving, test, disk, export, tab>>
  BY DEF CommitImport
<1>2. PICK n \in DOMAIN imports :
        /\ imports[n].st \in {"sent", "running"} /\ imports[n].left = {}
        /\ rows' = [i \in DOMAIN rows \cup DOMAIN imports[n].new |->
                        IF i \in DOMAIN imports[n].new THEN imports[n].new[i] ELSE rows[i]]
        /\ hist' = [i \in DOMAIN rows' |-> Sees(imports[n], i)]
        /\ applied' = IF imports[n].alone THEN imports[n].file ELSE None
        /\ \E st \in {"ok", "err"} :
            imports' = [m \in DOMAIN imports |->
                IF m = n THEN [imports[n] EXCEPT !.st = st, !.new = <<>>, !.items = <<>>]
                ELSE [imports[m] EXCEPT !.alone = FALSE]]
  BY DEF CommitImport
<1> PICK t : t = imports[n]
  OBVIOUS
<1>3. /\ Active(t) /\ GoodImport(t) /\ Progress(t) /\ t.left = {}
      /\ \A l \in DOMAIN imports : DOMAIN imports[l] = ImportFields
  BY <1>2 DEF Active, BackupInv, ImportOK, FormInv, NewOK
<1>4. \A i \in DOMAIN rows : i \notin DOMAIN t.new
  BY DEF BackupInv, FormInv, RowsOK, Known
<1>5. /\ DOMAIN rows' = DOMAIN rows \cup DOMAIN t.new
      /\ \A i \in DOMAIN rows' : rows'[i] = RowOf(t, i) /\ hist'[i] = Sees(t, i)
  BY <1>2 DEF RowOf
<1> PICK u : u = imports'[n]
  OBVIOUS
<1>6. /\ DOMAIN u = ImportFields /\ u.file = t.file /\ u.left = {} /\ u.st \in {"ok", "err"}
      /\ DOMAIN u.new = {} /\ DOMAIN u.items = {}
  BY <1>2, <1>3, NoneSent DEF ImportFields
<1>7. /\ DOMAIN imports' = DOMAIN imports
      /\ \A l \in DOMAIN imports \ {n} :
            /\ DOMAIN imports'[l] = ImportFields /\ ~imports'[l].alone
            /\ imports'[l].file = imports[l].file /\ imports'[l].left = imports[l].left
            /\ imports'[l].new = imports[l].new /\ imports'[l].items = imports[l].items
            /\ imports'[l].st = imports[l].st
  <2>1. ASSUME NEW l \in DOMAIN imports \ {n}
        PROVE  imports'[l] = [imports[l] EXCEPT !.alone = FALSE]
    BY <1>2, <2>1
  <2>2. DOMAIN imports' = DOMAIN imports
    BY <1>2
  <2> QED BY <1>3, <2>1, <2>2 DEF ImportFields
<1>8. FormInv'
  <2>1. Moves
    BY <1>1, <1>4, <1>5, <1>6, <1>7 DEF Moves, RowOf, BackupInv, FormInv, RowsOK
  <2>2. ASSUME NEW i \in DOMAIN rows' PROVE i # 0 /\ Known(i)' /\ GoodRow(rows'[i])
    <3>1. CASE i \in DOMAIN rows
      BY <1>1, <1>4, <1>5, <1>6, <1>7, <3>1 DEF BackupInv, FormInv, RowsOK, Known, RowOf
    <3>2. CASE i \in DOMAIN t.new
      BY <1>1, <1>5, <1>6, <1>7, <3>2 DEF BackupInv, FormInv, NewOK, Known, RowOf
    <3> QED BY <1>5, <3>1, <3>2
  <2>3. RowsOK'
    BY <1>1, <2>2 DEF BackupInv, FormInv, RowsOK, GoodRow
  <2>4. NewOK'
    <3>1. ASSUME NEW l \in DOMAIN imports', NEW i \in DOMAIN imports'[l].new
          PROVE  /\ i \in Nat \ {0} /\ i < nextId' /\ GoodRow(imports'[l].new[i])
                 /\ \A m \in DOMAIN imports' \ {l} : i \notin DOMAIN imports'[m].new
      BY <1>1, <1>6, <1>7, <3>1 DEF BackupInv, FormInv, NewOK
    <3> QED BY <1>6, <1>7, <3>1 DEF NewOK, GoodRow
  <2> QED BY <1>1, <2>1, <2>3, <2>4, FormKept DEF BackupInv, FormInv
<1>9. HistOK'
  <2>1. \A i : Sees(t, i) \in [Item -> Nat]
    BY <1>3, SeesNat DEF GoodImport, BackupInv, Sees
  <2> QED BY <1>2, <2>1 DEF HistOK
<1>10. ImportComplete'
  <2>1. SUFFICES ASSUME applied' # None, NEW k \in DOMAIN applied'
                 PROVE  \E i \in DOMAIN rows' :
                            /\ SameKey(rows'[i], applied'[k])
                            /\ \A x \in applied'[k].items : hist'[i][x] > 0
    BY DEF ImportComplete, SameKey
  <2>2. t.alone /\ applied' = t.file
    BY <1>2, <2>1
  <2>3. PICK i : Covers(t, i, t.file[k])
    BY <1>3, <2>1, <2>2 DEF Progress
  <2> QED BY <1>5, <2>2, <2>3 DEF Covers
<1>11. FilesOK'
  BY <1>1 DEF BackupInv, FilesOK, GoodFile, GoodEntry, Item
<1>12. ASSUME NEW l \in DOMAIN imports' PROVE ImportOK(l)'
  <2>1. CASE l # n
    BY <1>7, <1>12, <2>1, ImportFrame DEF BackupInv, Active
  <2>2. CASE l = n
    <3>1. GoodImport(u)'
      BY <1>3, <1>6 DEF GoodImport, GoodFile, GoodEntry, Item
    <3>2. Progress(u)' /\ Idle(u)'
      BY <1>6 DEF Progress, Idle, Active
    <3> QED BY <2>2, <3>1, <3>2 DEF ImportOK
  <2> QED BY <2>1, <2>2
<1> QED BY <1>8, <1>9, <1>10, <1>11, <1>12 DEF BackupInv

---------------------------------------------------------------------------
(* The theorems.                                                             *)

LEMMA InitGood == Init => BackupInv
<1> SUFFICES ASSUME Init PROVE BackupInv
  OBVIOUS
<1>1. rows = InitRows /\ form = None /\ saving = None /\ test = None /\ imports = <<>>
      /\ nextId = Cardinality(DOMAIN InitRows) + 1
  BY DEF Init, FormInit
<1>2. PICK n \in 0..MaxId : InitRows \in
            [1..n -> [name : Name, url : Url \cup {Placeholder(d) : d \in Driver},
                      type : Type, interval : Nat, timeout : Nat, expected : Nat, warn : Nat,
                      driver : Driver \cup {None}, dsn : DSN \cup BuiltDSN \cup {None},
                      restored : BOOLEAN]]
  BY FormAssumption
<1>3. n \in Nat /\ DOMAIN rows = 1..n /\ nextId = n + 1
  <2>1. n \in Nat /\ DOMAIN InitRows = 1..n
    BY <1>2, FormAssumption
  <2>2. Cardinality(1..n) = IF 1 > n THEN 0 ELSE n - 1 + 1
    BY <2>1, FS_Interval
  <2>3. Cardinality(1..n) = n
    BY <2>1, <2>2
  <2> QED BY <1>1, <2>1, <2>3
<1>4. ASSUME NEW i \in DOMAIN rows PROVE i # 0 /\ Known(i) /\ GoodRow(rows[i])
  <2>1. GoodRow(rows[i])
    BY <1>1, <1>2, <1>4, FormAssumption DEF GoodRow, RowFields
  <2>2. i # 0 /\ Known(i)
    BY <1>1, <1>3, <1>4, NoneSent DEF Known
  <2> QED BY <2>1, <2>2
<1>5. FormInv
  BY <1>1, <1>3, <1>4, NoneSent DEF FormInv, RowsOK, NewOK
<1>6. HistOK
  <2>1. rows = [i \in DOMAIN rows |-> rows[i]]
    BY <1>1, <1>2
  <2>2. hist = [i \in DOMAIN rows |-> NoItems] /\ NoItems \in [Item -> Nat]
    BY DEF Init, NoItems
  <2> QED BY <2>1, <2>2 DEF HistOK
<1>7. FilesOK
  <2>1. disk = InitFile /\ tab = FreshTab /\ export = None
    BY DEF Init
  <2>2. InitFile # None => GoodFile(InitFile)
    BY BackupAssumption DEF GoodFile, GoodEntry, EntryFields
  <2> QED BY <2>1, <2>2 DEF FilesOK, FreshTab, TabFields
<1>8. ImportComplete
  BY DEF Init, ImportComplete
<1> QED BY <1>1, <1>5, <1>6, <1>7, <1>8, NoneSent DEF BackupInv

LEMMA StepGood == BackupInv /\ [Next]_vars => BackupInv'
<1> SUFFICES ASSUME BackupInv, [Next]_vars PROVE BackupInv'
  OBVIOUS
<1>1. CASE HandleFile \/ Confirm \/ HandleClear BY <1>1, TabGood
<1>2. CASE Leave \/ SettleImport BY <1>2, PageGood
<1>3. CASE ExportMonitors \/ ExportLogs \/ ExportIncidents \/ FailExport BY <1>3, ExportGood
<1>4. CASE HandleImport BY <1>4, HandleImportGood
<1>5. CASE ImportMonitor BY <1>5, ImportMonitorGood
<1>6. CASE FailImport BY <1>6, FailImportGood
<1>7. CASE CommitImport BY <1>7, CommitImportGood
<1>8. CASE Check BY <1>8, CheckGood
<1>9. CASE FormStep BY <1>9, FormStepGood
<1>10. CASE UNCHANGED vars
  <2>1. FilesOK'
    BY <1>10 DEF vars, BackupInv, FilesOK, GoodFile, GoodEntry, Item
  <2> QED BY <1>10, <2>1, TabFrame DEF vars
<1> QED BY <1>1, <1>2, <1>3, <1>4, <1>5, <1>6, <1>7, <1>8, <1>9, <1>10 DEF Next

LEMMA Invariance == Spec => []BackupInv
BY InitGood, StepGood, PTL DEF Spec

\* A database monitor has a connection string unless a backup restored it,
\* whatever the forms, the bulk form and the imports do.
THEOREM DatabasesConnected == Spec => []DatabaseHasDSN
<1>1. BackupInv => DatabaseHasDSN
  BY DEF BackupInv, FormInv, RowsOK, GoodRow, DatabaseHasDSN
<1> QED BY <1>1, Invariance, PTL

\* A save or a test is refused only when its monitor is gone, for a fraction,
\* for a number or name its column cannot hold, or for want of a key.
THEOREM RefusalsExcused == Spec => []AcceptedByServer
<1>1. BackupInv => AcceptedByServer
  BY DEF BackupInv, FormInv, GoodSave, GoodTest, Excused, AcceptedByServer
<1> QED BY <1>1, Invariance, PTL

\* A save in which no connection was given leaves the stored string.
THEOREM SilentSaveKeepsDSN == Spec => StoredDSNKept
<1>1. ASSUME BackupInv, HandleSave, saving.silent, saving.target # 0
      PROVE  rows'[saving.target].dsn = rows[saving.target].dsn
  <2> PICK p : p = saving.payload
    OBVIOUS
  <2>1. GoodSave(saving) /\ saving.st = "sent" /\ SaveAccepted(p)
    BY <1>1 DEF HandleSave, Sent, BackupInv, FormInv
  <2>2. p.target = saving.target /\ GoodPayload(p) /\ p.dsn = None
    BY <1>1, <2>1 DEF GoodSave
  <2>3. p.target \in DOMAIN rows /\ rows' = [rows EXCEPT ![p.target] = UpdatedRow(@, p)]
    BY <1>1, <2>1, <2>2 DEF HandleSave, SaveAccepted
  <2>4. GoodRow(rows[p.target])
    BY <1>1, <2>3 DEF BackupInv, FormInv, RowsOK
  <2>5. p.type = "database" => rows[p.target].dsn # None
    BY <2>2, <2>3 DEF GoodPayload, Connected, HasDSN
  <2>6. UpdatedRow(rows[p.target], p).dsn = rows[p.target].dsn
    BY <2>2, <2>4, <2>5, UpdatedGood
  <2> QED BY <2>2, <2>3, <2>6
<1>2. BackupInv /\ [Next]_vars =>
        [HandleSave /\ saving.silent /\ saving.target # 0
            => rows'[saving.target].dsn = rows[saving.target].dsn]_formVars
  BY <1>1
<1> QED BY <1>2, Invariance, PTL DEF Spec, StoredDSNKept

\* An import that nobody else wrote during leaves every monitor of its file
\* in place with all its history, as long as nobody writes.
THEOREM ImportsComplete == Spec => []ImportComplete
<1>1. BackupInv => ImportComplete
  BY DEF BackupInv
<1> QED BY <1>1, Invariance, PTL

\* Importing again what was imported last, when nobody else has written and
\* no two monitors share name and URL, changes nothing.
THEOREM RetriesAddNothing == Spec => RetryAddsNothing
<1>1. ASSUME BackupInv, [Next]_vars, NEW n \in DOMAIN imports,
             Active(imports[n]), imports[n].alone, imports[n].file = applied, Unambiguous
      PROVE  UNCHANGED <<rows, hist>> \/ imports'[n].st \in {"sent", "running"}
  <2>1. CASE Disturbed
    <3>1. DOMAIN imports[n] = ImportFields
      BY <1>1 DEF BackupInv, FormInv, NewOK
    <3>2. imports'[n] = [imports[n] EXCEPT !.alone = FALSE]
      BY <2>1 DEF Disturbed
    <3> QED BY <1>1, <3>1, <3>2 DEF Active, ImportFields
  <2>2. CASE CommitImport
    <3>1. PICK m \in DOMAIN imports :
            /\ imports[m].st \in {"sent", "running"} /\ imports[m].left = {}
            /\ rows' = [i \in DOMAIN rows \cup DOMAIN imports[m].new |->
                            IF i \in DOMAIN imports[m].new THEN imports[m].new[i] ELSE rows[i]]
            /\ hist' = [i \in DOMAIN rows' |-> Sees(imports[m], i)]
            /\ n # m => imports'[n] = [imports[n] EXCEPT !.alone = FALSE]
      BY <1>1, <2>2 DEF CommitImport
    <3>2. CASE n # m
      <4>1. DOMAIN imports[n] = ImportFields
        BY <1>1 DEF BackupInv, FormInv, NewOK
      <4> QED BY <1>1, <3>1, <3>2, <4>1 DEF Active, ImportFields
    <3>3. CASE n = m
      <4>1. DOMAIN imports[m].new = {} /\ DOMAIN imports[m].items = {}
        BY <1>1, <3>3 DEF BackupInv, ImportOK, Idle
      <4>2. rows' = rows
        BY <1>1, <3>1, <4>1 DEF BackupInv, HistOK
      <4>3. ASSUME NEW i \in DOMAIN rows PROVE Sees(imports[m], i) = hist[i]
        <5>1. hist[i] \in [Item -> Nat] /\ i \in DOMAIN hist
          BY <1>1 DEF BackupInv, HistOK
        <5>2. Sees(imports[m], i) = [x \in Item |-> hist[i][x] + 0]
          BY <4>1, <5>1 DEF Sees
        <5> QED BY <5>1, <5>2
      <4>4. hist' = hist
        BY <1>1, <3>1, <4>2, <4>3 DEF BackupInv, HistOK
      <4> QED BY <4>2, <4>4
    <3> QED BY <3>2, <3>3
  <2>3. CASE FormStep /\ ~Disturbed
    <3>1. rows' = rows /\ imports' = imports
      BY <2>3 DEF FormStep
    <3> QED BY <1>1, <3>1 DEF Active
  <2>4. ~Disturbed /\ ~CommitImport /\ ~FormStep => UNCHANGED <<rows, hist>>
    BY <1>1 DEF Next, vars, HandleFile, Confirm, HandleClear, Click, HandleImport, Leave,
                SettleImport, ExportMonitors, ExportLogs, ExportIncidents, FailExport,
                ExportStep, ImportMonitor, FailImport, Check
  <2> QED BY <2>1, <2>2, <2>3, <2>4
<1>2. BackupInv /\ [Next]_vars =>
        [\A n \in DOMAIN imports :
            /\ imports[n].st \in {"sent", "running"} /\ imports[n].alone
            /\ imports[n].file = applied
            /\ \A i, j \in DOMAIN rows :
                    rows[i].name = rows[j].name /\ rows[i].url = rows[j].url => i = j
            => UNCHANGED <<rows, hist>> \/ imports'[n].st \in {"sent", "running"}]_vars
  BY <1>1 DEF Active, Unambiguous
<1> QED BY <1>2, Invariance, PTL DEF Spec, RetryAddsNothing

---------------------------------------------------------------------------
(* An import that nobody else wrote during only adds: what it holds to be    *)
(* inserted is missing from the tables, and is there once.                   *)

Careful(t) ==
    Active(t) /\ t.alone =>
        /\ \A i \in DOMAIN t.items, x \in Item :
                \/ t.items[i][x] = 0
                \/ t.items[i][x] = 1 /\ (i \in DOMAIN hist => hist[i][x] = 0)
        /\ \A i \in DOMAIN t.new, j \in DOMAIN rows : ~SameKey(t.new[i], rows[j])
        /\ \A i, j \in DOMAIN t.new : SameKey(t.new[i], t.new[j]) => i = j

AllCareful == \A n \in DOMAIN imports : Careful(imports[n])

\* Steps that leave what import n has done alone.
LEMMA CarefulFrame ==
  ASSUME NEW n \in DOMAIN imports, Careful(imports[n]),
         imports'[n].new = imports[n].new, imports'[n].items = imports[n].items,
         Active(imports'[n]) => Active(imports[n]),
         imports'[n].alone => imports[n].alone /\ rows' = rows /\ hist' = hist
  PROVE  Careful(imports[n])'
<1> PICK t : t = imports[n]
  OBVIOUS
<1> PICK u : u = imports'[n]
  OBVIOUS
<1>1. ASSUME Active(u), u.alone
      PROVE  Active(t) /\ t.alone /\ u.new = t.new /\ u.items = t.items
             /\ rows' = rows /\ hist' = hist
  BY <1>1
<1>2. Careful(u)'
  BY <1>1 DEF Careful, Active, SameKey, Item
<1> QED BY <1>2

\* Somebody else writes: no import is alone any more.
LEMMA CarefulDisturbed ==
  ASSUME BackupInv, Disturbed PROVE AllCareful'
<1>1. \A n \in DOMAIN imports : DOMAIN imports[n] = ImportFields
  BY DEF BackupInv, FormInv, NewOK
<1>2. /\ DOMAIN imports' = DOMAIN imports
      /\ \A n \in DOMAIN imports' : ~imports'[n].alone
  BY <1>1 DEF Disturbed, ImportFields
<1> QED BY <1>2 DEF AllCareful, Careful

\* What Merged holds for the items of the monitor and of the others.
LEMMA MergedItems ==
  ASSUME NEW t, DOMAIN t = ImportFields, NEW k, NEW i, NEW e, NEW m, m = Done(t, k, i, e),
         NEW j \in DOMAIN m.items, NEW x \in Item
  PROVE  \/ j \in DOMAIN t.items /\ m.items[j][x] = t.items[j][x]
         \/ /\ j = i
            /\ m.items[j][x] = (IF i \in DOMAIN t.items THEN t.items[i][x] ELSE 0)
                               + (IF x \in Missing(t, i, e) THEN 1 ELSE 0)
<1> PICK add : add = Missing(t, i, e)
  OBVIOUS
<1> PICK had : had = IF i \in DOMAIN t.items THEN t.items[i] ELSE NoItems
  OBVIOUS
<1> PICK its : its = IF add = {} THEN t.items
                     ELSE [l \in DOMAIN t.items \cup {i} |->
                            IF l = i THEN [y \in Item |-> had[y] + IF y \in add THEN 1 ELSE 0]
                            ELSE t.items[l]]
  OBVIOUS
<1>1. Merged(t, k, i, e) = [t EXCEPT !.left = @ \ {k}, !.items = its]
  BY DEF Merged
<1>2. m.items = its
  BY <1>1 DEF Done, ImportFields
<1>3. had[x] = IF i \in DOMAIN t.items THEN t.items[i][x] ELSE 0
  BY DEF NoItems
<1>4. CASE add = {}
  BY <1>2, <1>4
<1>5. CASE add # {} /\ j # i
  BY <1>2, <1>5
<1>6. CASE add # {} /\ j = i
  <2>1. its[j][x] = had[x] + IF x \in add THEN 1 ELSE 0
    BY <1>6
  <2> QED BY <1>2, <1>3, <1>6, <2>1
<1> QED BY <1>4, <1>5, <1>6

\* An item is added only where the transaction sees none, so it is there once.
LEMMA AddedOnce ==
  ASSUME HistOK, NEW t, DOMAIN t = ImportFields, GoodImport(t), Active(t), t.alone, Careful(t),
         NEW k, NEW i, NEW e, e.items \subseteq Item, NEW m, m = Done(t, k, i, e),
         NEW j \in DOMAIN m.items, NEW x \in Item
  PROVE  \/ m.items[j][x] = 0
         \/ m.items[j][x] = 1 /\ (j \in DOMAIN hist => hist[j][x] = 0)
<1>1. CASE j \in DOMAIN t.items /\ m.items[j][x] = t.items[j][x]
  BY <1>1 DEF Careful
<1>2. CASE /\ j = i
           /\ m.items[j][x] = (IF i \in DOMAIN t.items THEN t.items[i][x] ELSE 0)
                              + (IF x \in Missing(t, i, e) THEN 1 ELSE 0)
  <2> PICK had : had = IF i \in DOMAIN t.items THEN t.items[i][x] ELSE 0
    OBVIOUS
  <2> PICK h : h = IF i \in DOMAIN hist THEN hist[i][x] ELSE 0
    OBVIOUS
  <2>1. had = 0 \/ (had = 1 /\ h = 0)
    <3>1. CASE i \in DOMAIN t.items
      <4>1. \/ t.items[i][x] = 0
            \/ t.items[i][x] = 1 /\ (i \in DOMAIN hist => hist[i][x] = 0)
        BY <3>1 DEF Careful
      <4> QED BY <3>1, <4>1
    <3>2. CASE i \notin DOMAIN t.items
      BY <3>2
    <3> QED BY <3>1, <3>2
  <2>2. CASE x \notin Missing(t, i, e)
    <3>1. m.items[j][x] = had
      BY <1>2, <2>1, <2>2
    <3> QED BY <1>2, <2>1, <3>1
  <2>3. CASE x \in Missing(t, i, e)
    <3>1. Sees(t, i)[x] = 0
      BY <2>3 DEF Missing
    <3>2. Sees(t, i)[x] = h + had /\ h \in Nat
      BY SeesNat DEF GoodImport
    <3>3. h = 0 /\ had = 0
      BY <2>1, <3>1, <3>2
    <3>4. m.items[j][x] = 1
      BY <1>2, <2>3, <3>3
    <3> QED BY <1>2, <3>3, <3>4
  <2> QED BY <2>2, <2>3
<1> QED BY <1>1, <1>2, MergedItems

LEMMA CarefulImportMonitor ==
  ASSUME BackupInv, AllCareful, ImportMonitor PROVE AllCareful'
<1>1. UNCHANGED <<rows, hist>>
  BY DEF ImportMonitor
<1> DEFINE Found(t, e) == {i \in DOMAIN rows : SameKey(rows[i], e)}
                          \cup {i \in DOMAIN t.new : SameKey(t.new[i], e)}
           WithNew(t, e) == [t EXCEPT !.new = [j \in DOMAIN @ \cup {nextId} |->
                                        IF j = nextId THEN Restored(e) ELSE @[j]]]
<1>2. PICK n \in DOMAIN imports : \E k \in imports[n].left :
        /\ imports[n].st \in {"sent", "running"}
        /\ \/ \E i \in Found(imports[n], imports[n].file[k]) :
                imports' = [imports EXCEPT ![n] = Done(imports[n], k, i, imports[n].file[k])]
           \/ /\ Found(imports[n], imports[n].file[k]) = {}
              /\ imports' = [imports EXCEPT ![n] =
                    Done(WithNew(imports[n], imports[n].file[k]), k, nextId, imports[n].file[k])]
  BY DEF ImportMonitor, Done
<1> PICK t : t = imports[n]
  OBVIOUS
<1>entry. PICK k \in t.left :
        /\ t.st \in {"sent", "running"}
        /\ \/ \E i \in Found(t, t.file[k]) :
                imports' = [imports EXCEPT ![n] = Done(t, k, i, t.file[k])]
           \/ /\ Found(t, t.file[k]) = {}
              /\ imports' = [imports EXCEPT ![n] = Done(WithNew(t, t.file[k]), k, nextId, t.file[k])]
  BY <1>2
<1> PICK e : e = t.file[k]
  OBVIOUS
<1>3. /\ Active(t) /\ GoodImport(t) /\ DOMAIN t = ImportFields /\ Careful(t)
      /\ HistOK /\ e.items \subseteq Item
  BY <1>entry DEF Active, BackupInv, ImportOK, FormInv, NewOK, GoodImport, GoodFile, GoodEntry,
                  AllCareful
<1> DEFINE OthersStay(m) == imports' = [imports EXCEPT ![n] = m]
<1>4. ASSUME NEW m, OthersStay(m), Careful(m) PROVE AllCareful'
  <2>1. /\ DOMAIN imports' = DOMAIN imports /\ imports'[n] = m
        /\ \A l \in DOMAIN imports \ {n} : imports'[l] = imports[l]
    BY <1>4
  <2>2. Careful(m)'
    BY <1>1, <1>4 DEF Careful, Active, SameKey, Item
  <2>3. ASSUME NEW l \in DOMAIN imports, l # n PROVE Careful(imports[l])'
    BY <1>1, <2>1, <2>3, CarefulFrame DEF AllCareful
  <2> QED BY <2>1, <2>2, <2>3 DEF AllCareful
<1>5. ASSUME NEW i \in Found(t, e), imports' = [imports EXCEPT ![n] = Done(t, k, i, e)]
      PROVE  AllCareful'
  <2> PICK m : m = Done(t, k, i, e)
    OBVIOUS
  <2>1. m.new = t.new /\ m.alone = t.alone
    BY <1>3, MergedGood DEF GoodImport
  <2>2. Careful(m)
    <3>1. SUFFICES ASSUME m.alone PROVE Careful(m)
      BY DEF Careful
    <3>2. ASSUME NEW j \in DOMAIN m.items, NEW x \in Item
          PROVE  \/ m.items[j][x] = 0
                 \/ m.items[j][x] = 1 /\ (j \in DOMAIN hist => hist[j][x] = 0)
      <4>1. t.alone
        BY <2>1, <3>1
      <4> HIDE DEF Found
      <4> QED BY <1>3, <4>1, AddedOnce
    <3> QED BY <1>3, <2>1, <3>1, <3>2 DEF Careful
  <2> QED BY <1>4, <1>5, <2>2
<1>6. ASSUME Found(t, e) = {},
             imports' = [imports EXCEPT ![n] = Done(WithNew(t, e), k, nextId, e)]
      PROVE  AllCareful'
  <2> PICK w : w = nextId
    OBVIOUS
  <2>u. PICK u : u = WithNew(t, e)
    OBVIOUS
  <2>m. PICK m : m = Done(u, k, w, e)
    OBVIOUS
  <2>1. /\ DOMAIN u = ImportFields /\ u.file = t.file /\ u.left = t.left /\ u.items = t.items
        /\ u.alone = t.alone /\ u.st = t.st /\ DOMAIN u.new = DOMAIN t.new \cup {w}
        /\ \A j \in DOMAIN u.new : u.new[j] = IF j = w THEN Restored(e) ELSE t.new[j]
    BY <1>3, <2>u DEF ImportFields
  <2>2. GoodImport(u) /\ Active(u)
    BY <1>3, <2>1 DEF GoodImport, Active
  <2>3. m.new = u.new /\ m.alone = u.alone
    BY <1>3, <2>1, <2>2, <2>m, MergedGood DEF GoodImport
  <2>4. w \notin DOMAIN t.new
    BY DEF BackupInv, FormInv, NewOK
  <2>5. ASSUME t.alone PROVE Careful(u)
    <3>1. \A j : SameKey(Restored(e), j) => SameKey(j, e)
      BY DEF SameKey, Restored
    <3>2. \A j \in DOMAIN rows : ~SameKey(Restored(e), rows[j])
      BY <1>6, <3>1
    <3>3. \A j \in DOMAIN t.new : ~SameKey(Restored(e), t.new[j]) /\ ~SameKey(t.new[j], Restored(e))
      <4>1. \A j \in DOMAIN t.new : ~SameKey(t.new[j], e)
        BY <1>6
      <4> QED BY <4>1 DEF SameKey, Restored
    <3>4. \A i \in DOMAIN u.new, j \in DOMAIN rows : ~SameKey(u.new[i], rows[j])
      BY <1>3, <2>1, <2>5, <3>2 DEF Careful
    <3>5. ASSUME NEW i \in DOMAIN u.new, NEW j \in DOMAIN u.new, SameKey(u.new[i], u.new[j])
          PROVE  i = j
      <4>1. CASE i # w /\ j # w
        BY <1>3, <2>1, <2>5, <3>5, <4>1 DEF Careful
      <4>2. CASE i = w /\ j # w
        BY <2>1, <3>3, <3>5, <4>2
      <4>3. CASE i # w /\ j = w
        BY <2>1, <3>3, <3>5, <4>3
      <4> QED BY <4>1, <4>2, <4>3
    <3>6. \A i \in DOMAIN u.items, x \in Item :
                \/ u.items[i][x] = 0
                \/ u.items[i][x] = 1 /\ (i \in DOMAIN hist => hist[i][x] = 0)
      BY <1>3, <2>1, <2>5 DEF Careful
    <3> QED BY <3>4, <3>5, <3>6 DEF Careful
  <2>6. Careful(m)
    <3>1. SUFFICES ASSUME m.alone PROVE Careful(m)
      BY DEF Careful
    <3>2. Careful(u) /\ u.alone
      BY <2>1, <2>3, <2>5, <3>1
    <3>3. \A j \in DOMAIN m.items, x \in Item :
                \/ m.items[j][x] = 0
                \/ m.items[j][x] = 1 /\ (j \in DOMAIN hist => hist[j][x] = 0)
      BY <1>3, <2>1, <2>2, <2>m, <3>2, AddedOnce
    <3> QED BY <2>2, <2>3, <3>2, <3>3 DEF Careful
  <2> QED BY <1>4, <1>6, <2>u, <2>m, <2>6
<1> QED BY <1>entry, <1>5, <1>6

\* The steps of the tab, of the export and of an import that ends.
LEMMA CarefulStep ==
  ASSUME BackupInv, AllCareful, [Next]_vars PROVE AllCareful'
<1>f. \A n \in DOMAIN imports : DOMAIN imports[n] = ImportFields
  BY DEF BackupInv, FormInv, NewOK
<1>1. ASSUME UNCHANGED <<rows, hist, imports>> PROVE AllCareful'
  BY <1>1, CarefulFrame DEF AllCareful
<1>2. CASE HandleFile \/ Confirm \/ HandleClear \/ ExportMonitors \/ ExportLogs
           \/ ExportIncidents \/ FailExport \/ UNCHANGED vars
  BY <1>1, <1>2 DEF HandleFile, Confirm, HandleClear, Click, ExportMonitors, ExportLogs,
                    ExportIncidents, FailExport, ExportStep, vars
<1>3. CASE HandleImport
  <2>1. /\ UNCHANGED <<rows, hist>>
        /\ \A n \in DOMAIN imports' :
              \/ n \in DOMAIN imports /\ imports'[n] = imports[n]
              \/ imports'[n].new = <<>> /\ imports'[n].items = <<>>
    BY <1>3 DEF HandleImport
  <2>2. ASSUME NEW n \in DOMAIN imports' PROVE Careful(imports[n])'
    <3>1. CASE n \in DOMAIN imports /\ imports'[n] = imports[n]
      BY <2>1, <3>1, CarefulFrame DEF AllCareful
    <3>2. CASE imports'[n].new = <<>> /\ imports'[n].items = <<>>
      BY <3>2, NoneSent DEF Careful
    <3> QED BY <2>1, <2>2, <3>1, <3>2
  <2> QED BY <2>2 DEF AllCareful
<1>4. CASE Leave
  <2>1. /\ UNCHANGED <<rows, hist>> /\ DOMAIN imports' = DOMAIN imports
        /\ \A n \in DOMAIN imports :
              imports'[n] = [imports[n] EXCEPT !.here = FALSE]
    BY <1>4 DEF Leave
  <2>2. ASSUME NEW n \in DOMAIN imports
        PROVE  /\ imports'[n].new = imports[n].new /\ imports'[n].items = imports[n].items
               /\ imports'[n].st = imports[n].st /\ imports'[n].alone = imports[n].alone
    BY <1>f, <2>1 DEF ImportFields
  <2> QED BY <2>1, <2>2, CarefulFrame DEF AllCareful, Active
<1>5. CASE SettleImport
  <2>1. PICK n \in DOMAIN imports :
            imports' = [imports EXCEPT ![n] = [imports[n] EXCEPT !.st = "settled"]]
    BY <1>5 DEF SettleImport
  <2>2. UNCHANGED <<rows, hist>> /\ DOMAIN imports' = DOMAIN imports
    BY <1>5, <2>1 DEF SettleImport
  <2>3. ~Active(imports'[n])
    BY <1>f, <2>1 DEF Active, ImportFields
  <2>4. ASSUME NEW l \in DOMAIN imports, l # n PROVE imports'[l] = imports[l]
    BY <2>1, <2>4
  <2>5. ASSUME NEW l \in DOMAIN imports PROVE Careful(imports[l])'
    <3>1. CASE l = n
      BY <2>3, <3>1 DEF Careful, Active
    <3>2. CASE l # n
      BY <2>2, <2>4, <3>2, CarefulFrame DEF AllCareful
    <3> QED BY <3>1, <3>2
  <2> QED BY <2>2, <2>5 DEF AllCareful
<1>6. CASE FailImport
  <2>1. PICK n \in DOMAIN imports : imports' = [imports EXCEPT ![n] =
            [[[imports[n] EXCEPT !.st = "err"] EXCEPT !.new = <<>>] EXCEPT !.items = <<>>]]
    BY <1>6 DEF FailImport
  <2>2. UNCHANGED <<rows, hist>> /\ DOMAIN imports' = DOMAIN imports
    BY <1>6, <2>1 DEF FailImport
  <2>3. ~Active(imports'[n])
    BY <1>f, <2>1 DEF Active, ImportFields
  <2>4. ASSUME NEW l \in DOMAIN imports, l # n PROVE imports'[l] = imports[l]
    BY <2>1, <2>4
  <2>5. ASSUME NEW l \in DOMAIN imports PROVE Careful(imports[l])'
    <3>1. CASE l = n
      BY <2>3, <3>1 DEF Careful, Active
    <3>2. CASE l # n
      BY <2>2, <2>4, <3>2, CarefulFrame DEF AllCareful
    <3> QED BY <3>1, <3>2
  <2> QED BY <2>2, <2>5 DEF AllCareful
<1>7. CASE CommitImport
  <2>1. PICK n \in DOMAIN imports :
        \E st \in {"ok", "err"} :
            imports' = [m \in DOMAIN imports |->
                IF m = n THEN [imports[n] EXCEPT !.st = st, !.new = <<>>, !.items = <<>>]
                ELSE [imports[m] EXCEPT !.alone = FALSE]]
    BY <1>7 DEF CommitImport
  <2>2. ~Active(imports'[n]) /\ DOMAIN imports' = DOMAIN imports
    BY <1>f, <2>1 DEF Active, ImportFields
  <2>3. \A l \in DOMAIN imports \ {n} : ~imports'[l].alone
    BY <1>f, <2>1 DEF ImportFields
  <2> QED BY <2>2, <2>3 DEF AllCareful, Careful, Active
<1>8. CASE ImportMonitor
  BY <1>8, CarefulImportMonitor
<1>9. CASE Check
  BY <1>9, CarefulDisturbed DEF Check
<1>10. CASE FormStep
  <2>1. CASE rows' = rows
    <3>1. hist' = hist
      BY <1>10, <2>1 DEF FormStep, BackupInv, HistOK
    <3> QED BY <1>1, <1>10, <2>1, <3>1 DEF FormStep
  <2>2. CASE rows' # rows
    BY <1>10, <2>2, CarefulDisturbed DEF FormStep
  <2> QED BY <2>1, <2>2
<1> QED BY <1>2, <1>3, <1>4, <1>5, <1>6, <1>7, <1>8, <1>9, <1>10 DEF Next

\* The monitors and the history that were there stay, and what the import
\* adds was missing and is there once, whatever the file repeats.
THEOREM ImportsAddOnce == Spec => ImportAddsOnce
<1>1. Init => AllCareful
  BY NoneSent DEF Init, AllCareful
<1>2. BackupInv /\ AllCareful /\ [Next]_vars => AllCareful'
  BY CarefulStep
<1> DEFINE Added(n) ==
    /\ \A i \in DOMAIN rows : i \in DOMAIN rows' /\ rows'[i] = rows[i]
    /\ \A i \in DOMAIN rows' \ DOMAIN rows, j \in DOMAIN rows' :
            SameKey(rows'[i], rows'[j]) => i = j
    /\ \A i \in DOMAIN rows', x \in Item :
            LET had == IF i \in DOMAIN hist THEN hist[i][x] ELSE 0
            IN  hist'[i][x] = had \/ (had = 0 /\ hist'[i][x] = 1)
<1>3. ASSUME BackupInv, AllCareful, [Next]_vars, NEW n \in DOMAIN imports,
             Active(imports[n]), imports[n].alone, ~Active(imports'[n])
      PROVE  Added(n)
  <2>f. \A m \in DOMAIN imports : DOMAIN imports[m] = ImportFields
    BY <1>3 DEF BackupInv, FormInv, NewOK
  <2>h. HistOK
    BY <1>3 DEF BackupInv
  <2>1. CASE CommitImport
    <3>1. PICK m \in DOMAIN imports :
            /\ rows' = [i \in DOMAIN rows \cup DOMAIN imports[m].new |->
                            IF i \in DOMAIN imports[m].new THEN imports[m].new[i] ELSE rows[i]]
            /\ hist' = [i \in DOMAIN rows' |-> Sees(imports[m], i)]
            /\ n # m => imports'[n] = [imports[n] EXCEPT !.alone = FALSE]
      BY <1>3, <2>1 DEF CommitImport
    <3>2. n = m
      BY <1>3, <2>f, <3>1 DEF Active, ImportFields
    <3> PICK t : t = imports[n]
      OBVIOUS
    <3>3. /\ GoodImport(t) /\ Careful(t) /\ Active(t) /\ t.alone
          /\ \A i \in DOMAIN rows : i \notin DOMAIN t.new
      BY <1>3 DEF BackupInv, ImportOK, AllCareful, FormInv, RowsOK, Known
    <3>4. /\ DOMAIN rows' = DOMAIN rows \cup DOMAIN t.new
          /\ \A i \in DOMAIN t.new : rows'[i] = t.new[i]
          /\ \A i \in DOMAIN rows : rows'[i] = rows[i]
          /\ \A i \in DOMAIN rows' : hist'[i] = Sees(t, i)
      BY <3>1, <3>2, <3>3
    <3>5. ASSUME NEW i \in DOMAIN rows' \ DOMAIN rows, NEW j \in DOMAIN rows',
                 SameKey(rows'[i], rows'[j])
          PROVE  i = j
      BY <3>3, <3>4, <3>5 DEF Careful
    <3>6. ASSUME NEW i \in DOMAIN rows', NEW x \in Item, NEW had,
                 had = IF i \in DOMAIN hist THEN hist[i][x] ELSE 0
          PROVE  hist'[i][x] = had \/ (had = 0 /\ hist'[i][x] = 1)
      <4> PICK own : own = IF i \in DOMAIN t.items THEN t.items[i][x] ELSE 0
        OBVIOUS
      <4>1. hist'[i][x] = had + own /\ had \in Nat
        BY <2>h, <3>3, <3>4, <3>6, SeesNat DEF GoodImport
      <4>2. own = 0 \/ (own = 1 /\ had = 0)
        <5>1. CASE i \in DOMAIN t.items
          <6>1. \/ t.items[i][x] = 0
                \/ t.items[i][x] = 1 /\ (i \in DOMAIN hist => hist[i][x] = 0)
            BY <3>3, <5>1 DEF Careful
          <6> QED BY <3>6, <5>1, <6>1
        <5>2. CASE i \notin DOMAIN t.items
          BY <5>2
        <5> QED BY <5>1, <5>2
      <4> QED BY <4>1, <4>2
    <3> QED BY <3>4, <3>5, <3>6
  <2>2. CASE UNCHANGED <<rows, hist>>
    BY <2>h, <2>2 DEF HistOK
  <2>3. CASE Disturbed
    <3>1. imports'[n] = [imports[n] EXCEPT !.alone = FALSE]
      BY <2>3 DEF Disturbed
    <3> QED BY <1>3, <2>f, <3>1 DEF Active, ImportFields
  <2>4. CASE FormStep /\ ~Disturbed
    BY <1>3, <2>4 DEF FormStep
  <2>5. ~Disturbed /\ ~CommitImport /\ ~FormStep => UNCHANGED <<rows, hist>>
    BY <1>3 DEF Next, vars, HandleFile, Confirm, HandleClear, Click, HandleImport, Leave,
                SettleImport, ExportMonitors, ExportLogs, ExportIncidents, FailExport,
                ExportStep, ImportMonitor, FailImport, Check
  <2> QED BY <2>1, <2>2, <2>3, <2>4, <2>5
<1>4. BackupInv /\ AllCareful /\ [Next]_vars =>
        [\A n \in DOMAIN imports :
            /\ imports[n].st \in {"sent", "running"} /\ imports[n].alone
            /\ imports'[n].st \notin {"sent", "running"}
            => Added(n)]_vars
  <2> HIDE DEF Added
  <2> QED BY <1>3 DEF Active
<1> QED BY <1>1, <1>2, <1>4, Invariance, PTL DEF Spec, ImportAddsOnce
===========================================================================
