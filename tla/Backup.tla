------------------------------- MODULE Backup -------------------------------
(* Export and import of the monitors with their history, the settings tab    *)
(* that asks for them, and the forms of MonitorForm and the scheduler that   *)
(* write the same tables meanwhile.  An import is one transaction, a monitor *)
(* of the file at a time, at read committed: it sees what others have        *)
(* committed and what it has inserted itself.                                *)
EXTENDS MonitorForm, FiniteSets

CONSTANTS
    Log, Incident,    \* history: log lines (by checked_at, not older than the
                      \* retention) and incidents (by title and started_at)
    InitFile,         \* a backup of another instance the user has at hand
    MaxImports        \* bound: imports requested

Item    == Log \cup Incident
NoItems == [x \in Item |-> 0]

ASSUME BackupAssumption ==
    /\ MaxImports \in Nat /\ Log \cap Incident = {}
    /\ InitFile # None => \A k \in DOMAIN InitFile :
            InitFile[k] \in [name : Name, url : Url \cup {Placeholder(d) : d \in Driver},
                            type : Type, interval : Nat, timeout : Nat, expected : Nat,
                            items : SUBSET Item]

VARIABLES
    hist,      \* monitor_logs and incidents: id -> how often an item is there
    disk,      \* the backup file the user would choose
    export,    \* the export being made, or None
    tab,       \* component state of the Restore / Import section
    imports,   \* imports requested, by the order they were asked for in
    applied    \* the file imported last, while nothing else has been written
               \* since (ghost)

backupVars == <<hist, disk, export, tab, imports, applied>>
vars == <<rows, nextId, form, saving, test, work,
          hist, disk, export, tab, imports, applied>>

\* Somebody other than the imports wrote.
Disturbed ==
    /\ applied' = None
    /\ imports' = [n \in DOMAIN imports |-> [imports[n] EXCEPT !.alone = FALSE]]

---------------------------------------------------------------------------
(* The tab.                                                                  *)

FreshTab == [file |-> None, confirmed |-> FALSE, loading |-> FALSE, result |-> FALSE]

Click(t) == /\ tab' = t
            /\ UNCHANGED <<rows, nextId, form, saving, test, work, hist, disk, export,
                           imports, applied>>

\* A file can be dropped at any time, also while an import is running.
HandleFile ==
    /\ disk # None
    /\ Click([tab EXCEPT !.file = disk, !.confirmed = FALSE, !.result = FALSE])

Confirm == tab.file # None /\ ~tab.result /\ Click([tab EXCEPT !.confirmed = ~@])

HandleClear ==
    /\ tab.result \/ (tab.file # None /\ ~tab.loading)
    /\ Click([tab EXCEPT !.file = None, !.confirmed = FALSE, !.result = FALSE])

HandleImport ==
    /\ tab.file # None /\ ~tab.result /\ tab.confirmed /\ ~tab.loading
    /\ Cardinality(DOMAIN imports) < MaxImports /\ Works
    /\ tab' = [tab EXCEPT !.loading = TRUE, !.result = FALSE]
    /\ imports' = [n \in 1..(Cardinality(DOMAIN imports) + 1) |->
                      IF n \in DOMAIN imports THEN imports[n]
                      ELSE [st |-> "sent", file |-> tab.file, left |-> DOMAIN tab.file,
                            new |-> <<>>, items |-> <<>>, here |-> TRUE, alone |-> TRUE]]
    /\ UNCHANGED <<rows, nextId, form, saving, test, hist, disk, export, applied>>

\* The user leaves the tab and comes back: the import goes on without it.
Leave ==
    /\ tab' = FreshTab
    /\ imports' = [n \in DOMAIN imports |-> [imports[n] EXCEPT !.here = FALSE]]
    /\ tab # FreshTab
    /\ UNCHANGED <<rows, nextId, form, saving, test, work, hist, disk, export, applied>>

\* The answer: a failure keeps the file and its confirmation for another try.
SettleImport ==
    \E n \in DOMAIN imports :
        /\ imports[n].st \in {"ok", "err"}
        /\ imports' = [imports EXCEPT ![n].st = "settled"]
        /\ tab' = IF ~imports[n].here THEN tab
                  ELSE IF imports[n].st = "err" THEN [tab EXCEPT !.loading = FALSE]
                  ELSE [FreshTab EXCEPT !.result = TRUE]
        /\ UNCHANGED <<rows, nextId, form, saving, test, work, hist, disk, export, applied>>

---------------------------------------------------------------------------
(* The export: monitors, logs and incidents are read one after the other.    *)

ExportStep(e, d) ==
    /\ export' = e /\ disk' = d
    /\ UNCHANGED <<rows, nextId, form, saving, test, work, hist, tab, imports, applied>>

\* What a backup keeps of a monitor.
Exported(r) ==
    [name |-> r.name, url |-> r.url, type |-> r.type, interval |-> r.interval,
     timeout |-> r.timeout, expected |-> r.expected, items |-> {}]

ExportMonitors ==
    /\ export = None /\ Works
    /\ export' = [step |-> "logs", file |-> [i \in DOMAIN rows |-> Exported(rows[i])]]
    /\ UNCHANGED <<rows, nextId, form, saving, test, hist, disk, tab, imports, applied>>

\* History of a monitor the first statement did not see is left out.
WithItems(file, kind) ==
    [i \in DOMAIN file |->
        IF i \in DOMAIN hist
        THEN [file[i] EXCEPT !.items = @ \cup {x \in kind : hist[i][x] > 0}]
        ELSE file[i]]

ExportLogs ==
    /\ export # None /\ export.step = "logs"
    /\ ExportStep([step |-> "incidents", file |-> WithItems(export.file, Log)], disk)

ExportIncidents ==
    /\ export # None /\ export.step = "incidents"
    /\ ExportStep(None, WithItems(export.file, Incident))

FailExport == export # None /\ ExportStep(None, disk)

---------------------------------------------------------------------------
(* The import.                                                               *)

\* The columns the INSERT names; the others take their defaults.
Restored(e) ==
    [name |-> e.name, url |-> e.url, type |-> e.type, interval |-> e.interval,
     timeout |-> e.timeout, expected |-> e.expected, warn |-> Secs(30),
     driver |-> None, dsn |-> None, restored |-> TRUE]

SameKey(r, e) == r.name = e.name /\ r.url = e.url

\* What the transaction sees.
Sees(t, i) ==
    [x \in Item |-> (IF i \in DOMAIN hist THEN hist[i][x] ELSE 0)
                    + (IF i \in DOMAIN t.items THEN t.items[i][x] ELSE 0)]

\* Faulty variant: the items are inserted without looking.
MissingUnchecked(t, i, e) == e.items

\* Faulty variant: only a monitor that is new gets its items.
MissingOfNew(t, i, e) == IF i \in DOMAIN rows THEN {} ELSE e.items

\* The items of entry e that monitor i does not have yet.
Missing(t, i, e) == {x \in e.items : Sees(t, i)[x] = 0}

Merged(t, k, i, e) ==
    LET add == Missing(t, i, e)
        had == IF i \in DOMAIN t.items THEN t.items[i] ELSE NoItems
    IN  [t EXCEPT !.left = @ \ {k},
                  !.items = IF add = {} THEN @
                            ELSE [j \in DOMAIN @ \cup {i} |->
                                    IF j = i THEN [x \in Item |-> had[x] + IF x \in add THEN 1 ELSE 0]
                                    ELSE @[j]]]

\* A monitor with the name and URL of the entry gets its items; without one
\* it is inserted first.
ImportMonitor ==
    \E n \in DOMAIN imports :
        LET t     == imports[n]
            Found(e) == {i \in DOMAIN rows : SameKey(rows[i], e)}
                        \cup {i \in DOMAIN t.new : SameKey(t.new[i], e)}
        IN  /\ t.st \in {"sent", "running"}
            /\ \E k \in t.left :
                LET e == t.file[k]
                IN  \/ \E i \in Found(e) :
                        /\ imports' = [imports EXCEPT ![n] = [Merged(t, k, i, e) EXCEPT !.st = "running"]]
                        /\ nextId' = nextId
                    \/ /\ Found(e) = {} /\ nextId \in Id /\ nextId' = nextId + 1
                       /\ LET u == [t EXCEPT !.new = [j \in DOMAIN @ \cup {nextId} |->
                                        IF j = nextId THEN Restored(e) ELSE @[j]]]
                          IN  imports' = [imports EXCEPT ![n] =
                                    [Merged(u, k, nextId, e) EXCEPT !.st = "running"]]
            /\ UNCHANGED <<rows, form, saving, test, work, hist, disk, export, tab, applied>>

\* A statement fails, or the client is gone: nothing of it stays.
FailImport ==
    \E n \in DOMAIN imports :
        /\ imports[n].st \in {"sent", "running"}
        /\ imports' = [imports EXCEPT ![n].st = "err", ![n].new = <<>>, ![n].items = <<>>]
        /\ UNCHANGED <<rows, nextId, form, saving, test, work, hist, disk, export, tab, applied>>

\* The answer may be lost after the commit.
CommitImport ==
    \E n \in DOMAIN imports :
        LET t == imports[n]
        IN  /\ t.st \in {"sent", "running"} /\ t.left = {}
            /\ rows' = [i \in DOMAIN rows \cup DOMAIN t.new |->
                            IF i \in DOMAIN t.new THEN t.new[i] ELSE rows[i]]
            /\ hist' = [i \in DOMAIN rows' |-> Sees(t, i)]
            /\ applied' = IF t.alone THEN t.file ELSE None
            /\ \E st \in {"ok", "err"} :
                imports' = [m \in DOMAIN imports |->
                    IF m = n THEN [t EXCEPT !.st = st, !.new = <<>>, !.items = <<>>]
                    ELSE [imports[m] EXCEPT !.alone = FALSE]]
            /\ UNCHANGED <<nextId, form, saving, test, work, disk, export, tab>>

---------------------------------------------------------------------------
(* The other writers.                                                        *)

\* The scheduler writes a log line or opens an incident.
Check ==
    /\ Works
    /\ \E i \in DOMAIN rows, x \in Item :
        /\ hist[i][x] = 0
        /\ hist' = [hist EXCEPT ![i][x] = 1]
    /\ Disturbed
    /\ UNCHANGED <<rows, nextId, form, saving, test, disk, export, tab>>

\* A row an import has added history to is locked against deletion.
Locked == UNION {DOMAIN imports[n].items : n \in DOMAIN imports}

FormStep ==
    /\ FormNext
    /\ Locked \cap DOMAIN rows \subseteq DOMAIN rows'
    /\ hist' = [i \in DOMAIN rows' |-> IF i \in DOMAIN hist THEN hist[i] ELSE NoItems]
    /\ IF rows' = rows THEN UNCHANGED <<applied, imports>> ELSE Disturbed
    /\ UNCHANGED <<disk, export, tab>>

Init ==
    /\ FormInit
    /\ hist = [i \in DOMAIN rows |-> NoItems]
    /\ disk = InitFile /\ export = None
    /\ tab = FreshTab /\ imports = <<>> /\ applied = None

Next ==
    \/ HandleFile \/ Confirm \/ HandleClear \/ HandleImport \/ Leave \/ SettleImport
    \/ ExportMonitors \/ ExportLogs \/ ExportIncidents \/ FailExport
    \/ ImportMonitor \/ FailImport \/ CommitImport
    \/ Check \/ FormStep

Spec == Init /\ [][Next]_vars

---------------------------------------------------------------------------
(* Properties.                                                               *)

\* An import that nobody else wrote during leaves every monitor of the file
\* in place with all its history, whether the monitor was there before, was
\* deleted since the export or is new (Import: "skip config, but still
\* import logs/incidents").
ImportComplete ==
    applied # None =>
        \A k \in DOMAIN applied : \E i \in DOMAIN rows :
            /\ SameKey(rows[i], applied[k])
            /\ \A x \in applied[k].items : hist[i][x] > 0

\* Importing the same file again, after an answer that was lost or after a
\* success, adds nothing: the second transaction finds each monitor and each
\* item (the two EXISTS queries and the lookup of Import).  The lookup takes
\* any monitor with the name and URL: no two may share them.
RetryAddsNothing ==
    [][\A n \in DOMAIN imports :
        /\ imports[n].st \in {"sent", "running"} /\ imports[n].alone
        /\ imports[n].file = applied
        /\ \A i, j \in DOMAIN rows :
                rows[i].name = rows[j].name /\ rows[i].url = rows[j].url => i = j
        => UNCHANGED <<rows, hist>> \/ imports'[n].st \in {"sent", "running"}]_vars

\* An import that nobody else wrote during only adds, and nothing twice: the
\* monitors there stay as they are, none gets a namesake at the same URL, and
\* an item is inserted, once, where it was missing; the file may name a
\* monitor several times (the lookup and the two EXISTS queries of Import see
\* what the transaction itself has inserted).
ImportAddsOnce ==
    [][\A n \in DOMAIN imports :
        /\ imports[n].st \in {"sent", "running"} /\ imports[n].alone
        /\ imports'[n].st \notin {"sent", "running"}
        => /\ \A i \in DOMAIN rows : i \in DOMAIN rows' /\ rows'[i] = rows[i]
           /\ \A i \in DOMAIN rows' \ DOMAIN rows, j \in DOMAIN rows' :
                SameKey(rows'[i], rows'[j]) => i = j
           /\ \A i \in DOMAIN rows', x \in Item :
                LET had == IF i \in DOMAIN hist THEN hist[i][x] ELSE 0
                IN  hist'[i][x] = had \/ (had = 0 /\ hist'[i][x] = 1)]_vars
===========================================================================
