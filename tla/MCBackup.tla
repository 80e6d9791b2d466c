------------------------------ MODULE MCBackup ------------------------------
\* A small instance of Backup: one database monitor with a stored connection
\* string, and a backup that holds it and one other monitor.
EXTENDS Backup

CONSTANTS n1, n256, u1, h1, log1, inc1

TwoNames == {n1, n256}
TooLong == {n256}
OneUrl  == {u1}
OneHost == {h1}
OnePort == {}
OneDSN  == {[driver |-> "redis", host |-> h1, port |-> 6379]}
\* One and a half, and a number that overflows its column.
Boxes   == {3, Secs(250)}
OneLog  == {log1}
OneIncident == {inc1}

Stored == [driver |-> "postgresql", host |-> h1, port |-> 5432]
OneDatabase ==
    [i \in {1} |->
        [name |-> n1, url |-> Placeholder("postgresql"), type |-> "database",
         interval |-> Secs(60), timeout |-> Secs(10), expected |-> Secs(200),
         warn |-> Secs(30), driver |-> "postgresql", dsn |-> Stored, restored |-> FALSE]]

Entry(url, type, items) ==
    [name |-> n1, url |-> url, type |-> type, interval |-> Secs(60), timeout |-> Secs(10),
     expected |-> Secs(200), items |-> items]
TwoEntries == <<Entry(Placeholder("postgresql"), "database", {log1}),
                Entry(u1, "http", {inc1})>>
=============================================================================
