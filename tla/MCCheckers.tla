----------------------------- MODULE MCCheckers -----------------------------
(* Attempts for the checkers, per type of monitor.  The unit of time is one  *)
(* second, scaled down: an HTTP client of 4, a UDP wait of 2.                *)
EXTENDS Checkers

\* Timeout and what is left of it: short, cut by the tick, longer than the
\* HTTP client's.
Budgets == {<<1, 1>>, <<3, 2>>, <<5, 5>>}
Calls == [after : 0..5, ok : BOOLEAN]
Done == [after |-> 0, ok |-> TRUE]
NoCertificate == [present |-> FALSE, trusted |-> FALSE, hours |-> 0]
\* Around the thresholds of 30 days, of 2 days, and of the expiry itself.
Certificates ==
    {NoCertificate} \union
    [present : {TRUE}, trusted : BOOLEAN, hours : {-1, 0, 48, 71, 72, 720, 743, 744}]
Records == {[type |-> "A", value |-> "a"], [type |-> "AAAA", value |-> "b"],
            [type |-> "CNAME", value |-> "a"], [type |-> "MX", value |-> "a"]}
Texts == {NoText} \union [value : {"a", "b"}, preference : BOOLEAN]

Base(type, b) ==
    [type |-> type, timeout |-> b[1], budget |-> b[2], valid |-> TRUE, expected |-> 0,
     warningDays |-> 30, first |-> Done, second |-> Done, code |-> 0,
     cert |-> NoCertificate, records |-> {}, recordType |-> "A", wanted |-> NoText, driver |-> ""]

\* Types with up to two calls and nothing else to see.
Dials == {[Base(type, b) EXCEPT !.first = f, !.second = s, !.code = c] :
              type \in {"tcp", "ping", "grpc", "udp"}, b \in Budgets,
              f, s \in Calls, c \in {0, 5}}
\* Databases, whose handshake or reply comes as late as it likes.
Late == [after : 0..15, ok : BOOLEAN]
Databases == {[Base("database", b) EXCEPT !.first = f, !.second = s, !.driver = d] :
              b \in Budgets \union {<<0, 0>>}, f \in Calls, s \in Late,
              d \in {"mysql", "postgresql", "redis", "mongodb"}}
Malformed == {[Base(type, b) EXCEPT !.valid = FALSE] :
              type \in {"http", "udp", "database"}, b \in Budgets}
Pages == {[Base(type, b) EXCEPT !.first = f, !.expected = e, !.code = 200,
                                !.cert = c, !.warningDays = w] :
              type \in {"http", "ssl", "other"}, b \in Budgets,
              f \in {x \in Calls : x.ok \/ x.after = 1}, e \in {0, 200, 204},
              c \in Certificates, w \in {0, 2}}
Lookups == {[Base("dns", b) EXCEPT !.records = r, !.recordType = t, !.wanted = w] :
              b \in Budgets, r \in SUBSET Records,
              t \in {"A", "AAAA", "CNAME", "MX", "TXT"}, w \in Texts}

AnyAttempt == Dials \union Databases \union Malformed \union Pages \union Lookups
=============================================================================
