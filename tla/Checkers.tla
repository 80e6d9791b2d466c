------------------------------ MODULE Checkers ------------------------------
(***************************************************************************)
(* The checkers of internal/checker: the verdict on a target as a function *)
(* of the monitor's settings, the time its attempt has left and what the   *)
(* target does.  An attempt is a few calls over the network in a row.      *)
(*                                                                         *)
(* Times are natural numbers of one unit; certificates count in hours.     *)
(***************************************************************************)
EXTENDS Integers

CONSTANTS
    Input,        \* the attempts to consider, see Attempt below
    HttpTimeout,  \* the HTTP client's own timeout
    UdpWait,      \* how long the UDP checker waits for an answer
    DbTimeout,    \* a driver's default timeout
    RedisCommands \* the commands go-redis sends to set up a connection and ping

ASSUME CheckerAssumption ==
    /\ HttpTimeout \in Nat /\ UdpWait \in Nat /\ DbTimeout \in Nat
    /\ RedisCommands \in Nat

-----------------------------------------------------------------------------
(* What a checker gets to see.                                             *)

\* A call that the target answers, well or not, after some time.  A target
\* that never answers is one that answers after any time the attempt has.
Call == [after : Nat, ok : BOOLEAN]
Certificate == [present : BOOLEAN, trusted : BOOLEAN, hours : Int]

\* DNS records, and how an answer reads: an MX record with its preference.
Record == [type : {"A", "AAAA", "CNAME", "MX", "TXT", "NS"}, value : STRING]
Text == [value : STRING, preference : BOOLEAN]
NoText == [value |-> "", preference |-> FALSE]
Shown(r) == [value |-> r.value, preference |-> r.type = "MX"]

\* Settings of the monitor, then calls and answers of the target.  An attempt
\* has its timeout, or less when the tick is near its end.
Attempt == {a \in
    [type : STRING, timeout : Nat, budget : Nat,
     valid : BOOLEAN,        \* the URL, address or DSN is well formed
     expected : Nat,         \* the expected HTTP status, or 0
     warningDays : Int,
     first : Call,           \* connecting, or the whole exchange
     second : Call,          \* ping: port 443; UDP: the read; gRPC: the answer;
                             \* PostgreSQL: handshake and ping; Redis: all commands
     code : Nat,             \* the HTTP status, or that in the gRPC headers
     cert : Certificate,
     records : SUBSET Record,    \* what DNS holds of the host
     recordType : STRING,
     wanted : Text,              \* the expected record, or NoText
     driver : STRING] :          \* of a database monitor
    a.budget <= a.timeout}

ASSUME InputAssumption == Input \subseteq Attempt

VARIABLES
    input,    \* the attempt
    verdict   \* its result, None before there is one

None == [status |-> "pending", took |-> 0]
Up(took) == [status |-> "up", took |-> took]
Down(took) == [status |-> "down", took |-> took]

Shorter(s, t) == IF s < t THEN s ELSE t

\* The outcome of a call under a context with `budget` left.
Await(call, budget) ==
    IF call.after < budget THEN [ok |-> call.ok, took |-> call.after]
    ELSE [ok |-> FALSE, took |-> budget]

UpIf(ok, took) == IF ok THEN Up(took) ELSE Down(took)

-----------------------------------------------------------------------------
(* Certificates, which the HTTP and the SSL checker judge.                 *)

\* Faulty variant: InsecureSkipVerify.
AnyHandshake(cert) == TRUE
\* The TLS library refuses a certificate that is expired or not trusted.
Handshakes(cert) == cert.present => cert.trusted /\ cert.hours >= 0

WarningDays(a) == IF a.warningDays <= 0 THEN 30 ELSE a.warningDays
DaysLeft(cert) == cert.hours \div 24

\* Faulty variant: the day of the threshold is not warned of any more.
ExpiresTomorrow(a) == DaysLeft(a.cert) < WarningDays(a)
ExpiresSoon(a) == DaysLeft(a.cert) <= WarningDays(a)

-----------------------------------------------------------------------------
(* The checkers.                                                           *)

\* Faulty variant: an answer after half the timeout counts as slow.
SlowAtHalf(a, took) == 2 * took > a.timeout
Slow(a, took) == took > 2 * a.timeout

HTTPCheck(a) ==
    LET r == Await(a.first, Shorter(a.budget, HttpTimeout))
    IN  IF ~a.valid THEN Down(0)
        ELSE IF ~r.ok \/ ~Handshakes(a.cert) THEN Down(r.took)
        ELSE IF a.expected > 0 /\ a.code # a.expected THEN Down(r.took)
        ELSE IF a.cert.present /\ a.cert.hours < 0 THEN Down(r.took)
        ELSE IF Slow(a, r.took) \/ (a.cert.present /\ ExpiresSoon(a))
             THEN [status |-> "degraded", took |-> r.took]
        ELSE Up(r.took)

TCPCheck(a) ==
    LET r == Await(a.first, a.budget) IN UpIf(r.ok, r.took)

\* Faulty variant: the second port gets a context of its own.
PingAnew(a) ==
    LET http  == Await(a.first, a.budget)
        https == Await(a.second, a.budget)
    IN  IF http.ok THEN Up(http.took) ELSE UpIf(https.ok, http.took + https.took)
\* Faulty variant: any failure of the first port is final.
PingOnce(a) == TCPCheck(a)
\* Port 443 is tried in what port 80 left of the time.
PingCheck(a) ==
    LET http  == Await(a.first, a.budget)
        https == Await(a.second, a.budget - http.took)
    IN  IF http.ok THEN Up(http.took) ELSE UpIf(https.ok, http.took + https.took)

\* One lookup serves both families of addresses, and unknown types.  That of a
\* canonical name wants an address and, without a CNAME, is the host itself.
Addresses(a) == {r \in a.records : r.type \in {"A", "AAAA"}}
OfType(a, type) == {r \in a.records : r.type = type}
Answers(a) ==
    CASE a.recordType \in {"MX", "TXT", "NS"} -> {Shown(r) : r \in OfType(a, a.recordType)}
      [] a.recordType = "CNAME" ->
             IF Addresses(a) = {} THEN {}
             ELSE IF OfType(a, "CNAME") = {} THEN {[value |-> "host", preference |-> FALSE]}
             ELSE {Shown(r) : r \in OfType(a, "CNAME")}
      [] OTHER -> {Shown(r) : r \in Addresses(a)}

Matches(a) == Answers(a) # {} /\ (a.wanted = NoText \/ a.wanted \in Answers(a))

DNSCheck(a) ==
    LET r == Await(a.first, a.budget) IN UpIf(r.ok /\ Matches(a), r.took)

SSLCheck(a) ==
    LET r == Await(a.first, a.budget)
    IN  IF ~r.ok \/ ~a.cert.present \/ ~Handshakes(a.cert) THEN Down(r.took)
        ELSE IF ExpiresSoon(a) THEN [status |-> "degraded", took |-> r.took]
        ELSE Up(r.took)

\* The reader of the request's frame ends with an error of its own instead of
\* io.EOF, which breaks the request off: the answer is never read.
FrameEnds == FALSE

GRPCCheck(a) ==
    LET dial   == Await(a.first, a.budget)
        answer == Await(a.second, a.budget - dial.took)
    IN  IF ~dial.ok \/ ~FrameEnds THEN Down(dial.took)
        ELSE UpIf(answer.ok /\ a.code = 0, dial.took + answer.took)

\* After the dial only a rejection that arrives in time is bad news; the wait
\* for it does not count against the attempt's context.
UDPCheck(a) ==
    LET dial == Await(a.first, a.budget)
        read == Await(a.second, UdpWait)
    IN  IF ~a.valid THEN Down(0)
        ELSE IF ~dial.ok THEN Down(dial.took)
        ELSE UpIf(read.ok \/ a.second.after >= UdpWait, dial.took + read.took)

\* The connection string decrypts and parses, and the driver is known.
Limit(a) == IF a.timeout > 0 THEN a.timeout ELSE DbTimeout

\* The MySQL and MongoDB drivers give up with their context.  Of PingContext,
\* lib/pq gives only the dial the context and has no connect_timeout: its
\* handshake lasts as long as the server lets it, and the ping that follows may
\* still win its race with the expired context.  A go-redis client reads under
\* timeouts of its own, each as long as the monitor's, and looks at the context
\* only before it repeats a command.
DatabaseCheck(a) ==
    LET dial  == Await(a.first, Shorter(a.budget, Limit(a)))
        reply == Await(a.second, RedisCommands * Limit(a))
    IN  IF ~a.valid THEN Down(0)
        ELSE IF ~dial.ok \/ a.driver \notin {"postgresql", "redis"} THEN UpIf(dial.ok, dial.took)
        ELSE IF a.driver = "redis" THEN UpIf(reply.ok, dial.took + reply.took)
        ELSE UpIf(a.second.ok, dial.took + a.second.after)

\* The scheduler's and TestConnection's choice: unknown types are HTTP.
Verdict(a) ==
    CASE a.type = "tcp"      -> TCPCheck(a)
      [] a.type = "ping"     -> PingCheck(a)
      [] a.type = "dns"      -> DNSCheck(a)
      [] a.type = "ssl"      -> SSLCheck(a)
      [] a.type = "grpc"     -> GRPCCheck(a)
      [] a.type = "udp"      -> UDPCheck(a)
      [] a.type = "database" -> DatabaseCheck(a)
      [] OTHER               -> HTTPCheck(a)

-----------------------------------------------------------------------------
CheckerInit == input \in Input /\ verdict = None

RunCheck ==
    /\ verdict = None
    /\ verdict' = Verdict(input)
    /\ UNCHANGED input

CheckerSpec == CheckerInit /\ [][RunCheck]_<<input, verdict>>
-----------------------------------------------------------------------------
(* Properties of the verdict, once there is one.                           *)

Judged == verdict # None

\* A checker answers within the time its attempt has (scheduler.go:132), but
\* for the two seconds the UDP checker adds, the timeouts the Redis client has
\* of its own, and the handshake of PostgreSQL, which nothing ends but its
\* server: the attempts that outlive their context in Scheduler.
Overrun(a) ==
    CASE a.type = "udp" -> UdpWait
      [] a.type = "database" /\ a.driver = "redis" -> RedisCommands * Limit(a)
      [] a.type = "database" /\ a.driver = "postgresql" -> a.second.after
      [] OTHER -> 0
VerdictInTime == Judged => verdict.took <= input.budget + Overrun(input)

\* Only a certificate that is about to expire degrades a monitor: an answer as
\* slow as checker.go:101 asks for is later than the attempt's end.
OnlyCertificatesDegrade ==
    verdict.status = "degraded" =>
        /\ input.type \notin {"tcp", "ping", "dns", "grpc", "udp", "database"}
        /\ input.cert.present /\ ExpiresSoon(input)

\* A certificate with the days of warning left or less is warned of, and one
\* with a day more is not, by HTTP and SSL monitors alike (checker.go:113, :407;
\* docs/database.md:48), though the code counts whole days.
WarnedInTime ==
    /\ input.type \in {"http", "ssl"} /\ verdict.status \in {"up", "degraded"}
    /\ input.cert.present
    => /\ input.cert.hours <= 24 * WarningDays(input) => verdict.status = "degraded"
       /\ input.cert.hours >= 24 * (WarningDays(input) + 1) => verdict.status = "up"

\* No monitor is up, or degraded, without evidence: a call that was answered in
\* time, with a certificate that verifies and the expected status or record, or a
\* database that was reached in time and answered.
Evidence(a) ==
    /\ \/ a.first.ok /\ a.first.after < a.budget
       \/ a.type = "ping" /\ a.second.ok /\ a.second.after < a.budget
    /\ a.type = "database" /\ a.driver \in {"postgresql", "redis"} => a.second.ok
    /\ a.type \in {"http", "ssl"} /\ a.cert.present => a.cert.trusted /\ a.cert.hours >= 0
    /\ a.type = "http" => a.expected \in {0, a.code}
    /\ a.type = "dns" /\ a.recordType # "CNAME" =>
           \E r \in a.records : a.wanted \in {NoText, Shown(r)}
UpHasEvidence == verdict.status \in {"up", "degraded"} => Evidence(input)

\* A host that refuses port 80 is up if it takes port 443 in the time that is
\* left (checker.go:219).
PingFallsBack ==
    /\ input.type = "ping" /\ Judged
    /\ ~input.first.ok /\ input.second.ok
    /\ input.first.after + input.second.after < input.budget
    => verdict.status = "up"
=============================================================================
