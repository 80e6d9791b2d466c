-------------------------- MODULE Checkers_proofs --------------------------
(***************************************************************************)
(* What every checker promises the scheduler, for all settings, times and  *)
(* targets.  A verdict is a function of the attempt, so each property is   *)
(* one of Verdict(a), split by the type of monitor.                        *)
(***************************************************************************)
EXTENDS Checkers, TLAPS

\* There is no verdict yet, or it is the verdict on the attempt.
CheckerInv == input \in Attempt /\ (verdict = None \/ verdict = Verdict(input))

LEMMA CheckerInvariant == CheckerSpec => []CheckerInv
<1>1. CheckerInit => CheckerInv
  BY InputAssumption DEF CheckerInit, CheckerInv
<1>2. CheckerInv /\ [RunCheck]_<<input, verdict>> => CheckerInv'
  <2> SUFFICES ASSUME CheckerInv, [RunCheck]_<<input, verdict>> PROVE CheckerInv'
    OBVIOUS
  <2>1. CASE RunCheck
    BY <2>1 DEF RunCheck, CheckerInv
  <2>2. CASE UNCHANGED <<input, verdict>>
    BY <2>2 DEF CheckerInv
  <2> QED
    BY <2>1, <2>2
<1> QED
  BY <1>1, <1>2, PTL DEF CheckerSpec

\* A call takes no longer than it may, and answers in less than that.
LEMMA AwaitInTime ==
  ASSUME NEW call \in Call, NEW budget \in Nat
  PROVE  /\ Await(call, budget).took \in Nat
         /\ Await(call, budget).took <= budget
         /\ Await(call, budget).ok \in BOOLEAN
         /\ Await(call, budget).ok => call.ok /\ call.after < budget
                                      /\ Await(call, budget).took = call.after
<1>1. call.after \in Nat /\ call.ok \in BOOLEAN
  BY DEF Call
<1>2. CASE call.after < budget
  <2>1. Await(call, budget) = [ok |-> call.ok, took |-> call.after]
    BY <1>2 DEF Await
  <2> QED
    BY <1>1, <1>2, <2>1
<1>3. CASE ~(call.after < budget)
  <2>1. Await(call, budget) = [ok |-> FALSE, took |-> budget]
    BY <1>3 DEF Await
  <2> QED
    BY <1>1, <2>1
<1> QED
  BY <1>2, <1>3

LEMMA ShorterIs ==
  ASSUME NEW s \in Nat, NEW t \in Nat
  PROVE  Shorter(s, t) \in Nat /\ Shorter(s, t) <= s /\ Shorter(s, t) <= t
  BY DEF Shorter

\* The time a verdict takes.
LEMMA Timely ==
  ASSUME NEW a \in Attempt
  PROVE  /\ Verdict(a).took \in Nat
         /\ Verdict(a).took <= a.budget + Overrun(a)
<1> DEFINE first == Await(a.first, a.budget)
           second == Await(a.second, a.budget - first.took)
<1>1. a.budget \in Nat /\ a.first \in Call /\ a.second \in Call /\ a.timeout \in Nat
  BY DEF Attempt
<1>2. first.took \in Nat /\ first.took <= a.budget
  BY <1>1, AwaitInTime
<1>3. second.took \in Nat /\ first.took + second.took \in Nat
      /\ first.took + second.took <= a.budget
  <2>1. a.budget - first.took \in Nat
    BY <1>1, <1>2
  <2>2. second.took \in Nat /\ second.took <= a.budget - first.took
    BY <1>1, <2>1, AwaitInTime
  <2> QED
    BY <1>1, <1>2, <2>2
<1>4. CASE a.type = "tcp"
  BY <1>1, <1>2, <1>4 DEF Verdict, TCPCheck, UpIf, Up, Down, Overrun
<1>5. CASE a.type = "ping"
  BY <1>1, <1>2, <1>3, <1>5 DEF Verdict, PingCheck, UpIf, Up, Down, Overrun
<1>6. CASE a.type = "dns"
  BY <1>1, <1>2, <1>6 DEF Verdict, DNSCheck, UpIf, Up, Down, Overrun
<1>7. CASE a.type = "ssl"
  BY <1>1, <1>2, <1>7 DEF Verdict, SSLCheck, Up, Down, Overrun
<1>8. CASE a.type = "grpc"
  BY <1>1, <1>2, <1>3, <1>8 DEF Verdict, GRPCCheck, UpIf, Up, Down, Overrun
<1>9. CASE a.type = "udp"
  <2>1. Await(a.second, UdpWait).took \in Nat /\ Await(a.second, UdpWait).took <= UdpWait
        /\ UdpWait \in Nat
    BY <1>1, AwaitInTime, CheckerAssumption
  <2> QED
    BY <1>1, <1>2, <1>9, <2>1 DEF Verdict, UDPCheck, UpIf, Up, Down, Overrun
<1>10. CASE a.type = "database"
  <2> DEFINE dial == Await(a.first, Shorter(a.budget, Limit(a)))
             most == RedisCommands * Limit(a)
             reply == Await(a.second, most)
  <2>1. Limit(a) \in Nat /\ most \in Nat
    BY <1>1, CheckerAssumption DEF Limit
  <2>2. Shorter(a.budget, Limit(a)) \in Nat /\ Shorter(a.budget, Limit(a)) <= a.budget
    BY <1>1, <2>1, ShorterIs
  <2>3. dial.took \in Nat /\ dial.took <= a.budget
    <3>1. dial.took \in Nat /\ dial.took <= Shorter(a.budget, Limit(a))
      BY <1>1, <2>2, AwaitInTime
    <3> QED
      BY <1>1, <2>2, <3>1
  <2>4. reply.took \in Nat /\ reply.took <= most
    BY <1>1, <2>1, AwaitInTime
  <2>5. a.second.after \in Nat
    BY <1>1 DEF Call
  <2>6. Verdict(a) = DatabaseCheck(a)
    BY <1>10 DEF Verdict
  <2>7. Overrun(a) = IF a.driver = "redis" THEN most
                     ELSE IF a.driver = "postgresql" THEN a.second.after ELSE 0
    BY <1>10 DEF Overrun
  <2> HIDE DEF dial, most, reply
  <2>8. Verdict(a).took = IF ~a.valid THEN 0
                          ELSE IF ~dial.ok \/ a.driver \notin {"postgresql", "redis"} THEN dial.took
                          ELSE IF a.driver = "redis" THEN dial.took + reply.took
                          ELSE dial.took + a.second.after
    BY <2>6 DEF DatabaseCheck, dial, most, reply, UpIf, Up, Down
  <2> QED
    BY <1>1, <2>1, <2>3, <2>4, <2>5, <2>7, <2>8
<1>11. CASE a.type \notin {"tcp", "ping", "dns", "ssl", "grpc", "udp", "database"}
  <2> DEFINE r == Await(a.first, Shorter(a.budget, HttpTimeout))
  <2>1. Shorter(a.budget, HttpTimeout) \in Nat /\ Shorter(a.budget, HttpTimeout) <= a.budget
    BY <1>1, ShorterIs, CheckerAssumption
  <2>2. r.took \in Nat /\ r.took <= a.budget
    <3>1. r.took \in Nat /\ r.took <= Shorter(a.budget, HttpTimeout)
      BY <1>1, <2>1, AwaitInTime
    <3> QED
      BY <1>1, <2>1, <3>1
  <2>3. Verdict(a) = HTTPCheck(a)
    BY <1>11 DEF Verdict
  <2>4. HTTPCheck(a).took \in {0, r.took}
    BY DEF HTTPCheck, Up, Down
  <2> QED
    BY <1>1, <1>11, <2>2, <2>3, <2>4 DEF Overrun
<1> QED
  BY <1>4, <1>5, <1>6, <1>7, <1>8, <1>9, <1>10, <1>11

\* The status of a verdict on a page.
LEMMA PageStatus ==
  ASSUME NEW a \in Attempt,
         a.type \notin {"tcp", "ping", "dns", "ssl", "grpc", "udp", "database"},
         Verdict(a).status # "down"
  PROVE  /\ a.first.ok /\ a.first.after < a.budget
         /\ Handshakes(a.cert)
         /\ a.expected > 0 => a.code = a.expected
         /\ Verdict(a).status = IF a.cert.present /\ ExpiresSoon(a)
                                THEN "degraded" ELSE "up"
<1> DEFINE r == Await(a.first, Shorter(a.budget, HttpTimeout))
<1>1. a.budget \in Nat /\ a.first \in Call /\ a.timeout \in Nat /\ a.budget <= a.timeout
  BY DEF Attempt
<1>2. Shorter(a.budget, HttpTimeout) \in Nat /\ Shorter(a.budget, HttpTimeout) <= a.budget
  BY <1>1, ShorterIs, CheckerAssumption
<1>3. Verdict(a) = HTTPCheck(a)
  BY DEF Verdict
<1>4. r.ok /\ Handshakes(a.cert) /\ ~(a.expected > 0 /\ a.code # a.expected)
      /\ ~(a.cert.present /\ a.cert.hours < 0)
  BY <1>3 DEF HTTPCheck, Down
<1>5. a.first.ok /\ a.first.after < a.budget /\ r.took = a.first.after /\ r.took \in Nat
  <2>1. a.first.ok /\ a.first.after < Shorter(a.budget, HttpTimeout) /\ r.took = a.first.after
    BY <1>1, <1>2, <1>4, AwaitInTime
  <2> QED
    BY <1>1, <1>2, <2>1 DEF Call
<1>6. ~Slow(a, r.took)
  BY <1>1, <1>5 DEF Slow
<1>7. Verdict(a).status = IF a.cert.present /\ ExpiresSoon(a) THEN "degraded" ELSE "up"
  BY <1>3, <1>4, <1>6 DEF HTTPCheck, Up, Down
<1> QED
  BY <1>4, <1>5, <1>7

\* The status of a verdict on a certificate.
LEMMA SSLStatus ==
  ASSUME NEW a \in Attempt, a.type = "ssl", Verdict(a).status # "down"
  PROVE  /\ a.first.ok /\ a.first.after < a.budget
         /\ a.cert.present /\ Handshakes(a.cert)
         /\ Verdict(a).status = IF ExpiresSoon(a) THEN "degraded" ELSE "up"
<1> DEFINE r == Await(a.first, a.budget)
<1>1. a.budget \in Nat /\ a.first \in Call
  BY DEF Attempt
<1>2. Verdict(a) = SSLCheck(a)
  BY DEF Verdict
<1>3. r.ok /\ a.cert.present /\ Handshakes(a.cert)
  BY <1>2 DEF SSLCheck, Down
<1>4. a.first.ok /\ a.first.after < a.budget
  BY <1>1, <1>3, AwaitInTime
<1>5. Verdict(a).status = IF ExpiresSoon(a) THEN "degraded" ELSE "up"
  BY <1>2, <1>3 DEF SSLCheck, Up
<1> QED
  BY <1>3, <1>4, <1>5

\* The other types answer up or down.
LEMMA TwoStatuses ==
  ASSUME NEW a \in Attempt,
         a.type \in {"tcp", "ping", "dns", "grpc", "udp", "database"}
  PROVE  Verdict(a).status \in {"up", "down"}
<1>1. CASE a.type = "tcp"
  BY <1>1 DEF Verdict, TCPCheck, UpIf, Up, Down
<1>2. CASE a.type = "ping"
  BY <1>2 DEF Verdict, PingCheck, UpIf, Up, Down
<1>3. CASE a.type = "dns"
  BY <1>3 DEF Verdict, DNSCheck, UpIf, Up, Down
<1>4. CASE a.type = "grpc"
  BY <1>4 DEF Verdict, GRPCCheck, UpIf, Up, Down
<1>5. CASE a.type = "udp"
  BY <1>5 DEF Verdict, UDPCheck, UpIf, Up, Down
<1>6. CASE a.type = "database"
  BY <1>6 DEF Verdict, DatabaseCheck, UpIf, Up, Down
<1> QED
  BY <1>1, <1>2, <1>3, <1>4, <1>5, <1>6

\* Every attempt ends in the time it has, but for the UDP checker's wait, the
\* Redis client's own timeouts and the handshake of a PostgreSQL server.
THEOREM EndsInTime == CheckerSpec => []VerdictInTime
<1>1. CheckerInv => VerdictInTime
  BY Timely DEF CheckerInv, VerdictInTime, Judged
<1> QED
  BY <1>1, CheckerInvariant, PTL

\* Only a certificate that is about to expire degrades a monitor.
THEOREM DegradedByCertificate == CheckerSpec => []OnlyCertificatesDegrade
<1>1. CheckerInv => OnlyCertificatesDegrade
  <2> SUFFICES ASSUME CheckerInv, verdict.status = "degraded"
               PROVE  /\ input.type \notin {"tcp", "ping", "dns", "grpc", "udp", "database"}
                      /\ input.cert.present /\ ExpiresSoon(input)
    BY DEF OnlyCertificatesDegrade
  <2>1. input \in Attempt /\ Verdict(input).status = "degraded"
    BY DEF CheckerInv, None
  <2>2. input.type \notin {"tcp", "ping", "dns", "grpc", "udp", "database"}
    BY <2>1, TwoStatuses
  <2>3. CASE input.type = "ssl"
    BY <2>1, <2>3, SSLStatus
  <2>4. CASE input.type # "ssl"
    <3>1. input.type \notin {"tcp", "ping", "dns", "ssl", "grpc", "udp", "database"}
      BY <2>2, <2>4
    <3> QED
      BY <2>1, <3>1, PageStatus
  <2> QED
    BY <2>2, <2>3, <2>4
<1> QED
  BY <1>1, CheckerInvariant, PTL

\* Certificates are warned of in time, and not before.
THEOREM WarnsInTime == CheckerSpec => []WarnedInTime
<1>1. CheckerInv => WarnedInTime
  <2> SUFFICES ASSUME CheckerInv,
                      input.type \in {"http", "ssl"},
                      verdict.status \in {"up", "degraded"},
                      input.cert.present
               PROVE  /\ input.cert.hours <= 24 * WarningDays(input)
                             => verdict.status = "degraded"
                      /\ input.cert.hours >= 24 * (WarningDays(input) + 1)
                             => verdict.status = "up"
    BY DEF WarnedInTime
  <2>1. input \in Attempt /\ verdict = Verdict(input)
    BY DEF CheckerInv, None
  <2>2. Verdict(input).status = IF ExpiresSoon(input) THEN "degraded" ELSE "up"
    <3>1. CASE input.type = "ssl"
      BY <2>1, <3>1, SSLStatus
    <3>2. CASE input.type = "http"
      BY <2>1, <3>2, PageStatus
    <3> QED
      BY <3>1, <3>2
  <2>3. input.cert.hours \in Int /\ WarningDays(input) \in Int
    BY <2>1 DEF Attempt, Certificate, WarningDays
  <2>4. ExpiresSoon(input) <=> input.cert.hours \div 24 <= WarningDays(input)
    BY DEF ExpiresSoon, DaysLeft
  <2>5. ExpiresSoon(input) <=> input.cert.hours < 24 * (WarningDays(input) + 1)
    BY <2>3, <2>4
  <2> QED
    BY <2>1, <2>2, <2>3, <2>5
<1> QED
  BY <1>1, CheckerInvariant, PTL

\* A ping monitor whose host refuses port 80 in time gets to port 443.
THEOREM FallsBack == CheckerSpec => []PingFallsBack
<1>1. CheckerInv => PingFallsBack
  <2> SUFFICES ASSUME CheckerInv, input.type = "ping", Judged,
                      ~input.first.ok, input.second.ok,
                      input.first.after + input.second.after < input.budget
               PROVE  verdict.status = "up"
    BY DEF PingFallsBack
  <2> DEFINE http == Await(input.first, input.budget)
             https == Await(input.second, input.budget - http.took)
  <2>1. input \in Attempt /\ verdict = PingCheck(input)
    BY DEF CheckerInv, Judged, Verdict
  <2>2. input.budget \in Nat /\ input.first.after \in Nat /\ input.second.after \in Nat
    BY <2>1 DEF Attempt, Call
  <2>3. ~http.ok /\ http.took = input.first.after
    BY <2>2 DEF Await
  <2>4. https.ok
    BY <2>2, <2>3 DEF Await
  <2> QED
    BY <2>1, <2>3, <2>4 DEF PingCheck, UpIf, Up
<1> QED
  BY <1>1, CheckerInvariant, PTL

\* No verdict but down without evidence.
THEOREM UpIsEarned == CheckerSpec => []UpHasEvidence
<1>1. CheckerInv => UpHasEvidence
  <2> SUFFICES ASSUME CheckerInv, verdict.status \in {"up", "degraded"}
               PROVE  Evidence(input)
    BY DEF UpHasEvidence
  <2> DEFINE a == input
             first == Await(a.first, a.budget)
  <2>1. a \in Attempt /\ verdict = Verdict(a) /\ Verdict(a).status # "down"
    BY DEF CheckerInv, None
  <2>2. a.budget \in Nat /\ a.first \in Call /\ a.second \in Call /\ a.timeout \in Nat
        /\ a.expected \in Nat
    BY <2>1 DEF Attempt
  <2>3. first.ok => a.first.ok /\ a.first.after < a.budget
    BY <2>2, AwaitInTime
  <2>4. CASE a.type = "tcp"
    <3>1. first.ok
      BY <2>1, <2>4 DEF Verdict, TCPCheck, UpIf, Down
    <3> QED
      BY <2>3, <2>4, <3>1 DEF Evidence
  <2>5. CASE a.type = "ping"
    <3> DEFINE second == Await(a.second, a.budget - first.took)
    <3>1. first.ok \/ second.ok
      BY <2>1, <2>5 DEF Verdict, PingCheck, UpIf, Down
    <3>2. first.took \in Nat /\ a.budget - first.took \in Nat
      BY <2>2, AwaitInTime
    <3>3. second.ok => a.second.ok /\ a.second.after < a.budget - first.took
      BY <2>2, <3>2, AwaitInTime
    <3>4. second.ok => a.second.ok /\ a.second.after < a.budget
      BY <2>2, <3>2, <3>3 DEF Call
    <3> QED
      BY <2>3, <2>5, <3>1, <3>4 DEF Evidence
  <2>6. CASE a.type = "dns"
    <3>1. first.ok /\ Matches(a)
      BY <2>1, <2>6 DEF Verdict, DNSCheck, UpIf, Down
    <3>2. ASSUME a.recordType # "CNAME"
          PROVE  \E r \in a.records : a.wanted \in {NoText, Shown(r)}
      <4>1. PICK t : t \in Answers(a) /\ (a.wanted = NoText \/ a.wanted = t)
        BY <3>1 DEF Matches
      <4>2. \E r \in a.records : t = Shown(r)
        BY <3>2, <4>1 DEF Answers, OfType, Addresses
      <4> QED
        BY <4>1, <4>2
    <3> QED
      BY <2>3, <2>6, <3>1, <3>2 DEF Evidence
  <2>7. CASE a.type = "ssl"
    BY <2>1, <2>7, SSLStatus DEF Evidence, Handshakes
  <2>8. CASE a.type = "grpc"
    <3>1. first.ok
      BY <2>1, <2>8 DEF Verdict, GRPCCheck, Down
    <3> QED
      BY <2>3, <2>8, <3>1 DEF Evidence
  <2>9. CASE a.type = "udp"
    <3>1. first.ok
      BY <2>1, <2>9 DEF Verdict, UDPCheck, Down
    <3> QED
      BY <2>3, <2>9, <3>1 DEF Evidence
  <2>10. CASE a.type = "database"
    <3> DEFINE limit == Limit(a)
               r == Await(a.first, Shorter(a.budget, limit))
               most == RedisCommands * limit
               reply == Await(a.second, most)
    <3>0. limit \in Nat /\ most \in Nat
      BY <2>2, CheckerAssumption DEF Limit
    <3>1. Shorter(a.budget, limit) \in Nat /\ Shorter(a.budget, limit) <= a.budget
      BY <2>2, <3>0, ShorterIs
    <3>2. reply.ok => a.second.ok
      BY <2>2, <3>0, AwaitInTime
    <3> HIDE DEF most, reply
    <3>3. /\ r.ok
          /\ a.driver = "redis" => reply.ok
          /\ a.driver = "postgresql" => a.second.ok
      BY <2>1, <2>10 DEF Verdict, DatabaseCheck, UpIf, Down, most, reply
    <3>4. a.first.ok /\ a.first.after < Shorter(a.budget, limit) /\ a.first.after \in Nat
      BY <2>2, <3>1, <3>3, AwaitInTime DEF Call
    <3>5. a.first.after < a.budget
      BY <2>2, <3>1, <3>4
    <3> QED
      BY <2>10, <3>2, <3>3, <3>4, <3>5 DEF Evidence
  <2>11. CASE a.type \notin {"tcp", "ping", "dns", "ssl", "grpc", "udp", "database"}
    <3>1. /\ a.first.ok /\ a.first.after < a.budget /\ Handshakes(a.cert)
          /\ a.expected > 0 => a.code = a.expected
      BY <2>1, <2>11, PageStatus
    <3>2. a.expected \in {0, a.code}
      BY <2>2, <3>1
    <3> QED
      BY <2>11, <3>1, <3>2 DEF Evidence, Handshakes
  <2> QED
    BY <2>4, <2>5, <2>6, <2>7, <2>8, <2>9, <2>10, <2>11
<1> QED
  BY <1>1, CheckerInvariant, PTL
=============================================================================
