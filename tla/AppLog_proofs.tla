--------------------------- MODULE AppLog_proofs ----------------------------
(***************************************************************************)
(* Proofs about the log buffer, for every capacity of the ring and of the  *)
(* channels and any number of subscribers.                                 *)
(***************************************************************************)
EXTENDS AppLog, SequenceTheorems, TLAPS

\* The ring's arithmetic: an index is wrapped at most once.
LEMMA Wrap ==
    ASSUME NEW n \in Nat \ {0}, NEW a \in 0..2 * n - 1
    PROVE  /\ a % n \in 0..n - 1
           /\ a % n = IF a < n THEN a ELSE a - n
<1>1. CASE a < n
  BY <1>1
<1>2. CASE a >= n
  BY <1>2
<1> QED
  BY <1>1, <1>2

LEMMA LogTypeInit == LogInit => LogTypeOK
BY LogAssumption DEF LogInit, LogTypeOK, Index

LEMMA LogTypePreserved == LogTypeOK /\ [LogNext]_logVars => LogTypeOK'
<1> SUFFICES ASSUME LogTypeOK, [LogNext]_logVars PROVE LogTypeOK'
  OBVIOUS
<1> USE LogAssumption
<1>1. CASE Write
  <2>1. written' = written + 1 /\ written' \in Line /\ written' \in 0..MaxWritten
    BY <1>1 DEF Write, LogTypeOK, Line
  <2>2. entries' \in [Index -> Line \union {NoLine}]
    BY <1>1, <2>1 DEF Write, LogTypeOK
  <2>3. head' \in Index /\ size' \in 0..Cap
    <3>1. head + 1 \in 0..2 * Cap - 1
      BY DEF LogTypeOK, Index
    <3>2. (head + 1) % Cap \in Index
      BY <3>1, Wrap DEF Index
    <3> QED
      BY <1>1, <3>2 DEF Write, LogTypeOK
  <2> QED
    BY <1>1, <2>1, <2>2, <2>3 DEF Write, LogTypeOK
<1>2. ASSUME NEW s \in Subscriber, FanOut(s) PROVE LogTypeOK'
  <2>1. written \in Line
    BY <1>2 DEF FanOut, LogTypeOK
  <2> QED
    BY <1>2, <2>1 DEF FanOut, LogTypeOK
<1>3. ASSUME NEW s \in Subscriber, Subscribe(s) PROVE LogTypeOK'
  BY <1>3 DEF Subscribe, LogTypeOK
<1>4. ASSUME NEW s \in Subscriber, Receive(s) PROVE LogTypeOK'
  BY <1>4 DEF Receive, LogTypeOK
<1>5. CASE UNCHANGED logVars
  BY <1>5 DEF logVars, LogTypeOK
<1> QED
  BY <1>1, <1>2, <1>3, <1>4, <1>5 DEF LogNext

\* The buffer is always well-typed: no channel outgrows its capacity.
THEOREM LogTypeCorrect == LogSpec => []LogTypeOK
BY LogTypeInit, LogTypePreserved, PTL DEF LogSpec

-----------------------------------------------------------------------------
(* The ring is a bounded log.                                              *)

\* Until the ring is full its oldest entry is in slot 0, and every filled slot
\* holds a line.
RingInv ==
    /\ size < Cap => head = 0
    /\ \A i \in 1..size : entries[(head + i - 1) % Cap] \in Line

LEMMA SnapshotType ==
    ASSUME LogTypeOK, RingInv PROVE Snapshot \in Seq(Line) /\ Len(Snapshot) = size
BY DEF Snapshot, RingInv, LogTypeOK

LEMMA WrapCap ==
    \A a \in 0..2 * Cap - 1 :
        a % Cap \in Index /\ a % Cap = IF a < Cap THEN a ELSE a - Cap
BY Wrap, LogAssumption DEF Index

\* While there is room the line goes to slot size; the slots before it stay.
LEMMA WriteGrows ==
    ASSUME LogTypeOK, RingInv, Write, size < Cap
    PROVE  /\ size' = size + 1
           /\ \A i \in 1..size : entries'[(head' + i - 1) % Cap] = entries[(head + i - 1) % Cap]
           /\ entries'[(head' + size) % Cap] = written + 1
<1> DEFINE wrap(a) == a % Cap
<1>0. /\ Cap \in Nat \ {0} /\ size \in Nat
      /\ entries \in [0..Cap - 1 -> Line \union {NoLine}]
  BY LogAssumption DEF LogTypeOK, Index
<1>1. head = 0 /\ head' = 0 /\ size' = size + 1
  BY DEF RingInv, Write
<1>2. \A a \in 0..Cap - 1 : wrap(a) = a
  BY <1>0, WrapCap
<1>3. entries' = [entries EXCEPT ![wrap(head + size)] = written + 1]
  BY DEF Write
<1>4. SUFFICES /\ \A i \in 1..size : entries'[wrap(head' + i - 1)] = entries[wrap(head + i - 1)]
               /\ entries'[wrap(head' + size)] = written + 1
  BY <1>1
<1> HIDE DEF wrap
<1>5. wrap(head + size) = size /\ wrap(head' + size) = size
  BY <1>0, <1>1, <1>2
<1>6. ASSUME NEW i \in 1..size
      PROVE  wrap(head + i - 1) = i - 1 /\ wrap(head' + i - 1) = i - 1
  <2>1. i - 1 \in 0..Cap - 1 /\ head + i - 1 = i - 1 /\ head' + i - 1 = i - 1
    BY <1>0, <1>1
  <2> QED
    BY <1>2, <2>1
<1> QED
  BY <1>0, <1>3, <1>5, <1>6

\* Once the ring is full the line replaces the oldest one and head moves on.
LEMMA WriteShifts ==
    ASSUME LogTypeOK, RingInv, Write, size = Cap
    PROVE  /\ size' = size
           /\ \A i \in 1..size - 1 :
                 entries'[(head' + i - 1) % Cap] = entries[(head + i) % Cap]
           /\ entries'[(head' + size - 1) % Cap] = written + 1
<1> DEFINE wrap(a) == a % Cap
<1>0. /\ Cap \in Nat \ {0} /\ head \in 0..Cap - 1
      /\ entries \in [0..Cap - 1 -> Line \union {NoLine}]
  BY LogAssumption DEF LogTypeOK, Index
<1>1. size' = size /\ head' = wrap(head + 1)
  BY <1>0 DEF Write
<1>2. \A a \in 0..2 * Cap - 1 : wrap(a) \in 0..Cap - 1 /\ wrap(a) = IF a < Cap THEN a ELSE a - Cap
  BY WrapCap DEF Index
<1>3. entries' = [entries EXCEPT ![wrap(head + size)] = written + 1]
  BY DEF Write
<1>4. SUFFICES /\ \A i \in 1..size - 1 : entries'[wrap(head' + i - 1)] = entries[wrap(head + i)]
               /\ entries'[wrap(head' + size - 1)] = written + 1
  BY <1>1
<1> HIDE DEF wrap
<1>5. wrap(head + size) = head
  <2>1. head + size \in 0..2 * Cap - 1 /\ ~(head + size < Cap) /\ head + size - Cap = head
    BY <1>0
  <2> QED
    BY <1>0, <1>2, <2>1
<1>6. head' = IF head + 1 < Cap THEN head + 1 ELSE 0
  <2>1. head + 1 \in 0..2 * Cap - 1
    BY <1>0
  <2> QED
    BY <1>0, <1>1, <1>2, <2>1
<1>7. wrap(head' + size - 1) = head
  <2>1. CASE head + 1 < Cap
    <3>1. head' + size - 1 = head + Cap /\ head + Cap \in 0..2 * Cap - 1
      BY <1>0, <1>6, <2>1
    <3> QED
      BY <1>0, <1>2, <3>1
  <2>2. CASE ~(head + 1 < Cap)
    <3>1. head' + size - 1 = head /\ head \in 0..2 * Cap - 1
      BY <1>0, <1>6, <2>2
    <3> QED
      BY <1>0, <1>2, <3>1
  <2> QED
    BY <2>1, <2>2
<1>8. ASSUME NEW i \in 1..size - 1
      PROVE  /\ wrap(head' + i - 1) = wrap(head + i)
             /\ wrap(head + i) # head /\ wrap(head + i) \in 0..Cap - 1
  <2>1. head + i \in 0..2 * Cap - 1 /\ i < Cap /\ i > 0
    BY <1>0
  <2>2. wrap(head + i) # head /\ wrap(head + i) \in 0..Cap - 1
    BY <1>0, <1>2, <2>1
  <2>3. CASE head + 1 < Cap
    <3>1. head' + i - 1 = head + i
      BY <1>0, <1>6, <2>3
    <3> QED
      BY <2>2, <3>1
  <2>4. CASE ~(head + 1 < Cap)
    <3>1. head' + i - 1 = i - 1 /\ i - 1 \in 0..2 * Cap - 1 /\ i - 1 < Cap /\ head + i - Cap = i - 1
      BY <1>0, <1>6, <2>1, <2>4
    <3> QED
      BY <1>0, <1>2, <2>1, <2>2, <3>1
  <2> QED
    BY <2>2, <2>3, <2>4
<1> QED
  BY <1>0, <1>3, <1>5, <1>7, <1>8

LEMMA RingPreserved == LogTypeOK /\ RingInv /\ [LogNext]_logVars => RingInv'
<1> SUFFICES ASSUME LogTypeOK, RingInv, [LogNext]_logVars PROVE RingInv'
  OBVIOUS
<1>0. size \in Nat /\ size <= Cap /\ Cap \in Nat
  BY LogAssumption DEF LogTypeOK
<1>1. ASSUME Write, size < Cap PROVE RingInv'
  <2>1. /\ size' = size + 1 /\ head' = 0 /\ written + 1 \in Line
        /\ \A i \in 1..size : entries'[(head' + i - 1) % Cap] = entries[(head + i - 1) % Cap]
        /\ entries'[(head' + size) % Cap] = written + 1
    BY <1>1, WriteGrows, LogAssumption DEF RingInv, Write, LogTypeOK, Line
  <2>2. ASSUME NEW i \in 1..size' PROVE entries'[(head' + i - 1) % Cap] \in Line
    <3>1. CASE i \in 1..size
      BY <2>1, <3>1 DEF RingInv
    <3>2. CASE i = size + 1
      <4>1. head' + i - 1 = head' + size
        BY <1>0, <2>1, <3>2
      <4> QED
        BY <2>1, <4>1
    <3> QED
      BY <1>0, <2>1, <3>1, <3>2
  <2> QED
    BY <2>1, <2>2 DEF RingInv
<1>2. ASSUME Write, size = Cap PROVE RingInv'
  <2>1. /\ size' = size /\ written + 1 \in Line
        /\ \A i \in 1..size - 1 : entries'[(head' + i - 1) % Cap] = entries[(head + i) % Cap]
        /\ entries'[(head' + size - 1) % Cap] = written + 1
    BY <1>2, WriteShifts, LogAssumption DEF Write, LogTypeOK, Line
  <2>2. ASSUME NEW i \in 1..size' PROVE entries'[(head' + i - 1) % Cap] \in Line
    <3>1. CASE i \in 1..size - 1
      <4>1. i + 1 \in 1..size /\ head + (i + 1) - 1 = head + i
        BY <1>0, <3>1 DEF LogTypeOK, Index
      <4>2. entries[(head + (i + 1) - 1) % Cap] \in Line
        BY <4>1 DEF RingInv
      <4> QED
        BY <2>1, <3>1, <4>1, <4>2
    <3>2. CASE i = size
      BY <2>1, <3>2
    <3> QED
      BY <1>0, <2>1, <3>1, <3>2
  <2> QED
    BY <1>0, <1>2, <2>1, <2>2 DEF RingInv
<1>3. ASSUME UNCHANGED <<entries, head, size>> PROVE RingInv'
  BY <1>3 DEF RingInv
<1> QED
  BY <1>0, <1>1, <1>2, <1>3 DEF LogNext, FanOut, Subscribe, Receive, logVars

LEMMA KeptStep ==
    ASSUME LogTypeOK, RingInv, [LogNext]_logVars
    PROVE  [Kept!Next]_(Snapshot)
<1>0. size \in Nat /\ size <= Cap /\ Cap \in Nat \ {0}
  BY LogAssumption DEF LogTypeOK
<1>1. LogTypeOK' /\ RingInv'
  BY LogTypePreserved, RingPreserved
<1>2. Snapshot \in Seq(Line) /\ Len(Snapshot) = size
  BY SnapshotType
<1>3. Snapshot' \in Seq(Line) /\ Len(Snapshot') = size'
  BY <1>1 DEF Snapshot, RingInv, LogTypeOK
<1>4. ASSUME Write, size < Cap PROVE Snapshot' = Append(Snapshot, written + 1)
  <2>1. /\ size' = size + 1 /\ written + 1 \in Line
        /\ \A i \in 1..size : entries'[(head' + i - 1) % Cap] = entries[(head + i - 1) % Cap]
        /\ entries'[(head' + size) % Cap] = written + 1
    BY <1>4, WriteGrows, LogAssumption DEF Write, LogTypeOK, Line
  <2>2. /\ Append(Snapshot, written + 1) \in Seq(Line)
        /\ Len(Append(Snapshot, written + 1)) = size + 1
        /\ \A i \in 1..size : Append(Snapshot, written + 1)[i] = Snapshot[i]
        /\ Append(Snapshot, written + 1)[size + 1] = written + 1
    BY <1>2, <2>1, AppendProperties
  <2>3. ASSUME NEW i \in 1..size + 1 PROVE Snapshot'[i] = Append(Snapshot, written + 1)[i]
    <3>1. Snapshot'[i] = entries'[(head' + i - 1) % Cap]
      BY <2>1 DEF Snapshot
    <3>2. CASE i \in 1..size
      BY <2>1, <2>2, <3>1, <3>2 DEF Snapshot
    <3>3. CASE i = size + 1
      <4>1. head' + i - 1 = head' + size
        BY <1>0, <1>1, <3>3 DEF LogTypeOK, Index
      <4> QED
        BY <2>1, <2>2, <3>1, <3>3, <4>1
    <3>4. i \in 1..size \/ i = size + 1
      BY <1>0
    <3> QED
      BY <3>2, <3>3, <3>4
  <2> QED
    BY <1>3, <2>1, <2>2, <2>3, SeqEqual
<1>5. ASSUME Write, size = Cap PROVE Snapshot' = Append(Tail(Snapshot), written + 1)
  <2>1. /\ size' = size /\ written + 1 \in Line
        /\ \A i \in 1..size - 1 : entries'[(head' + i - 1) % Cap] = entries[(head + i) % Cap]
        /\ entries'[(head' + size - 1) % Cap] = written + 1
    BY <1>5, WriteShifts, LogAssumption DEF Write, LogTypeOK, Line
  <2> DEFINE older == Tail(Snapshot)
  <2>2. /\ older \in Seq(Line) /\ Len(older) = size - 1
        /\ \A i \in 1..size - 1 : older[i] = Snapshot[i + 1]
    <3>1. Snapshot # <<>>
      BY <1>0, <1>2, <1>5
    <3> QED
      BY <1>2, <3>1, HeadTailProperties
  <2> HIDE DEF older
  <2>3. /\ Append(older, written + 1) \in Seq(Line)
        /\ Len(Append(older, written + 1)) = size
        /\ \A i \in 1..size - 1 : Append(older, written + 1)[i] = older[i]
        /\ Append(older, written + 1)[size] = written + 1
    BY <1>0, <2>1, <2>2, AppendProperties
  <2>4. ASSUME NEW i \in 1..size PROVE Snapshot'[i] = Append(older, written + 1)[i]
    <3>1. Snapshot'[i] = entries'[(head' + i - 1) % Cap]
      BY <2>1 DEF Snapshot
    <3>2. CASE i \in 1..size - 1
      <4>1. i + 1 \in 1..size /\ head + (i + 1) - 1 = head + i
        BY <1>0, <3>2 DEF LogTypeOK, Index
      <4>2. Snapshot[i + 1] = entries[(head + i) % Cap]
        BY <4>1 DEF Snapshot
      <4> QED
        BY <2>1, <2>2, <2>3, <3>1, <3>2, <4>2
    <3>3. CASE i = size
      BY <2>1, <2>3, <3>1, <3>3
    <3>4. i \in 1..size - 1 \/ i = size
      BY <1>0
    <3> QED
      BY <3>2, <3>3, <3>4
  <2> QED
    BY <1>3, <2>1, <2>3, <2>4, SeqEqual DEF older
<1>6. ASSUME UNCHANGED <<entries, head, size>> PROVE Snapshot' = Snapshot
  BY <1>6 DEF Snapshot
<1>7. Write => written + 1 \in Line
  BY LogAssumption DEF Write, LogTypeOK, Line
<1> QED
  BY <1>0, <1>2, <1>4, <1>5, <1>6, <1>7
  DEF LogNext, FanOut, Subscribe, Receive, logVars, Kept!Next, Kept!Write

\* Whatever is written and whenever a snapshot is taken, the ring holds exactly
\* the newest lines in their order.
THEOREM RingRefinesLog == LogSpec => RingIsBoundedLog
<1>1. LogInit => RingInv /\ Kept!Init
  BY LogAssumption DEF LogInit, RingInv, Kept!Init, Snapshot
<1>2. LogTypeOK /\ RingInv /\ [LogNext]_logVars => [Kept!Next]_(Snapshot)
  BY KeptStep
<1> QED
  BY <1>1, <1>2, RingPreserved, LogTypeCorrect, PTL DEF LogSpec, RingIsBoundedLog, Kept!Spec

-----------------------------------------------------------------------------
(* The channels of the subscribers.                                        *)

LEMMA OrderPreserved ==
    LogTypeOK /\ ChannelsInOrder /\ [LogNext]_logVars => ChannelsInOrder'
<1> SUFFICES ASSUME LogTypeOK, ChannelsInOrder, [LogNext]_logVars,
                    NEW s \in Subscriber
             PROVE  InOrder(s)'
  BY DEF ChannelsInOrder
<1>0. /\ chan \in [Subscriber -> Seq(Line)] /\ chan[s] \in Seq(Line)
      /\ written \in Nat /\ (targets # {} => written \in Line)
      /\ \A i \in 1..Len(chan[s]) : chan[s][i] \in Nat
      /\ Len(chan[s]) \in Nat
  BY LogAssumption, ElementOfSeq DEF LogTypeOK, Line
<1>1. InOrder(s)
  BY DEF ChannelsInOrder
<1>2. CASE Write
  <2>1. chan'[s] = chan[s] /\ written' = written + 1
    BY <1>2 DEF Write
  <2> QED
    BY <1>0, <1>1, <2>1 DEF InOrder
<1>3. ASSUME NEW u \in Subscriber, FanOut(u) PROVE InOrder(s)'
  <2>1. written' = written /\ targets' = targets \ {u} /\ u \in targets /\ written \in Line
    BY <1>0, <1>3 DEF FanOut
  <2>2. CASE chan'[s] = chan[s]
    BY <1>1, <2>1, <2>2 DEF InOrder
  <2>3. CASE u = s /\ chan'[s] = Append(chan[s], written)
    <3> DEFINE n == Len(chan[s])
    <3>1. /\ Len(chan'[s]) = n + 1
          /\ \A i \in 1..n : chan'[s][i] = chan[s][i]
          /\ chan'[s][n + 1] = written
      BY <1>0, <2>1, <2>3, AppendProperties
    <3>2. /\ \A i, j \in 1..n : i < j => chan[s][i] < chan[s][j]
          /\ \A i \in 1..n : chan[s][i] < written
      BY <1>1, <2>1, <2>3 DEF InOrder
    <3>3. s \notin targets'
      BY <2>1, <2>3
    <3>4. \A i \in 1..n + 1 : i \in 1..n \/ i = n + 1
      BY <1>0
    <3>5. \A i, j \in 1..n + 1 : i < j => i \in 1..n
      BY <1>0
    <3> HIDE DEF n
    <3>6. \A i \in 1..n + 1 : chan'[s][i] <= written'
      BY <1>0, <2>1, <3>1, <3>2, <3>4 DEF n
    <3>7. \A i, j \in 1..n + 1 : i < j => chan'[s][i] < chan'[s][j]
      BY <3>1, <3>2, <3>4, <3>5
    <3> QED
      BY <3>1, <3>3, <3>6, <3>7 DEF InOrder
  <2>4. chan'[s] = chan[s] \/ (u = s /\ chan'[s] = Append(chan[s], written))
    BY <1>0, <1>3 DEF FanOut
  <2> QED
    BY <2>2, <2>3, <2>4
<1>4. ASSUME NEW u \in Subscriber, Subscribe(u) PROVE InOrder(s)'
  BY <1>1, <1>4 DEF Subscribe, InOrder
<1>5. ASSUME NEW u \in Subscriber, Receive(u) PROVE InOrder(s)'
  <2>1. written' = written /\ targets' = targets /\ chan[u] # <<>>
    BY <1>5 DEF Receive
  <2>2. CASE u # s
    <3>1. chan'[s] = chan[s]
      BY <1>0, <1>5, <2>2 DEF Receive
    <3> QED
      BY <1>1, <2>1, <3>1 DEF InOrder
  <2>3. CASE u = s
    <3>1. chan'[s] = Tail(chan[s])
      BY <1>0, <1>5, <2>3 DEF Receive
    <3>2. /\ Len(chan'[s]) = Len(chan[s]) - 1
          /\ \A i \in 1..Len(chan'[s]) : chan'[s][i] = chan[s][i + 1]
      BY <1>0, <2>1, <2>3, <3>1, HeadTailProperties
    <3>3. \A i \in 1..Len(chan'[s]) : i + 1 \in 1..Len(chan[s])
      BY <1>0, <3>2
    <3>4. \A i, j \in 1..Len(chan'[s]) : i < j => i + 1 < j + 1
      OBVIOUS
    <3> QED
      BY <1>1, <2>1, <3>2, <3>3, <3>4 DEF InOrder
  <2> QED
    BY <2>2, <2>3
<1>6. CASE UNCHANGED logVars
  BY <1>1, <1>6 DEF logVars, InOrder
<1> QED
  BY <1>2, <1>3, <1>4, <1>5, <1>6 DEF LogNext

\* What a subscriber receives is in the order it was written.
THEOREM SubscribersSeeOrder == LogSpec => []ChannelsInOrder
<1>1. LogInit => ChannelsInOrder
  BY EmptySeq DEF LogInit, ChannelsInOrder, InOrder
<1> QED
  BY <1>1, OrderPreserved, LogTypeCorrect, PTL DEF LogSpec
=============================================================================
