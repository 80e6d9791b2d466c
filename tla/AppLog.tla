------------------------------- MODULE AppLog -------------------------------
(***************************************************************************)
(* The ring buffer of internal/applog/applog.go that captures what the     *)
(* server logs and fans each line out to live subscribers.                 *)
(*                                                                         *)
(* A line is its number, from 1 on.  The standard logger holds its own     *)
(* mutex while it calls Write, so one Write ends before the next begins;   *)
(* within a Write the fan-out runs after the buffer's mutex is released,   *)
(* and subscribers come and receive between its sends.                     *)
(***************************************************************************)
EXTENDS Integers, Sequences

CONSTANTS
    Cap,         \* the capacity of the ring
    ChanCap,     \* the capacity of a subscriber's channel
    Subscriber,  \* the goroutines that may subscribe
    MaxWritten   \* BOUND: how many lines are logged

ASSUME LogAssumption ==
    /\ Cap \in Nat \ {0}
    /\ ChanCap \in Nat \ {0}
    /\ MaxWritten \in Nat

VARIABLES
    entries,     \* the ring
    head,        \* index of the oldest entry
    size,        \* how many entries are filled
    written,     \* the number of the newest line
    subscribers, \* the goroutines subscribed
    targets,     \* the subscribers the line being written is still to be sent to
    chan         \* the channel of each subscriber

logVars == <<entries, head, size, written, subscribers, targets, chan>>

Line == 1..MaxWritten
NoLine == 0
Index == 0..Cap - 1

LogTypeOK ==
    /\ entries \in [Index -> Line \union {NoLine}]
    /\ head \in Index
    /\ size \in 0..Cap
    /\ written \in 0..MaxWritten
    /\ subscribers \subseteq Subscriber
    /\ targets \subseteq subscribers
    /\ targets # {} => written \in Line
    /\ chan \in [Subscriber -> Seq(Line)]
    /\ \A s \in Subscriber : Len(chan[s]) <= ChanCap

LogInit ==
    /\ entries = [i \in Index |-> NoLine]
    /\ head = 0
    /\ size = 0
    /\ written = 0
    /\ subscribers = {}
    /\ targets = {}
    /\ chan = [s \in Subscriber |-> <<>>]

\* Faulty variant: a full ring overwrites its oldest line without moving its
\* head.
WriteInPlace ==
    /\ targets = {}
    /\ written < MaxWritten
    /\ written' = written + 1
    /\ entries' = [entries EXCEPT ![(head + size) % Cap] = written + 1]
    /\ size' = IF size < Cap THEN size + 1 ELSE size
    /\ targets' = subscribers
    /\ UNCHANGED <<head, subscribers, chan>>

\* Write, up to the release of the mutex: store the line in the slot after the
\* newest one, and copy the set of subscribers.
Write ==
    /\ targets = {}
    /\ written < MaxWritten
    /\ written' = written + 1
    /\ entries' = [entries EXCEPT ![(head + size) % Cap] = written + 1]
    /\ IF size < Cap
       THEN size' = size + 1 /\ UNCHANGED head
       ELSE head' = (head + 1) % Cap /\ UNCHANGED size
    /\ targets' = subscribers
    /\ UNCHANGED <<subscribers, chan>>

\* Faulty variants: a line that may be sent again, and a send that blocks.
FanOutAgain(s) ==
    /\ s \in targets
    /\ targets' \in {targets, targets \ {s}}
    /\ chan' = IF Len(chan[s]) < ChanCap
               THEN [chan EXCEPT ![s] = Append(@, written)]
               ELSE chan
    /\ UNCHANGED <<entries, head, size, written, subscribers>>

FanOutBlocking(s) ==
    /\ s \in targets
    /\ Len(chan[s]) < ChanCap
    /\ targets' = targets \ {s}
    /\ chan' = [chan EXCEPT ![s] = Append(@, written)]
    /\ UNCHANGED <<entries, head, size, written, subscribers>>

\* Write, after the mutex: a send that would block is skipped.
FanOut(s) ==
    /\ s \in targets
    /\ targets' = targets \ {s}
    /\ chan' = IF Len(chan[s]) < ChanCap
               THEN [chan EXCEPT ![s] = Append(@, written)]
               ELSE chan
    /\ UNCHANGED <<entries, head, size, written, subscribers>>

Subscribe(s) ==
    /\ s \notin subscribers
    /\ subscribers' = subscribers \union {s}
    /\ UNCHANGED <<entries, head, size, written, targets, chan>>

Receive(s) ==
    /\ chan[s] # <<>>
    /\ chan' = [chan EXCEPT ![s] = Tail(@)]
    /\ UNCHANGED <<entries, head, size, written, subscribers, targets>>

\* What GET /logs answers.
Snapshot == [i \in 1..size |-> entries[(head + i - 1) % Cap]]

LogNext ==
    \/ Write
    \/ \E s \in Subscriber : FanOut(s) \/ Subscribe(s) \/ Receive(s)

\* A writer that runs is scheduled again; a subscriber may stall for good.
LogFairness == \A s \in Subscriber : WF_logVars(FanOut(s))

LogSpec == LogInit /\ [][LogNext]_logVars
FairLogSpec == LogSpec /\ LogFairness
-----------------------------------------------------------------------------
\* Behind the head and size of the ring there is a plain bounded log: a
\* snapshot, whenever it is taken, is the newest lines in the order they were
\* written, none missing and none twice, also after the ring has wrapped.
Kept == INSTANCE BoundedLog WITH log <- Snapshot
RingIsBoundedLog == Kept!Spec

\* A subscriber's channel holds lines in the order they were written, each at
\* most once, and none that was not yet written, however the sends of one Write
\* interleave with subscriptions and receives.
InOrder(s) ==
    /\ \A i, j \in 1..Len(chan[s]) : i < j => chan[s][i] < chan[s][j]
    /\ \A i \in 1..Len(chan[s]) : chan[s][i] <= written
    /\ s \in targets => \A i \in 1..Len(chan[s]) : chan[s][i] < written
ChannelsInOrder == \A s \in Subscriber : InOrder(s)

\* "A slow subscriber never stalls writes": every Write ends, even when nobody
\* receives any more.
WritesEnd == targets # {} ~> targets = {}
=============================================================================
