----------------------------- MODULE Channels -----------------------------
(***************************************************************************)
(* The notification channels of internal/api/handlers/notification.go and  *)
(* the dispatcher of internal/notifier/dispatcher.go, which sends an event *)
(* of a monitor to each of them.                                           *)
(*                                                                         *)
(* Requests change the channels table at any time.  The check that found a *)
(* transition loads the enabled channels and starts one goroutine for each *)
(* of them; nobody waits for these goroutines, they end when the receiver  *)
(* answers or when their time is up, and an exit of the process loses      *)
(* them.  Events 1, 2, ... are the transitions of one monitor, in order.   *)
(***************************************************************************)
EXTENDS Integers, Sequences

CONSTANTS
    Type,           \* the types of channel
    Request,        \* requests that save a channel, in progress at once
    SendContext,    \* the life of the context a send runs under
    ClientTimeout,  \* the timeout of the HTTP client it uses
    Gap,            \* the shortest time between two events of a monitor
    AnswerTime,     \* how long a receiver may take to accept, per type
    FaultKinds,     \* a subset of {"db", "exit"}
    MaxEvents       \* BOUND: events in a behaviour

ASSUME ChannelAssumption ==
    /\ SendContext \in Nat \ {0}
    /\ ClientTimeout \in Nat \ {0}
    /\ Gap \in Nat
    /\ AnswerTime \in [Type -> Nat]
    /\ MaxEvents \in Nat
    /\ FaultKinds \subseteq {"db", "exit"}

VARIABLES
    channel,  \* the row of a type: is it there, enabled, its config usable
    saving,   \* the row a save is about to insert, having found none
    loaded,   \* the rows a Notify has read and not dispatched yet
    event,    \* the number of the last event
    gap,      \* the time since it, up to Gap
    send,     \* send[e][c]: the goroutine that sends event e to channel c
    inbox,    \* what the receiver of a channel accepted, in order of arrival
    off       \* how long a channel has been off, up to SendLimit + 1

channelVars == <<channel, saving, loaded, event, gap, send, inbox, off>>

Row == [exists : BOOLEAN, enabled : BOOLEAN, usable : BOOLEAN]
NoRow == [exists |-> FALSE, enabled |-> FALSE, usable |-> FALSE]
Save == [type : Type, row : Row]
NoSave == [type |-> "none", row |-> NoRow]
EventNumber == 1..MaxEvents
\* "lost": the process ended; "ended": answered, refused or timed out.
SendPC == {"none", "spawned", "sending", "accepted", "ended", "lost"}
NotSent == [pc |-> "none", clock |-> 0]
Over(pc) == [pc |-> pc, clock |-> 0]

\* Whichever of its two deadlines comes first ends a send.
\* Faulty variant: an HTTP client without a timeout of its own.
ContextOnly == SendContext
SendLimit == IF ClientTimeout < SendContext THEN ClientTimeout ELSE SendContext

On(c) == channel[c].exists /\ channel[c].enabled

ChannelInit ==
    /\ channel = [c \in Type |-> NoRow]
    /\ saving = [r \in Request |-> NoSave]
    /\ loaded = {}
    /\ event = 0
    /\ gap = Gap
    /\ send = [e \in EventNumber |-> [c \in Type |-> NotSent]]
    /\ inbox = [c \in Type |-> <<>>]
    /\ off = [c \in Type |-> SendLimit + 1]

-----------------------------------------------------------------------------
(* Requests.  A client names a row by its id; the row of a type that was   *)
(* deleted and made again has another id, so a late request misses it.     *)

\* Writes the row of c; a channel that is or was on is not off yet.
SetRow(c, row) ==
    /\ channel' = [channel EXCEPT ![c] = row]
    /\ off' = IF On(c) \/ row.enabled THEN [off EXCEPT ![c] = 0] ELSE off
    /\ UNCHANGED <<loaded, event, gap, send, inbox>>

Saved(enabled, usable) == [exists |-> TRUE, enabled |-> enabled, usable |-> usable]

\* Upsert, first statement: UPDATE ... WHERE type; without a row, go on.
UpsertUpdate(r, c, enabled, usable) ==
    /\ saving[r] = NoSave
    /\ IF channel[c].exists
       THEN SetRow(c, Saved(enabled, usable)) /\ UNCHANGED saving
       ELSE /\ saving' = [saving EXCEPT ![r] =
                    [type |-> c, row |-> Saved(enabled, usable)]]
            /\ UNCHANGED <<channel, loaded, event, gap, send, inbox, off>>

\* Upsert, second statement: INSERT, which the UNIQUE type refuses when
\* another save came first.
UpsertInsert(r) ==
    /\ saving[r] # NoSave
    /\ saving' = [saving EXCEPT ![r] = NoSave]
    /\ IF channel[saving[r].type].exists
       THEN UNCHANGED <<channel, loaded, event, gap, send, inbox, off>>
       ELSE SetRow(saving[r].type, saving[r].row)

DeleteChannel(c) ==
    /\ channel[c].exists
    /\ SetRow(c, NoRow)
    /\ UNCHANGED saving

SetEnabled(c, enabled) ==
    /\ channel[c].exists
    /\ SetRow(c, [channel[c] EXCEPT !.enabled = enabled])
    /\ UNCHANGED saving

-----------------------------------------------------------------------------
(* The dispatcher.                                                         *)

\* Faulty variant: the SELECT forgets the WHERE clause.
AllRows == {c \in Type : channel[c].exists}
EnabledRows == {c \in Type : On(c)}

\* Notify loads the channels; with an error it gives the event up.
LoadChannels(ok) ==
    /\ event < MaxEvents
    /\ gap = Gap
    /\ loaded = {}
    /\ ~ok => "db" \in FaultKinds
    /\ event' = event + 1
    /\ gap' = 0
    /\ loaded' = IF ok THEN {<<c, channel[c].usable>> : c \in EnabledRows} ELSE {}
    /\ UNCHANGED <<channel, saving, send, inbox, off>>

\* Faulty variant: an unusable channel ends the loop instead of being skipped.
BuiltUntilError == IF \E l \in loaded : ~l[2] THEN {} ELSE {l[1] : l \in loaded}
Built == {l[1] : l \in {x \in loaded : x[2]}}

Dispatch ==
    /\ loaded # {}
    /\ send' = [send EXCEPT ![event] = [c \in Type |->
                    IF c \in Built THEN [pc |-> "spawned", clock |-> 0] ELSE @[c]]]
    /\ loaded' = {}
    /\ UNCHANGED <<channel, saving, event, gap, inbox, off>>

-----------------------------------------------------------------------------
(* A send.                                                                 *)

SetPC(e, c, pc) == send' = [send EXCEPT ![e][c].pc = pc]
Live(e, c) == send[e][c].pc \in {"spawned", "sending", "accepted"}

\* Faulty variant: the channels are served one after the other.
OneByOne(e, c) == \A d \in Type \ {c} : send[e][d].pc \notin {"sending", "accepted"}
Runs(e, c) == TRUE

BeginSend(e, c) ==
    /\ send[e][c].pc = "spawned"
    /\ Runs(e, c)
    /\ SetPC(e, c, "sending")
    /\ UNCHANGED <<channel, saving, loaded, event, gap, inbox, off>>

\* The receiver takes the message; its answer may still be lost.
Accept(e, c) ==
    /\ send[e][c].pc = "sending"
    /\ send[e][c].clock < SendLimit
    /\ SetPC(e, c, "accepted")
    /\ inbox' = [inbox EXCEPT ![c] = Append(@, e)]
    /\ UNCHANGED <<channel, saving, loaded, event, gap, off>>

\* The answer arrives, or the send fails, or its time is up.  A receiver that
\* answers in time is one that does not fail.
EndSend(e, c) ==
    /\ \/ send[e][c].pc = "accepted"
       \/ send[e][c].pc = "sending" /\ AnswerTime[c] >= SendLimit
    /\ send' = [send EXCEPT ![e][c] = Over("ended")]
    /\ UNCHANGED <<channel, saving, loaded, event, gap, inbox, off>>

\* The process ends: requests, the event being dispatched and sends are lost.
Cut(e, c) == Live(e, c) \/ (e = event /\ \E l \in loaded : l[1] = c)
Exit ==
    /\ "exit" \in FaultKinds
    /\ \/ loaded # {}
       \/ \E r \in Request : saving[r] # NoSave
       \/ \E e \in EventNumber, c \in Type : Live(e, c)
    /\ saving' = [r \in Request |-> NoSave]
    /\ loaded' = {}
    /\ send' = [e \in EventNumber |-> [c \in Type |->
                    IF Cut(e, c) THEN Over("lost") ELSE send[e][c]]]
    /\ UNCHANGED <<channel, event, gap, inbox, off>>

-----------------------------------------------------------------------------
(* Time.  Code runs in no time; a send waits for its receiver only.        *)

MayWait(e, c) ==
    CASE send[e][c].pc = "spawned"  -> ~Runs(e, c)
      [] send[e][c].pc = "sending"  -> send[e][c].clock < SendLimit
                                       /\ send[e][c].clock # AnswerTime[c]
      [] send[e][c].pc = "accepted" -> send[e][c].clock < SendLimit
      [] OTHER -> TRUE

Longer(n, bound) == IF n < bound THEN n + 1 ELSE bound

Pass ==
    /\ loaded = {}
    /\ \A e \in EventNumber, c \in Type : MayWait(e, c)
    /\ gap' = Longer(gap, Gap)
    /\ off' = [c \in Type |-> IF On(c) THEN off[c] ELSE Longer(off[c], SendLimit + 1)]
    /\ send' = [e \in EventNumber |-> [c \in Type |->
                    IF send[e][c].pc \in {"sending", "accepted"}
                    THEN [send[e][c] EXCEPT !.clock = @ + 1] ELSE send[e][c]]]
    /\ UNCHANGED <<channel, saving, loaded, event, inbox>>

-----------------------------------------------------------------------------
ChannelRequest ==
    \/ \E r \in Request, c \in Type, enabled, usable \in BOOLEAN :
           UpsertUpdate(r, c, enabled, usable)
    \/ \E r \in Request : UpsertInsert(r)
    \/ \E c \in Type : DeleteChannel(c)
    \/ \E c \in Type, enabled \in BOOLEAN : SetEnabled(c, enabled)

SendStep(e, c) == BeginSend(e, c) \/ Accept(e, c) \/ EndSend(e, c)

ChannelNext ==
    \/ ChannelRequest
    \/ \E ok \in BOOLEAN : LoadChannels(ok)
    \/ Dispatch
    \/ \E e \in EventNumber, c \in Type : SendStep(e, c)
    \/ Exit
    \/ Pass

\* Goroutines run, time passes, and a receiver accepts by its AnswerTime.
ChannelFairness ==
    /\ WF_channelVars(Dispatch)
    /\ WF_channelVars(Pass)
    /\ \A e \in EventNumber, c \in Type :
           /\ WF_channelVars(BeginSend(e, c))
           /\ WF_channelVars(Accept(e, c))
           /\ WF_channelVars(EndSend(e, c))

ChannelSpec == ChannelInit /\ [][ChannelNext]_channelVars
FairChannelSpec == ChannelSpec /\ ChannelFairness
-----------------------------------------------------------------------------
(* Properties.                                                             *)

\* Types, and a loaded event is the last one, dispatched before time passes.
ChannelTypeOK ==
    /\ channel \in [Type -> Row]
    /\ saving \in [Request -> Save \union {NoSave}]
    /\ loaded \subseteq Type \X BOOLEAN
    /\ event \in 0..MaxEvents
    /\ gap \in 0..Gap
    /\ send \in [EventNumber -> [Type -> [pc : SendPC, clock : 0..SendLimit]]]
    /\ inbox \in [Type -> Seq(EventNumber)]
    /\ off \in [Type -> 0..(SendLimit + 1)]
    /\ loaded # {} => event > 0 /\ gap = 0

\* A receiver gets the events of a monitor in the order they happened, each at
\* most once, although nothing but their deadlines separates the goroutines of
\* two Notify calls (dispatcher.go:50).  It takes Gap >= SendLimit.
ArriveInOrder ==
    \A c \in Type : \A i, j \in DOMAIN inbox[c] : i < j => inbox[c][i] < inbox[c][j]

\* A channel that was disabled or deleted gets nothing more once the sends in
\* flight at that moment have run out of time (dispatcher.go:35, :53).
QuietWhenOff ==
    \A c \in Type : off[c] > SendLimit =>
        /\ \A e \in EventNumber : send[e][c].pc \notin {"spawned", "sending"}
        /\ \A l \in loaded : l[1] # c

\* A slow or failing channel does not hold up the others (dispatcher.go:50,
\* docs/notifications.md:21): a receiver that accepts in time has the event
\* by then, whatever the receivers of the other channels do.
NotDelayed ==
    \A e \in 1..event, c \in Type :
        AnswerTime[c] < SendLimit /\ (e < event \/ gap > AnswerTime[c]) =>
            send[e][c].pc \notin {"spawned", "sending"}

\* Every usable channel that was enabled when an event was loaded and whose
\* receiver accepts in time hears of it, malformed channels beside it
\* notwithstanding, unless the process ends (dispatcher.go:41-61).
EnabledChannelHears ==
    \A e \in EventNumber, c \in {d \in Type : AnswerTime[d] < SendLimit} :
        (event = e /\ <<c, TRUE>> \in loaded) ~>
            (send[e][c].pc = "lost" \/ \E i \in DOMAIN inbox[c] : inbox[c][i] = e)

\* The event is on its way to c, and the receiver may still take it.
UnderWay(c) ==
    \/ <<c, TRUE>> \in loaded
    \/ send[event][c].pc = "spawned"
    \/ send[event][c].pc = "sending" /\ send[event][c].clock < SendLimit

\* What the receivers' mailboxes hold.
Box == [c \in Type |-> IF event > 0 /\ UnderWay(c) THEN event ELSE 0]

Mail == INSTANCE Mailbox WITH
    Channel <- Type,
    posted  <- event,
    on      <- {c \in Type : On(c)},
    box     <- Box,
    heard   <- inbox

\* All that rows, goroutines, deadlines and clocks amount to, seen by the
\* receivers: one mailbox per channel, filled only while the channel is on and
\* empty again before the next event is posted (dispatcher.go:28-62).
MailboxPerChannel == Mail!Spec
=============================================================================
