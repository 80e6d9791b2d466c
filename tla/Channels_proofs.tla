-------------------------- MODULE Channels_proofs --------------------------
(***************************************************************************)
(* What the dispatcher promises a receiver, for every number of channels,  *)
(* requests and events and all times, provided that two events of one      *)
(* monitor are at least the limit of a send apart (the interval of a       *)
(* monitor against the 10 s of the HTTP client).                           *)
(*                                                                         *)
(* The argument: a send that is still live has been running since its      *)
(* event, so once the next event has happened it is out of time and can    *)
(* only end.  Its clock also bounds the time its channel has been off.     *)
(***************************************************************************)
EXTENDS Channels, TLAPS

\* The hypothesis on the environment.
EventsApart == Gap >= SendLimit

\* Nothing was sent of an event that is not dispatched yet.
Fresh ==
    \A e \in EventNumber, c \in Type :
        e > event \/ (e = event /\ loaded # {}) => send[e][c] = NotSent

\* How long a send has been running.
Timing ==
    \A e \in EventNumber, c \in Type :
        /\ send[e][c].pc = "spawned" =>
               e = event /\ send[e][c].clock = 0 /\ gap = 0
        /\ send[e][c].pc \in {"sending", "accepted"} =>
               \/ e = event /\ gap <= send[e][c].clock
               \/ e < event /\ send[e][c].clock = SendLimit
        /\ send[e][c].pc \in {"spawned", "sending"} =>
               /\ send[e][c].clock <= AnswerTime[c]
               /\ off[c] <= send[e][c].clock

\* A receiver has heard of past events only, and not of those under way.
Heard ==
    \A c \in Type : \A i \in DOMAIN inbox[c] :
        /\ inbox[c][i] <= event
        /\ send[inbox[c][i]][c].pc \notin {"none", "spawned", "sending"}

\* The time off counts from the moment a channel goes off.
OffCounts ==
    /\ \A c \in Type : On(c) => off[c] = 0
    /\ \A l \in loaded : off[l[1]] = 0

ChannelInv == ChannelTypeOK /\ Fresh /\ Timing /\ Heard /\ OffCounts /\ ArriveInOrder

\* A send ends after a positive, finite time.
LEMMA SendLimitPositive == SendLimit \in Nat /\ SendLimit > 0
  BY ChannelAssumption DEF SendLimit

\* The invariant holds before the first event.
LEMMA ChannelInitInv == ChannelInit => ChannelInv
<1> SUFFICES ASSUME ChannelInit PROVE ChannelInv
  OBVIOUS
<1> USE SendLimitPositive, ChannelAssumption DEF ChannelInit
<1>1. ChannelTypeOK
  BY DEF ChannelTypeOK, Row, NoRow, SendPC, NotSent, Over
<1>2. Fresh /\ Timing /\ Heard /\ ArriveInOrder
  BY DEF Fresh, Timing, Heard, ArriveInOrder, NotSent
<1>3. OffCounts
  BY DEF OffCounts, On, NoRow
<1> QED
  BY <1>1, <1>2, <1>3 DEF ChannelInv

-----------------------------------------------------------------------------
(* Requests touch the rows only.                                           *)

\* Writing a row keeps the types and lets a channel go off only with its clock
\* at zero.
LEMMA SetRowInv ==
  ASSUME ChannelInv, NEW c \in Type, NEW row \in Row, SetRow(c, row),
         saving' \in [Request -> Save \union {NoSave}]
  PROVE  ChannelInv'
<1> USE SendLimitPositive DEF ChannelInv
<1>1. /\ channel' = [channel EXCEPT ![c] = row]
      /\ off' \in [Type -> 0..(SendLimit + 1)]
      /\ UNCHANGED <<loaded, event, gap, send, inbox>>
      /\ \A d \in Type : off'[d] = off[d] \/ off'[d] = 0
  BY DEF SetRow, ChannelTypeOK
<1>2. ChannelTypeOK'
  BY <1>1 DEF ChannelTypeOK
<1>3. Fresh' /\ Heard' /\ ArriveInOrder'
  BY <1>1 DEF Fresh, Heard, ArriveInOrder
<1>4. Timing'
  <2> SUFFICES ASSUME NEW e \in EventNumber, NEW d \in Type,
                      send[e][d].pc \in {"spawned", "sending"}
               PROVE  off'[d] <= send[e][d].clock
    BY <1>1 DEF Timing
  <2>1. off[d] <= send[e][d].clock /\ send[e][d].clock \in Nat
    BY DEF Timing, ChannelTypeOK
  <2> QED
    BY <2>1, <1>1
<1>5. OffCounts'
  <2>1. ASSUME NEW d \in Type, On(d)' PROVE off'[d] = 0
    <3>1. CASE d = c
      BY <3>1, <2>1, <1>1 DEF SetRow, On, ChannelTypeOK
    <3>2. CASE d # c
      BY <3>2, <2>1, <1>1 DEF SetRow, On, OffCounts, ChannelTypeOK
    <3> QED
      BY <3>1, <3>2
  <2>2. ASSUME NEW l \in loaded' PROVE off'[l[1]] = 0
    <3>1. l[1] \in Type /\ off[l[1]] = 0
      BY <2>2, <1>1 DEF OffCounts, ChannelTypeOK
    <3> QED
      BY <3>1, <1>1
  <2> QED
    BY <2>1, <2>2 DEF OffCounts
<1> QED
  BY <1>2, <1>3, <1>4, <1>5

\* A save that goes on to its INSERT changes nothing the invariant speaks of.
LEMMA SavingInv ==
  ASSUME ChannelInv, saving' \in [Request -> Save \union {NoSave}],
         UNCHANGED <<channel, loaded, event, gap, send, inbox, off>>
  PROVE  ChannelInv'
  BY DEF ChannelInv, ChannelTypeOK, Fresh, Timing, Heard, OffCounts, On, ArriveInOrder

\* No request breaks the invariant.
LEMMA RequestInv == ChannelInv /\ ChannelRequest => ChannelInv'
<1> SUFFICES ASSUME ChannelInv, ChannelRequest PROVE ChannelInv'
  OBVIOUS
<1>t. ChannelTypeOK
  BY DEF ChannelInv
<1>1. ASSUME NEW r \in Request, NEW c \in Type, NEW enabled \in BOOLEAN,
             NEW usable \in BOOLEAN, UpsertUpdate(r, c, enabled, usable)
      PROVE  ChannelInv'
  <2>1. Saved(enabled, usable) \in Row
    BY DEF Saved, Row
  <2>2. CASE channel[c].exists
    BY <2>1, <2>2, <1>1, <1>t, SetRowInv DEF UpsertUpdate, ChannelTypeOK
  <2>3. CASE ~channel[c].exists
    <3>0. [type |-> c, row |-> Saved(enabled, usable)] \in Save
      BY <2>1 DEF Save
    <3>1. saving' \in [Request -> Save \union {NoSave}]
      BY <3>0, <2>3, <1>1, <1>t DEF UpsertUpdate, ChannelTypeOK
    <3> QED
      BY <3>1, <2>3, <1>1, SavingInv DEF UpsertUpdate
  <2> QED
    BY <2>2, <2>3
<1>2. ASSUME NEW r \in Request, UpsertInsert(r) PROVE ChannelInv'
  <2>1. saving[r].type \in Type /\ saving[r].row \in Row
    BY <1>2, <1>t DEF UpsertInsert, ChannelTypeOK, Save
  <2>2. saving' \in [Request -> Save \union {NoSave}]
    BY <1>2, <1>t DEF UpsertInsert, ChannelTypeOK
  <2>3. CASE channel[saving[r].type].exists
    BY <2>2, <2>3, <1>2, SavingInv DEF UpsertInsert
  <2>4. CASE ~channel[saving[r].type].exists
    BY <2>1, <2>2, <2>4, <1>2, SetRowInv DEF UpsertInsert
  <2> QED
    BY <2>3, <2>4
<1>3. ASSUME NEW c \in Type, DeleteChannel(c) PROVE ChannelInv'
  <2>1. NoRow \in Row
    BY DEF NoRow, Row
  <2> QED
    BY <2>1, <1>3, <1>t, SetRowInv DEF DeleteChannel, ChannelTypeOK
<1>4. ASSUME NEW c \in Type, NEW enabled \in BOOLEAN, SetEnabled(c, enabled)
      PROVE  ChannelInv'
  <2>1. [channel[c] EXCEPT !.enabled = enabled] \in Row
    BY <1>t DEF ChannelTypeOK, Row
  <2> QED
    BY <2>1, <1>4, <1>t, SetRowInv DEF SetEnabled, ChannelTypeOK
<1> QED
  BY <1>1, <1>2, <1>3, <1>4 DEF ChannelRequest

-----------------------------------------------------------------------------
(* The dispatcher and its sends.                                           *)

\* Loading the channels begins an event: every send still live is out of time.
LEMMA LoadInv ==
  ASSUME EventsApart, ChannelInv, NEW ok \in BOOLEAN, LoadChannels(ok)
  PROVE  ChannelInv'
<1> USE SendLimitPositive, ChannelAssumption DEF ChannelInv
<1>1. /\ event' = event + 1 /\ event < MaxEvents /\ gap = Gap /\ gap' = 0
      /\ loaded = {} /\ gap >= SendLimit
      /\ UNCHANGED <<channel, saving, send, inbox, off>>
  BY DEF LoadChannels, EventsApart
<1>2. \A l \in loaded' : l \in Type \X BOOLEAN /\ On(l[1])
  BY DEF LoadChannels, EnabledRows, ChannelTypeOK, Row
<1>3. ChannelTypeOK'
  <2>1. loaded' \subseteq Type \X BOOLEAN
    BY <1>2
  <2>2. event' \in 0..MaxEvents /\ gap' \in 0..Gap /\ event' > 0
    BY <1>1 DEF ChannelTypeOK
  <2> QED
    BY <2>1, <2>2, <1>1 DEF ChannelTypeOK
<1>4. Fresh'
  <2>1. \A e \in EventNumber : e > event' \/ e = event' => e > event
    BY <1>1 DEF EventNumber, ChannelTypeOK
  <2> QED
    BY <2>1, <1>1 DEF Fresh
<1>5. Timing'
  <2> SUFFICES ASSUME NEW e \in EventNumber, NEW c \in Type
               PROVE  /\ send[e][c].pc # "spawned"
                      /\ send[e][c].pc \in {"sending", "accepted"} =>
                             e < event' /\ send[e][c].clock = SendLimit
    BY <1>1 DEF Timing
  <2>1. send[e][c].clock \in 0..SendLimit
    BY DEF ChannelTypeOK
  <2>2. send[e][c].pc # "spawned"
    BY <1>1 DEF Timing
  <2>3. ASSUME send[e][c].pc \in {"sending", "accepted"}
        PROVE  e < event' /\ send[e][c].clock = SendLimit
    <3>1. CASE e = event /\ gap <= send[e][c].clock
      BY <3>1, <2>1, <1>1 DEF ChannelTypeOK
    <3>2. CASE e < event /\ send[e][c].clock = SendLimit
      BY <3>2, <1>1 DEF ChannelTypeOK, EventNumber
    <3> QED
      BY <3>1, <3>2, <2>3 DEF Timing
  <2> QED
    BY <2>2, <2>3
<1>6. Heard'
  <2>1. \A c \in Type : \A i \in DOMAIN inbox[c] : inbox[c][i] \in EventNumber
    BY DEF ChannelTypeOK
  <2> QED
    BY <2>1, <1>1 DEF Heard, EventNumber, ChannelTypeOK
<1>7. OffCounts'
  BY <1>1, <1>2 DEF OffCounts, On
<1>8. ArriveInOrder'
  BY <1>1 DEF ArriveInOrder
<1> QED
  BY <1>3, <1>4, <1>5, <1>6, <1>7, <1>8

\* Dispatching starts sends of the event just loaded, none of them heard of.
LEMMA DispatchInv == ChannelInv /\ Dispatch => ChannelInv'
<1> SUFFICES ASSUME ChannelInv, Dispatch PROVE ChannelInv'
  OBVIOUS
<1> USE SendLimitPositive, ChannelAssumption DEF ChannelInv
<1> DEFINE new == [pc |-> "spawned", clock |-> 0]
<1>1. /\ loaded # {} /\ loaded' = {} /\ gap = 0 /\ event \in EventNumber
      /\ UNCHANGED <<channel, saving, event, gap, inbox, off>>
  BY DEF Dispatch, ChannelTypeOK, EventNumber
<1>2. ASSUME NEW c \in Built
      PROVE  c \in Type /\ off[c] = 0
  BY DEF Built, OffCounts, ChannelTypeOK
<1>3. \A c \in Type : send[event][c] = NotSent
  BY <1>1 DEF Fresh
<1>4. /\ send' \in [EventNumber -> [Type -> [pc : SendPC, clock : 0..SendLimit]]]
      /\ \A e \in EventNumber \ {event} : send'[e] = send[e]
      /\ \A c \in Type : send'[event][c] = IF c \in Built THEN new ELSE NotSent
  <2>1. new \in [pc : SendPC, clock : 0..SendLimit]
    BY DEF SendPC
  <2>2. send' = [send EXCEPT ![event] = [c \in Type |->
                    IF c \in Built THEN new ELSE send[event][c]]]
    BY DEF Dispatch
  <2> HIDE DEF new
  <2> QED
    BY <2>1, <2>2, <1>1, <1>3 DEF ChannelTypeOK
<1>5. ChannelTypeOK'
  BY <1>1, <1>4 DEF ChannelTypeOK
<1>6. Fresh'
  BY <1>1, <1>4 DEF Fresh, ChannelTypeOK, EventNumber
<1>7. Timing'
  <2> SUFFICES ASSUME NEW e \in EventNumber, NEW c \in Type
               PROVE  /\ send'[e][c].pc = "spawned" =>
                             e = event /\ send'[e][c].clock = 0 /\ gap = 0
                      /\ send'[e][c].pc \in {"sending", "accepted"} =>
                             \/ e = event /\ gap <= send'[e][c].clock
                             \/ e < event /\ send'[e][c].clock = SendLimit
                      /\ send'[e][c].pc \in {"spawned", "sending"} =>
                             /\ send'[e][c].clock <= AnswerTime[c]
                             /\ off[c] <= send'[e][c].clock
    BY <1>1 DEF Timing
  <2>1. CASE e = event
    <3>1. CASE c \in Built
      <4>1. send'[e][c].pc = "spawned" /\ send'[e][c].clock = 0
        BY <3>1, <2>1, <1>4
      <4>2. off[c] = 0 /\ AnswerTime[c] \in Nat
        BY <3>1, <1>2
      <4> QED
        BY <4>1, <4>2, <2>1, <1>1
    <3>2. CASE c \notin Built
      BY <3>2, <2>1, <1>4 DEF NotSent
    <3> QED
      BY <3>1, <3>2
  <2>2. CASE e # event
    BY <2>2, <1>4 DEF Timing
  <2> QED
    BY <2>1, <2>2
<1>8. Heard'
  <2>1. \A c \in Type : \A i \in DOMAIN inbox[c] :
            inbox[c][i] \in EventNumber /\ inbox[c][i] # event
    BY <1>3 DEF Heard, NotSent, ChannelTypeOK
  <2> QED
    BY <2>1, <1>1, <1>4 DEF Heard
<1>9. OffCounts' /\ ArriveInOrder'
  BY <1>1 DEF OffCounts, On, ArriveInOrder
<1> QED
  BY <1>5, <1>6, <1>7, <1>8, <1>9

\* What a change of one program counter leaves alone.
LEMMA SetPCEffect ==
  ASSUME ChannelTypeOK, NEW e \in EventNumber, NEW c \in Type,
         NEW pc \in SendPC, SetPC(e, c, pc)
  PROVE  /\ send' \in [EventNumber -> [Type -> [pc : SendPC, clock : 0..SendLimit]]]
         /\ send'[e][c].pc = pc /\ send'[e][c].clock = send[e][c].clock
         /\ \A f \in EventNumber, d \in Type :
                f # e \/ d # c => send'[f][d] = send[f][d]
<1> DEFINE R == [pc : SendPC, clock : 0..SendLimit]
<1> DEFINE new == [send[e][c] EXCEPT !.pc = pc]
<1>1. send \in [EventNumber -> [Type -> R]]
  BY DEF ChannelTypeOK
<1>2. send[e][c] \in R
  BY <1>1
<1>3. new \in R /\ new.pc = pc /\ new.clock = send[e][c].clock
  BY <1>2
<1>4. send' = [send EXCEPT ![e] = [send[e] EXCEPT ![c] = new]]
  BY DEF SetPC
<1> HIDE DEF new, R
<1>5. /\ send' \in [EventNumber -> [Type -> R]]
      /\ send'[e][c] = new
      /\ \A f \in EventNumber, d \in Type :
             f # e \/ d # c => send'[f][d] = send[f][d]
  BY <1>1, <1>3, <1>4
<1> QED
  BY <1>3, <1>5 DEF R

\* A goroutine that starts to run, at the moment of its event.
LEMMA BeginSendInv ==
  ASSUME ChannelInv, NEW e \in EventNumber, NEW c \in Type, BeginSend(e, c)
  PROVE  ChannelInv'
<1> USE SendLimitPositive, ChannelAssumption DEF ChannelInv
<1>1. /\ send[e][c].pc = "spawned"
      /\ e = event /\ send[e][c].clock = 0 /\ gap = 0
      /\ send[e][c] # NotSent
      /\ UNCHANGED <<channel, saving, loaded, event, gap, inbox, off>>
  BY DEF BeginSend, Timing, NotSent
<1>2. /\ send' \in [EventNumber -> [Type -> [pc : SendPC, clock : 0..SendLimit]]]
      /\ send'[e][c].pc = "sending" /\ send'[e][c].clock = send[e][c].clock
      /\ \A f \in EventNumber, d \in Type :
             f # e \/ d # c => send'[f][d] = send[f][d]
  <2>1. "sending" \in SendPC /\ SetPC(e, c, "sending")
    BY DEF BeginSend, SendPC
  <2> QED
    BY <2>1, SetPCEffect
<1>3. ChannelTypeOK'
  BY <1>1, <1>2 DEF ChannelTypeOK
<1>4. Fresh'
  BY <1>1, <1>2 DEF Fresh
<1>5. Timing'
  <2> SUFFICES ASSUME NEW f \in EventNumber, NEW d \in Type
               PROVE  /\ send'[f][d].pc = "spawned" =>
                             f = event /\ send'[f][d].clock = 0 /\ gap = 0
                      /\ send'[f][d].pc \in {"sending", "accepted"} =>
                             \/ f = event /\ gap <= send'[f][d].clock
                             \/ f < event /\ send'[f][d].clock = SendLimit
                      /\ send'[f][d].pc \in {"spawned", "sending"} =>
                             /\ send'[f][d].clock <= AnswerTime[d]
                             /\ off[d] <= send'[f][d].clock
    BY <1>1 DEF Timing
  <2>1. CASE f = e /\ d = c
    BY <2>1, <1>1, <1>2 DEF Timing
  <2>2. CASE f # e \/ d # c
    BY <2>2, <1>2 DEF Timing
  <2> QED
    BY <2>1, <2>2
<1>6. Heard'
  <2> SUFFICES ASSUME NEW d \in Type, NEW i \in DOMAIN inbox[d]
               PROVE  send'[inbox[d][i]][d].pc \notin {"none", "spawned", "sending"}
    BY <1>1 DEF Heard
  <2>1. inbox[d][i] \in EventNumber
    BY DEF ChannelTypeOK
  <2>2. ~(inbox[d][i] = e /\ d = c)
    BY <1>1 DEF Heard
  <2> QED
    BY <2>1, <2>2, <1>2 DEF Heard
<1>7. OffCounts' /\ ArriveInOrder'
  BY <1>1 DEF OffCounts, On, ArriveInOrder
<1> QED
  BY <1>3, <1>4, <1>5, <1>6, <1>7

\* A receiver accepts only the last event, so what it has is in order.
LEMMA AcceptInv ==
  ASSUME ChannelInv, NEW e \in EventNumber, NEW c \in Type, Accept(e, c)
  PROVE  ChannelInv'
<1> USE SendLimitPositive, ChannelAssumption DEF ChannelInv
<1>1. /\ send[e][c].pc = "sending" /\ send[e][c].clock < SendLimit
      /\ send[e][c] # NotSent
      /\ UNCHANGED <<channel, saving, loaded, event, gap, off>>
  BY DEF Accept, NotSent
<1>2. e = event /\ gap <= send[e][c].clock
  BY <1>1 DEF Timing, ChannelTypeOK
<1>3. /\ send' \in [EventNumber -> [Type -> [pc : SendPC, clock : 0..SendLimit]]]
      /\ send'[e][c].pc = "accepted" /\ send'[e][c].clock = send[e][c].clock
      /\ \A f \in EventNumber, d \in Type :
             f # e \/ d # c => send'[f][d] = send[f][d]
  <2>1. "accepted" \in SendPC /\ SetPC(e, c, "accepted")
    BY DEF Accept, SendPC
  <2> QED
    BY <2>1, SetPCEffect
<1>4. /\ inbox[c] \in Seq(EventNumber)
      /\ inbox'[c] = Append(inbox[c], e)
      /\ inbox' \in [Type -> Seq(EventNumber)]
      /\ \A d \in Type \ {c} : inbox'[d] = inbox[d]
  BY DEF Accept, ChannelTypeOK
<1>5. \A i \in DOMAIN inbox[c] :
          /\ inbox[c][i] < e /\ inbox[c][i] # e /\ inbox[c][i] <= event
          /\ inbox[c][i] \in EventNumber
  <2> SUFFICES ASSUME NEW i \in DOMAIN inbox[c]
               PROVE  /\ inbox[c][i] < e /\ inbox[c][i] # e /\ inbox[c][i] <= event
                      /\ inbox[c][i] \in EventNumber
    OBVIOUS
  <2>1. inbox[c][i] \in EventNumber /\ inbox[c][i] <= event
    BY DEF Heard, ChannelTypeOK
  <2>2. inbox[c][i] # e
    BY <1>1 DEF Heard
  <2> QED
    BY <2>1, <2>2, <1>2 DEF EventNumber
<1>6. /\ DOMAIN inbox'[c] = 1..(Len(inbox[c]) + 1)
      /\ DOMAIN inbox[c] = 1..Len(inbox[c])
      /\ Len(inbox[c]) \in Nat
      /\ inbox'[c][Len(inbox[c]) + 1] = e
      /\ \A i \in DOMAIN inbox[c] : inbox'[c][i] = inbox[c][i]
  BY <1>4
<1>7. ChannelTypeOK'
  BY <1>1, <1>3, <1>4 DEF ChannelTypeOK
<1>8. Fresh'
  BY <1>1, <1>3 DEF Fresh
<1>9. Timing'
  <2> SUFFICES ASSUME NEW f \in EventNumber, NEW d \in Type
               PROVE  /\ send'[f][d].pc = "spawned" =>
                             f = event /\ send'[f][d].clock = 0 /\ gap = 0
                      /\ send'[f][d].pc \in {"sending", "accepted"} =>
                             \/ f = event /\ gap <= send'[f][d].clock
                             \/ f < event /\ send'[f][d].clock = SendLimit
                      /\ send'[f][d].pc \in {"spawned", "sending"} =>
                             /\ send'[f][d].clock <= AnswerTime[d]
                             /\ off[d] <= send'[f][d].clock
    BY <1>1 DEF Timing
  <2>1. CASE f = e /\ d = c
    BY <2>1, <1>2, <1>3
  <2>2. CASE f # e \/ d # c
    BY <2>2, <1>3 DEF Timing
  <2> QED
    BY <2>1, <2>2
<1>10. Heard'
  <2> SUFFICES ASSUME NEW d \in Type, NEW i \in DOMAIN inbox'[d]
               PROVE  /\ inbox'[d][i] <= event
                      /\ send'[inbox'[d][i]][d].pc \notin {"none", "spawned", "sending"}
    BY <1>1 DEF Heard
  <2>1. CASE d # c
    <3>1. i \in DOMAIN inbox[d] /\ inbox'[d][i] = inbox[d][i] /\ inbox[d][i] \in EventNumber
      BY <2>1, <1>4 DEF ChannelTypeOK
    <3>2. /\ inbox[d][i] <= event
          /\ send[inbox[d][i]][d].pc \notin {"none", "spawned", "sending"}
      BY <3>1 DEF Heard
    <3> QED
      BY <3>1, <3>2, <2>1, <1>3
  <2>2. CASE d = c /\ i \in DOMAIN inbox[c]
    <3>1. /\ inbox'[d][i] = inbox[d][i] /\ inbox[d][i] \in EventNumber
          /\ inbox[d][i] # e /\ inbox[d][i] <= event
      BY <2>2, <1>5, <1>6
    <3>2. send[inbox[d][i]][d].pc \notin {"none", "spawned", "sending"}
      BY <2>2 DEF Heard
    <3> QED
      BY <3>1, <3>2, <1>3
  <2>3. CASE d = c /\ i \notin DOMAIN inbox[c]
    <3>1. inbox'[d][i] = e
      BY <2>3, <1>6
    <3> QED
      BY <3>1, <2>3, <1>2, <1>3 DEF ChannelTypeOK
  <2> QED
    BY <2>1, <2>2, <2>3
<1>11. OffCounts'
  BY <1>1 DEF OffCounts, On
<1>12. ArriveInOrder'
  <2> SUFFICES ASSUME NEW d \in Type, NEW i \in DOMAIN inbox'[d],
                      NEW j \in DOMAIN inbox'[d], i < j
               PROVE  inbox'[d][i] < inbox'[d][j]
    BY DEF ArriveInOrder
  <2>1. CASE d # c
    BY <2>1, <1>4 DEF ArriveInOrder
  <2>2. CASE d = c /\ j \in DOMAIN inbox[c]
    <3>1. i \in DOMAIN inbox[c]
      BY <2>2, <1>6
    <3> QED
      BY <3>1, <2>2, <1>6 DEF ArriveInOrder
  <2>3. CASE d = c /\ j \notin DOMAIN inbox[c]
    <3>1. j = Len(inbox[c]) + 1 /\ i \in DOMAIN inbox[c]
      BY <2>3, <1>6
    <3> QED
      BY <3>1, <2>3, <1>5, <1>6
  <2> QED
    BY <2>1, <2>2, <2>3
<1> QED
  BY <1>7, <1>8, <1>9, <1>10, <1>11, <1>12

\* Ending sends, one of them or all, and losing those about to be started
\* removes claims the invariant makes.
LEMMA OverInv ==
  ASSUME ChannelInv,
         send' \in [EventNumber -> [Type -> [pc : SendPC, clock : 0..SendLimit]]],
         \A e \in EventNumber, c \in Type :
             \/ send'[e][c] = send[e][c]
             \/ /\ \/ send[e][c].pc \in {"spawned", "sending", "accepted"}
                   \/ e = event /\ loaded' = {}
                /\ send'[e][c].pc \in {"ended", "lost"},
         saving' \in [Request -> Save \union {NoSave}],
         loaded' = {} \/ loaded' = loaded,
         UNCHANGED <<channel, event, gap, inbox, off>>
  PROVE  ChannelInv'
<1> USE DEF ChannelInv
<1>1. ChannelTypeOK'
  BY DEF ChannelTypeOK
<1>2. Fresh'
  <2> SUFFICES ASSUME NEW e \in EventNumber, NEW c \in Type,
                      e > event \/ (e = event /\ loaded' # {})
               PROVE  send'[e][c] = NotSent
    BY DEF Fresh
  <2>1. e \in Nat /\ event \in Nat
    BY ChannelAssumption DEF EventNumber, ChannelTypeOK
  <2>2. send[e][c] = NotSent
    BY DEF Fresh
  <2>3. send[e][c].pc = "none"
    BY <2>2 DEF NotSent
  <2>4. ~(e = event /\ loaded' = {})
    BY <2>1
  <2> QED
    BY <2>2, <2>3, <2>4
<1>3. Timing'
  BY DEF Timing
<1>4. Heard'
  <2>1. \A c \in Type : \A i \in DOMAIN inbox[c] : inbox[c][i] \in EventNumber
    BY DEF ChannelTypeOK
  <2> QED
    BY <2>1 DEF Heard
<1>5. OffCounts' /\ ArriveInOrder'
  BY DEF OffCounts, On, ArriveInOrder
<1> QED
  BY <1>1, <1>2, <1>3, <1>4, <1>5

\* A send that ends.
LEMMA EndSendInv ==
  ASSUME ChannelInv, NEW e \in EventNumber, NEW c \in Type, EndSend(e, c)
  PROVE  ChannelInv'
<1>1. ChannelTypeOK /\ SendLimit \in Nat
  BY SendLimitPositive DEF ChannelInv
<1>2. Over("ended") \in [pc : SendPC, clock : 0..SendLimit] /\ Over("ended").pc = "ended"
  BY <1>1 DEF Over, SendPC
<1>3. /\ send' \in [EventNumber -> [Type -> [pc : SendPC, clock : 0..SendLimit]]]
      /\ \A f \in EventNumber, d \in Type :
             \/ send'[f][d] = send[f][d]
             \/ /\ send[f][d].pc \in {"spawned", "sending", "accepted"}
                /\ send'[f][d].pc \in {"ended", "lost"}
  BY <1>1, <1>2 DEF EndSend, ChannelTypeOK
<1> QED
  BY <1>1, <1>3, OverInv DEF EndSend, ChannelTypeOK

\* An exit loses what was in flight.
LEMMA ExitInv == ChannelInv /\ Exit => ChannelInv'
<1> SUFFICES ASSUME ChannelInv, Exit PROVE ChannelInv'
  OBVIOUS
<1>1. ChannelTypeOK /\ SendLimit \in Nat
  BY SendLimitPositive DEF ChannelInv
<1>2. Over("lost") \in [pc : SendPC, clock : 0..SendLimit] /\ Over("lost").pc = "lost"
  BY <1>1 DEF Over, SendPC
<1>3. /\ send' \in [EventNumber -> [Type -> [pc : SendPC, clock : 0..SendLimit]]]
      /\ \A f \in EventNumber, d \in Type :
             \/ send'[f][d] = send[f][d]
             \/ /\ \/ send[f][d].pc \in {"spawned", "sending", "accepted"}
                   \/ f = event /\ loaded' = {}
                /\ send'[f][d].pc \in {"ended", "lost"}
  BY <1>1, <1>2 DEF Exit, ChannelTypeOK, Cut, Live
<1>4. saving' \in [Request -> Save \union {NoSave}]
  BY DEF Exit
<1> QED
  BY <1>3, <1>4, OverInv DEF Exit

\* Time passes: live sends age with their event and with their channel's time
\* off, and none of them beyond its limit.
LEMMA PassInv == ChannelInv /\ Pass => ChannelInv'
<1> SUFFICES ASSUME ChannelInv, Pass PROVE ChannelInv'
  OBVIOUS
<1> USE SendLimitPositive, ChannelAssumption DEF ChannelInv
<1>1. /\ loaded = {}
      /\ UNCHANGED <<channel, saving, loaded, event, inbox>>
      /\ gap \in Nat /\ gap' \in 0..Gap /\ gap' <= gap + 1
  BY DEF Pass, Longer, ChannelTypeOK
<1>2. ASSUME NEW c \in Type
      PROVE  /\ off[c] \in Nat /\ off'[c] \in 0..(SendLimit + 1) /\ off'[c] \in Nat
             /\ off'[c] <= off[c] + 1
             /\ On(c) => off'[c] = off[c]
  <2>1. off'[c] = IF On(c) THEN off[c] ELSE Longer(off[c], SendLimit + 1)
    BY DEF Pass
  <2>2. off[c] \in 0..(SendLimit + 1)
    BY DEF ChannelTypeOK
  <2>3. CASE On(c)
    BY <2>1, <2>2, <2>3
  <2>4. CASE ~On(c)
    BY <2>1, <2>2, <2>4 DEF Longer
  <2> QED
    BY <2>3, <2>4
<1>3. off' \in [Type -> 0..(SendLimit + 1)]
  <2>1. off' = [c \in Type |-> off'[c]]
    BY DEF Pass
  <2> QED
    BY <2>1, <1>2
<1>4. ASSUME NEW e \in EventNumber, NEW c \in Type
      PROVE  /\ send[e][c].pc # "spawned"
             /\ send[e][c].pc = "sending" =>
                    send[e][c].clock < SendLimit /\ send[e][c].clock # AnswerTime[c]
             /\ send[e][c].pc = "accepted" => send[e][c].clock < SendLimit
             /\ send[e][c].pc \in SendPC /\ send[e][c].clock \in 0..SendLimit
  BY DEF Pass, MayWait, Runs, ChannelTypeOK
<1>5. ASSUME NEW e \in EventNumber, NEW c \in Type
      PROVE  /\ send'[e][c].pc = send[e][c].pc
             /\ send[e][c].pc \in {"sending", "accepted"} =>
                    send'[e][c].clock = send[e][c].clock + 1
             /\ send[e][c].pc \notin {"sending", "accepted"} =>
                    send'[e][c] = send[e][c]
             /\ send'[e][c] \in [pc : SendPC, clock : 0..SendLimit]
  <2>1. send[e][c] \in [pc : SendPC, clock : 0..SendLimit]
    BY DEF ChannelTypeOK
  <2>2. send'[e][c] = IF send[e][c].pc \in {"sending", "accepted"}
                      THEN [send[e][c] EXCEPT !.clock = @ + 1] ELSE send[e][c]
    BY DEF Pass
  <2> QED
    BY <2>1, <2>2, <1>4
<1>6. ChannelTypeOK'
  <2>1. send' \in [EventNumber -> [Type -> [pc : SendPC, clock : 0..SendLimit]]]
    BY <1>5 DEF Pass
  <2> QED
    BY <2>1, <1>1, <1>3 DEF ChannelTypeOK
<1>7. Fresh'
  BY <1>1, <1>5 DEF Fresh, NotSent
<1>8. Timing'
  <2> SUFFICES ASSUME NEW e \in EventNumber, NEW c \in Type
               PROVE  /\ send'[e][c].pc = "spawned" =>
                             e = event /\ send'[e][c].clock = 0 /\ gap' = 0
                      /\ send'[e][c].pc \in {"sending", "accepted"} =>
                             \/ e = event /\ gap' <= send'[e][c].clock
                             \/ e < event /\ send'[e][c].clock = SendLimit
                      /\ send'[e][c].pc \in {"spawned", "sending"} =>
                             /\ send'[e][c].clock <= AnswerTime[c]
                             /\ off'[c] <= send'[e][c].clock
    BY <1>1 DEF Timing
  <2>1. CASE send[e][c].pc \in {"sending", "accepted"}
    <3>1. /\ send[e][c].clock < SendLimit /\ send[e][c].clock \in Nat
          /\ send'[e][c].clock = send[e][c].clock + 1
          /\ send'[e][c].pc = send[e][c].pc
      BY <2>1, <1>4, <1>5
    <3>2. e = event /\ gap <= send[e][c].clock
      BY <2>1, <3>1 DEF Timing
    <3>3. ASSUME send[e][c].pc = "sending"
          PROVE  /\ send'[e][c].clock <= AnswerTime[c]
                 /\ off'[c] <= send'[e][c].clock
      <4>1. /\ send[e][c].clock <= AnswerTime[c] /\ off[c] <= send[e][c].clock
            /\ send[e][c].clock # AnswerTime[c] /\ AnswerTime[c] \in Nat
        BY <3>3, <1>4 DEF Timing
      <4>2. off[c] \in Nat /\ off'[c] \in Nat /\ off'[c] <= off[c] + 1
        BY <1>2
      <4> QED
        BY <4>1, <4>2, <3>1
    <3> QED
      BY <2>1, <3>1, <3>2, <3>3, <1>1
  <2>2. CASE send[e][c].pc \notin {"sending", "accepted"}
    BY <2>2, <1>4, <1>5
  <2> QED
    BY <2>1, <2>2
<1>9. Heard'
  <2>1. \A c \in Type : \A i \in DOMAIN inbox[c] : inbox[c][i] \in EventNumber
    BY DEF ChannelTypeOK
  <2> QED
    BY <2>1, <1>1, <1>5 DEF Heard
<1>10. OffCounts'
  BY <1>1, <1>2 DEF OffCounts, On
<1>11. ArriveInOrder'
  BY <1>1 DEF ArriveInOrder
<1> QED
  BY <1>6, <1>7, <1>8, <1>9, <1>10, <1>11

-----------------------------------------------------------------------------
(* The theorems.                                                           *)

\* The invariant is inductive.
THEOREM ChannelInvariant == EventsApart /\ ChannelSpec => []ChannelInv
<1> SUFFICES ASSUME EventsApart PROVE ChannelSpec => []ChannelInv
  BY DEF EventsApart
<1>1. ASSUME ChannelInv, ChannelNext PROVE ChannelInv'
  BY <1>1, RequestInv, LoadInv, DispatchInv, BeginSendInv, AcceptInv, EndSendInv,
     ExitInv, PassInv DEF ChannelNext, SendStep
<1>2. ASSUME ChannelInv, UNCHANGED channelVars PROVE ChannelInv'
  BY <1>2 DEF channelVars, ChannelInv, ChannelTypeOK, Fresh, Timing, Heard, OffCounts,
              On, ArriveInOrder
<1> QED
  BY <1>1, <1>2, ChannelInitInv, PTL DEF ChannelSpec

\* Type correctness.
THEOREM ChannelTypes == EventsApart /\ ChannelSpec => []ChannelTypeOK
<1>1. ChannelInv => ChannelTypeOK
  BY DEF ChannelInv
<1> QED
  BY <1>1, ChannelInvariant, PTL

\* However the goroutines of two events race, a receiver gets the events in
\* order and once.
THEOREM InOrder == EventsApart /\ ChannelSpec => []ArriveInOrder
<1>1. ChannelInv => ArriveInOrder
  BY DEF ChannelInv
<1> QED
  BY <1>1, ChannelInvariant, PTL

\* A channel that is off falls silent within the limit of a send.
THEOREM SilentWhenOff == EventsApart /\ ChannelSpec => []QuietWhenOff
<1>1. ChannelInv => QuietWhenOff
  <2> SUFFICES ASSUME ChannelInv, NEW c \in Type, off[c] > SendLimit
               PROVE  /\ \A e \in EventNumber : send[e][c].pc \notin {"spawned", "sending"}
                      /\ \A l \in loaded : l[1] # c
    BY DEF QuietWhenOff
  <2>1. off[c] \in Nat
    BY DEF ChannelInv, ChannelTypeOK
  <2>2. \A e \in EventNumber : send[e][c].clock \in 0..SendLimit
    BY DEF ChannelInv, ChannelTypeOK
  <2>3. \A e \in EventNumber : send[e][c].pc \notin {"spawned", "sending"}
    BY <2>1, <2>2, SendLimitPositive DEF ChannelInv, Timing
  <2>4. \A l \in loaded : off[l[1]] = 0
    BY DEF ChannelInv, OffCounts
  <2> QED
    BY <2>1, <2>3, <2>4, SendLimitPositive
<1> QED
  BY <1>1, ChannelInvariant, PTL

\* No channel is held up by another.
THEOREM Independent == EventsApart /\ ChannelSpec => []NotDelayed
<1>1. ChannelInv => NotDelayed
  <2> SUFFICES ASSUME ChannelInv, NEW e \in 1..event, NEW c \in Type,
                      AnswerTime[c] < SendLimit, e < event \/ gap > AnswerTime[c],
                      send[e][c].pc \in {"spawned", "sending"}
               PROVE  FALSE
    BY DEF NotDelayed
  <2>0. event \in 0..MaxEvents /\ gap \in Nat
    BY ChannelAssumption DEF ChannelInv, ChannelTypeOK
  <2>1. /\ e \in EventNumber /\ gap \in Nat /\ event \in Nat
        /\ send[e][c].clock \in 0..SendLimit
    <3>1. e \in EventNumber
      BY <2>0, ChannelAssumption DEF EventNumber
    <3> QED
      BY <2>0, <3>1, ChannelAssumption DEF ChannelInv, ChannelTypeOK
  <2>2. send[e][c].clock <= AnswerTime[c] /\ AnswerTime[c] \in Nat
    BY <2>1, ChannelAssumption DEF ChannelInv, Timing
  <2>3. CASE send[e][c].pc = "spawned"
    BY <2>1, <2>2, <2>3 DEF ChannelInv, Timing
  <2>4. CASE send[e][c].pc = "sending"
    BY <2>1, <2>2, <2>4, SendLimitPositive DEF ChannelInv, Timing
  <2> QED
    BY <2>3, <2>4
<1> QED
  BY <1>1, ChannelInvariant, PTL

-----------------------------------------------------------------------------
(* The dispatcher implements a mailbox per channel.  Only the sends of the  *)
(* last event may still be accepted, so its number says what a box holds.   *)

\* A request switches channels.
LEMMA RequestSwitches ==
  ASSUME UNCHANGED <<loaded, event, send, inbox>>
  PROVE  Mail!Next
<1>1. Box' = Box
  BY DEF Box, UnderWay
<1>2. Mail!Switch
  BY <1>1 DEF Mail!Switch
<1> QED
  BY <1>2 DEF Mail!Next

\* No request touches what is under way.
LEMMA RequestKeepsSends ==
  ChannelRequest => UNCHANGED <<loaded, event, send, inbox>>
  BY DEF ChannelRequest, UpsertUpdate, UpsertInsert, DeleteChannel, SetEnabled, SetRow

\* A step after which less is under way, and nothing more was accepted, loses
\* the difference.
LEMMA LessUnderWay ==
  ASSUME UNCHANGED <<channel, event, inbox>>,
         \A c \in Type : event > 0 /\ UnderWay(c)' => UnderWay(c)
  PROVE  Mail!Next
<1> DEFINE S == {c \in Type : ~UnderWay(c)'}
<1>1. Box' = [c \in Type |-> IF c \in S THEN 0 ELSE Box[c]]
  BY DEF Box
<1>2. {c \in Type : On(c)}' = {c \in Type : On(c)}
  BY DEF On
<1>3. Mail!Lose(S)
  BY <1>1, <1>2 DEF Mail!Lose
<1>4. S \in SUBSET Type
  OBVIOUS
<1> QED
  BY <1>3, <1>4 DEF Mail!Next

\* Loading the channels posts the event, to channels that are on, when every
\* send of the event before has been accepted, has ended or is out of time.
LEMMA LoadPosts ==
  ASSUME EventsApart, ChannelInv, NEW ok \in BOOLEAN, LoadChannels(ok)
  PROVE  Mail!Next
<1> USE SendLimitPositive, ChannelAssumption
<1> DEFINE S == {c \in Type : <<c, TRUE>> \in loaded'}
<1>1. /\ event \in Nat /\ event < MaxEvents /\ event' = event + 1
      /\ gap = Gap /\ gap >= SendLimit /\ loaded = {}
      /\ UNCHANGED <<channel, send, inbox>>
  BY DEF LoadChannels, EventsApart, ChannelInv, ChannelTypeOK
<1>2. ASSUME NEW c \in Type, event > 0 PROVE ~UnderWay(c)
  <2>1. event \in EventNumber
    BY <1>1, <1>2 DEF EventNumber
  <2>2. send[event][c].clock \in 0..SendLimit
    BY <2>1 DEF ChannelInv, ChannelTypeOK
  <2>3. send[event][c].pc # "spawned"
    BY <2>1, <1>1 DEF ChannelInv, Timing
  <2>4. send[event][c].pc = "sending" => gap <= send[event][c].clock
    BY <2>1, <1>1 DEF ChannelInv, Timing
  <2> QED
    BY <1>1, <2>2, <2>3, <2>4 DEF UnderWay
<1>3. \A c \in Type : Box[c] = 0
  BY <1>2 DEF Box
<1>4. ASSUME NEW c \in Type PROVE UnderWay(c)' <=> c \in S
  <2>1. event' \in EventNumber /\ event' > event
    BY <1>1 DEF EventNumber
  <2>2. send[event'][c] = NotSent
    BY <2>1 DEF ChannelInv, Fresh
  <2> QED
    BY <2>2, <1>1 DEF UnderWay, NotSent
<1>6. S \subseteq {c \in Type : On(c)}
  BY DEF LoadChannels, EnabledRows
<1>7. {c \in Type : On(c)}' = {c \in Type : On(c)}
  BY <1>1 DEF On
<1> HIDE DEF S
<1>5. Box' = [c \in Type |-> IF c \in S THEN event + 1 ELSE 0]
  <2>1. Box' = [c \in Type |-> IF event' > 0 /\ UnderWay(c)' THEN event' ELSE 0]
    BY DEF Box
  <2>2. event' > 0 /\ event' = event + 1
    BY <1>1
  <2> QED
    BY <2>1, <2>2, <1>4
<1>8. Mail!Post(S)
  BY <1>1, <1>3, <1>5, <1>6, <1>7 DEF Mail!Post
<1>9. S \in SUBSET Type
  BY <1>6
<1> QED
  BY <1>8, <1>9 DEF Mail!Next

\* A receiver accepts what its mailbox holds.
LEMMA AcceptTakes ==
  ASSUME ChannelInv, NEW e \in EventNumber, NEW c \in Type, Accept(e, c)
  PROVE  Mail!Next
<1> USE SendLimitPositive, ChannelAssumption
<1>t. ChannelTypeOK
  BY DEF ChannelInv
<1>1. /\ send[e][c].pc = "sending" /\ send[e][c].clock < SendLimit
      /\ send[e][c] # NotSent
      /\ inbox' = [inbox EXCEPT ![c] = Append(@, e)]
      /\ UNCHANGED <<channel, loaded, event>>
  BY DEF Accept, NotSent
<1>2. e = event /\ event > 0
  BY <1>1, <1>t DEF ChannelInv, Timing, ChannelTypeOK, EventNumber
<1>3. loaded = {}
  BY <1>1, <1>2 DEF ChannelInv, Fresh
<1>4. /\ send'[e][c].pc = "accepted"
      /\ \A d \in Type : d # c => send'[e][d] = send[e][d]
  <2>1. "accepted" \in SendPC /\ SetPC(e, c, "accepted")
    BY DEF Accept, SendPC
  <2> QED
    BY <2>1, <1>t, SetPCEffect
<1>5. UnderWay(c) /\ ~UnderWay(c)'
  BY <1>1, <1>2, <1>3, <1>4 DEF UnderWay
<1>6. \A d \in Type : d # c => (UnderWay(d)' <=> UnderWay(d))
  BY <1>1, <1>2, <1>4 DEF UnderWay
<1>7. Box[c] = event /\ Box' = [Box EXCEPT ![c] = 0]
  BY <1>1, <1>2, <1>5, <1>6 DEF Box
<1>8. {c_1 \in Type : On(c_1)}' = {c_1 \in Type : On(c_1)}
  BY <1>1 DEF On
<1>9. Mail!Take(c)
  BY <1>1, <1>2, <1>7, <1>8 DEF Mail!Take
<1> QED
  BY <1>9 DEF Mail!Next

\* Dispatching turns the loaded rows into goroutines of the same event.
LEMMA DispatchKeeps == ChannelInv /\ Dispatch => Mail!Next
<1> SUFFICES ASSUME ChannelInv, Dispatch PROVE Mail!Next
  OBVIOUS
<1>1. /\ event \in EventNumber /\ loaded # {} /\ loaded' = {}
      /\ UNCHANGED <<channel, event, inbox>>
  BY ChannelAssumption DEF Dispatch, ChannelInv, ChannelTypeOK, EventNumber
<1>2. send \in [EventNumber -> [Type -> [pc : SendPC, clock : 0..SendLimit]]]
  BY DEF ChannelInv, ChannelTypeOK
<1>3. ASSUME NEW c \in Type, UnderWay(c)' PROVE UnderWay(c)
  <2>1. send[event][c] = NotSent
    BY <1>1 DEF ChannelInv, Fresh
  <2>2. send'[event][c] = IF c \in Built THEN [pc |-> "spawned", clock |-> 0] ELSE NotSent
    BY <1>1, <1>2, <2>1 DEF Dispatch
  <2>3. c \in Built
    BY <1>1, <1>3, <2>2 DEF UnderWay, NotSent
  <2>4. PICK l \in loaded : l[1] = c /\ l[2]
    BY <2>3 DEF Built
  <2>5. l \in Type \X BOOLEAN
    BY DEF ChannelInv, ChannelTypeOK
  <2>6. l = <<c, TRUE>>
    <3>1. PICK d \in Type, b \in BOOLEAN : l = <<d, b>>
      BY <2>5
    <3>2. d = c /\ b = TRUE
      BY <2>4, <3>1
    <3> QED
      BY <3>1, <3>2
  <2> QED
    BY <2>6 DEF UnderWay
<1> QED
  BY <1>1, <1>3, LessUnderWay

\* A goroutine that starts to send keeps its event under way.
LEMMA BeginSendKeeps ==
  ASSUME ChannelInv, NEW e \in EventNumber, NEW c \in Type, BeginSend(e, c)
  PROVE  Mail!Next
<1>1. /\ send[e][c].pc = "spawned" /\ e = event
      /\ UNCHANGED <<channel, loaded, event, inbox>>
  BY DEF BeginSend, ChannelInv, Timing
<1>2. \A d \in Type : d # c => send'[e][d] = send[e][d]
  <2>1. "sending" \in SendPC /\ SetPC(e, c, "sending")
    BY DEF BeginSend, SendPC
  <2> QED
    BY <2>1, SetPCEffect DEF ChannelInv
<1>3. \A d \in Type : UnderWay(d)' => UnderWay(d)
  BY <1>1, <1>2 DEF UnderWay
<1> QED
  BY <1>1, <1>3, LessUnderWay

\* Whatever ends sends takes nothing under way anew.
LEMMA EndsLose ==
  ASSUME UNCHANGED <<channel, event, inbox>>, loaded' \subseteq loaded,
         event \in 0..MaxEvents,
         \A e \in EventNumber, c \in Type :
             send'[e][c] = send[e][c] \/ send'[e][c].pc \in {"ended", "lost"}
  PROVE  Mail!Next
<1>1. ASSUME NEW c \in Type, event > 0, UnderWay(c)' PROVE UnderWay(c)
  <2>1. event \in EventNumber
    BY <1>1, ChannelAssumption DEF EventNumber
  <2>2. CASE <<c, TRUE>> \in loaded'
    BY <2>2 DEF UnderWay
  <2>3. CASE <<c, TRUE>> \notin loaded'
    <3>1. send'[event][c].pc \notin {"ended", "lost"}
      BY <1>1, <2>3 DEF UnderWay
    <3>2. send'[event][c] = send[event][c]
      BY <2>1, <3>1
    <3> QED
      BY <1>1, <2>3, <3>2 DEF UnderWay
  <2> QED
    BY <2>2, <2>3
<1> QED
  BY <1>1, LessUnderWay

\* A send that ends, and an exit of the process.
LEMMA EndSendLoses ==
  ASSUME ChannelInv, NEW e \in EventNumber, NEW c \in Type, EndSend(e, c)
  PROVE  Mail!Next
<1>1. \A f \in EventNumber, d \in Type :
          send'[f][d] = send[f][d] \/ send'[f][d].pc \in {"ended", "lost"}
  BY DEF EndSend, Over, ChannelInv, ChannelTypeOK
<1> QED
  BY <1>1, EndsLose DEF EndSend, ChannelInv, ChannelTypeOK

LEMMA ExitLoses == ChannelInv /\ Exit => Mail!Next
<1> SUFFICES ASSUME ChannelInv, Exit PROVE Mail!Next
  OBVIOUS
<1>1. \A f \in EventNumber, d \in Type :
          send'[f][d] = send[f][d] \/ send'[f][d].pc \in {"ended", "lost"}
  BY DEF Exit, Over
<1> QED
  BY <1>1, EndsLose DEF Exit, ChannelInv, ChannelTypeOK

\* The sends that run out of time as it passes are lost.
LEMMA PassLoses == ChannelInv /\ Pass => Mail!Next
<1> SUFFICES ASSUME ChannelInv, Pass PROVE Mail!Next
  OBVIOUS
<1> USE SendLimitPositive, ChannelAssumption
<1>1. UNCHANGED <<channel, loaded, event, inbox>>
  BY DEF Pass
<1>2. ASSUME NEW c \in Type, event > 0, UnderWay(c)' PROVE UnderWay(c)
  <2>1. event \in EventNumber
    BY <1>2 DEF EventNumber, ChannelInv, ChannelTypeOK
  <2>2. /\ send[event][c].clock \in 0..SendLimit
        /\ send[event][c] \in [pc : SendPC, clock : 0..SendLimit]
    BY <2>1 DEF ChannelInv, ChannelTypeOK
  <2>3. send'[event][c] = IF send[event][c].pc \in {"sending", "accepted"}
                          THEN [send[event][c] EXCEPT !.clock = @ + 1]
                          ELSE send[event][c]
    BY <2>1 DEF Pass
  <2> QED
    BY <1>1, <1>2, <2>2, <2>3 DEF UnderWay
<1> QED
  BY <1>1, <1>2, LessUnderWay

\* For every number of channels, events and requests, what receivers see of
\* the dispatcher is a mailbox per channel (dispatcher.go:28-62).
THEOREM ImplementsMailbox == EventsApart /\ ChannelSpec => MailboxPerChannel
<1> SUFFICES ASSUME EventsApart PROVE ChannelSpec => MailboxPerChannel
  BY DEF EventsApart
<1>1. ChannelInit => Mail!Init
  BY DEF ChannelInit, Mail!Init, Box, On, NoRow
<1>2. ASSUME ChannelInv, ChannelNext PROVE Mail!Next
  BY <1>2, RequestKeepsSends, RequestSwitches, LoadPosts, DispatchKeeps, BeginSendKeeps,
     AcceptTakes, EndSendLoses, ExitLoses, PassLoses DEF ChannelNext, SendStep
<1>3. ASSUME ChannelInv, UNCHANGED channelVars PROVE Mail!Next
  BY <1>3, RequestSwitches DEF channelVars
<1>4. ChannelInv /\ [ChannelNext]_channelVars => [Mail!Next]_(Mail!mailVars)
  BY <1>2, <1>3
<1> QED
  BY <1>1, <1>4, ChannelInvariant, PTL DEF ChannelSpec, MailboxPerChannel, Mail!Spec
=============================================================================
